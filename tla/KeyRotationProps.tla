---------------------------- MODULE KeyRotationProps ----------------------------
(***************************************************************************)
(* What key rotation must guarantee, whatever tabs, sessions and ordinary  *)
(* devices do in between.                                                  *)
(***************************************************************************)
EXTENDS KeyRotation

\* Every live ciphertext opens: vault payloads and vault attachments under the
\* profile's key, Seal contents under the note key their own wrapper holds, and
\* every attachment's object is really in storage.  This is what commit() may
\* break if a replacement of another operation, tab or note key slips in, and
\* what an ordinary writer holding the old key may break after it.
VaultOpens ==
  /\ \A i \in Notes \cup Wrappers : vault[i] # Null => vault[i].under = profile.key
  /\ \A i \in Bodies : vault[i] # Null =>
       vault[WrapperOf[i]] # Null /\ vault[i].under = vault[WrapperOf[i]].text
  /\ \A f \in Files : vault[f] # Null =>
       /\ store[vault[f].object] \in Cipher
       /\ store[vault[f].object].under = IF vault[f].scope = "seal" THEN vault[WrapperOf[f]].text ELSE profile.key

\* While an operation is active the vault, its profile and its generation are
\* exactly what begin() captured: commit() recaptures them only to find no
\* difference, so SOURCE_CHANGED is unreachable and staging is never wasted.
\* And the freeze has an owner: no operation that is over keeps the vault frozen.
Frozen ==
  /\ activeRotation # None => op[activeRotation].phase \in Live
  /\ \A o \in Ops : op[o].phase \in Live =>
       /\ activeRotation = o
       /\ source = vault /\ op[o].profile = profile /\ op[o].sourceGeneration = generation

\* The vault key in use can always be recovered: only a committed operation whose
\* recovery file was confirmed supplies it, and "ready" promises that to the user
\* beforehand, together with every item staged and read back.
KeyIsRecoverable ==
  /\ profile.key # Genesis => op[profile.key].recovery /\ op[profile.key].phase \in {"committed", "cleaned"}
  /\ \A o \in Ops : op[o].phase = "ready" => op[o].recovery /\ Complete(repl, verified)

\* The generation names the key: a device whose generation is still accepted
\* holds the vault key and the note keys in use, so withVaultWrite's generation
\* check is enough to keep old ciphertext out.
AcceptedDevicesHoldTheKey ==
  \A c \in Clients : seen[c] # None /\ seen[c].generation = generation =>
    /\ seen[c].key = profile.key
    /\ \A s \in Wrappers : vault[s] # Null => seen[c].nek[s] = vault[s].text

\* Staged Seal contents use the note key of the wrapper that was accepted, even
\* when two tabs generated competing note keys for the same Seal.
StagedSealsAgree ==
  /\ \A i \in Bodies : repl[i] \in Cipher => WrapperStaged(i) /\ repl[i].under = repl[WrapperOf[i]].text
  /\ \A f \in SealFiles : repl[f] # None => WrapperStaged(f) /\ repl[f].body.under = repl[WrapperOf[f]].text

\* Cleanup never takes an object somebody still needs: neither the object an
\* attachment points at nor the accepted replacement of the active operation.
NeededObjectsAreKept ==
  /\ \A f \in Files : vault[f] # Null => queued[vault[f].object] = None
  /\ \A f \in Files : repl[f] # None => store[repl[f].object] = repl[f].body /\ queued[repl[f].object] = None

Plain(i) == IF vault[i] = Null THEN Null
            ELSE IF i \in Files THEN store[vault[i].object].text ELSE vault[i].text
Activates == generation' # generation

\* Activation changes keys and nothing else: what every item says is unchanged,
\* and a tombstone stays one.
ActivationKeepsPlaintext ==
  [][Activates => \A i \in Items \ Wrappers : Plain(i)' = Plain(i)]_vars

AtomicStep ==
  /\ activeRotation # None => (vault' # vault \/ profile' # profile => Activates)
  /\ Activates => /\ generation' = generation + 1 /\ profile'.key = activeRotation
                  /\ activeRotation # None /\ activeRotation' = None

\* Between activations a frozen vault does not change at all, and everything an
\* activation changes - payloads, profile, generation, freeze - changes in it.
ChangesAreAtomic == [][AtomicStep]_vars

\* A request whose token is the one in force, from the session that meets the
\* prerequisite.
Holds(w) ==
  /\ req[w] # None /\ req[w].op = activeRotation /\ req[w].fence = op[activeRotation].fence
  /\ op[activeRotation].owner = SidOf[w] /\ soleSid = SidOf[w]
  /\ ~op[activeRotation].paused /\ ~op[activeRotation].lapsed

WorkersStep ==
  activeRotation # None /\ (Activates \/ (activeRotation' = activeRotation /\ <<repl, verified, grant>>' # <<repl, verified, grant>>))
    => \E w \in Workers : Holds(w)

\* Only the current worker makes progress: a staging row changes under a running
\* operation, or the operation is activated, only by such a request.
OnlyTheWorkerWrites == [][WorkersStep]_vars

AcceptedStep ==
  activeRotation # None /\ activeRotation' = activeRotation =>
    \A i \in Items : repl[i] # None => repl'[i] = repl[i]

\* An accepted replacement is never replaced or withdrawn while its operation
\* runs, so what a tab verified is what commit() activates.
AcceptedStands == [][AcceptedStep]_vars

-----------------------------------------------------------------------------
(* Refinement: the rows, tokens, staging and storage above implement a     *)
(* vault that is rekeyed in one step (VaultRekey).                          *)

\* What a device that unlocked the vault with the profile's key reads.
Unreadable == None
Reading(i) ==
  IF vault[i] = Null THEN Null
  ELSE LET nek == vault[WrapperOf[i]].text
           c   == IF i \in Files THEN store[vault[i].object] ELSE vault[i]
           sealed == i \in Bodies \/ (i \in SealFiles /\ vault[i].scope = "seal")
       IN IF c \in Cipher /\ c.under = (IF sealed THEN nek ELSE profile.key)
          THEN c.text ELSE Unreadable

Contract == INSTANCE VaultRekey WITH
  Items    <- Items \ Wrappers,
  Readings <- Texts \cup {Null},
  Keys     <- VaultKeys,
  key      <- profile.key,
  reading  <- [i \in Items \ Wrappers |-> Reading(i)],
  frozen   <- activeRotation # None

\* Every behaviour of the service is one of the contract: in particular every
\* item stays readable, edits happen only while nothing is frozen, and an
\* activation changes the key of the whole vault in one step.
ImplementsContract == Contract!Spec

-----------------------------------------------------------------------------
(* Liveness.  The sweep runs on a schedule; time passes.                   *)

Touches == \E w \in Workers : Claim(w) \/ ConfirmRecovery(w) \/ (\E b \in BOOLEAN : Pause(w, b)) \/ Stage(w) \/ Verify(w)
             \/ Reserve(w) \/ FinalizeStage(w)
FairSpec == Spec /\ WF_vars(Expire) /\ \A o \in Ops : WF_vars(Lapse(o))

\* An abandoned rotation cannot freeze the account for ever.
AbandonedRotationThaws ==
  (<>[][~Touches]_vars) => [](activeRotation # None => <>(activeRotation = None))

=============================================================================
