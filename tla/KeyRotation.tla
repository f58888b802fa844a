------------------------------ MODULE KeyRotation ------------------------------
(***************************************************************************)
(* The server side of vault key rotation for ONE account                   *)
(* (src/server/rotation/service.ts), together with everything that shares  *)
(* the account lock with it: ordinary vault writers and readers,           *)
(* maintenance, and the browser tabs that run the rotation engine.         *)
(*                                                                         *)
(* Every withAccountLock callback is one action, because the row lock on   *)
(* encryption_states serialises them.  What happens between two locked     *)
(* sections - a request in flight, an upload to object storage, the        *)
(* storage checks of finalizeFile and commit - is a separate action.       *)
(*                                                                         *)
(* A ciphertext is [under |-> key, text |-> plaintext, iv |-> nonce]: the  *)
(* properties tell ciphertexts apart by the key that opens them, by what   *)
(* they say and, for two encryptions of the same text, by their nonce.     *)
(* A digest of a value is modelled by the value itself.                    *)
(***************************************************************************)
EXTENDS Naturals, FiniteSets

CONSTANTS
  Ops,        \* rotation operation ids (client-chosen UUIDs, never reused)
  Notes,      \* Secrets, Secret versions and authenticator records
  Wrappers,   \* the note key of each Seal, wrapped under the vault key
  Bodies,     \* Seal bodies and Seal versions, encrypted under the note key
  Files,      \* encrypted attachments
  SealFiles,  \* the attachments that belong to a Seal
  WrapperOf,  \* the Seal wrapper of each body and Seal attachment
  Sids,       \* session ids
  Workers,    \* browser tabs running the rotation engine
  SidOf,      \* the session each tab is signed in with
  Clients,    \* devices that read and edit the vault in the ordinary way
  Texts,      \* plaintexts
  IVs,        \* nonces
  Objects,    \* object-storage keys
  FirstObject,\* the object each attachment points at initially
  Genesis,    \* the vault key the account starts with
  MaxFence,   \* bound: claims of one operation
  MaxRev,     \* bound: passphrase re-wraps of one vault key
  Null,       \* a payload that is null (tombstone, never-written Seal)
  Junk,       \* object bytes of the right length and the wrong content
  None        \* absent

Items     == Notes \cup Wrappers \cup Bodies \cup Files
SealItems == Bodies \cup SealFiles
VaultKeys == Ops \cup {Genesis}
NoteKeys  == VaultKeys \X IVs
Keys      == VaultKeys \cup NoteKeys
SealedText == [under : Keys, text : Texts, iv : IVs]
SealedKey  == [under : VaultKeys, text : NoteKeys, iv : IVs]
Cipher    == SealedText \cup SealedKey
Pointer   == [object : Objects, scope : {"vault", "seal"}]
Grant     == [object : Objects, body : SealedText]

ASSUME PartsAssumption ==
  /\ SealFiles \subseteq Files
  /\ WrapperOf \in [SealItems -> Wrappers]
  /\ SidOf \in [Workers -> Sids]
  /\ FirstObject \in [Files -> Objects]
  /\ \A f, g \in Files : FirstObject[f] = FirstObject[g] => f = g
  /\ Notes \cap (Wrappers \cup Bodies \cup Files) = {}
  /\ Wrappers \cap (Bodies \cup Files) = {}
  /\ Bodies \cap Files = {}

ASSUME TokensAssumption ==
  /\ None \notin Ops \cup Sids \cup Objects \cup Cipher \cup Pointer \cup Grant \cup NoteKeys
  /\ Null \notin Cipher \cup Pointer \cup Grant
  /\ Junk \notin Cipher
  /\ Null # None /\ Junk # None
  /\ Genesis \notin Ops

ASSUME BoundsAssumption == MaxFence \in Nat \ {0} /\ MaxRev \in Nat

VARIABLES
  generation,     \* encryption_states.generation
  activeRotation, \* encryption_states.active_rotation_id
  soleSid,        \* the session that satisfies sessions(), if any
  profile,        \* encryption_profiles: the vault key and its re-wrap count
  vault,          \* the payload or file pointer of every item
  op,             \* encryption_rotations rows
  source,         \* rotation_items.source of the active operation
  repl,           \* rotation_items.replacement (None: not staged)
  verified,       \* rotation_items.verified_digest
  grant,          \* rotation_items.file_grant
  queued,         \* rotation_cleanup: the operation a pending key belongs to
  store,          \* object storage
  used,           \* object keys ever allocated
  req,            \* the request each tab has in flight
  seen            \* what each ordinary device has unlocked

fenceVars == <<generation, activeRotation>>
itemVars  == <<source, repl, verified, grant>>
fileVars  == <<queued, store, used>>
vars == <<generation, activeRotation, soleSid, profile, vault, op, source, repl,
          verified, grant, queued, store, used, req, seen>>

Live     == {"migrating", "ready"}
Terminal == {"committed", "cleaned", "aborted"}

OpRecord ==
  [phase : {"none"} \cup Live \cup Terminal,
   paused : BOOLEAN, owner : Sids \cup {None}, fence : 0..MaxFence,
   sourceGeneration : Nat, profile : [key : VaultKeys, rev : 0..MaxRev],
   recovery : BOOLEAN, lapsed : BOOLEAN]

Payload(i)     == IF i \in Files THEN Pointer ELSE IF i \in Wrappers THEN SealedKey ELSE SealedText
Replacement(i) == IF i \in Files THEN Grant ELSE Payload(i) \cup {Null}

Request ==
  [kind : {"stage", "verify", "reserve", "put", "finalize", "inspected", "retire", "commit", "activate"},
   op : Ops, fence : 0..MaxFence, item : Items \cup {None},
   value : Cipher \cup Grant \cup {Null},
   files : SUBSET [file : Files, from : Objects, to : Grant \cup {None}]]

\* What the body of a request of each kind may hold.
WellFormed(r) ==
  /\ r.kind \in {"stage", "verify", "reserve", "put", "finalize", "inspected", "retire"} => r.item \in Items
  /\ r.kind \in {"stage", "verify"} => r.value \in Replacement(r.item)
  /\ r.kind = "reserve" => r.item \in Files /\ r.value \in SealedText
  /\ r.kind \in {"put", "finalize", "inspected", "retire"} => r.item \in Files /\ r.value \in Grant

Opened == [generation : Nat, key : VaultKeys, nek : [Wrappers -> NoteKeys \cup {None}]]

TypeOK ==
  /\ generation \in Nat
  /\ activeRotation \in Ops \cup {None}
  /\ soleSid \in Sids \cup {None}
  /\ profile \in [key : VaultKeys, rev : 0..MaxRev]
  /\ DOMAIN vault = Items /\ \A i \in Items : vault[i] \in Payload(i) \cup {Null}
  /\ op \in [Ops -> OpRecord]
  /\ DOMAIN source = Items /\ \A i \in Items : source[i] \in Payload(i) \cup {Null, None}
  /\ DOMAIN repl = Items /\ \A i \in Items : repl[i] \in Replacement(i) \cup {None}
  /\ DOMAIN verified = Items /\ \A i \in Items : verified[i] \in Replacement(i) \cup {None}
  /\ grant \in [Items -> Grant \cup {None}]
  /\ queued \in [Objects -> Ops \cup {None}]
  /\ store \in [Objects -> SealedText \cup {Junk, None}]
  /\ used \subseteq Objects
  /\ req \in [Workers -> Request \cup {None}]
  /\ \A w \in Workers : req[w] # None => WellFormed(req[w])
  /\ seen \in [Clients -> Opened \cup {None}]

NoItems == [i \in Items |-> None]

\* What item i holds when it says t, sealed with nonce n under the first key.
FirstPayload(i, t, n) ==
  IF i \in Files THEN [object |-> FirstObject[i], scope |-> "vault"]
  ELSE IF i \in Wrappers THEN [under |-> Genesis, text |-> <<Genesis, n>>, iv |-> n]
  ELSE [under |-> IF i \in Bodies THEN <<Genesis, n>> ELSE Genesis, text |-> t, iv |-> n]

NeverStarted == [phase |-> "none", paused |-> FALSE, owner |-> None, fence |-> 0,
                 sourceGeneration |-> 0, profile |-> [key |-> Genesis, rev |-> 0],
                 recovery |-> FALSE, lapsed |-> FALSE]

\* Seals in "empty" were never written: they have no note key and therefore no
\* body and no attachment.
Hollow(i, empty) == i \in empty \/ (i \in SealItems /\ WrapperOf[i] \in empty)

\* A vault that opens under the first key.
Init ==
  /\ generation = 0 /\ activeRotation = None /\ soleSid = None
  /\ profile = [key |-> Genesis, rev |-> 0]
  /\ \E t \in Texts, n \in IVs, empty \in SUBSET Wrappers :
       /\ vault = [i \in Items |-> IF Hollow(i, empty) THEN Null ELSE FirstPayload(i, t, n)]
       /\ store = [k \in Objects |->
                     IF \E f \in Files : FirstObject[f] = k /\ ~Hollow(f, empty)
                     THEN [under |-> Genesis, text |-> t, iv |-> n] ELSE None]
  /\ used = {FirstObject[f] : f \in Files}
  /\ op = [o \in Ops |-> NeverStarted]
  /\ source = NoItems /\ repl = NoItems /\ verified = NoItems /\ grant = NoItems
  /\ queued = [k \in Objects |-> None]
  /\ req = [w \in Workers |-> None]
  /\ seen = [c \in Clients |-> None]

-----------------------------------------------------------------------------
(* Guards shared by the handlers.                                          *)

InInventory(i) == source[i] # None /\ ~(i \in Files /\ source[i] = Null)

\* deviation: the worker fence is not compared
WorkerAnyFence(w, o, f, allowPaused) ==
  /\ op[o].phase \in Live /\ op[o].owner = SidOf[w] /\ activeRotation = o
  /\ op[o].paused => allowPaused
  /\ ~op[o].lapsed /\ soleSid = SidOf[w]

\* worker(): the token in force, an unexpired operation, the sole session.
Worker(w, o, f, allowPaused) ==
  /\ op[o].phase \in Live
  /\ op[o].owner = SidOf[w] /\ op[o].fence = f
  /\ op[o].sourceGeneration = generation
  /\ activeRotation = o
  /\ op[o].paused => allowPaused
  /\ ~op[o].lapsed
  /\ soleSid = SidOf[w]

\* The tab's current token, as status() reports it.
Token(w) == activeRotation # None /\ Worker(w, activeRotation, op[activeRotation].fence, FALSE)

\* A Seal's re-encrypted contents need its new note key, the staged wrapper.
WrapperStaged(i) == i \in SealItems => repl[WrapperOf[i]] \in Cipher

Complete(r, v) == \A i \in Items : InInventory(i) => r[i] # None /\ v[i] = r[i]
ReadyOnceStaged(v, recovery) == IF Complete(repl, v) THEN "ready" ELSE "migrating"  \* deviation: no recovery file
ReadyPhase(v, recovery) == IF Complete(repl, v) /\ recovery THEN "ready" ELSE "migrating"

\* Objects the staging of the active operation would leave behind.
Granted == {grant[i].object : i \in {j \in Items : grant[j] # None}}
Queue(q, o, K) == [k \in Objects |-> IF k \in K /\ q[k] = None THEN o ELSE q[k]]

\* deviation: the replacement rows outlive the operation
DropGrants ==
  /\ queued' = Queue(queued, activeRotation, Granted)
  /\ grant' = NoItems /\ UNCHANGED <<repl, verified>>

\* abort(): the staging rows go, the objects they were granted are queued.
DropStaging ==
  /\ queued' = Queue(queued, activeRotation, Granted)
  /\ repl' = NoItems /\ verified' = NoItems /\ grant' = NoItems
Expired(o) == [op[o] EXCEPT !.phase = "expired", !.paused = FALSE]  \* deviation: a phase nobody else knows
Aborted(o) == [op[o] EXCEPT !.phase = "aborted", !.paused = FALSE]

Claimed(o, s) == [op[o] EXCEPT !.owner = s, !.fence = op[o].fence + 1, !.paused = FALSE]

Idle(w) == req' = [req EXCEPT ![w] = None]

-----------------------------------------------------------------------------
(* Ordinary use of the vault (db/encryptionState.ts and its callers).      *)

\* Sign-in, sign-out, revocation: some session, or none, meets sessions().
SessionChange ==
  /\ soleSid' \in (Sids \cup {None}) \ {soleSid}
  /\ UNCHANGED <<generation, activeRotation, profile, vault, op, itemVars, fileVars, req, seen>>

\* A device opens the vault: one locked read of profile, generation and wrappers.
ReadVault(c) ==
  /\ seen' = [seen EXCEPT ![c] =
       [generation |-> generation, key |-> profile.key,
        nek |-> [s \in Wrappers |-> IF vault[s] = Null THEN None ELSE vault[s].text]]]
  /\ UNCHANGED <<generation, activeRotation, soleSid, profile, vault, op, itemVars, fileVars, req>>

VaultWriteAnyGeneration(c) == activeRotation = None /\ seen[c] # None  \* deviation: no generation check
VaultWriteUnfrozen(c) == seen[c] # None /\ seen[c].generation = generation  \* deviation: no freeze

\* withVaultWrite: refused during a rotation and from another generation.
VaultWrite(c) ==
  /\ activeRotation = None
  /\ seen[c] # None /\ seen[c].generation = generation

WriteNote(c, i) ==
  /\ VaultWrite(c)
  /\ \E v \in [under : {seen[c].key}, text : Texts, iv : IVs] \cup {Null} : vault' = [vault EXCEPT ![i] = v]
  /\ UNCHANGED <<fenceVars, soleSid, profile, op, itemVars, fileVars, req, seen>>

WriteBody(c, i) ==
  /\ VaultWrite(c)
  /\ seen[c].nek[WrapperOf[i]] # None
  /\ \E v \in [under : {seen[c].nek[WrapperOf[i]]}, text : Texts, iv : IVs] : vault' = [vault EXCEPT ![i] = v]
  /\ UNCHANGED <<fenceVars, soleSid, profile, op, itemVars, fileVars, req, seen>>

\* A new passphrase wraps the same vault key again (updateProfile).
Rewrap(c) ==
  /\ VaultWrite(c) /\ profile.rev < MaxRev
  /\ profile' = [profile EXCEPT !.rev = @ + 1]
  /\ UNCHANGED <<fenceVars, soleSid, vault, op, itemVars, fileVars, req, seen>>

\* cleanupDeletedFiles under withVaultMaintenance.
PurgeFile(f) ==
  /\ activeRotation = None /\ vault[f] # Null
  /\ store' = [store EXCEPT ![vault[f].object] = None]
  /\ vault' = [vault EXCEPT ![f] = Null]
  /\ UNCHANGED <<fenceVars, soleSid, profile, op, itemVars, queued, used, req, seen>>

-----------------------------------------------------------------------------
(* The life of an operation.                                               *)

\* captureInventory(): what is stored under a note key needs a stored note key.
Inventoriable ==
  /\ \A b \in Bodies : vault[b] # Null => vault[WrapperOf[b]] # Null
  /\ \A f \in Files : vault[f] # Null /\ vault[f].scope = "seal" => vault[WrapperOf[f]] # Null

\* begin(): an expired predecessor is aborted in the same transaction.
Begin(w, o) ==
  LET prev == activeRotation IN
  /\ op[o].phase = "none"
  /\ prev # None => op[prev].lapsed
  /\ soleSid = SidOf[w]
  /\ Inventoriable
  /\ op' = [x \in Ops |->
       IF x = o THEN [phase |-> "migrating", paused |-> FALSE, owner |-> SidOf[w], fence |-> 1,
                      sourceGeneration |-> generation, profile |-> profile,
                      recovery |-> FALSE, lapsed |-> FALSE]
       ELSE IF x = prev THEN Aborted(x) ELSE op[x]]
  /\ DropStaging
  /\ source' = vault
  /\ activeRotation' = o
  /\ UNCHANGED <<generation, soleSid, profile, vault, store, used, req, seen>>

\* abort() of the active operation.
Abort ==
  /\ DropStaging
  /\ source' = NoItems
  /\ op' = [op EXCEPT ![activeRotation] = Aborted(activeRotation)]
  /\ activeRotation' = None
  /\ UNCHANGED <<generation, soleSid, profile, vault, store, used, req, seen>>

Cancel(w) ==
  /\ activeRotation # None
  /\ Worker(w, activeRotation, op[activeRotation].fence, TRUE)
  /\ Abort

\* The retention period passes with no request that touches the operation.
Lapse(o) ==
  /\ op[o].phase \in Live /\ ~op[o].lapsed
  /\ op' = [op EXCEPT ![o].lapsed = TRUE]
  /\ UNCHANGED <<fenceVars, soleSid, profile, vault, itemVars, fileVars, req, seen>>

\* deviation: the sweep skips an operation its owner paused
ExpireUnpaused ==
  /\ activeRotation # None
  /\ op[activeRotation].phase \in Live /\ op[activeRotation].lapsed /\ ~op[activeRotation].paused
  /\ Abort

\* The scheduled sweep, a status read or a cancel meets an expired operation.
Expire ==
  /\ activeRotation # None
  /\ op[activeRotation].phase \in Live /\ op[activeRotation].lapsed
  /\ Abort

Pause(w, b) ==
  /\ activeRotation # None
  /\ Worker(w, activeRotation, op[activeRotation].fence, TRUE)
  /\ op[activeRotation].paused # b
  /\ op' = [op EXCEPT ![activeRotation].paused = b]
  /\ UNCHANGED <<fenceVars, soleSid, profile, vault, itemVars, fileVars, req, seen>>

\* Another tab or session takes over; the fence shuts the previous one out.
Claim(w) ==
  /\ activeRotation # None
  /\ op[activeRotation].phase \in Live /\ ~op[activeRotation].lapsed
  /\ soleSid = SidOf[w]
  /\ op[activeRotation].fence < MaxFence
  /\ op' = [op EXCEPT ![activeRotation] = Claimed(activeRotation, SidOf[w])]
  /\ UNCHANGED <<fenceVars, soleSid, profile, vault, itemVars, fileVars, req, seen>>

\* The user has saved the recovery file of the replacement key.
ConfirmRecovery(w) ==
  /\ Token(w)
  /\ op' = [op EXCEPT ![activeRotation].recovery = TRUE, ![activeRotation].phase = ReadyPhase(verified, TRUE)]
  /\ UNCHANGED <<fenceVars, soleSid, profile, vault, itemVars, fileVars, req, seen>>

-----------------------------------------------------------------------------
(* Staging and verification of one item by a tab.                          *)

Send(w, kind, i, v, files) ==
  req' = [req EXCEPT ![w] = [kind |-> kind, op |-> activeRotation, fence |-> op[activeRotation].fence,
                             item |-> i, value |-> v, files |-> files]]

\* The tab, or the handler between its two locks, goes on with what it got.
Continue(w, kind, v) == req' = [req EXCEPT ![w] = [req[w] EXCEPT !.kind = kind, !.value = v]]

\* What the engine encrypts under the operation's key: a Seal gets a brand new
\* note key, everything else its own plaintext again.
Rekeyed(o, i, n) ==
  IF source[i] = Null THEN Null
  ELSE [under |-> IF i \in SealItems THEN repl[WrapperOf[i]].text ELSE o,
        text  |-> IF i \in Wrappers THEN <<o, n>>
                  ELSE IF i \in Files THEN store[source[i].object].text ELSE source[i].text,
        iv    |-> n]

\* The tab reads the inventory and prepares a replacement for an unstaged item.
Prepare(w, i, n) ==
  /\ req[w] = None /\ Token(w)
  /\ InInventory(i) /\ repl[i] = None
  /\ source[i] # Null => WrapperStaged(i)
  /\ i \in Files => store[source[i].object] \in Cipher
  /\ Send(w, IF i \in Files THEN "reserve" ELSE "stage", i, Rekeyed(activeRotation, i, n), {})
  /\ UNCHANGED <<fenceVars, soleSid, profile, vault, op, itemVars, fileVars, seen>>

\* The handler's view of a request: its token must still be the worker's.
Accepts(w, kind) == req[w] # None /\ req[w].kind = kind /\ Worker(w, req[w].op, req[w].fence, FALSE)

StageLatest(i, v) == repl' = [repl EXCEPT ![i] = v]  \* deviation: the last staged value wins

\* stageValue(): the first accepted value stands; a replay must repeat it.
StageValue(i, v) == repl[i] \in {None, v} /\ repl' = [repl EXCEPT ![i] = v]

Stage(w) ==
  /\ Accepts(w, "stage")
  /\ LET i == req[w].item
         v == req[w].value IN
     /\ i \notin Files
     /\ source[i] = Null <=> v = Null
     /\ source[i] # Null => WrapperStaged(i)
     /\ source[i] # Null => v # source[i]
     /\ StageValue(i, v)
  /\ Idle(w)
  /\ UNCHANGED <<fenceVars, soleSid, profile, vault, op, source, verified, grant, fileVars, seen>>

\* The tab reads the accepted replacement back and proves it opens to the source.
ReadBack(w, i) ==
  /\ req[w] = None /\ Token(w)
  /\ repl[i] # None /\ verified[i] # repl[i]
  /\ source[i] # Null =>
       LET c == IF i \in Files THEN store[repl[i].object] ELSE repl[i] IN
       /\ c \in Cipher
       /\ c.under = IF i \in SealItems THEN repl[WrapperOf[i]].text ELSE activeRotation
       /\ i \in Wrappers \/ c.text = IF i \in Files THEN store[source[i].object].text ELSE source[i].text
  /\ Send(w, "verify", i, repl[i], {})
  /\ UNCHANGED <<fenceVars, soleSid, profile, vault, op, itemVars, fileVars, seen>>

Verify(w) ==
  /\ Accepts(w, "verify")
  /\ LET i == req[w].item IN
     /\ repl[i] # None /\ repl[i] = req[w].value
     /\ verified' = [verified EXCEPT ![i] = repl[i]]
  /\ op' = [op EXCEPT ![activeRotation].phase = ReadyPhase(verified', op[activeRotation].recovery)]
  /\ Idle(w)
  /\ UNCHANGED <<fenceVars, soleSid, profile, vault, source, repl, grant, fileVars, seen>>

\* reserveFile(): the same bytes reuse the grant; others retire it for a new key.
Reserve(w) ==
  /\ Accepts(w, "reserve")
  /\ LET i == req[w].item
         same == grant[i] # None /\ grant[i].body = req[w].value IN
     /\ WrapperStaged(i) /\ repl[i] = None
     /\ \E k \in Objects :
          /\ IF same THEN k = grant[i].object ELSE k \notin used
          /\ grant' = [grant EXCEPT ![i] = [object |-> k, body |-> req[w].value]]
          /\ used' = used \cup {k}
          /\ queued' = IF same \/ grant[i] = None THEN queued
                       ELSE Queue(queued, activeRotation, {grant[i].object})
          /\ Continue(w, "put", grant'[i])
  /\ UNCHANGED <<fenceVars, soleSid, profile, vault, op, source, repl, verified, store, seen>>

\* deviation: an upload may overwrite
PutOverwriting(w) ==
  /\ req[w] # None /\ req[w].kind = "put"
  /\ \E bytes \in {req[w].value.body, Junk} : store' = [store EXCEPT ![req[w].value.object] = bytes]
  /\ UNCHANGED <<fenceVars, soleSid, profile, vault, op, itemVars, queued, used, req, seen>>

\* The upload itself, create-only; nothing but finalizeFile looks at the bytes.
Put(w) ==
  /\ req[w] # None /\ req[w].kind = "put"
  /\ store[req[w].value.object] = None
  /\ \E bytes \in {req[w].value.body, Junk} : store' = [store EXCEPT ![req[w].value.object] = bytes]
  /\ UNCHANGED <<fenceVars, soleSid, profile, vault, op, itemVars, queued, used, req, seen>>

\* finalizeFile(), first lock.
Finalize(w) ==
  /\ Accepts(w, "put")
  /\ LET g == grant[req[w].item] IN
     /\ g # None /\ g.object = req[w].value.object
     /\ Continue(w, "finalize", g)
  /\ UNCHANGED <<fenceVars, soleSid, profile, vault, op, itemVars, fileVars, seen>>

\* finalizeFile(), between the locks: the bytes are read in full.  Any storage
\* error, and bytes other than the ones promised, retire the key.
InspectObject(w) ==
  /\ req[w] # None /\ req[w].kind = "finalize"
  /\ \E outcome \in {"inspected", "retire"} :
       /\ outcome = "inspected" => store[req[w].value.object] = req[w].value.body
       /\ Continue(w, outcome, req[w].value)
  /\ UNCHANGED <<fenceVars, soleSid, profile, vault, op, itemVars, fileVars, seen>>

\* finalizeFile(), second lock.
FinalizeStage(w) ==
  /\ Accepts(w, "inspected")
  /\ grant[req[w].item] = req[w].value
  /\ StageValue(req[w].item, req[w].value)
  /\ Idle(w)
  /\ UNCHANGED <<fenceVars, soleSid, profile, vault, op, source, verified, grant, fileVars, seen>>

RetirableAlways(i, k) == grant[i] # None /\ grant[i].object = k  \* deviation: even once accepted
Retirable(i, k) == grant[i] # None /\ grant[i].object = k /\ repl[i] = None

RetireGrant(w) ==
  /\ Accepts(w, "retire")
  /\ LET i == req[w].item IN
     /\ Retirable(i, req[w].value.object)
     /\ queued' = Queue(queued, activeRotation, {grant[i].object})
     /\ grant' = [grant EXCEPT ![i] = None]
  /\ Idle(w)
  /\ UNCHANGED <<fenceVars, soleSid, profile, vault, op, source, repl, verified, store, used, seen>>

\* A tab is closed, or gives up on a request that was refused or lost.
Abandon(w) ==
  /\ req[w] # None /\ Idle(w)
  /\ UNCHANGED <<fenceVars, soleSid, profile, vault, op, itemVars, fileVars, seen>>

-----------------------------------------------------------------------------
(* Activation.                                                             *)

\* commit(), first lock: the file pointers to check are read.
CommitPrepare(w) ==
  /\ req[w] = None /\ Token(w)
  /\ op[activeRotation].phase = "ready"
  /\ Send(w, "commit", None, Null,
          {[file |-> f, from |-> source[f].object, to |-> repl[f]] : f \in {g \in Files : InInventory(g)}})
  /\ UNCHANGED <<fenceVars, soleSid, profile, vault, op, itemVars, fileVars, seen>>

\* commit(), no lock held: storage still has every source and replacement.
CommitInspect(w) ==
  /\ req[w] # None /\ req[w].kind = "commit"
  /\ \A x \in req[w].files : store[x.from] # None /\ store[x.to.object] = x.to.body
  /\ Continue(w, "activate", Null)
  /\ UNCHANGED <<fenceVars, soleSid, profile, vault, op, itemVars, fileVars, seen>>

IsReady(o) == op[o].phase = "ready" /\ op[o].recovery

SourceGeneration(o) == op[o].sourceGeneration   \* deviation: the generation does not advance
TargetGeneration(o) == op[o].sourceGeneration + 1

\* deviation: the key scope is left as it was before the rotation
PointerOldScope(i) == [object |-> repl[i].object, scope |-> vault[i].scope]
NewPointer(i) == [object |-> repl[i].object, scope |-> IF i \in SealFiles THEN "seal" ELSE "vault"]

\* commit(), second lock: everything is checked again, then swapped at once.
Activate(w) ==
  LET o == activeRotation IN
  /\ Accepts(w, "activate")
  /\ IsReady(o)
  /\ op[o].profile = profile /\ source = vault         \* else SOURCE_CHANGED
  /\ Complete(repl, verified)                          \* else INCOMPLETE
  /\ \A x \in req[w].files : repl[x.file] = x.to
  /\ vault' = [i \in Items |->
       IF ~InInventory(i) THEN vault[i] ELSE IF i \in Files THEN NewPointer(i) ELSE repl[i]]
  /\ profile' = [key |-> o, rev |-> 0]
  /\ generation' = TargetGeneration(o)
  /\ activeRotation' = None
  /\ queued' = Queue(queued, o, {source[f].object : f \in {g \in Files : InInventory(g)}})
  /\ op' = [op EXCEPT ![o].phase = "committed", ![o].paused = FALSE]
  /\ source' = NoItems /\ repl' = NoItems /\ verified' = NoItems /\ grant' = NoItems
  /\ Idle(w)
  /\ UNCHANGED <<soleSid, store, used, seen>>

\* drainCleanup(): a queued object goes unless something still points at it.
Drain(k) ==
  /\ queued[k] # None
  /\ \A f \in Files : vault[f] # Null => vault[f].object # k
  /\ k \notin Granted
  /\ store' = [store EXCEPT ![k] = None]
  /\ queued' = [queued EXCEPT ![k] = None]
  /\ UNCHANGED <<fenceVars, soleSid, profile, vault, op, itemVars, used, req, seen>>

\* cleanup(): a committed operation with nothing left to delete is finished.
Clean(o) ==
  /\ op[o].phase = "committed"
  /\ \A k \in Objects : queued[k] # o
  /\ op' = [op EXCEPT ![o].phase = "cleaned"]
  /\ UNCHANGED <<fenceVars, soleSid, profile, vault, itemVars, fileVars, req, seen>>

-----------------------------------------------------------------------------
VaultUse ==
  \/ SessionChange
  \/ \E c \in Clients : ReadVault(c) \/ Rewrap(c)
  \/ \E c \in Clients : \E i \in Notes : WriteNote(c, i)
  \/ \E c \in Clients : \E i \in Bodies : WriteBody(c, i)
  \/ \E f \in Files : PurgeFile(f)

Lifecycle ==
  \/ \E w \in Workers : Cancel(w) \/ Claim(w) \/ ConfirmRecovery(w)
  \/ \E w \in Workers : \E o \in Ops : Begin(w, o)
  \/ \E w \in Workers : \E b \in BOOLEAN : Pause(w, b)
  \/ \E o \in Ops : Lapse(o) \/ Clean(o)
  \/ Expire

Staging ==
  \/ \E w \in Workers : \E i \in Items : \E n \in IVs : Prepare(w, i, n)
  \/ \E w \in Workers : \E i \in Items : ReadBack(w, i)
  \/ \E w \in Workers : Stage(w) \/ Verify(w) \/ Abandon(w)

FileStaging ==
  \E w \in Workers :
    \/ Reserve(w) \/ Put(w) \/ Finalize(w)
    \/ InspectObject(w) \/ FinalizeStage(w) \/ RetireGrant(w)

Activation ==
  \/ \E w \in Workers : CommitPrepare(w) \/ CommitInspect(w) \/ Activate(w)
  \/ \E k \in Objects : Drain(k)

Next == VaultUse \/ Lifecycle \/ Staging \/ FileStaging \/ Activation

Spec == Init /\ [][Next]_vars

=============================================================================
