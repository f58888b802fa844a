--------------------------- MODULE KeyRotation_proofs ---------------------------
(***************************************************************************)
(* What holds of key rotation for every number of operations, items, tabs, *)
(* devices and objects: type correctness, then the invariants in the order *)
(* each rests on the ones before it, then the action properties. Then the  *)
(* contents of the vault: the objects attachments need are kept, staged    *)
(* Seals agree on their note key, everything opens, an activation keeps    *)
(* what every item says, and the service implements a vault that is        *)
(* rekeyed in one step (VaultRekey).                                       *)
(***************************************************************************)
EXTENDS KeyRotationProps, TLAPS

\* The initial account is well formed.
LEMMA InitTypeOK == Init => TypeOK
<1> SUFFICES ASSUME Init PROVE TypeOK OBVIOUS
<1>1. PICK t \in Texts, n \in IVs, empty \in SUBSET Wrappers :
       /\ vault = [i \in Items |-> IF Hollow(i, empty) THEN Null ELSE FirstPayload(i, t, n)]
       /\ store = [k \in Objects |->
                     IF \E f \in Files : FirstObject[f] = k /\ ~Hollow(f, empty)
                     THEN [under |-> Genesis, text |-> t, iv |-> n] ELSE None] BY DEF Init
<1>2. \A i \in Items : FirstPayload(i, t, n) \in Payload(i)
  BY PartsAssumption DEF Items, Payload, FirstPayload, Pointer, SealedKey, SealedText, Keys, NoteKeys, VaultKeys
<1>3. DOMAIN vault = Items /\ \A i \in Items : vault[i] \in Payload(i) \cup {Null} BY <1>1, <1>2
<1>4. store \in [Objects -> SealedText \cup {Junk, None}] BY <1>1 DEF SealedText, Keys, VaultKeys
<1>5. op \in [Ops -> OpRecord] BY BoundsAssumption DEF Init, NeverStarted, OpRecord, VaultKeys
<1>6. used \subseteq Objects BY PartsAssumption DEF Init
<1>7. /\ generation \in Nat
      /\ activeRotation \in Ops \cup {None}
      /\ soleSid \in Sids \cup {None}
      /\ profile \in [key : VaultKeys, rev : 0..MaxRev] BY BoundsAssumption DEF Init, VaultKeys
<1>8. /\ DOMAIN source = Items /\ \A i \in Items : source[i] \in Payload(i) \cup {Null, None}
      /\ DOMAIN repl = Items /\ \A i \in Items : repl[i] \in Replacement(i) \cup {None}
      /\ DOMAIN verified = Items /\ \A i \in Items : verified[i] \in Replacement(i) \cup {None}
      /\ grant \in [Items -> Grant \cup {None}] BY DEF Init, NoItems
<1>9. /\ queued \in [Objects -> Ops \cup {None}]
      /\ req \in [Workers -> Request \cup {None}]
      /\ \A w \in Workers : req[w] # None => WellFormed(req[w])
      /\ seen \in [Clients -> Opened \cup {None}] BY DEF Init
<1> QED BY <1>3, <1>4, <1>5, <1>6, <1>7, <1>8, <1>9 DEF TypeOK

\* Ordinary reads and writes keep the state well formed.
LEMMA VaultUseTypeOK == TypeOK /\ VaultUse => TypeOK'
<1> SUFFICES ASSUME TypeOK, VaultUse PROVE TypeOK' OBVIOUS
<1> USE DEF fenceVars, itemVars, fileVars
<1>1. CASE SessionChange BY <1>1 DEF TypeOK, SessionChange
<1>2. ASSUME NEW c \in Clients, ReadVault(c) PROVE TypeOK'
  BY PartsAssumption, <1>2 DEF TypeOK, Items, Payload, SealedKey, ReadVault, Opened
<1>3. ASSUME NEW c \in Clients, Rewrap(c) PROVE TypeOK'
  BY <1>3, BoundsAssumption DEF TypeOK, Rewrap
<1>4. ASSUME NEW c \in Clients, NEW i \in Notes, WriteNote(c, i) PROVE TypeOK'
 <2>1. seen[c].key \in VaultKeys BY <1>4 DEF TypeOK, WriteNote, VaultWrite, Opened
 <2>2. DOMAIN vault' = Items /\ \A j \in Items : vault'[j] \in Payload(j) \cup {Null}
   BY <1>4, <2>1, PartsAssumption DEF TypeOK, WriteNote, Payload, Items, SealedText, Keys
 <2> QED BY <1>4, <2>2 DEF TypeOK, WriteNote
<1>5. ASSUME NEW c \in Clients, NEW i \in Bodies, WriteBody(c, i) PROVE TypeOK'
 <2>1. seen[c].nek[WrapperOf[i]] \in NoteKeys BY <1>5, PartsAssumption DEF TypeOK, WriteBody, VaultWrite, Opened, SealItems
 <2>2. DOMAIN vault' = Items /\ \A j \in Items : vault'[j] \in Payload(j) \cup {Null}
   BY <1>5, <2>1, PartsAssumption DEF TypeOK, WriteBody, Payload, Items, SealedText, Keys
 <2> QED BY <1>5, <2>2 DEF TypeOK, WriteBody
<1>6. ASSUME NEW f \in Files, PurgeFile(f) PROVE TypeOK'
  BY <1>6 DEF TypeOK, PurgeFile, Items
<1> QED BY <1>1, <1>2, <1>3, <1>4, <1>5, <1>6 DEF VaultUse

\* Every update of a rotation row the handlers make yields a rotation row.
LEMMA RowType ==
  ASSUME NEW r \in OpRecord, NEW p \in {"none"} \cup Live \cup Terminal, NEW b \in BOOLEAN
  PROVE  /\ [r EXCEPT !.phase = p] \in OpRecord
         /\ [r EXCEPT !.phase = p, !.paused = FALSE] \in OpRecord
         /\ [r EXCEPT !.recovery = TRUE, !.phase = p] \in OpRecord
         /\ [r EXCEPT !.paused = b] \in OpRecord
         /\ [r EXCEPT !.lapsed = b] \in OpRecord
BY DEF OpRecord

\* A claim yields a rotation row.
LEMMA ClaimType ==
  ASSUME NEW r \in OpRecord, NEW s \in Sids, NEW f \in 0..MaxFence
  PROVE  [r EXCEPT !.owner = s, !.fence = f, !.paused = FALSE] \in OpRecord
BY DEF OpRecord

\* A live operation is only ever migrating or ready.
LEMMA PhaseType == \A v, b : ReadyPhase(v, b) \in Live
BY DEF ReadyPhase, Live

\* Queuing keys for deletion keeps the cleanup table well formed.
LEMMA QueueType ==
  ASSUME NEW q \in [Objects -> Ops \cup {None}], NEW o \in Ops, NEW K
  PROVE  Queue(q, o, K) \in [Objects -> Ops \cup {None}]
BY DEF Queue

\* So does dropping the staging rows with their grants.
LEMMA DropStagingType ==
  ASSUME TypeOK, DropStaging
  PROVE  /\ queued' \in [Objects -> Ops \cup {None}]
         /\ DOMAIN repl' = Items /\ \A i \in Items : repl'[i] = None
         /\ DOMAIN verified' = Items /\ \A i \in Items : verified'[i] = None
         /\ grant' \in [Items -> {None}]
<1>1. queued' \in [Objects -> Ops \cup {None}]
 <2>1. CASE activeRotation \in Ops BY <2>1, QueueType DEF TypeOK, DropStaging
 <2>2. CASE activeRotation = None BY <2>2 DEF TypeOK, DropStaging, Queue
 <2> QED BY <2>1, <2>2 DEF TypeOK
<1> QED BY <1>1 DEF DropStaging, NoItems

\* Ending the active operation keeps the state well formed.
LEMMA AbortTypeOK == TypeOK /\ activeRotation # None /\ Abort => TypeOK'
<1> SUFFICES ASSUME TypeOK, activeRotation # None, Abort PROVE TypeOK' OBVIOUS
<1>1. op' \in [Ops -> OpRecord]
  BY RowType DEF TypeOK, Aborted, Terminal, Abort
<1>2. DropStaging BY DEF Abort
<1> HIDE DEF DropStaging
<1>3. /\ queued' \in [Objects -> Ops \cup {None}]
      /\ DOMAIN repl' = Items /\ \A i \in Items : repl'[i] = None
      /\ DOMAIN verified' = Items /\ \A i \in Items : verified'[i] = None
      /\ grant' \in [Items -> {None}] BY <1>2, DropStagingType
<1>4. DOMAIN source' = Items /\ \A i \in Items : source'[i] = None BY DEF Abort, NoItems
<1> QED BY <1>1, <1>3, <1>4 DEF TypeOK, Abort

\* Every handler of an operation's life keeps the state well formed.
LEMMA LifecycleTypeOK == TypeOK /\ Lifecycle => TypeOK'
<1> SUFFICES ASSUME TypeOK, Lifecycle PROVE TypeOK' OBVIOUS
<1> USE DEF fenceVars, itemVars, fileVars
<1>1. ASSUME NEW w \in Workers, Cancel(w) PROVE TypeOK' BY <1>1, AbortTypeOK DEF Cancel
<1>2. CASE Expire BY <1>2, AbortTypeOK DEF Expire
<1>3. ASSUME NEW w \in Workers, NEW o \in Ops, Begin(w, o) PROVE TypeOK'
 <2>1. op' \in [Ops -> OpRecord]
  <3>1. \A x \in Ops : Aborted(x) \in OpRecord BY RowType DEF TypeOK, Aborted, Terminal
  <3>2. [phase |-> "migrating", paused |-> FALSE, owner |-> SidOf[w], fence |-> 1,
         sourceGeneration |-> generation, profile |-> profile,
         recovery |-> FALSE, lapsed |-> FALSE] \in OpRecord BY BoundsAssumption, PartsAssumption DEF TypeOK, OpRecord, Live
  <3> QED BY <1>3, <3>1, <3>2 DEF TypeOK, Begin
 <2>2. DropStaging BY <1>3 DEF Begin
 <2>3. /\ queued' \in [Objects -> Ops \cup {None}]
       /\ DOMAIN repl' = Items /\ \A i \in Items : repl'[i] = None
       /\ DOMAIN verified' = Items /\ \A i \in Items : verified'[i] = None
       /\ grant' \in [Items -> {None}] BY <2>2, DropStagingType
 <2> QED BY <1>3, <2>1, <2>3 DEF TypeOK, Begin
<1>4. ASSUME NEW w \in Workers, Claim(w) PROVE TypeOK'
 <2>1. op' \in [Ops -> OpRecord]
  <3>1. op[activeRotation] \in OpRecord BY <1>4 DEF TypeOK, Claim
  <3>2. SidOf[w] \in Sids /\ op[activeRotation].fence + 1 \in 0..MaxFence
    BY <1>4, <3>1, BoundsAssumption, PartsAssumption DEF Claim, OpRecord
  <3>3. Claimed(activeRotation, SidOf[w]) \in OpRecord BY <3>1, <3>2, ClaimType DEF Claimed
  <3> QED BY <1>4, <3>3 DEF TypeOK, Claim
 <2> QED BY <1>4, <2>1 DEF TypeOK, Claim
<1>5. ASSUME NEW w \in Workers, ConfirmRecovery(w) PROVE TypeOK'
  BY <1>5, RowType, PhaseType DEF TypeOK, ConfirmRecovery, Token
<1>6. ASSUME NEW w \in Workers, NEW b \in BOOLEAN, Pause(w, b) PROVE TypeOK'
  BY <1>6, RowType DEF TypeOK, Pause
<1>7. ASSUME NEW o \in Ops, Lapse(o) PROVE TypeOK'
  BY <1>7, RowType DEF TypeOK, Lapse
<1>8. ASSUME NEW o \in Ops, Clean(o) PROVE TypeOK'
  BY <1>8, RowType DEF TypeOK, Clean, Terminal
<1> QED BY <1>1, <1>2, <1>3, <1>4, <1>5, <1>6, <1>7, <1>8 DEF Lifecycle

\* Dropping a request leaves well-formed requests.
LEMMA IdleType ==
  ASSUME TypeOK, NEW w \in Workers, Idle(w)
  PROVE  /\ req' \in [Workers -> Request \cup {None}]
         /\ \A x \in Workers : req'[x] # None => WellFormed(req'[x])
BY DEF TypeOK, Idle

\* A tab that sends one more well-formed request leaves well-formed requests.
LEMMA NewRequestType ==
  ASSUME TypeOK, NEW w \in Workers, NEW r \in Request, WellFormed(r), req' = [req EXCEPT ![w] = r]
  PROVE  /\ req' \in [Workers -> Request \cup {None}]
         /\ \A x \in Workers : req'[x] # None => WellFormed(req'[x])
BY DEF TypeOK

\* A file request moves on to its next kind, with the grant it has been given.
LEMMA NextKindType ==
  ASSUME TypeOK, NEW w \in Workers, req[w] # None, req[w].item \in Files,
         NEW k \in {"put", "finalize", "inspected", "retire"}, NEW g \in Grant,
         Continue(w, k, g)
  PROVE  /\ req' \in [Workers -> Request \cup {None}]
         /\ \A x \in Workers : req'[x] # None => WellFormed(req'[x])
<1> DEFINE r == [req[w] EXCEPT !.kind = k, !.value = g]
<1>1. r \in Request
 <2>1. req[w] \in Request BY DEF TypeOK
 <2>2. k \in {"stage", "verify", "reserve", "put", "finalize", "inspected", "retire", "commit", "activate"} OBVIOUS
 <2> QED BY <2>1, <2>2 DEF Request
<1>2. r.kind = k /\ r.value = g /\ r.item = req[w].item BY <1>1 DEF TypeOK, Request
<1>3. WellFormed(r) BY <1>2 DEF WellFormed, Items
<1> QED BY <1>1, <1>3, NewRequestType DEF Continue

\* Staging and verification keep the state well formed.
LEMMA StagingTypeOK == TypeOK /\ Staging => TypeOK'
<1> SUFFICES ASSUME TypeOK, Staging PROVE TypeOK' OBVIOUS
<1> USE DEF fenceVars, itemVars, fileVars
<1>1. ASSUME NEW w \in Workers, NEW i \in Items, NEW n \in IVs, Prepare(w, i, n) PROVE TypeOK'
 <2> DEFINE kind == IF i \in Files THEN "reserve" ELSE "stage"
            v == Rekeyed(activeRotation, i, n)
            r == [kind |-> kind, op |-> activeRotation, fence |-> op[activeRotation].fence,
                  item |-> i, value |-> v, files |-> {}]
 <2>1. activeRotation \in Ops /\ op[activeRotation].fence \in 0..MaxFence BY <1>1 DEF TypeOK, Prepare, Token, OpRecord
 <2>2. source[i] # Null =>
         /\ i \in SealItems => repl[WrapperOf[i]].text \in NoteKeys
         /\ i \in Files => store[source[i].object].text \in Texts
         /\ i \notin Files \cup Wrappers => source[i].text \in Texts
  <3>1. ASSUME i \in SealItems, source[i] # Null PROVE repl[WrapperOf[i]].text \in NoteKeys
    BY <1>1, <3>1, PartsAssumption, TokensAssumption DEF Prepare, WrapperStaged, TypeOK, Replacement, Payload, Items, SealedKey
  <3>2. ASSUME i \in Files, source[i] # Null PROVE store[source[i].object].text \in Texts
    BY <1>1, <3>2, TokensAssumption DEF TypeOK, Prepare, InInventory, Payload, Pointer, SealedText
  <3>3. ASSUME i \notin Files \cup Wrappers, source[i] # Null PROVE source[i].text \in Texts
    BY <1>1, <3>3 DEF TypeOK, Prepare, InInventory, Payload, SealedText
  <3> QED BY <3>1, <3>2, <3>3
 <2>3. v \in IF i \in Files THEN SealedText ELSE Replacement(i)
  <3>1. CASE source[i] = Null BY <1>1, <3>1 DEF Prepare, InInventory, Rekeyed, Replacement
  <3>2. CASE source[i] # Null /\ i \in Wrappers
    BY <2>1, <3>2, PartsAssumption DEF Rekeyed, Replacement, Payload, SealedKey, NoteKeys, VaultKeys, SealItems
  <3>3. CASE source[i] # Null /\ i \notin Wrappers
    BY <2>1, <2>2, <3>3 DEF Rekeyed, Replacement, Payload, SealedText, Keys, VaultKeys
  <3> QED BY <3>1, <3>2, <3>3
 <2>4. v \in Cipher \cup {Null} BY <2>3 DEF Replacement, Payload, Cipher
 <2> HIDE DEF v
 <2>5. r \in Request BY <2>1, <2>4 DEF Request
 <2>6. WellFormed(r) BY <2>3 DEF WellFormed
 <2>7. /\ req' \in [Workers -> Request \cup {None}]
       /\ \A x \in Workers : req'[x] # None => WellFormed(req'[x]) BY <1>1, <2>5, <2>6, NewRequestType DEF Prepare, Send, v
 <2> QED BY <1>1, <2>7 DEF TypeOK, Prepare
<1>2. ASSUME NEW w \in Workers, NEW i \in Items, ReadBack(w, i) PROVE TypeOK'
 <2> DEFINE r == [kind |-> "verify", op |-> activeRotation, fence |-> op[activeRotation].fence,
                  item |-> i, value |-> repl[i], files |-> {}]
 <2>1. activeRotation \in Ops /\ op[activeRotation].fence \in 0..MaxFence BY <1>2 DEF TypeOK, ReadBack, Token, OpRecord
 <2>2. repl[i] \in Replacement(i) /\ repl[i] \in Cipher \cup Grant \cup {Null}
   BY <1>2 DEF TypeOK, ReadBack, Replacement, Payload, Cipher
 <2>3. r \in Request /\ WellFormed(r) BY <2>1, <2>2 DEF Request, WellFormed
 <2>4. /\ req' \in [Workers -> Request \cup {None}]
       /\ \A x \in Workers : req'[x] # None => WellFormed(req'[x]) BY <1>2, <2>3, NewRequestType DEF ReadBack, Send
 <2> QED BY <1>2, <2>4 DEF TypeOK, ReadBack
<1>3. ASSUME NEW w \in Workers, Stage(w) PROVE TypeOK'
  BY <1>3, IdleType DEF TypeOK, Stage, Accepts, WellFormed, StageValue
<1>4. ASSUME NEW w \in Workers, Verify(w) PROVE TypeOK'
  BY <1>4, RowType, PhaseType, IdleType DEF TypeOK, Verify, Accepts, WellFormed, Worker, Request
<1>5. ASSUME NEW w \in Workers, Abandon(w) PROVE TypeOK'
  BY <1>5, IdleType DEF Abandon, TypeOK
<1> QED BY <1>1, <1>2, <1>3, <1>4, <1>5 DEF Staging

\* So do the requests that move an attachment.
LEMMA FileStagingTypeOK == TypeOK /\ FileStaging => TypeOK'
<1> SUFFICES ASSUME TypeOK, NEW w \in Workers,
                    Reserve(w) \/ Put(w) \/ Finalize(w) \/ InspectObject(w) \/ FinalizeStage(w) \/ RetireGrant(w)
             PROVE  TypeOK' BY DEF FileStaging
<1> USE DEF fenceVars, itemVars, fileVars
<1>1. CASE Reserve(w)
 <2> DEFINE i == req[w].item
 <2>1. i \in Files /\ i \in Items /\ req[w].value \in SealedText /\ activeRotation \in Ops
   BY <1>1 DEF TypeOK, Reserve, Accepts, WellFormed, Items, Worker, Request
 <2>2. PICK k \in Objects :
         /\ grant' = [grant EXCEPT ![i] = [object |-> k, body |-> req[w].value]]
         /\ used' = used \cup {k}
         /\ \/ queued' = queued
            \/ queued' = Queue(queued, activeRotation, {grant[i].object})
         /\ Continue(w, "put", grant'[i]) BY <1>1 DEF Reserve
 <2>3. grant'[i] \in Grant /\ grant' \in [Items -> Grant \cup {None}] BY <2>1, <2>2 DEF TypeOK, Grant
 <2>4. queued' \in [Objects -> Ops \cup {None}] BY <2>1, <2>2, QueueType DEF TypeOK
 <2>5. req[w] # None BY <1>1 DEF Reserve, Accepts
 <2>6. /\ req' \in [Workers -> Request \cup {None}]
       /\ \A x \in Workers : req'[x] # None => WellFormed(req'[x]) BY <2>1, <2>2, <2>3, <2>5, NextKindType
 <2> QED BY <1>1, <2>2, <2>3, <2>4, <2>6 DEF TypeOK, Reserve
<1>2. CASE Put(w)
  BY <1>2 DEF TypeOK, Put, WellFormed, Grant
<1>3. CASE Finalize(w)
  BY <1>3, NextKindType DEF TypeOK, Finalize, Accepts, WellFormed, Items
<1>4. CASE InspectObject(w)
 <2>1. req[w].item \in Files /\ req[w].value \in Grant /\ req[w] # None BY <1>4 DEF TypeOK, InspectObject, WellFormed
 <2>2. PICK k \in {"inspected", "retire"} : Continue(w, k, req[w].value) BY <1>4 DEF InspectObject
 <2>3. /\ req' \in [Workers -> Request \cup {None}]
       /\ \A x \in Workers : req'[x] # None => WellFormed(req'[x]) BY <2>1, <2>2, NextKindType
 <2> QED BY <1>4, <2>3 DEF TypeOK, InspectObject
<1>5. CASE FinalizeStage(w)
 <2>1. req[w].item \in Files /\ req[w].item \in Items /\ req[w].value \in Grant
   BY <1>5 DEF TypeOK, FinalizeStage, Accepts, WellFormed, Items
 <2>2. DOMAIN repl' = Items /\ \A j \in Items : repl'[j] \in Replacement(j) \cup {None}
   BY <1>5, <2>1 DEF TypeOK, FinalizeStage, StageValue, Replacement
 <2>3. Idle(w) BY <1>5 DEF FinalizeStage
 <2> QED BY <1>5, <2>2, <2>3, IdleType DEF TypeOK, FinalizeStage
<1>6. CASE RetireGrant(w)
  BY <1>6, QueueType, IdleType DEF TypeOK, RetireGrant, Accepts, WellFormed, Worker, Request
<1> QED BY <1>1, <1>2, <1>3, <1>4, <1>5, <1>6

\* Activation puts payloads of the right kind into the vault.
LEMMA ActivateTypeOK == ASSUME TypeOK, NEW w \in Workers, Activate(w) PROVE TypeOK'
<1>1. activeRotation \in Ops /\ op[activeRotation] \in OpRecord BY DEF TypeOK, Activate, Accepts, Worker, Request
<1>2. DOMAIN vault' = Items /\ \A i \in Items : vault'[i] \in Payload(i) \cup {Null}
 <2> SUFFICES ASSUME NEW i \in Items PROVE vault'[i] \in Payload(i) \cup {Null} BY DEF Activate
 <2>1. CASE ~InInventory(i) BY <2>1 DEF TypeOK, Activate
 <2>2. CASE InInventory(i) /\ i \in Files
  <3>1. repl[i] # None BY <2>2 DEF Activate, Complete
  <3>2. repl[i] \in Grant BY <2>2, <3>1 DEF TypeOK, Replacement
  <3>3. NewPointer(i) \in Pointer BY <3>2 DEF NewPointer, Grant, Pointer
  <3> QED BY <2>2, <3>3 DEF Activate, Payload
 <2>3. CASE InInventory(i) /\ i \notin Files BY <2>3 DEF TypeOK, Activate, Complete, Replacement
 <2> QED BY <2>1, <2>2, <2>3
<1>3. generation' \in Nat BY <1>1 DEF Activate, TargetGeneration, OpRecord
<1>4. profile' \in [key : VaultKeys, rev : 0..MaxRev] BY <1>1, BoundsAssumption DEF Activate, VaultKeys
<1>5. queued' \in [Objects -> Ops \cup {None}] BY <1>1, QueueType DEF TypeOK, Activate
<1>6. op' \in [Ops -> OpRecord] BY <1>1, RowType DEF TypeOK, Activate, Terminal
<1>7. Idle(w) BY DEF Activate
<1>8. /\ DOMAIN source' = Items /\ \A i \in Items : source'[i] = None
      /\ DOMAIN repl' = Items /\ \A i \in Items : repl'[i] = None
      /\ DOMAIN verified' = Items /\ \A i \in Items : verified'[i] = None
      /\ grant' \in [Items -> {None}] BY DEF Activate, NoItems
<1> QED BY <1>2, <1>3, <1>4, <1>5, <1>6, <1>7, <1>8, IdleType DEF TypeOK, Activate

\* commit() and cleanup keep the state well formed.
LEMMA ActivationTypeOK == TypeOK /\ Activation => TypeOK'
<1> SUFFICES ASSUME TypeOK, Activation PROVE TypeOK' OBVIOUS
<1> USE DEF fenceVars, itemVars, fileVars
<1>1. ASSUME NEW w \in Workers, CommitPrepare(w) PROVE TypeOK'
 <2> DEFINE F == {[file |-> f, from |-> source[f].object, to |-> repl[f]] : f \in {g \in Files : InInventory(g)}}
            r == [kind |-> "commit", op |-> activeRotation, fence |-> op[activeRotation].fence,
                  item |-> None, value |-> Null, files |-> F]
 <2>1. activeRotation \in Ops /\ op[activeRotation].fence \in 0..MaxFence BY <1>1 DEF TypeOK, CommitPrepare, Token, OpRecord
 <2>2. F \in SUBSET [file : Files, from : Objects, to : Grant \cup {None}]
   BY DEF TypeOK, InInventory, Payload, Pointer, Replacement, Items
 <2> HIDE DEF F
 <2>3. r \in Request /\ WellFormed(r) BY <2>1, <2>2 DEF Request, WellFormed
 <2>4. /\ req' \in [Workers -> Request \cup {None}]
       /\ \A x \in Workers : req'[x] # None => WellFormed(req'[x]) BY <1>1, <2>3, NewRequestType DEF CommitPrepare, Send, F
 <2> QED BY <1>1, <2>4 DEF TypeOK, CommitPrepare
<1>2. ASSUME NEW w \in Workers, CommitInspect(w) PROVE TypeOK'
 <2> DEFINE r == [req[w] EXCEPT !.kind = "activate", !.value = Null]
 <2>1. req[w] \in Request BY <1>2 DEF TypeOK, CommitInspect
 <2>2. r \in Request /\ r.kind = "activate" BY <2>1 DEF Request
 <2>3. WellFormed(r) BY <2>2 DEF WellFormed
 <2>4. /\ req' \in [Workers -> Request \cup {None}]
       /\ \A x \in Workers : req'[x] # None => WellFormed(req'[x])
   BY <1>2, <2>2, <2>3, NewRequestType DEF CommitInspect, Continue
 <2> QED BY <1>2, <2>4 DEF TypeOK, CommitInspect
<1>3. ASSUME NEW w \in Workers, Activate(w) PROVE TypeOK' BY <1>3, ActivateTypeOK
<1>4. ASSUME NEW k \in Objects, Drain(k) PROVE TypeOK' BY <1>4 DEF TypeOK, Drain
<1> QED BY <1>1, <1>2, <1>3, <1>4 DEF Activation

\* As does a step in which nothing happens.
LEMMA StutterTypeOK == TypeOK /\ UNCHANGED vars => TypeOK'
BY DEF TypeOK, vars

\* Type correctness: every row, token, request and stored object is one the
\* code can make, for every account, device and tab.
THEOREM TypeCorrect == Spec => []TypeOK
<1>1. TypeOK /\ [Next]_vars => TypeOK'
  BY VaultUseTypeOK, LifecycleTypeOK, StagingTypeOK, FileStagingTypeOK, ActivationTypeOK, StutterTypeOK DEF Next
<1> QED BY <1>1, InitTypeOK, PTL DEF Spec

-----------------------------------------------------------------------------
(* The freeze.                                                             *)

\* Nothing is frozen at first.
LEMMA InitFrozen == Init => Frozen
BY DEF Init, Frozen, NeverStarted, Live

\* A step that leaves the vault, the fence and the inventory alone, and starts
\* or ends no operation, leaves the freeze as it is.
LEMMA FreezeUntouched ==
  ASSUME Frozen, UNCHANGED <<activeRotation, generation, vault, profile, source>>,
         \A o \in Ops : /\ op'[o].phase \in Live <=> op[o].phase \in Live
                        /\ op'[o].profile = op[o].profile
                        /\ op'[o].sourceGeneration = op[o].sourceGeneration,
         activeRotation \in Ops \cup {None}
  PROVE  Frozen'
BY DEF Frozen

\* While nothing is active no operation is live, so the vault may change.
LEMMA FreezeIdle ==
  ASSUME TypeOK, Frozen, activeRotation = None, UNCHANGED <<activeRotation, op>>
  PROVE  Frozen'
BY TokensAssumption DEF Frozen, TypeOK

\* Ending the active operation leaves none.
LEMMA FreezeEnds ==
  ASSUME TypeOK, Frozen, activeRotation \in Ops, activeRotation' = None,
         \A o \in Ops : op'[o].phase = IF o = activeRotation THEN op'[activeRotation].phase ELSE op[o].phase,
         op'[activeRotation].phase \in Terminal
  PROVE  Frozen'
<1>1. \A o \in Ops : op'[o].phase \notin Live BY TokensAssumption DEF Frozen, Live, Terminal
<1> QED BY <1>1 DEF Frozen

\* abort() leaves no freeze behind.
LEMMA AbortFrozen == ASSUME TypeOK, Frozen, activeRotation # None, Abort PROVE Frozen'
<1>1. activeRotation \in Ops /\ activeRotation' = None BY DEF TypeOK, Abort
<1>2. op'[activeRotation].phase = "aborted" BY <1>1 DEF TypeOK, Abort, Aborted, OpRecord
<1>3. \A o \in Ops : o # activeRotation => op'[o] = op[o] BY <1>1 DEF TypeOK, Abort
<1> QED BY <1>1, <1>2, <1>3, FreezeEnds DEF Terminal

\* No step moves the vault under a live operation, or leaves a freeze without one.
LEMMA FrozenStep == TypeOK /\ Frozen /\ [Next]_vars => Frozen'
<1> SUFFICES ASSUME TypeOK, Frozen, [Next]_vars PROVE Frozen' OBVIOUS
<1> USE DEF fenceVars, itemVars, fileVars
<1>1. CASE VaultUse
 <2>1. ASSUME SessionChange \/ \E c \in Clients : ReadVault(c) PROVE Frozen'
   BY <2>1, FreezeUntouched DEF SessionChange, ReadVault, TypeOK
 <2>2. ASSUME \/ \E c \in Clients : Rewrap(c)
              \/ \E c \in Clients : \E i \in Notes : WriteNote(c, i)
              \/ \E c \in Clients : \E i \in Bodies : WriteBody(c, i)
              \/ \E f \in Files : PurgeFile(f)
       PROVE  Frozen' BY <2>2, FreezeIdle DEF Rewrap, WriteNote, WriteBody, VaultWrite, PurgeFile
 <2> QED BY <1>1, <2>1, <2>2 DEF VaultUse
<1>2. CASE Lifecycle
 <2>1. ASSUME NEW w \in Workers, Cancel(w) PROVE Frozen' BY <2>1, AbortFrozen DEF Cancel
 <2>2. CASE Expire BY <2>2, AbortFrozen DEF Expire
 <2>3. ASSUME NEW w \in Workers, NEW o \in Ops, Begin(w, o) PROVE Frozen'
  <3>1. op'[o].phase \in Live /\ op'[o].profile = profile /\ op'[o].sourceGeneration = generation
    BY <2>3 DEF TypeOK, Begin, Live
  <3>2. ASSUME NEW x \in Ops, x # o PROVE op'[x].phase \notin Live
   <4>1. CASE x = activeRotation BY <2>3, <3>2, <4>1 DEF TypeOK, Begin, Aborted, OpRecord, Live
   <4>2. CASE x # activeRotation BY <2>3, <3>2, <4>2 DEF Frozen, Begin
   <4> QED BY <4>1, <4>2
  <3> QED BY <2>3, <3>1, <3>2 DEF Frozen, Begin
 <2>4. ASSUME NEW w \in Workers, Claim(w) PROVE Frozen'
   BY <2>4, FreezeUntouched DEF TypeOK, Claim, Claimed, OpRecord
 <2>5. ASSUME NEW w \in Workers, ConfirmRecovery(w) PROVE Frozen'
  <3>1. activeRotation \in Ops /\ op[activeRotation] \in OpRecord /\ op[activeRotation].phase \in Live
    BY <2>5 DEF TypeOK, ConfirmRecovery, Token, Worker
  <3>2. \A o \in Ops : /\ op'[o].phase \in Live <=> op[o].phase \in Live
                       /\ op'[o].profile = op[o].profile
                       /\ op'[o].sourceGeneration = op[o].sourceGeneration
    BY <2>5, <3>1, PhaseType DEF TypeOK, ConfirmRecovery, OpRecord
  <3> QED BY <2>5, <3>1, <3>2, FreezeUntouched DEF ConfirmRecovery
 <2>6. ASSUME NEW w \in Workers, NEW b \in BOOLEAN, Pause(w, b) PROVE Frozen'
   BY <2>6, FreezeUntouched DEF TypeOK, Pause, OpRecord
 <2>7. ASSUME NEW x \in Ops, Lapse(x) PROVE Frozen'
   BY <2>7, FreezeUntouched DEF TypeOK, Lapse, OpRecord
 <2>8. ASSUME NEW x \in Ops, Clean(x) PROVE Frozen'
   BY <2>8, FreezeUntouched DEF TypeOK, Clean, OpRecord, Live
 <2> QED BY <1>2, <2>1, <2>2, <2>3, <2>4, <2>5, <2>6, <2>7, <2>8 DEF Lifecycle
<1>3. CASE Staging
 <2>1. ASSUME NEW w \in Workers, Verify(w) PROVE Frozen'
   BY <2>1, PhaseType, FreezeUntouched DEF TypeOK, Verify, Accepts, Worker, Request, OpRecord
 <2>2. ASSUME \/ \E w \in Workers : \E i \in Items : \E n \in IVs : Prepare(w, i, n)
              \/ \E w \in Workers : \E i \in Items : ReadBack(w, i)
              \/ \E w \in Workers : Stage(w) \/ Abandon(w)
       PROVE  UNCHANGED <<activeRotation, generation, vault, profile, source, op>> BY <2>2 DEF Prepare, ReadBack, Stage, Abandon
 <2> QED BY <1>3, <2>1, <2>2, FreezeUntouched DEF Staging, TypeOK
<1>4. CASE FileStaging
 <2>1. UNCHANGED <<activeRotation, generation, vault, profile, source, op>>
   BY <1>4 DEF FileStaging, Reserve, Put, Finalize, InspectObject, FinalizeStage, RetireGrant
 <2> QED BY <2>1, FreezeUntouched DEF TypeOK
<1>5. CASE Activation
 <2>1. ASSUME NEW w \in Workers, Activate(w) PROVE Frozen'
  <3>1. activeRotation \in Ops /\ activeRotation' = None BY <2>1 DEF TypeOK, Activate, Accepts, Worker, Request
  <3>2. op'[activeRotation].phase = "committed" BY <2>1, <3>1 DEF TypeOK, Activate, OpRecord
  <3>3. \A o \in Ops : o # activeRotation => op'[o] = op[o] BY <2>1, <3>1 DEF TypeOK, Activate
  <3> QED BY <3>1, <3>2, <3>3, FreezeEnds DEF Terminal
 <2>2. ASSUME (\E w \in Workers : CommitPrepare(w) \/ CommitInspect(w)) \/ (\E k \in Objects : Drain(k))
       PROVE  UNCHANGED <<activeRotation, generation, vault, profile, source, op>>
   BY <2>2 DEF CommitPrepare, CommitInspect, Drain
 <2> QED BY <1>5, <2>1, <2>2, FreezeUntouched DEF Activation, TypeOK
<1>6. CASE UNCHANGED vars BY <1>6 DEF vars, Frozen
<1> QED BY <1>1, <1>2, <1>3, <1>4, <1>5, <1>6 DEF Next

\* The vault is frozen exactly as begin() captured it, by an operation that is
\* still live, whatever tabs, devices and the sweep do meanwhile.
THEOREM FrozenInvariant == Spec => []Frozen
<1>1. TypeOK /\ Frozen /\ [Next]_vars => Frozen' BY FrozenStep
<1> QED BY <1>1, InitFrozen, TypeCorrect, PTL DEF Spec

-----------------------------------------------------------------------------
(* The key can be recovered.                                               *)

\* The first key needs no recovery file of a rotation.
LEMMA InitRecoverable == Init => KeyIsRecoverable
BY DEF Init, KeyIsRecoverable, NeverStarted

\* A step that touches neither the key in use, nor a row's promise, nor what is
\* staged, keeps the key recoverable.
LEMMA RecoverableUntouched ==
  ASSUME KeyIsRecoverable, profile'.key = profile.key,
         \A o \in Ops : op'[o].phase = op[o].phase /\ op'[o].recovery = op[o].recovery,
         profile.key \in VaultKeys, UNCHANGED <<source, repl, verified>>
  PROVE  KeyIsRecoverable'
BY DEF KeyIsRecoverable, Complete, InInventory, VaultKeys

\* Staging never disturbs an operation that is ready: everything it needs is
\* staged, and a staged replacement stands.
LEMMA RecoverableStaged ==
  ASSUME KeyIsRecoverable, UNCHANGED <<profile, op, source, verified>>,
         \A i \in Items : repl[i] # None => repl'[i] = repl[i]
  PROVE  KeyIsRecoverable'
BY DEF KeyIsRecoverable, Complete, InInventory

\* When every live operation ends or starts over, nothing is ready.
LEMMA RecoverableEnds ==
  ASSUME KeyIsRecoverable, profile.key \in VaultKeys, profile' = profile,
         \A o \in Ops : op'[o].phase # "ready",
         \A o \in Ops : op[o].phase \in {"committed", "cleaned"} => op'[o] = op[o]
  PROVE  KeyIsRecoverable'
BY DEF KeyIsRecoverable, VaultKeys

\* Ending an operation leaves none ready.
LEMMA AbortRecoverable ==
  ASSUME TypeOK, Frozen, KeyIsRecoverable, activeRotation # None, Abort
  PROVE  KeyIsRecoverable'
<1>1. activeRotation \in Ops /\ op[activeRotation].phase \in Live BY DEF TypeOK, Frozen
<1>2. op'[activeRotation].phase = "aborted" BY <1>1 DEF TypeOK, Abort, Aborted, OpRecord
<1>3. \A o \in Ops : o # activeRotation => op'[o] = op[o] /\ op[o].phase \notin Live BY <1>1 DEF TypeOK, Abort, Frozen
<1> QED BY <1>1, <1>2, <1>3, RecoverableEnds DEF TypeOK, Abort, Live

\* Recomputing the phase keeps the promise "ready" makes.
LEMMA RecoverableReadied ==
  ASSUME TypeOK, Frozen, KeyIsRecoverable, activeRotation \in Ops, op[activeRotation].phase \in Live,
         UNCHANGED <<profile, source, repl>>,
         NEW r \in BOOLEAN, op'[activeRotation].recovery = r,
         op'[activeRotation].phase = ReadyPhase(verified', r),
         \A o \in Ops : o # activeRotation => op'[o] = op[o]
  PROVE  KeyIsRecoverable'
<1>1. \A o \in Ops : op'[o].phase = "ready" => op'[o].recovery /\ Complete(repl, verified') BY DEF Frozen, ReadyPhase, Live
<1>2. profile.key # Genesis => profile.key \in Ops /\ profile.key # activeRotation
  BY DEF KeyIsRecoverable, TypeOK, Live, VaultKeys
<1>3. Complete(repl, verified)' = Complete(repl, verified') BY DEF Complete, InInventory
<1> QED BY <1>1, <1>2, <1>3 DEF KeyIsRecoverable

\* Only activation changes the key, and it needs the recovery file.
LEMMA RecoverableStep == TypeOK /\ Frozen /\ KeyIsRecoverable /\ [Next]_vars => KeyIsRecoverable'
<1> SUFFICES ASSUME TypeOK, Frozen, KeyIsRecoverable, [Next]_vars PROVE KeyIsRecoverable' OBVIOUS
<1> USE DEF fenceVars, itemVars, fileVars
<1>0. profile.key \in VaultKeys BY DEF TypeOK
<1>1. CASE VaultUse
 <2>1. UNCHANGED <<op, source, repl, verified>> /\ profile'.key = profile.key
   BY <1>1 DEF VaultUse, SessionChange, ReadVault, Rewrap, WriteNote, WriteBody, PurgeFile, TypeOK
 <2> QED BY <1>0, <2>1, RecoverableUntouched
<1>2. CASE Lifecycle
 <2>1. ASSUME NEW w \in Workers, Cancel(w) PROVE KeyIsRecoverable' BY <2>1, AbortRecoverable DEF Cancel
 <2>2. CASE Expire BY <2>2, AbortRecoverable DEF Expire
 <2>3. ASSUME NEW w \in Workers, NEW o \in Ops, Begin(w, o) PROVE KeyIsRecoverable'
  <3>1. op'[o].phase = "migrating" /\ op[o].phase = "none" BY <2>3 DEF TypeOK, Begin
  <3>2. ASSUME NEW x \in Ops, x # o
        PROVE  /\ op'[x].phase # "ready"
               /\ op[x].phase \in {"committed", "cleaned"} => op'[x] = op[x]
   <4>1. CASE x = activeRotation
    <5>1. op'[x].phase = "aborted" BY <2>3, <3>2, <4>1 DEF TypeOK, Begin, Aborted, OpRecord
    <5>2. op[x].phase \in Live BY <4>1, TokensAssumption DEF Frozen
    <5> QED BY <5>1, <5>2 DEF Live
   <4>2. CASE x # activeRotation BY <2>3, <3>2, <4>2 DEF Frozen, Begin, Live
   <4> QED BY <4>1, <4>2
  <3> QED BY <1>0, <2>3, <3>1, <3>2, RecoverableEnds DEF Begin
 <2>4. ASSUME NEW w \in Workers, Claim(w) PROVE KeyIsRecoverable'
   BY <2>4, <1>0, RecoverableUntouched DEF TypeOK, Claim, Claimed, OpRecord
 <2>5. ASSUME NEW w \in Workers, ConfirmRecovery(w) PROVE KeyIsRecoverable'
  <3>1. activeRotation \in Ops /\ op[activeRotation] \in OpRecord /\ op[activeRotation].phase \in Live
    BY <2>5 DEF TypeOK, ConfirmRecovery, Token, Worker
  <3>2. /\ op'[activeRotation].recovery = TRUE
        /\ op'[activeRotation].phase = ReadyPhase(verified', TRUE)
        /\ \A o \in Ops : o # activeRotation => op'[o] = op[o] BY <2>5, <3>1 DEF TypeOK, ConfirmRecovery, OpRecord
  <3> QED BY <2>5, <3>1, <3>2, RecoverableReadied DEF ConfirmRecovery
 <2>6. ASSUME NEW w \in Workers, NEW b \in BOOLEAN, Pause(w, b) PROVE KeyIsRecoverable'
   BY <2>6, <1>0, RecoverableUntouched DEF TypeOK, Pause, OpRecord
 <2>7. ASSUME NEW x \in Ops, Lapse(x) PROVE KeyIsRecoverable'
   BY <2>7, <1>0, RecoverableUntouched DEF TypeOK, Lapse, OpRecord
 <2>8. ASSUME NEW x \in Ops, Clean(x) PROVE KeyIsRecoverable'
   BY <2>8, <1>0 DEF TypeOK, Clean, OpRecord, KeyIsRecoverable, Complete, InInventory, VaultKeys
 <2> QED BY <1>2, <2>1, <2>2, <2>3, <2>4, <2>5, <2>6, <2>7, <2>8 DEF Lifecycle
<1>3. CASE Staging
 <2>1. ASSUME NEW w \in Workers, Verify(w) PROVE KeyIsRecoverable'
   BY <2>1, RecoverableReadied DEF TypeOK, Verify, Accepts, Worker, Request, OpRecord
 <2>2. ASSUME NEW w \in Workers, Stage(w) PROVE KeyIsRecoverable' BY <2>2, RecoverableStaged DEF Stage, StageValue, TypeOK
 <2>3. ASSUME \/ \E w \in Workers : \E i \in Items : \E n \in IVs : Prepare(w, i, n)
              \/ \E w \in Workers : \E i \in Items : ReadBack(w, i)
              \/ \E w \in Workers : Abandon(w)
       PROVE  UNCHANGED <<profile, op, source, repl, verified>> BY <2>3 DEF Prepare, ReadBack, Abandon
 <2> QED BY <1>0, <1>3, <2>1, <2>2, <2>3, RecoverableUntouched DEF Staging
<1>4. CASE FileStaging
 <2>1. ASSUME NEW w \in Workers, FinalizeStage(w) PROVE KeyIsRecoverable'
   BY <2>1, RecoverableStaged DEF FinalizeStage, StageValue, TypeOK
 <2>2. ASSUME NEW w \in Workers, Reserve(w) \/ Put(w) \/ Finalize(w) \/ InspectObject(w) \/ RetireGrant(w)
       PROVE  UNCHANGED <<profile, op, source, repl, verified>> BY <2>2 DEF Reserve, Put, Finalize, InspectObject, RetireGrant
 <2> QED BY <1>0, <1>4, <2>1, <2>2, RecoverableUntouched DEF FileStaging
<1>5. CASE Activation
 <2>1. ASSUME NEW w \in Workers, Activate(w) PROVE KeyIsRecoverable'
  <3> DEFINE o == activeRotation
  <3>1. o \in Ops /\ op[o] \in OpRecord BY <2>1 DEF TypeOK, Activate, Accepts, Worker, Request
  <3>2. op'[o].phase = "committed" /\ op'[o].recovery = op[o].recovery /\ profile'.key = o
    BY <2>1, <3>1 DEF TypeOK, Activate, OpRecord
  <3>3. op[o].recovery BY <2>1 DEF Activate, IsReady
  <3>4. \A x \in Ops : x # o => op'[x] = op[x] /\ op[x].phase \notin Live BY <2>1, <3>1 DEF TypeOK, Activate, Frozen
  <3> QED BY <3>2, <3>3, <3>4 DEF KeyIsRecoverable, Live
 <2>2. ASSUME (\E w \in Workers : CommitPrepare(w) \/ CommitInspect(w)) \/ (\E k \in Objects : Drain(k))
       PROVE  UNCHANGED <<profile, op, source, repl, verified>> BY <2>2 DEF CommitPrepare, CommitInspect, Drain
 <2> QED BY <1>0, <1>5, <2>1, <2>2, RecoverableUntouched DEF Activation
<1>6. CASE UNCHANGED vars BY <1>0, <1>6, RecoverableUntouched DEF vars
<1> QED BY <1>1, <1>2, <1>3, <1>4, <1>5, <1>6 DEF Next

\* The vault key in use is always one whose recovery file the user has confirmed,
\* and "ready" is shown only when everything is staged and read back.
THEOREM KeyRecoverable == Spec => []KeyIsRecoverable
<1>1. TypeOK /\ Frozen /\ KeyIsRecoverable /\ [Next]_vars => KeyIsRecoverable' BY RecoverableStep
<1> QED BY <1>1, InitRecoverable, TypeCorrect, FrozenInvariant, PTL DEF Spec

-----------------------------------------------------------------------------
(* The generation names the key.                                           *)

\* A device never remembers a generation from the future.
SeenIsPast == \A c \in Clients : seen[c] # None => seen[c].generation <= generation

Accepted == AcceptedDevicesHoldTheKey /\ SeenIsPast

\* Whoever holds the current generation holds the current keys: generations only grow.
LEMMA AcceptedInvStep == TypeOK /\ Accepted /\ [Next]_vars => Accepted'
<1> SUFFICES ASSUME TypeOK, Accepted, [Next]_vars PROVE Accepted' OBVIOUS
<1> USE DEF fenceVars, itemVars, fileVars
<1>1. ASSUME UNCHANGED <<generation, seen>>, profile'.key = profile.key,
             \A s \in Wrappers : vault'[s] = vault[s]
      PROVE  Accepted' BY <1>1 DEF Accepted, AcceptedDevicesHoldTheKey, SeenIsPast
<1>2. CASE VaultUse
 <2>1. ASSUME NEW c \in Clients, ReadVault(c) PROVE Accepted'
   BY <2>1 DEF ReadVault, TypeOK, Accepted, AcceptedDevicesHoldTheKey, SeenIsPast
 <2>2. ASSUME NEW c \in Clients, Rewrap(c) PROVE Accepted' BY <1>1, <2>2 DEF Rewrap, TypeOK
 <2>3. ASSUME SessionChange PROVE Accepted' BY <1>1, <2>3 DEF SessionChange
 <2>4. ASSUME NEW c \in Clients, NEW i \in Notes \cup Bodies,
              (i \in Notes /\ WriteNote(c, i)) \/ (i \in Bodies /\ WriteBody(c, i))
       PROVE  Accepted' BY <1>1, <2>4, PartsAssumption DEF WriteNote, WriteBody, TypeOK, Items
 <2>5. ASSUME NEW f \in Files, PurgeFile(f) PROVE Accepted' BY <1>1, <2>5, PartsAssumption DEF PurgeFile, TypeOK, Items
 <2> QED BY <1>2, <2>1, <2>2, <2>3, <2>4, <2>5 DEF VaultUse
<1>3. CASE Lifecycle BY <1>1, <1>3 DEF Lifecycle, Cancel, Claim, ConfirmRecovery, Begin, Pause, Lapse, Clean, Expire, Abort
<1>4. CASE Staging BY <1>1, <1>4 DEF Staging, Prepare, ReadBack, Stage, Verify, Abandon
<1>5. CASE FileStaging BY <1>1, <1>5 DEF FileStaging, Reserve, Put, Finalize, InspectObject, FinalizeStage, RetireGrant
<1>6. CASE Activation
 <2>1. ASSUME NEW w \in Workers, Activate(w) PROVE Accepted'
  <3>1. generation \in Nat /\ generation' = generation + 1 /\ seen' = seen
    BY <2>1 DEF TypeOK, Activate, TargetGeneration, Accepts, Worker
  <3>2. ASSUME NEW c \in Clients, seen[c] # None
        PROVE  seen[c].generation <= generation' /\ seen[c].generation # generation'
    BY <3>2, <3>1 DEF Accepted, SeenIsPast, TypeOK, Opened
  <3> QED BY <3>1, <3>2 DEF Accepted, AcceptedDevicesHoldTheKey, SeenIsPast
 <2> QED BY <1>1, <1>6, <2>1 DEF Activation, CommitPrepare, CommitInspect, Drain
<1>7. CASE UNCHANGED vars BY <1>1, <1>7 DEF vars
<1> QED BY <1>2, <1>3, <1>4, <1>5, <1>6, <1>7 DEF Next

\* A device whose generation the server still accepts holds the vault key and the
\* note keys in use: comparing generations is enough to fence old ciphertext.
THEOREM AcceptedHoldTheKey == Spec => []AcceptedDevicesHoldTheKey
<1>1. Init => Accepted BY DEF Init, Accepted, AcceptedDevicesHoldTheKey, SeenIsPast
<1>2. TypeOK /\ Accepted /\ [Next]_vars => Accepted' BY AcceptedInvStep
<1>3. Accepted => AcceptedDevicesHoldTheKey BY DEF Accepted
<1> QED BY <1>1, <1>2, <1>3, TypeCorrect, PTL DEF Spec

-----------------------------------------------------------------------------
(* What a step may never do.                                               *)

\* A new operation has a new id, and an operation that is over hands nothing on:
\* staging rows change under the same active operation only by a worker's request.
LEMMA BeginIsNew ==
  ASSUME TypeOK, Frozen, NEW w \in Workers, NEW o \in Ops, Begin(w, o)
  PROVE  activeRotation' = o /\ o # activeRotation
BY TokensAssumption DEF Frozen, Begin, Live

\* A request that is accepted carries the token in force.
LEMMA AcceptsHolds ==
  ASSUME NEW w \in Workers, NEW kind, Accepts(w, kind) PROVE Holds(w) /\ activeRotation = req[w].op
BY DEF Accepts, Worker, Holds

\* What starts, pauses or ends an operation neither activates it nor re-stages its items.
LEMMA LifecycleStep ==
  ASSUME TypeOK, Frozen, Lifecycle
  PROVE  /\ UNCHANGED <<generation, vault, profile>>
         /\ activeRotation # None /\ activeRotation' = activeRotation => UNCHANGED <<repl, verified, grant>>
<1> USE DEF fenceVars, itemVars, fileVars
<1>1. CASE \E w \in Workers : Cancel(w) BY <1>1 DEF Cancel, Abort
<1>2. CASE Expire BY <1>2 DEF Expire, Abort
<1>3. CASE \E w \in Workers : \E o \in Ops : Begin(w, o) BY <1>3, BeginIsNew DEF Begin
<1>4. CASE \/ \E w \in Workers : Claim(w) \/ ConfirmRecovery(w)
           \/ \E w \in Workers : \E b \in BOOLEAN : Pause(w, b)
           \/ \E o \in Ops : Lapse(o) \/ Clean(o) BY <1>4 DEF Claim, ConfirmRecovery, Pause, Lapse, Clean
<1> QED BY <1>1, <1>2, <1>3, <1>4 DEF Lifecycle

\* Ordinary use touches no staging row, and payloads only while nothing is active.
LEMMA VaultUseStep ==
  ASSUME VaultUse
  PROVE  /\ UNCHANGED <<generation, activeRotation, repl, verified, grant>>
         /\ activeRotation # None => UNCHANGED <<vault, profile>>
BY DEF VaultUse, SessionChange, ReadVault, Rewrap, WriteNote, WriteBody, PurgeFile, VaultWrite,
       fenceVars, itemVars, fileVars

\* Staging keeps what is already accepted, and touches no payload.
LEMMA StagingStep ==
  ASSUME TypeOK, Staging \/ FileStaging
  PROVE  /\ UNCHANGED <<generation, activeRotation, vault, profile>>
         /\ UNCHANGED <<repl, verified, grant>> \/ \E w \in Workers : Holds(w)
         /\ \A i \in Items : repl[i] # None => repl'[i] = repl[i]
<1> USE DEF fenceVars, itemVars, fileVars
<1>1. ASSUME NEW w \in Workers, Stage(w) \/ FinalizeStage(w)
      PROVE  /\ UNCHANGED <<generation, activeRotation, vault, profile>>
             /\ Holds(w) /\ \A i \in Items : repl[i] # None => repl'[i] = repl[i]
  BY <1>1, AcceptsHolds DEF Stage, FinalizeStage, StageValue, TypeOK
<1>2. ASSUME NEW w \in Workers, Verify(w) \/ Reserve(w) \/ RetireGrant(w)
      PROVE  UNCHANGED <<generation, activeRotation, vault, profile, repl>> /\ Holds(w)
  BY <1>2, AcceptsHolds DEF Verify, Reserve, RetireGrant
<1>3. ASSUME \/ \E w \in Workers : \E i \in Items : \E n \in IVs : Prepare(w, i, n)
             \/ \E w \in Workers : \E i \in Items : ReadBack(w, i)
             \/ \E w \in Workers : Abandon(w) \/ Put(w) \/ Finalize(w) \/ InspectObject(w)
      PROVE  UNCHANGED <<generation, activeRotation, vault, profile, repl, verified, grant>>
  BY <1>3 DEF Prepare, ReadBack, Abandon, Put, Finalize, InspectObject
<1> QED BY <1>1, <1>2, <1>3 DEF Staging, FileStaging

\* Activation needs the token in force and is the one step that changes key and generation.
LEMMA ActivationStep ==
  ASSUME TypeOK, Activation
  PROVE  \/ UNCHANGED <<generation, activeRotation, vault, profile, repl, verified, grant>>
         \/ /\ activeRotation # None /\ activeRotation' = None
            /\ generation' = generation + 1 /\ profile'.key = activeRotation
            /\ \E w \in Workers : Holds(w)
<1> USE DEF fenceVars, itemVars, fileVars
<1>1. ASSUME NEW w \in Workers, Activate(w)
      PROVE  /\ activeRotation # None /\ activeRotation' = None
             /\ generation' = generation + 1 /\ profile'.key = activeRotation
             /\ Holds(w)
  BY <1>1, AcceptsHolds, TokensAssumption DEF Activate, Accepts, Worker, TypeOK, Request, TargetGeneration
<1>2. ASSUME (\E w \in Workers : CommitPrepare(w) \/ CommitInspect(w)) \/ (\E k \in Objects : Drain(k))
      PROVE  UNCHANGED <<generation, activeRotation, vault, profile, repl, verified, grant>>
  BY <1>2 DEF CommitPrepare, CommitInspect, Drain
<1> QED BY <1>1, <1>2 DEF Activation

\* A frozen vault changes only by activation, and an activation changes key,
\* generation, payloads and freeze in one step.
THEOREM Atomic == Spec => ChangesAreAtomic
<1>1. TypeOK /\ Frozen /\ [Next]_vars => [AtomicStep]_vars
 <2> SUFFICES ASSUME TypeOK, Frozen, Next PROVE AtomicStep OBVIOUS
 <2>1. generation \in Nat BY DEF TypeOK
 <2>2. CASE VaultUse \/ Lifecycle \/ Staging \/ FileStaging
   BY <2>2, VaultUseStep, LifecycleStep, StagingStep DEF AtomicStep, Activates
 <2>3. CASE Activation BY <2>1, <2>3, ActivationStep DEF AtomicStep, Activates
 <2> QED BY <2>2, <2>3 DEF Next
<1> QED BY <1>1, TypeCorrect, FrozenInvariant, PTL DEF Spec, ChangesAreAtomic

\* Staging rows change, and an operation is activated, only by a request that
\* carries the token in force.
THEOREM WorkerWrites == Spec => OnlyTheWorkerWrites
<1>1. TypeOK /\ Frozen /\ [Next]_vars => [WorkersStep]_vars
 <2> SUFFICES ASSUME TypeOK, Frozen, Next PROVE WorkersStep OBVIOUS
 <2>1. CASE VaultUse \/ Lifecycle \/ Staging \/ FileStaging
   BY <2>1, VaultUseStep, LifecycleStep, StagingStep DEF WorkersStep, Activates
 <2>2. CASE Activation BY <2>2, ActivationStep DEF WorkersStep, Activates
 <2> QED BY <2>1, <2>2 DEF Next
<1> QED BY <1>1, TypeCorrect, FrozenInvariant, PTL DEF Spec, OnlyTheWorkerWrites

\* The first accepted replacement of an item stands until its operation ends.
THEOREM ReplacementStands == Spec => AcceptedStands
<1>1. TypeOK /\ Frozen /\ [Next]_vars => [AcceptedStep]_vars
 <2> SUFFICES ASSUME TypeOK, Frozen, Next PROVE AcceptedStep OBVIOUS
 <2>1. CASE VaultUse \/ Lifecycle BY <2>1, VaultUseStep, LifecycleStep DEF AcceptedStep
 <2>2. CASE Staging \/ FileStaging BY <2>2, StagingStep DEF AcceptedStep
 <2>3. CASE Activation BY <2>3, ActivationStep DEF AcceptedStep
 <2> QED BY <2>1, <2>2, <2>3 DEF Next
<1> QED BY <1>1, TypeCorrect, FrozenInvariant, PTL DEF Spec, AcceptedStands

-----------------------------------------------------------------------------
(* The inductive invariant.                                                *)

\* No two attachments, and no attachment and no grant, share an object.
ObjectsHaveOneUse ==
  /\ \A f, g \in Files : vault[f] # Null /\ vault[g] # Null /\ vault[f].object = vault[g].object => f = g
  /\ \A i, j \in Items : grant[i] # None /\ grant[j] # None /\ grant[i].object = grant[j].object => i = j
  /\ \A f \in Files, i \in Items : vault[f] # Null /\ grant[i] # None => vault[f].object # grant[i].object

\* The requests that carry a grant.
Carries(r) == r # None /\ r.kind \in {"put", "finalize", "inspected", "retire"}

\* What the service ever points at was allocated before, so a new key is new.
ObjectsWereAllocated ==
  /\ \A f \in Files : vault[f] # Null => vault[f].object \in used
  /\ \A i \in Items : grant[i] # None => grant[i].object \in used
  /\ \A k \in Objects : queued[k] # None => k \in used
  /\ \A w \in Workers : Carries(req[w]) => req[w].value.object \in used

\* Cleanup has neither the objects of attachments nor those of grants in its queue.
NothingNeededIsQueued ==
  /\ \A f \in Files : vault[f] # Null => queued[vault[f].object] = None
  /\ \A i \in Items : grant[i] # None => queued[grant[i].object] = None

ObjectsInv == ObjectsHaveOneUse /\ ObjectsWereAllocated /\ NothingNeededIsQueued

\* An accepted attachment is the one granted, and its bytes are there; so are the
\* bytes of a grant a request has inspected.
StagedFilesAreThere ==
  /\ \A f \in Files : repl[f] # None => repl[f] = grant[f] /\ store[repl[f].object] = repl[f].body
  /\ \A w \in Workers : req[w] # None /\ req[w].kind = "inspected" /\ grant[req[w].item] = req[w].value
                          => store[req[w].value.object] = req[w].value.body

\* What item i says before the activation.
SourceText(i) == IF i \in Files THEN store[source[i].object].text ELSE source[i].text

\* c is item i again, under the keys of the active operation.
Fits(i, c) ==
  /\ source[i] \notin {Null, None} /\ WrapperStaged(i)
  /\ c.under = IF i \in SealItems THEN repl[WrapperOf[i]].text ELSE activeRotation
  /\ i \in Wrappers \/ c.text = SourceText(i)

\* Everything staged fits, and so does everything on its way to be staged.
StagedFits ==
  /\ activeRotation = None => \A i \in Items : repl[i] = None /\ grant[i] = None
  /\ \A i \in Items \ Files : repl[i] # None => (source[i] = Null <=> repl[i] = Null)
  /\ \A i \in Items \ Files : repl[i] \notin {Null, None} => Fits(i, repl[i])
  /\ \A i \in Items : grant[i] # None => i \in Files /\ Fits(i, grant[i].body)
RequestsFit ==
  \A w \in Workers : req[w] # None =>
    /\ op[req[w].op].phase # "none"
    /\ req[w].op = activeRotation /\ req[w].kind \in {"stage", "reserve"} /\ req[w].value # Null
         => Fits(req[w].item, req[w].value)

\* A note key is in a Seal's scope only where there is one, and a device that
\* holds the keys in use knows which Seals have none.
SealsHaveKeys ==
  /\ \A f \in Files : vault[f] # Null /\ vault[f].scope = "seal" => f \in SealFiles /\ vault[WrapperOf[f]] # Null
  /\ \A c \in Clients, s \in Wrappers :
       seen[c] # None /\ seen[c].generation = generation /\ vault[s] = Null => seen[c].nek[s] = None

ContentsInv == StagedFits /\ RequestsFit /\ SealsHaveKeys /\ VaultOpens

\* Earlier invariants the new ones rest on.
Before == TypeOK /\ Frozen /\ Accepted /\ KeyIsRecoverable
VaultInv == ObjectsInv /\ StagedFilesAreThere /\ ContentsInv

-----------------------------------------------------------------------------
(* Lemmas about the model's operators.                                      *)

\* A key is in the queue after more keys were queued if it was, or is one of them.
LEMMA QueuedThen ==
  ASSUME NEW q \in [Objects -> Ops \cup {None}], NEW o, NEW K, NEW k \in Objects
  PROVE  /\ k \notin K => Queue(q, o, K)[k] = q[k]
         /\ Queue(q, o, K)[k] # None => q[k] # None \/ k \in K
BY DEF Queue

\* Pointers, grants and carried grants name objects.
LEMMA NamesObjects ==
  ASSUME TypeOK
  PROVE  /\ \A f \in Files : vault[f] # Null => vault[f] \in Pointer /\ vault[f].object \in Objects
         /\ \A f \in Files : repl[f] # None => repl[f] \in Grant /\ repl[f].object \in Objects /\ repl[f].body \in SealedText
         /\ \A i \in Items : grant[i] # None => grant[i] \in Grant /\ grant[i].object \in Objects /\ grant[i].body \in SealedText
         /\ \A w \in Workers : Carries(req[w]) =>
              req[w].value \in Grant /\ req[w].value.object \in Objects /\ req[w].value.body \in SealedText /\ req[w].item \in Files
<1>1. Files \subseteq Items BY DEF Items
<1>2. \A g \in Grant : g.object \in Objects /\ g.body \in SealedText BY DEF Grant
<1>3. \A p \in Pointer : p.object \in Objects BY DEF Pointer
<1>4. \A f \in Files : (vault[f] # Null => vault[f] \in Pointer) /\ (repl[f] # None => repl[f] \in Grant)
  BY <1>1 DEF TypeOK, Payload, Replacement
<1>5. \A w \in Workers : Carries(req[w]) => req[w].value \in Grant /\ req[w].item \in Files BY DEF TypeOK, WellFormed, Carries
<1>6. \A i \in Items : grant[i] # None => grant[i] \in Grant BY DEF TypeOK
<1> QED BY <1>2, <1>3, <1>4, <1>5, <1>6

\* A request that is accepted is one of the active operation.
LEMMA AcceptedIsActive ==
  ASSUME TypeOK, NEW w \in Workers, NEW k, Accepts(w, k)
  PROVE  /\ activeRotation \in Ops /\ activeRotation # None /\ req[w].op = activeRotation
         /\ req[w] # None /\ req[w].kind = k /\ op[activeRotation].phase \in Live
BY TokensAssumption DEF TypeOK, Accepts, Worker, Request

\* A commit leaves the other tabs' requests alone.
LEMMA CommitsAreSent ==
  ASSUME TypeOK, NEW w \in Workers, CommitPrepare(w) \/ CommitInspect(w)
  PROVE  req'[w].kind \in {"commit", "activate"} /\ \A x \in Workers : x # w => req'[x] = req[x]
<1>1. CASE CommitPrepare(w) BY <1>1 DEF CommitPrepare, Send, TypeOK
<1>2. CASE CommitInspect(w)
  BY <1>2 DEF CommitInspect, TypeOK, Continue, Request
<1> QED BY <1>1, <1>2

\* While an operation is active, what it captured is the vault.
LEMMA SourceIsVault == ASSUME Frozen, TypeOK, activeRotation # None PROVE source = vault /\ activeRotation \in Ops
BY DEF Frozen, TypeOK

-----------------------------------------------------------------------------
(* Objects have one use and cleanup leaves them alone.                      *)

\* The first attachments have an object each.
LEMMA InitObjects == Init => ObjectsInv
<1> SUFFICES ASSUME Init PROVE ObjectsInv OBVIOUS
<1>1. \A f \in Files : vault[f] # Null => vault[f].object = FirstObject[f] /\ FirstObject[f] \in used
  BY PartsAssumption DEF Init, FirstPayload, Items
<1>2. \A i \in Items : grant[i] = None BY DEF Init, NoItems
<1>3. \A k \in Objects : queued[k] = None BY DEF Init
<1>4. \A w \in Workers : req[w] = None BY DEF Init
<1>5. ObjectsHaveOneUse BY <1>1, <1>2, PartsAssumption DEF ObjectsHaveOneUse
<1>6. ObjectsWereAllocated BY <1>1, <1>2, <1>3, <1>4 DEF ObjectsWereAllocated, Carries
<1>7. NothingNeededIsQueued BY <1>1, <1>2, <1>3, PartsAssumption DEF NothingNeededIsQueued
<1> QED BY <1>5, <1>6, <1>7 DEF ObjectsInv

\* A step that grants nothing and queues nothing keeps objects apart.
LEMMA ObjectsUntouched ==
  ASSUME ObjectsInv, UNCHANGED <<grant, queued, used>>, \A f \in Files : vault'[f] \in {vault[f], Null},
         \A w \in Workers : Carries(req'[w]) => req'[w].value.object \in used
  PROVE  ObjectsInv'
BY DEF ObjectsInv, ObjectsHaveOneUse, ObjectsWereAllocated, NothingNeededIsQueued

\* So does dropping the staging rows, whose objects are then in the queue.
LEMMA ObjectsDropped ==
  ASSUME TypeOK, ObjectsInv, DropStaging, UNCHANGED <<vault, used, req>>
  PROVE  ObjectsInv'
<1>1. \A i \in Items : grant'[i] = None BY DEF DropStaging, NoItems
<1>2. \A k \in Objects : /\ k \notin Granted => queued'[k] = queued[k]
                         /\ queued'[k] # None => queued[k] # None \/ k \in Granted BY QueuedThen DEF DropStaging, TypeOK
<1>3. \A k \in Granted : k \in used BY DEF Granted, ObjectsInv, ObjectsWereAllocated
<1>4. \A f \in Files : vault[f] # Null => vault[f].object \in Objects /\ vault[f].object \notin Granted
  BY NamesObjects DEF Granted, ObjectsInv, ObjectsHaveOneUse
<1>5. ObjectsHaveOneUse' BY <1>1 DEF ObjectsInv, ObjectsHaveOneUse
<1>6. ObjectsWereAllocated' BY <1>1, <1>2, <1>3 DEF ObjectsInv, ObjectsWereAllocated
<1>7. NothingNeededIsQueued' BY <1>1, <1>2, <1>4 DEF ObjectsInv, NothingNeededIsQueued
<1> QED BY <1>5, <1>6, <1>7 DEF ObjectsInv

\* A grant is a key nobody has, or the one the item has; the one it had is queued.
LEMMA ObjectsReserved ==
  ASSUME TypeOK, ObjectsInv, NEW w \in Workers, Reserve(w)
  PROVE  ObjectsInv'
<1> DEFINE i == req[w].item
<1>0. i \in Files /\ i \in Items /\ req[w].value \in SealedText /\ req[w] # None
  BY DEF TypeOK, Reserve, Accepts, WellFormed, Items
<1> DEFINE same == grant[i] # None /\ grant[i].body = req[w].value
<1>1. PICK k \in Objects :
        /\ IF same THEN k = grant[i].object ELSE k \notin used
        /\ grant' = [grant EXCEPT ![i] = [object |-> k, body |-> req[w].value]]
        /\ used' = used \cup {k}
        /\ queued' = IF same \/ grant[i] = None THEN queued
                     ELSE Queue(queued, activeRotation, {grant[i].object})
        /\ Continue(w, "put", grant'[i]) BY DEF Reserve
<1>2. vault' = vault BY DEF Reserve
<1>3. grant'[i].object = k /\ \A j \in Items : j # i => grant'[j] = grant[j] BY <1>0, <1>1 DEF TypeOK
<1>4. \A x \in Workers : Carries(req'[x]) => req'[x].value.object = k \/ (Carries(req[x]) /\ req'[x].value = req[x].value)
  BY <1>1, <1>0, <1>3 DEF Continue, TypeOK, Request
<1>5. \A m \in Objects : queued'[m] # None => queued[m] # None \/ (grant[i] # None /\ ~same /\ m = grant[i].object)
  BY <1>1, QueuedThen DEF TypeOK
<1> HIDE DEF i
<1>6. CASE same
 <2>1. \A j \in Items : (grant'[j] # None <=> grant[j] # None) /\ (grant[j] # None => grant'[j].object = grant[j].object)
   BY <1>0, <1>1, <1>3, <1>6, NamesObjects, TokensAssumption DEF Grant
 <2>2. queued' = queued /\ used \subseteq used' BY <1>1, <1>6
 <2>3. k \in used BY <1>0, <1>1, <1>6 DEF ObjectsInv, ObjectsWereAllocated
 <2> QED BY <1>2, <1>4, <2>1, <2>2, <2>3 DEF ObjectsInv, ObjectsHaveOneUse, ObjectsWereAllocated, NothingNeededIsQueued
<1>7. CASE ~same
 <2>1. k \notin used /\ used' = used \cup {k} BY <1>1, <1>7
 <2>2. ObjectsHaveOneUse' BY <1>2, <1>3, <2>1 DEF ObjectsInv, ObjectsHaveOneUse, ObjectsWereAllocated
 <2>3. ObjectsWereAllocated' BY <1>0, <1>2, <1>3, <1>4, <1>5, <2>1 DEF ObjectsInv, ObjectsWereAllocated
 <2>4. NothingNeededIsQueued'
   BY <1>0, <1>5, NamesObjects, <2>1, <1>2, <1>3 DEF ObjectsInv, ObjectsHaveOneUse, NothingNeededIsQueued, ObjectsWereAllocated
 <2> QED BY <2>2, <2>3, <2>4 DEF ObjectsInv
<1> QED BY <1>6, <1>7

\* A retired grant's object is queued, and it was its grant's alone.
LEMMA ObjectsRetired ==
  ASSUME TypeOK, ObjectsInv, NEW w \in Workers, RetireGrant(w)
  PROVE  ObjectsInv'
<1> DEFINE i == req[w].item
<1>0. i \in Items /\ grant[i] # None BY DEF TypeOK, RetireGrant, Accepts, WellFormed, Items, Retirable
<1>1. grant'[i] = None /\ \A j \in Items : j # i => grant'[j] = grant[j] BY <1>0 DEF RetireGrant, TypeOK
<1>2. \A m \in Objects : queued'[m] # None => queued[m] # None \/ m = grant[i].object
  BY <1>0, QueuedThen DEF TypeOK, RetireGrant
<1>3. vault' = vault /\ used' = used BY DEF RetireGrant
<1>4. \A x \in Workers : Carries(req'[x]) => Carries(req[x]) /\ req'[x] = req[x] BY DEF RetireGrant, Idle, Carries, TypeOK
<1> HIDE DEF i
<1>5. ObjectsHaveOneUse' BY <1>1, <1>3 DEF ObjectsInv, ObjectsHaveOneUse
<1>6. ObjectsWereAllocated' BY <1>0, <1>1, <1>2, <1>3, <1>4 DEF ObjectsInv, ObjectsWereAllocated
<1>7. NothingNeededIsQueued' BY <1>0, <1>1, <1>2, <1>3, NamesObjects DEF ObjectsInv, ObjectsHaveOneUse, NothingNeededIsQueued
<1> QED BY <1>5, <1>6, <1>7 DEF ObjectsInv

\* Activation turns the accepted grants into pointers and queues the old objects.
LEMMA ObjectsActivated ==
  ASSUME TypeOK, Frozen, ObjectsInv, StagedFilesAreThere, NEW w \in Workers, Activate(w)
  PROVE  ObjectsInv'
<1>0. source = vault BY DEF Activate
<1>1. \A f \in Files : vault'[f] # Null => vault[f] # Null /\ grant[f] # None /\ vault'[f].object = grant[f].object
 <2> SUFFICES ASSUME NEW f \in Files, vault'[f] # Null
              PROVE  vault[f] # Null /\ grant[f] # None /\ vault'[f].object = grant[f].object OBVIOUS
 <2>1. f \in Items BY DEF Items
 <2>2. vault[f] # None BY <2>1, NamesObjects, TokensAssumption DEF TypeOK, Payload
 <2>3. vault[f] # Null /\ InInventory(f) /\ vault'[f] = NewPointer(f) BY <1>0, <2>1, <2>2 DEF Activate, InInventory
 <2>4. repl[f] # None BY <2>1, <2>3 DEF Activate, Complete
 <2>5. repl[f] = grant[f] BY <2>4 DEF StagedFilesAreThere
 <2> QED BY <2>3, <2>4, <2>5 DEF NewPointer
<1>2. \A i \in Items : grant'[i] = None BY DEF Activate, NoItems
<1>3. \A m \in Objects : queued'[m] # None => queued[m] # None \/ \E f \in Files : vault[f] # Null /\ m = vault[f].object
  BY <1>0, QueuedThen DEF Activate, TypeOK, InInventory
<1>4. used' = used /\ \A x \in Workers : Carries(req'[x]) => Carries(req[x]) /\ req'[x] = req[x]
  BY DEF Activate, Idle, Carries, TypeOK
<1>5. Files \subseteq Items BY DEF Items
<1>6. ObjectsHaveOneUse' BY <1>1, <1>2, <1>5 DEF ObjectsInv, ObjectsHaveOneUse
<1>7. ObjectsWereAllocated' BY <1>1, <1>2, <1>3, <1>4, <1>5 DEF ObjectsInv, ObjectsWereAllocated
<1>8. NothingNeededIsQueued' BY <1>1, <1>2, <1>3, <1>5, NamesObjects DEF ObjectsInv, ObjectsHaveOneUse, NothingNeededIsQueued
<1> QED BY <1>6, <1>7, <1>8 DEF ObjectsInv

\* Objects have one use and are not queued, whatever step is taken.
LEMMA ObjectsStep == ASSUME TypeOK, Frozen, ObjectsInv, StagedFilesAreThere, [Next]_vars PROVE ObjectsInv'
<1> USE DEF fenceVars, itemVars, fileVars
<1>0. \A w \in Workers : Carries(req[w]) => req[w].value.object \in used BY DEF ObjectsInv, ObjectsWereAllocated
<1>1. CASE VaultUse
 <2>1. UNCHANGED <<grant, queued, used, req>>
   BY <1>1 DEF VaultUse, SessionChange, ReadVault, Rewrap, WriteNote, WriteBody, PurgeFile
 <2>2. \A f \in Files : vault'[f] \in {vault[f], Null}
   BY <1>1, PartsAssumption DEF VaultUse, SessionChange, ReadVault, Rewrap, WriteNote, WriteBody, PurgeFile, TypeOK, Items
 <2> QED BY <1>0, <2>1, <2>2, ObjectsUntouched
<1>2. CASE Lifecycle
 <2>1. CASE \/ \E w \in Workers : Cancel(w) \/ \E o \in Ops : Begin(w, o)
            \/ Expire BY <2>1, ObjectsDropped DEF Cancel, Begin, Expire, Abort
 <2>2. CASE \/ \E w \in Workers : Claim(w) \/ ConfirmRecovery(w) \/ \E b \in BOOLEAN : Pause(w, b)
            \/ \E o \in Ops : Lapse(o) \/ Clean(o)
   BY <1>0, <2>2, ObjectsUntouched DEF Claim, ConfirmRecovery, Pause, Lapse, Clean
 <2> QED BY <1>2, <2>1, <2>2 DEF Lifecycle
<1>3. CASE Staging
 <2>1. UNCHANGED <<grant, queued, used, vault>> BY <1>3 DEF Staging, Prepare, ReadBack, Stage, Verify, Abandon
 <2>2. \A x \in Workers : Carries(req'[x]) => Carries(req[x]) /\ req'[x] = req[x]
   BY <1>3 DEF Staging, Prepare, ReadBack, Stage, Verify, Abandon, Send, Idle, Carries, TypeOK
 <2> QED BY <1>0, <2>1, <2>2, ObjectsUntouched
<1>4. CASE FileStaging
 <2> SUFFICES ASSUME NEW w \in Workers,
                     Reserve(w) \/ Put(w) \/ Finalize(w) \/ InspectObject(w) \/ FinalizeStage(w) \/ RetireGrant(w)
              PROVE  ObjectsInv' BY <1>4 DEF FileStaging
 <2>1. CASE Reserve(w) BY <2>1, ObjectsReserved
 <2>2. CASE RetireGrant(w) BY <2>2, ObjectsRetired
 <2>3. CASE Put(w) \/ FinalizeStage(w)
   BY <2>3, <1>0, ObjectsUntouched DEF Put, FinalizeStage, Idle, Carries, TypeOK
 <2>4. CASE Finalize(w) \/ InspectObject(w)
  <3>1. req[w] \in Request /\ \A x \in Workers : x # w => req'[x] = req[x]
    BY <2>4 DEF Finalize, Accepts, InspectObject, Continue, TypeOK
  <3>2. req'[w].value.object \in used
   <4>1. CASE Finalize(w)
    <5>1. req'[w].value = grant[req[w].item] /\ grant[req[w].item] # None /\ req[w].item \in Items
      BY <3>1, <4>1 DEF Finalize, Accepts, Continue, TypeOK, Request, WellFormed, Items
    <5> QED BY <5>1 DEF ObjectsInv, ObjectsWereAllocated
   <4>2. CASE InspectObject(w)
     BY <3>1, <4>2, <1>0 DEF InspectObject, Continue, TypeOK, Request, Carries
   <4> QED BY <2>4, <4>1, <4>2
  <3> QED BY <1>0, <2>4, <3>1, <3>2, ObjectsUntouched DEF Finalize, InspectObject
 <2> QED BY <2>1, <2>2, <2>3, <2>4
<1>5. CASE Activation
 <2>1. ASSUME NEW w \in Workers, Activate(w) PROVE ObjectsInv' BY <2>1, ObjectsActivated
 <2>2. ASSUME NEW w \in Workers, CommitPrepare(w) \/ CommitInspect(w) PROVE ObjectsInv'
   BY <2>2, CommitsAreSent, <1>0, ObjectsUntouched DEF Carries, CommitPrepare, CommitInspect
 <2>3. ASSUME NEW k \in Objects, Drain(k) PROVE ObjectsInv'
   BY <2>3, NamesObjects DEF Drain, TypeOK, ObjectsInv, ObjectsHaveOneUse, ObjectsWereAllocated, NothingNeededIsQueued
 <2> QED BY <1>5, <2>1, <2>2, <2>3 DEF Activation
<1>6. CASE UNCHANGED vars BY <1>0, <1>6, ObjectsUntouched DEF vars
<1> QED BY <1>1, <1>2, <1>3, <1>4, <1>5, <1>6 DEF Next

-----------------------------------------------------------------------------
(* Accepted attachments are in storage.                                     *)

\* Nothing is staged and nothing is granted: nothing has to be there.
LEMMA FilesGone ==
  ASSUME TypeOK', \A f \in Files : repl'[f] = None, \A i \in Items : grant'[i] = None
  PROVE  StagedFilesAreThere'
<1>1. \A w \in Workers : req'[w] # None /\ req'[w].kind = "inspected" => req'[w].value \in Grant /\ req'[w].item \in Items
  BY DEF TypeOK, WellFormed, Items
<1>2. None \notin Grant BY TokensAssumption
<1> QED BY <1>1, <1>2 DEF StagedFilesAreThere

\* Whatever step is taken, an accepted attachment stays in storage.
LEMMA FilesStep ==
  ASSUME TypeOK, TypeOK', Frozen, ObjectsInv, StagedFilesAreThere, [Next]_vars
  PROVE  StagedFilesAreThere'
<1> USE DEF fenceVars, itemVars, fileVars
<1>a. Files \subseteq Items /\ Wrappers \cap Files = {} /\ Notes \cap Files = {} /\ Bodies \cap Files = {}
  BY PartsAssumption DEF Items
<1>b. \A w \in Workers : req[w] # None /\ req[w].kind = "inspected" => Carries(req[w]) BY DEF Carries
<1>c. \A i \in Items : grant[i] # None => grant[i].object \in Objects /\ grant[i].body \in SealedText BY NamesObjects
<1>d. None \notin SealedText /\ None \notin Grant BY TokensAssumption DEF Cipher
\* Steps that leave what is staged, granted and stored alone.
<1>1. ASSUME UNCHANGED <<repl, grant, store>>,
             \A w \in Workers : req'[w] # None /\ req'[w].kind = "inspected" => req'[w] = req[w]
      PROVE  StagedFilesAreThere' BY <1>1 DEF StagedFilesAreThere
<1>2. CASE VaultUse
 <2>1. ASSUME NEW f \in Files, PurgeFile(f) PROVE StagedFilesAreThere'
   BY <2>1, <1>c, <1>a, <1>b, NamesObjects, <1>d DEF PurgeFile, TypeOK, ObjectsInv, ObjectsHaveOneUse, StagedFilesAreThere
 <2>2. ASSUME SessionChange \/ (\E c \in Clients : ReadVault(c) \/ Rewrap(c) \/ (\E i \in Notes : WriteNote(c, i)) \/ (\E i \in Bodies : WriteBody(c, i)))
       PROVE  StagedFilesAreThere' BY <1>1, <2>2 DEF SessionChange, ReadVault, Rewrap, WriteNote, WriteBody
 <2> QED BY <1>2, <2>1, <2>2 DEF VaultUse
<1>3. CASE Lifecycle
 <2>1. CASE (\E w \in Workers : Cancel(w) \/ \E o \in Ops : Begin(w, o)) \/ Expire
   BY <2>1, <1>a, FilesGone DEF Cancel, Begin, Expire, Abort, DropStaging, NoItems
 <2>2. CASE \/ \E w \in Workers : Claim(w) \/ ConfirmRecovery(w) \/ \E b \in BOOLEAN : Pause(w, b)
            \/ \E o \in Ops : Lapse(o) \/ Clean(o) BY <1>1, <2>2 DEF Claim, ConfirmRecovery, Pause, Lapse, Clean
 <2> QED BY <1>3, <2>1, <2>2 DEF Lifecycle
<1>4. CASE Staging
 <2>1. \A w \in Workers : req'[w] # None /\ req'[w].kind = "inspected" => req'[w] = req[w]
   BY <1>4 DEF Staging, Prepare, ReadBack, Stage, Verify, Abandon, Send, Idle, TypeOK
 <2>2. UNCHANGED <<grant, store>> BY <1>4 DEF Staging, Prepare, ReadBack, Stage, Verify, Abandon
 <2>3. \A f \in Files : repl'[f] = repl[f]
   BY <1>a, <1>4 DEF Staging, Prepare, ReadBack, Stage, Verify, Abandon, StageValue, TypeOK
 <2> QED BY <2>1, <2>2, <2>3 DEF StagedFilesAreThere
<1>5. CASE FileStaging
 <2> SUFFICES ASSUME NEW w \in Workers,
                     Reserve(w) \/ Put(w) \/ Finalize(w) \/ InspectObject(w) \/ FinalizeStage(w) \/ RetireGrant(w)
              PROVE  StagedFilesAreThere' BY <1>5 DEF FileStaging
 <2> DEFINE i == req[w].item
 <2>1. CASE Reserve(w)
  <3>1. i \in Files /\ req[w].value \in SealedText /\ repl[i] = None /\ req[w] # None
    BY <2>1 DEF TypeOK, Reserve, Accepts, WellFormed
  <3>2. PICK k \in Objects :
          /\ IF grant[i] # None /\ grant[i].body = req[w].value THEN k = grant[i].object ELSE k \notin used
          /\ grant' = [grant EXCEPT ![i] = [object |-> k, body |-> req[w].value]]
          /\ Continue(w, "put", grant'[i]) BY <2>1 DEF Reserve
  <3>3. UNCHANGED <<repl, store>> BY <2>1 DEF Reserve
  <3>4. grant'[i] = [object |-> k, body |-> req[w].value] /\ \A j \in Items : j # i => grant'[j] = grant[j]
    BY <1>a, <3>1, <3>2 DEF TypeOK
  <3>5. \A x \in Workers : req'[x] # None /\ req'[x].kind = "inspected" => req'[x] = req[x]
    BY <3>2, <3>1 DEF Continue, TypeOK, Request
  <3>6. \A x \in Workers : Carries(req[x]) => req[x].value.object \in used BY DEF ObjectsInv, ObjectsWereAllocated
  <3>7. \A f \in Files : repl[f] # None => repl[f] = grant'[f] /\ store[repl[f].object] = repl[f].body
    BY <1>a, <3>1, <3>4 DEF StagedFilesAreThere
  <3>8. ASSUME NEW x \in Workers, req[x] # None, req[x].kind = "inspected", grant'[req[x].item] = req[x].value
        PROVE  store[req[x].value.object] = req[x].value.body
   <4>1. Carries(req[x]) /\ req[x].item \in Items BY <1>a, <1>b, <3>8, NamesObjects
   <4>2. CASE req[x].item # i BY <3>4, <3>8, <4>1, <4>2 DEF StagedFilesAreThere
   <4>3. CASE req[x].item = i
    <5>1. req[x].value.object = k /\ k \in used /\ req[x].value.body = req[w].value BY <3>4, <3>6, <3>8, <4>1, <4>3
    <5>2. grant[i] # None /\ grant[i].body = req[w].value /\ grant[i].object = k BY <3>2, <5>1
    <5>3. grant[i] = req[x].value BY <1>a, <3>1, <4>1, <5>1, <5>2, NamesObjects DEF Grant
    <5> QED BY <3>8, <4>3, <5>3 DEF StagedFilesAreThere
   <4> QED BY <4>2, <4>3
  <3> QED BY <3>3, <3>5, <3>7, <3>8 DEF StagedFilesAreThere
 <2>2. CASE Put(w)
   BY <2>2, NamesObjects, <1>d, <1>b DEF Put, Carries, TypeOK, StagedFilesAreThere
 <2>3. CASE Finalize(w)
   BY <2>3, <1>1 DEF Finalize, Accepts, Continue, TypeOK, Request
 <2>4. CASE InspectObject(w)
  <3>1. PICK outcome \in {"inspected", "retire"} :
          /\ outcome = "inspected" => store[req[w].value.object] = req[w].value.body
          /\ Continue(w, outcome, req[w].value) BY <2>4 DEF InspectObject
  <3>2. req[w] # None /\ UNCHANGED <<repl, grant, store>> BY <2>4 DEF InspectObject
  <3>3. /\ req'[w].kind = outcome /\ req'[w].value = req[w].value
        /\ \A x \in Workers : x # w => req'[x] = req[x] BY <3>1, <3>2 DEF Continue, TypeOK, Request
  <3> QED BY <3>1, <3>2, <3>3 DEF StagedFilesAreThere
 <2>5. CASE FinalizeStage(w)
   BY <2>5, <1>a DEF FinalizeStage, Accepts, TypeOK, WellFormed, StageValue, Idle, StagedFilesAreThere
 <2>6. CASE RetireGrant(w)
   BY <2>6, <1>b, <1>d, NamesObjects, <1>a DEF RetireGrant, Accepts, TypeOK, WellFormed, Retirable, Idle, StagedFilesAreThere
 <2> QED BY <2>1, <2>2, <2>3, <2>4, <2>5, <2>6
<1>6. CASE Activation
 <2>1. ASSUME NEW w \in Workers, Activate(w) PROVE StagedFilesAreThere'
   BY <1>a, <2>1, FilesGone DEF Activate, NoItems
 <2>2. ASSUME NEW w \in Workers, CommitPrepare(w) \/ CommitInspect(w) PROVE StagedFilesAreThere'
   BY <2>2, CommitsAreSent, <1>1 DEF CommitPrepare, CommitInspect
 <2>3. ASSUME NEW k \in Objects, Drain(k) PROVE StagedFilesAreThere'
   BY <2>3, <1>c, <1>a, <1>b, NamesObjects, <1>d DEF Drain, Granted, TypeOK, StagedFilesAreThere
 <2> QED BY <1>6, <2>1, <2>2, <2>3 DEF Activation
<1>7. CASE UNCHANGED vars BY <1>1, <1>7 DEF vars
<1> QED BY <1>2, <1>3, <1>4, <1>5, <1>6, <1>7 DEF Next

-----------------------------------------------------------------------------
(* What is staged fits.                                                     *)

\* What fits goes on fitting while the operation runs: its source stands, an
\* accepted wrapper stands, and the bytes of the source stay in storage.
LEMMA FitsOn ==
  ASSUME TypeOK, UNCHANGED <<activeRotation, source>>, \A i \in Items : repl[i] # None => repl'[i] = repl[i],
         \A f \in Files : source[f] \notin {Null, None} => store'[source[f].object] = store[source[f].object],
         NEW i \in Items
  PROVE  \A c : Fits(i, c) => Fits(i, c)'
<1>1. i \in SealItems => WrapperOf[i] \in Items BY PartsAssumption DEF Items
<1>2. None \notin Cipher BY TokensAssumption
<1> QED BY <1>1, <1>2 DEF Fits, WrapperStaged, SourceText

\* An operation that has started has started for good.
LEMMA StartedForGood ==
  ASSUME TypeOK, Frozen, [Next]_vars, NEW o \in Ops, op[o].phase # "none"
  PROVE  op'[o].phase # "none"
<1> USE DEF fenceVars, itemVars, fileVars
<1>1. CASE VaultUse BY <1>1 DEF VaultUse, SessionChange, ReadVault, Rewrap, WriteNote, WriteBody, PurgeFile
<1>2. CASE Lifecycle
 <2>0. \A x \in Ops : Aborted(x).phase = "aborted" /\ \A s : Claimed(x, s).phase = op[x].phase
   BY DEF Aborted, Claimed, TypeOK, OpRecord
 <2>1. ASSUME NEW w \in Workers, NEW x \in Ops, Begin(w, x) PROVE op'[o].phase # "none" BY <2>0, <2>1 DEF Begin
 <2>2. CASE (\E w \in Workers : Cancel(w)) \/ Expire BY <2>0, <2>2 DEF Cancel, Expire, Abort, TypeOK
 <2>3. CASE \E w \in Workers : Claim(w) BY <2>0, <2>3 DEF Claim, TypeOK
 <2>4. CASE \E w \in Workers : ConfirmRecovery(w) BY <2>4 DEF ConfirmRecovery, ReadyPhase, TypeOK, OpRecord
 <2>5. CASE \E w \in Workers : \E b \in BOOLEAN : Pause(w, b) BY <2>5 DEF Pause, TypeOK, OpRecord
 <2>6. CASE \E x \in Ops : Lapse(x) \/ Clean(x) BY <2>6 DEF Lapse, Clean, TypeOK, OpRecord
 <2> QED BY <1>2, <2>1, <2>2, <2>3, <2>4, <2>5, <2>6 DEF Lifecycle
<1>3. CASE Staging BY <1>3 DEF Staging, Prepare, ReadBack, Stage, Verify, Abandon, ReadyPhase, TypeOK, OpRecord
<1>4. CASE FileStaging BY <1>4 DEF FileStaging, Reserve, Put, Finalize, InspectObject, FinalizeStage, RetireGrant
<1>5. CASE Activation
 <2>1. ASSUME NEW w \in Workers, Activate(w) PROVE op'[o].phase # "none"
   BY <2>1, AcceptedIsActive DEF Activate, TypeOK, OpRecord
 <2>2. CASE (\E w \in Workers : CommitPrepare(w) \/ CommitInspect(w)) \/ (\E k \in Objects : Drain(k))
   BY <2>2 DEF CommitPrepare, CommitInspect, Drain
 <2> QED BY <1>5, <2>1, <2>2 DEF Activation
<1>6. CASE UNCHANGED vars BY <1>6 DEF vars
<1> QED BY <1>1, <1>2, <1>3, <1>4, <1>5, <1>6 DEF Next

\* Storage keeps the bytes attachments point at, but for the attachment that is purged.
LEMMA PointedBytesStay ==
  ASSUME TypeOK, ObjectsInv, VaultOpens, [Next]_vars, NEW f \in Files, vault[f] # Null
  PROVE  \/ store'[vault[f].object] = store[vault[f].object]
         \/ PurgeFile(f)
<1> USE DEF fenceVars, itemVars, fileVars
<1>0. vault[f].object \in Objects /\ store[vault[f].object] # None BY NamesObjects, TokensAssumption DEF VaultOpens
<1>1. ASSUME NEW g \in Files, PurgeFile(g), g # f PROVE store'[vault[f].object] = store[vault[f].object]
  BY <1>0, <1>1 DEF PurgeFile, TypeOK, ObjectsInv, ObjectsHaveOneUse
<1>2. ASSUME NEW w \in Workers, Put(w) PROVE store'[vault[f].object] = store[vault[f].object] BY <1>0, <1>2 DEF Put, TypeOK
<1>3. ASSUME NEW k \in Objects, Drain(k) PROVE store'[vault[f].object] = store[vault[f].object] BY <1>0, <1>3 DEF Drain, TypeOK
<1>4. CASE VaultUse BY <1>1, <1>4 DEF VaultUse, SessionChange, ReadVault, Rewrap, WriteNote, WriteBody
<1>5. CASE Lifecycle BY <1>5 DEF Lifecycle, Cancel, Claim, ConfirmRecovery, Begin, Pause, Lapse, Clean, Expire, Abort
<1>6. CASE Staging BY <1>6 DEF Staging, Prepare, ReadBack, Stage, Verify, Abandon
<1>7. CASE FileStaging BY <1>2, <1>7 DEF FileStaging, Reserve, Finalize, InspectObject, FinalizeStage, RetireGrant
<1>8. CASE Activation BY <1>3, <1>8 DEF Activation, CommitPrepare, CommitInspect, Activate
<1>9. CASE UNCHANGED vars BY <1>9 DEF vars
<1> QED BY <1>4, <1>5, <1>6, <1>7, <1>8, <1>9 DEF Next

\* While one operation stays active, everything that fits goes on fitting.
LEMMA FitsStep ==
  ASSUME TypeOK, Frozen, ObjectsInv, VaultOpens, [Next]_vars,
         activeRotation # None, activeRotation' = activeRotation
  PROVE  /\ source' = source
         /\ \A i \in Items : \A c : Fits(i, c) => Fits(i, c)'
<1>1. source = vault BY SourceIsVault
<1>2. \A i \in Items : repl[i] # None => repl'[i] = repl[i]
 <2>1. CASE VaultUse \/ Lifecycle BY <2>1, VaultUseStep, LifecycleStep DEF AcceptedStep
 <2>2. CASE Staging \/ FileStaging BY <2>2, StagingStep DEF AcceptedStep
 <2>3. CASE Activation BY <2>3, ActivationStep DEF AcceptedStep
 <2>4. CASE UNCHANGED vars BY <2>4 DEF vars
 <2> QED BY <2>1, <2>2, <2>3, <2>4 DEF Next
<1>3. source' = source
 <2> USE DEF fenceVars, itemVars, fileVars
 <2>1. CASE VaultUse BY <2>1 DEF VaultUse, SessionChange, ReadVault, Rewrap, WriteNote, WriteBody, PurgeFile
 <2>2. CASE Lifecycle
  <3>1. ASSUME NEW w \in Workers, NEW o \in Ops, Begin(w, o) PROVE FALSE
    BY <3>1 DEF Begin, Frozen, Live
  <3> QED BY <2>2, <3>1 DEF Lifecycle, Cancel, Claim, ConfirmRecovery, Pause, Lapse, Clean, Expire, Abort
 <2>3. CASE Staging BY <2>3 DEF Staging, Prepare, ReadBack, Stage, Verify, Abandon
 <2>4. CASE FileStaging BY <2>4 DEF FileStaging, Reserve, Put, Finalize, InspectObject, FinalizeStage, RetireGrant
 <2>5. CASE Activation BY <2>5 DEF Activation, CommitPrepare, CommitInspect, Activate, Drain
 <2>6. CASE UNCHANGED vars BY <2>6 DEF vars
 <2> QED BY <2>1, <2>2, <2>3, <2>4, <2>5, <2>6 DEF Next
<1>4. \A f \in Files : source[f] \notin {Null, None} => store'[source[f].object] = store[source[f].object]
  BY <1>1, PointedBytesStay DEF PurgeFile
<1> QED BY <1>2, <1>3, <1>4, FitsOn

\* What a tab prepares fits.
LEMMA PreparedFits ==
  ASSUME NEW w \in Workers, NEW i \in Items, NEW n \in IVs, Prepare(w, i, n)
  PROVE  LET c == Rekeyed(activeRotation, i, n) IN c # Null => Fits(i, c)
<1>1. InInventory(i) /\ (source[i] # Null => WrapperStaged(i)) BY DEF Prepare
<1> QED BY <1>1 DEF Rekeyed, Fits, InInventory, SourceText

\* An operation becomes the active one only when it starts.
LEMMA ActiveIsNew ==
  ASSUME TypeOK, Frozen, [Next]_vars, activeRotation' # None, activeRotation' # activeRotation
  PROVE  \E w \in Workers : \E o \in Ops : Begin(w, o) /\ activeRotation' = o
<1> USE DEF fenceVars, itemVars, fileVars
<1>1. CASE Lifecycle BY <1>1, BeginIsNew DEF Lifecycle, Cancel, Claim, ConfirmRecovery, Pause, Lapse, Clean, Expire, Abort
<1>2. CASE VaultUse \/ Staging \/ FileStaging \/ Activation BY <1>2, VaultUseStep, StagingStep, ActivationStep
<1>3. CASE UNCHANGED vars BY <1>3 DEF vars
<1> QED BY <1>1, <1>2, <1>3 DEF Next

\* A request after a step is the one before it, or the tab went on with what it
\* got, or a new one of the active operation.
Goes(w) == req[w] # None /\ req'[w].op = req[w].op /\ (req'[w] = req[w] \/ req'[w].kind \notin {"stage", "reserve"})
Sends(w) ==
  /\ UNCHANGED <<activeRotation, source, repl, store>>
  /\ activeRotation \in Ops /\ op[activeRotation].phase \in Live
  /\ req'[w].op = activeRotation
  /\ req'[w].kind \in {"stage", "reserve"} /\ req'[w].value # Null =>
       req'[w].item \in Items /\ Fits(req'[w].item, req'[w].value)
LEMMA RequestsGoOn ==
  ASSUME TypeOK, [Next]_vars, NEW w \in Workers, req'[w] # None
  PROVE  Goes(w) \/ Sends(w)
<1> USE DEF fenceVars, itemVars, fileVars
<1>0. req \in [Workers -> Request \cup {None}] BY DEF TypeOK
<1>1. ASSUME NEW v \in Workers, Idle(v) PROVE req'[w] = req[w] BY <1>0, <1>1 DEF Idle
<1>2. ASSUME NEW v \in Workers, NEW k \in {"put", "finalize", "inspected", "retire", "activate"}, NEW x, req[v] # None, Continue(v, k, x)
      PROVE  Goes(w)
 <2>1. CASE w # v BY <1>0, <1>2, <2>1 DEF Continue, Goes
 <2>2. CASE w = v
   BY <1>0, <1>2, <2>2 DEF Continue, Request, Goes
 <2> QED BY <2>1, <2>2
<1>3. ASSUME req'[w] = req[w] PROVE Goes(w) BY <1>3 DEF Goes
<1>4. ASSUME NEW v \in Workers, Token(v) PROVE activeRotation \in Ops /\ op[activeRotation].phase \in Live
  BY <1>4 DEF Token, Worker, TypeOK
<1>5. CASE VaultUse BY <1>3, <1>5 DEF VaultUse, SessionChange, ReadVault, Rewrap, WriteNote, WriteBody, PurgeFile
<1>6. CASE Lifecycle BY <1>3, <1>6 DEF Lifecycle, Cancel, Claim, ConfirmRecovery, Begin, Pause, Lapse, Clean, Expire, Abort
<1>7. CASE Staging
 <2>1. ASSUME NEW v \in Workers, Stage(v) \/ Verify(v) \/ Abandon(v) PROVE Goes(w)
   BY <1>1, <1>3, <2>1 DEF Stage, Verify, Abandon
 <2>2. ASSUME NEW v \in Workers, NEW i \in Items, ReadBack(v, i) PROVE Goes(w) \/ Sends(w)
  <3>1. CASE w # v BY <1>0, <1>3, <2>2, <3>1 DEF ReadBack, Send
  <3>2. CASE w = v
    BY <1>0, <2>2, <3>2, <1>4 DEF ReadBack, Send, Sends
  <3> QED BY <3>1, <3>2
 <2>3. ASSUME NEW v \in Workers, NEW i \in Items, NEW n \in IVs, Prepare(v, i, n) PROVE Goes(w) \/ Sends(w)
  <3>1. CASE w # v BY <1>0, <1>3, <2>3, <3>1 DEF Prepare, Send
  <3>2. CASE w = v
    BY <1>0, <2>3, <3>2, PreparedFits, <1>4 DEF Prepare, Send, Sends
  <3> QED BY <3>1, <3>2
 <2> QED BY <1>7, <2>1, <2>2, <2>3 DEF Staging
<1>8. CASE FileStaging
 <2> SUFFICES ASSUME NEW v \in Workers,
                     Reserve(v) \/ Put(v) \/ Finalize(v) \/ InspectObject(v) \/ FinalizeStage(v) \/ RetireGrant(v)
              PROVE  Goes(w) BY <1>8 DEF FileStaging
 <2>1. CASE Put(v) \/ FinalizeStage(v) \/ RetireGrant(v) BY <1>1, <1>3, <2>1 DEF Put, FinalizeStage, RetireGrant
 <2>2. CASE Reserve(v)
   BY <2>2, <1>2 DEF Reserve, Accepts
 <2>3. CASE Finalize(v)
   BY <2>3, <1>2 DEF Finalize, Accepts
 <2>4. CASE InspectObject(v) BY <1>2, <2>4 DEF InspectObject
 <2> QED BY <2>1, <2>2, <2>3, <2>4
<1>9. CASE Activation
 <2>1. ASSUME NEW v \in Workers, CommitPrepare(v) PROVE Goes(w) \/ Sends(w)
  <3>1. CASE w # v BY <1>0, <1>3, <2>1, <3>1 DEF CommitPrepare, Send
  <3>2. CASE w = v
    BY <1>0, <2>1, <3>2, <1>4 DEF CommitPrepare, Send, Sends
  <3> QED BY <3>1, <3>2
 <2>2. ASSUME NEW v \in Workers, CommitInspect(v) PROVE Goes(w) BY <1>2, <2>2 DEF CommitInspect
 <2>3. ASSUME NEW v \in Workers, Activate(v) PROVE Goes(w) BY <1>1, <1>3, <2>3 DEF Activate
 <2>4. ASSUME NEW k \in Objects, Drain(k) PROVE Goes(w) BY <1>3, <2>4 DEF Drain
 <2> QED BY <1>9, <2>1, <2>2, <2>3, <2>4 DEF Activation
<1>10. CASE UNCHANGED vars BY <1>3, <1>10 DEF vars
<1> QED BY <1>5, <1>6, <1>7, <1>8, <1>9, <1>10 DEF Next

\* What is on its way to be staged goes on fitting: a request belongs to the
\* active operation only if it did before, or is new.
LEMMA RequestsStep ==
  ASSUME TypeOK, Frozen, ObjectsInv, VaultOpens, RequestsFit, [Next]_vars
  PROVE  RequestsFit'
<1> SUFFICES ASSUME NEW w \in Workers, req'[w] # None
             PROVE  /\ op'[req'[w].op].phase # "none"
                    /\ req'[w].op = activeRotation' /\ req'[w].kind \in {"stage", "reserve"} /\ req'[w].value # Null
                         => Fits(req[w].item, req[w].value)' BY DEF RequestsFit
<1>1. Goes(w) \/ Sends(w) BY RequestsGoOn
<1>2. CASE Goes(w)
 <2>1. req[w] # None /\ req[w] \in Request /\ req'[w].op = req[w].op BY <1>2 DEF Goes, TypeOK
 <2>2. req[w].op \in Ops /\ req[w].op # None /\ op[req[w].op].phase # "none" BY <2>1, TokensAssumption DEF RequestsFit, Request
 <2>3. op'[req'[w].op].phase # "none" BY <2>1, <2>2, StartedForGood
 <2>4. ASSUME req'[w].op = activeRotation', req'[w].kind \in {"stage", "reserve"}, req'[w].value # Null
       PROVE  Fits(req[w].item, req[w].value)'
  <3>1. req'[w] = req[w] /\ req[w].item \in Items BY <1>2, <2>1, <2>4 DEF Goes, TypeOK, WellFormed
  <3>2. activeRotation' = activeRotation
   <4>1. ASSUME activeRotation' # activeRotation PROVE FALSE
    <5>1. PICK v \in Workers, o \in Ops : Begin(v, o) /\ activeRotation' = o BY <2>1, <2>2, <2>4, <4>1, ActiveIsNew
    <5> QED BY <2>1, <2>2, <2>4, <5>1 DEF Begin
   <4> QED BY <4>1
  <3>3. Fits(req[w].item, req[w].value) BY <2>1, <2>4, <3>1, <3>2 DEF RequestsFit
  <3>4. activeRotation # None BY <2>1, <2>2, <2>4, <3>2
  <3> QED BY <3>1, <3>2, <3>3, <3>4, FitsStep
 <2> QED BY <2>3, <2>4
<1>3. CASE Sends(w)
 <2>1. op'[req'[w].op].phase # "none" BY <1>3, StartedForGood DEF Sends, Live
 <2>2. ASSUME req'[w].kind \in {"stage", "reserve"}, req'[w].value # Null
       PROVE  Fits(req[w].item, req[w].value)' BY <1>3, <2>2 DEF Sends, Fits, WrapperStaged, SourceText
 <2> QED BY <2>1, <2>2
<1> QED BY <1>1, <1>2, <1>3

\* A staged replacement that fits stays, or is new and fits.
LEMMA StagedStep ==
  ASSUME TypeOK, Frozen, ObjectsInv, StagedFilesAreThere, VaultOpens, StagedFits, RequestsFit, [Next]_vars
  PROVE  StagedFits'
<1> USE DEF fenceVars, itemVars, fileVars
<1>a. Files \subseteq Items BY DEF Items
<1>b. \A i \in SealItems : WrapperOf[i] \in Wrappers /\ WrapperOf[i] \in Items BY PartsAssumption DEF Items
\* Nothing is staged after the step.
<1>1. ASSUME repl' = NoItems, grant' = NoItems PROVE StagedFits' BY <1>1, TokensAssumption DEF StagedFits, NoItems
\* Nothing is staged or granted in the step.
<1>2. ASSUME UNCHANGED <<activeRotation, repl, grant>> PROVE StagedFits'
 <2>1. CASE activeRotation = None BY <1>2, <2>1, TokensAssumption DEF StagedFits
 <2>2. CASE activeRotation # None
   BY <1>2, <2>2, FitsStep DEF StagedFits
 <2> QED BY <2>1, <2>2
<1>3. CASE VaultUse BY <1>2, <1>3, VaultUseStep
<1>4. CASE Lifecycle
 <2>1. CASE (\E w \in Workers : Cancel(w) \/ \E o \in Ops : Begin(w, o)) \/ Expire
   BY <1>1, <2>1 DEF Cancel, Begin, Expire, Abort, DropStaging
 <2>2. CASE \/ \E w \in Workers : Claim(w) \/ ConfirmRecovery(w) \/ \E b \in BOOLEAN : Pause(w, b)
            \/ \E o \in Ops : Lapse(o) \/ Clean(o) BY <1>2, <2>2 DEF Claim, ConfirmRecovery, Pause, Lapse, Clean
 <2> QED BY <1>4, <2>1, <2>2 DEF Lifecycle
<1>5. CASE Staging
 <2>1. ASSUME NEW w \in Workers, Stage(w) PROVE StagedFits'
  <3> DEFINE i == req[w].item
             v == req[w].value
  <3>1. /\ activeRotation # None /\ req[w].op = activeRotation /\ req[w] # None /\ req[w].kind = "stage"
        /\ i \in Items \ Files /\ v \in Replacement(i) BY <2>1, AcceptedIsActive DEF Stage, TypeOK, WellFormed
  <3>2. /\ repl[i] \in {None, v} /\ repl' = [repl EXCEPT ![i] = v] /\ (source[i] = Null <=> v = Null)
        /\ UNCHANGED <<activeRotation, grant>> BY <2>1 DEF Stage, StageValue
  <3>3. source' = source /\ \A j \in Items : \A c : Fits(j, c) => Fits(j, c)' BY <3>1, <3>2, FitsStep
  <3>4. v # Null => Fits(i, v) BY <3>1 DEF RequestsFit
  <3>5. repl'[i] = v /\ \A j \in Items : j # i => repl'[j] = repl[j] BY <3>1, <3>2 DEF TypeOK
  <3> QED BY <3>1, <3>2, <3>3, <3>4, <3>5 DEF StagedFits
 <2>2. ASSUME NEW w \in Workers, Verify(w) \/ Abandon(w) PROVE StagedFits' BY <1>2, <2>2 DEF Verify, Abandon
 <2>3. ASSUME NEW w \in Workers, NEW i \in Items, ReadBack(w, i) \/ \E n \in IVs : Prepare(w, i, n) PROVE StagedFits'
   BY <1>2, <2>3 DEF ReadBack, Prepare
 <2> QED BY <1>5, <2>1, <2>2, <2>3 DEF Staging
<1>6. CASE FileStaging
 <2> SUFFICES ASSUME NEW w \in Workers,
                     Reserve(w) \/ Put(w) \/ Finalize(w) \/ InspectObject(w) \/ FinalizeStage(w) \/ RetireGrant(w)
              PROVE  StagedFits' BY <1>6 DEF FileStaging
 <2> DEFINE i == req[w].item
 <2>1. CASE Reserve(w)
  <3>1. /\ activeRotation # None /\ req[w].op = activeRotation /\ req[w] # None /\ req[w].kind = "reserve"
        /\ i \in Files /\ req[w].value \in SealedText BY <2>1, AcceptedIsActive DEF Reserve, TypeOK, WellFormed
  <3>2. PICK k \in Objects : grant' = [grant EXCEPT ![i] = [object |-> k, body |-> req[w].value]] BY <2>1 DEF Reserve
  <3>3. UNCHANGED <<activeRotation, source, repl, store>> BY <2>1 DEF Reserve
  <3>4. req[w].value # Null BY <3>1, TokensAssumption DEF Cipher
  <3>5. Fits(i, req[w].value) BY <3>1, <3>4 DEF RequestsFit
  <3>6. \A j \in Items : \A c : Fits(j, c) <=> Fits(j, c)' BY <3>3 DEF Fits, WrapperStaged, SourceText
  <3>7. grant'[i] # None => grant'[i].body = req[w].value BY <1>a, <3>1, <3>2 DEF TypeOK
  <3>8. \A j \in Items : j # i => grant'[j] = grant[j] BY <1>a, <3>1, <3>2 DEF TypeOK
  <3> QED BY <3>1, <3>3, <3>5, <3>6, <3>7, <3>8 DEF StagedFits
 <2>2. CASE RetireGrant(w)
  <3>1. activeRotation # None /\ i \in Items BY <1>a, <2>2, AcceptedIsActive DEF RetireGrant, Accepts, TypeOK, WellFormed
  <3>2. grant' = [grant EXCEPT ![i] = None] /\ UNCHANGED <<activeRotation, source, repl, store>> BY <2>2 DEF RetireGrant
  <3>3. \A j \in Items : \A c : Fits(j, c) <=> Fits(j, c)' BY <3>2 DEF Fits, WrapperStaged, SourceText
  <3> QED BY <3>1, <3>2, <3>3 DEF StagedFits, TypeOK
 <2>3. CASE FinalizeStage(w)
   BY <2>3, AcceptedIsActive, FitsStep, <1>a DEF FinalizeStage, Accepts, TypeOK, WellFormed, StageValue, StagedFits
 <2>4. CASE Put(w) \/ Finalize(w) \/ InspectObject(w) BY <1>2, <2>4 DEF Put, Finalize, InspectObject
 <2> QED BY <2>1, <2>2, <2>3, <2>4
<1>7. CASE Activation
 <2>1. CASE \E w \in Workers : Activate(w) BY <1>1, <2>1 DEF Activate
 <2>2. CASE (\E w \in Workers : CommitPrepare(w) \/ CommitInspect(w)) \/ (\E k \in Objects : Drain(k))
   BY <1>2, <2>2 DEF CommitPrepare, CommitInspect, Drain
 <2> QED BY <1>7, <2>1, <2>2 DEF Activation
<1>8. CASE UNCHANGED vars BY <1>2, <1>8 DEF vars
<1> QED BY <1>3, <1>4, <1>5, <1>6, <1>7, <1>8 DEF Next

-----------------------------------------------------------------------------
(* Everything opens.                                                        *)

\* The first vault opens under the first key.
LEMMA InitContents == Init => ContentsInv
<1> SUFFICES ASSUME Init PROVE ContentsInv OBVIOUS
<1>1. PICK t \in Texts, n \in IVs, empty \in SUBSET Wrappers :
       /\ vault = [i \in Items |-> IF Hollow(i, empty) THEN Null ELSE FirstPayload(i, t, n)]
       /\ store = [k \in Objects |->
                     IF \E f \in Files : FirstObject[f] = k /\ ~Hollow(f, empty)
                     THEN [under |-> Genesis, text |-> t, iv |-> n] ELSE None] BY DEF Init
<1>2. StagedFits BY TokensAssumption DEF Init, NoItems, StagedFits
<1>3. RequestsFit BY DEF Init, RequestsFit
<1>4. /\ \A i \in Notes : i \in Items /\ i \notin Files /\ i \notin Wrappers /\ i \notin Bodies
      /\ \A i \in Wrappers : i \in Items /\ i \notin Files /\ i \notin SealItems
      /\ \A i \in Bodies : i \in Items /\ i \notin Files /\ i \notin Wrappers /\ i \in SealItems
      /\ \A i \in Files : i \in Items /\ i \notin Wrappers /\ i \notin Bodies
      /\ \A i \in SealItems : WrapperOf[i] \in Wrappers BY PartsAssumption DEF Items, SealItems
<1>5. \A f \in Files : vault[f] # Null => vault[f].scope = "vault" /\ vault[f].object = FirstObject[f] /\ ~Hollow(f, empty)
  BY <1>1, <1>4 DEF FirstPayload
<1>6. SealsHaveKeys BY <1>5 DEF Init, SealsHaveKeys
<1>7. VaultOpens
 <2>1. \A i \in Notes \cup Wrappers : vault[i] # Null => vault[i].under = profile.key BY <1>1, <1>4 DEF Init, FirstPayload
 <2>2. \A i \in Bodies : vault[i] # Null => vault[WrapperOf[i]] # Null /\ vault[i].under = vault[WrapperOf[i]].text
  <3> SUFFICES ASSUME NEW i \in Bodies, vault[i] # Null
               PROVE  vault[WrapperOf[i]] # Null /\ vault[i].under = vault[WrapperOf[i]].text OBVIOUS
  <3>1. vault[i].under = <<Genesis, n>> /\ ~Hollow(i, empty) BY <1>1, <1>4 DEF FirstPayload
  <3>2. ~Hollow(WrapperOf[i], empty) /\ WrapperOf[i] \in Wrappers BY <1>4, <3>1 DEF Hollow
  <3>3. vault[WrapperOf[i]] = [under |-> Genesis, text |-> <<Genesis, n>>, iv |-> n] BY <1>1, <1>4, <3>2 DEF FirstPayload
  <3>4. [under |-> Genesis, text |-> <<Genesis, n>>, iv |-> n] \in Cipher BY DEF Cipher, SealedKey, VaultKeys, NoteKeys
  <3> QED BY <3>1, <3>3, <3>4, TokensAssumption
 <2>3. \A f \in Files : vault[f] # Null => store[vault[f].object] = [under |-> Genesis, text |-> t, iv |-> n]
   BY <1>1, <1>5, PartsAssumption
 <2>4. [under |-> Genesis, text |-> t, iv |-> n] \in Cipher BY DEF Cipher, SealedText, Keys, VaultKeys
 <2>5. profile.key = Genesis BY DEF Init
 <2>6. \A f \in Files : vault[f] # Null =>
         store[vault[f].object] \in Cipher /\ store[vault[f].object].under = profile.key BY <2>3, <2>4, <2>5
 <2> QED BY <1>5, <2>1, <2>2, <2>6 DEF VaultOpens
<1> QED BY <1>2, <1>3, <1>6, <1>7 DEF ContentsInv

\* A step that leaves payloads, their bytes, the key in use and what devices
\* know alone leaves everything open.
LEMMA OpenUntouched ==
  ASSUME SealsHaveKeys, VaultOpens, UNCHANGED <<generation, vault, seen>>, profile'.key = profile.key,
         \A f \in Files : vault[f] # Null => store'[vault[f].object] = store[vault[f].object]
  PROVE  SealsHaveKeys' /\ VaultOpens'
BY DEF SealsHaveKeys, VaultOpens

\* What an activation makes of the vault.
LEMMA Activated ==
  ASSUME Before, ObjectsInv, StagedFilesAreThere, StagedFits, NEW w \in Workers, Activate(w)
  PROVE  /\ source = vault /\ activeRotation \in Ops /\ profile'.key = activeRotation /\ store' = store
         /\ \A i \in Items \ Files : /\ vault'[i] = repl[i] /\ (vault[i] = Null <=> repl[i] = Null)
                                     /\ repl[i] # Null => repl[i] \in Cipher /\ Fits(i, repl[i])
         /\ \A f \in Files : vault[f] = Null => vault'[f] = Null
         /\ \A f \in Files : vault[f] # Null =>
              /\ vault'[f] = [object |-> repl[f].object, scope |-> IF f \in SealFiles THEN "seal" ELSE "vault"]
              /\ store[repl[f].object] = repl[f].body /\ repl[f].object \in Objects /\ repl[f].body \in SealedText /\ Fits(f, repl[f].body)
<1>1. activeRotation \in Ops /\ profile'.key = activeRotation /\ store' = store /\ source = vault
  BY AcceptedIsActive DEF Before, Activate
<1>2. \A i \in Items : vault[i] # None /\ (i \in Files /\ vault[i] # Null => vault[i] \in Pointer)
  BY TokensAssumption, PartsAssumption DEF Before, TypeOK, Payload, Cipher
<1>3. \A i \in Items : vault'[i] = IF ~InInventory(i) THEN vault[i] ELSE IF i \in Files THEN NewPointer(i) ELSE repl[i]
  BY DEF Activate
<1>4. \A i \in Items : InInventory(i) <=> ~(i \in Files /\ vault[i] = Null) BY <1>1, <1>2 DEF InInventory
<1>5. \A i \in Items : InInventory(i) => repl[i] # None BY DEF Activate, Complete
<1>6. ASSUME NEW i \in Items \ Files
      PROVE  /\ vault'[i] = repl[i] /\ (vault[i] = Null <=> repl[i] = Null)
             /\ repl[i] # Null => repl[i] \in Cipher /\ Fits(i, repl[i])
  BY <1>3, <1>4, <1>5, <1>6, <1>1 DEF Before, TypeOK, Replacement, Payload, Cipher, StagedFits
<1>7. ASSUME NEW f \in Files, vault[f] # Null
      PROVE  /\ vault'[f] = [object |-> repl[f].object, scope |-> IF f \in SealFiles THEN "seal" ELSE "vault"]
             /\ store[repl[f].object] = repl[f].body /\ repl[f].object \in Objects /\ repl[f].body \in SealedText /\ Fits(f, repl[f].body)
  BY <1>4, <1>5, <1>7, NamesObjects, <1>3 DEF Items, StagedFilesAreThere, Before, StagedFits, NewPointer
<1>8. \A f \in Files : vault[f] = Null => vault'[f] = Null BY <1>3, <1>4 DEF Items
<1> QED BY <1>1, <1>6, <1>7, <1>8

\* After an activation everything opens under the new key.
LEMMA ActivatedOpens ==
  ASSUME Before, ObjectsInv, StagedFilesAreThere, StagedFits, SealsHaveKeys, VaultOpens, NEW w \in Workers, Activate(w)
  PROVE  SealsHaveKeys' /\ VaultOpens'
<1> DEFINE o == activeRotation
<1>a. /\ profile'.key = o /\ store' = store
      /\ \A i \in Items \ Files : /\ vault'[i] = repl[i] /\ (vault[i] = Null <=> repl[i] = Null)
                                  /\ repl[i] # Null => repl[i] \in Cipher /\ Fits(i, repl[i])
      /\ \A f \in Files : vault[f] = Null => vault'[f] = Null
      /\ \A f \in Files : vault[f] # Null =>
           /\ vault'[f] = [object |-> repl[f].object, scope |-> IF f \in SealFiles THEN "seal" ELSE "vault"]
           /\ store[repl[f].object] = repl[f].body /\ repl[f].body \in SealedText /\ Fits(f, repl[f].body) BY Activated
<1>b. /\ Notes \cup Wrappers \cup Bodies \subseteq Items \ Files
      /\ \A i \in Notes \cup Wrappers : i \notin SealItems
      /\ \A i \in SealItems : WrapperOf[i] \in Wrappers
      /\ \A f \in Files : f \in SealItems <=> f \in SealFiles
      /\ SealFiles \subseteq Files BY PartsAssumption DEF Items, SealItems
<1>c. Null \notin Cipher BY TokensAssumption
<1>1. \A i \in SealItems : \A c : Fits(i, c) =>
        vault'[WrapperOf[i]] # Null /\ c.under = vault'[WrapperOf[i]].text BY <1>a, <1>b, <1>c DEF Fits, WrapperStaged
<1>2. \A i \in Notes \cup Wrappers : vault'[i] # Null => vault'[i].under = profile'.key BY <1>a, <1>b DEF Fits
<1>3. \A i \in Bodies : vault'[i] # Null => vault'[WrapperOf[i]] # Null /\ vault'[i].under = vault'[WrapperOf[i]].text
  BY <1>a, <1>b, <1>1 DEF SealItems
<1>4. ASSUME NEW f \in Files, vault'[f] # Null
      PROVE  /\ store'[vault'[f].object] \in Cipher
             /\ store'[vault'[f].object].under = IF vault'[f].scope = "seal" THEN vault'[WrapperOf[f]].text ELSE profile'.key
             /\ vault'[f].scope = "seal" => f \in SealFiles /\ vault'[WrapperOf[f]] # Null
 <2>1. /\ vault'[f] = [object |-> repl[f].object, scope |-> IF f \in SealFiles THEN "seal" ELSE "vault"]
       /\ store[repl[f].object] = repl[f].body /\ repl[f].body \in SealedText /\ Fits(f, repl[f].body) BY <1>a, <1>4
 <2>2. CASE f \in SealFiles BY <1>a, <1>b, <1>1, <2>1, <2>2 DEF Cipher
 <2>3. CASE f \notin SealFiles BY <1>a, <1>b, <2>1, <2>3 DEF Cipher, Fits
 <2> QED BY <2>2, <2>3
<1>5. ASSUME NEW c \in Clients, seen'[c] # None PROVE seen'[c].generation # generation'
 <2>1. seen[c] # None /\ seen' = seen /\ generation' = generation + 1 /\ generation \in Nat
   BY <1>5, AcceptedIsActive DEF Activate, TargetGeneration, Accepts, Worker, Before, TypeOK
 <2>2. seen[c].generation <= generation /\ seen[c].generation \in Nat BY <2>1 DEF Before, Accepted, SeenIsPast, TypeOK, Opened
 <2> QED BY <2>1, <2>2
<1>6. SealsHaveKeys' BY <1>4, <1>5 DEF SealsHaveKeys
<1>7. VaultOpens' BY <1>2, <1>3, <1>4 DEF VaultOpens
<1> QED BY <1>6, <1>7

\* An ordinary device writes with the keys in use, and a purge takes one object.
LEMMA UseOpens ==
  ASSUME Before, ObjectsInv, SealsHaveKeys, VaultOpens, VaultUse
  PROVE  SealsHaveKeys' /\ VaultOpens'
<1> USE DEF fenceVars, itemVars, fileVars
<1>a. /\ \A i \in Notes : i \notin Files /\ i \notin Wrappers /\ i \notin Bodies
      /\ \A i \in Bodies : i \notin Files /\ i \notin Wrappers /\ i \notin Notes /\ WrapperOf[i] \in Wrappers
      /\ \A i \in Files : i \notin Notes /\ i \notin Wrappers /\ i \notin Bodies
      /\ \A f \in SealFiles : f \in Files /\ WrapperOf[f] \in Wrappers
      /\ Items = Notes \cup Wrappers \cup Bodies \cup Files BY PartsAssumption DEF Items, SealItems
<1>b. DOMAIN vault = Items BY DEF Before, TypeOK
<1>1. CASE SessionChange BY <1>1, OpenUntouched DEF SessionChange
<1>2. ASSUME NEW c \in Clients, Rewrap(c) PROVE SealsHaveKeys' /\ VaultOpens'
  BY <1>2, OpenUntouched DEF Rewrap, Before, TypeOK
<1>3. ASSUME NEW c \in Clients, ReadVault(c) PROVE SealsHaveKeys' /\ VaultOpens'
  BY <1>3 DEF ReadVault, VaultOpens, Before, TypeOK, SealsHaveKeys
<1>4. ASSUME NEW c \in Clients, NEW i \in Notes, WriteNote(c, i) PROVE SealsHaveKeys' /\ VaultOpens'
 <2>1. PICK v \in [under : {seen[c].key}, text : Texts, iv : IVs] \cup {Null} : vault' = [vault EXCEPT ![i] = v]
   BY <1>4 DEF WriteNote
 <2>2. seen[c].key = profile.key /\ UNCHANGED <<generation, profile, store, seen>>
   BY <1>4 DEF WriteNote, VaultWrite, Before, Accepted, AcceptedDevicesHoldTheKey
 <2>3. vault'[i] = v /\ \A j \in Items : j # i => vault'[j] = vault[j] BY <1>a, <1>b, <2>1
 <2>4. v # Null => v.under = profile.key BY <2>2
 <2>5. SealsHaveKeys' BY <1>a, <2>2, <2>3 DEF SealsHaveKeys
 <2>6. VaultOpens'
   BY <1>a, <2>3, <2>4, <2>2 DEF VaultOpens, SealsHaveKeys
 <2> QED BY <2>5, <2>6
<1>5. ASSUME NEW c \in Clients, NEW i \in Bodies, WriteBody(c, i) PROVE SealsHaveKeys' /\ VaultOpens'
 <2>1. PICK v \in [under : {seen[c].nek[WrapperOf[i]]}, text : Texts, iv : IVs] : vault' = [vault EXCEPT ![i] = v]
   BY <1>5 DEF WriteBody
 <2>2. /\ seen[c] # None /\ seen[c].generation = generation /\ seen[c].nek[WrapperOf[i]] # None
       /\ UNCHANGED <<generation, profile, store, seen>> BY <1>5 DEF WriteBody, VaultWrite
 <2>3. vault'[i] = v /\ \A j \in Items : j # i => vault'[j] = vault[j] BY <1>a, <1>b, <2>1
 <2>4. vault[WrapperOf[i]] # Null /\ v.under = vault[WrapperOf[i]].text
   BY <1>a, <2>1, <2>2 DEF SealsHaveKeys, Before, Accepted, AcceptedDevicesHoldTheKey
 <2>5. SealsHaveKeys' BY <1>a, <2>2, <2>3 DEF SealsHaveKeys
 <2>6. VaultOpens'
   BY <1>a, <2>3, <2>4, <2>2 DEF VaultOpens, SealsHaveKeys
 <2> QED BY <2>5, <2>6
<1>6. ASSUME NEW f \in Files, PurgeFile(f) PROVE SealsHaveKeys' /\ VaultOpens'
  BY <1>6, <1>a, <1>b, NamesObjects DEF PurgeFile, Before, TypeOK, ObjectsInv, ObjectsHaveOneUse, SealsHaveKeys, VaultOpens
<1> QED BY <1>1, <1>2, <1>3, <1>4, <1>5, <1>6 DEF VaultUse

\* Whatever step is taken, everything still opens.
LEMMA OpenStep ==
  ASSUME Before, ObjectsInv, StagedFilesAreThere, StagedFits, SealsHaveKeys, VaultOpens, [Next]_vars
  PROVE  SealsHaveKeys' /\ VaultOpens'
<1> USE DEF fenceVars, itemVars, fileVars
<1>1. CASE VaultUse BY <1>1, UseOpens
<1>2. ASSUME NEW w \in Workers, Activate(w) PROVE SealsHaveKeys' /\ VaultOpens' BY <1>2, ActivatedOpens
<1>3. CASE ~VaultUse /\ \A w \in Workers : ~Activate(w)
 <2>1. UNCHANGED <<generation, vault, seen, profile>>
  <3>1. CASE Lifecycle BY <3>1 DEF Lifecycle, Cancel, Claim, ConfirmRecovery, Begin, Pause, Lapse, Clean, Expire, Abort
  <3>2. CASE Staging BY <3>2 DEF Staging, Prepare, ReadBack, Stage, Verify, Abandon
  <3>3. CASE FileStaging BY <3>3 DEF FileStaging, Reserve, Put, Finalize, InspectObject, FinalizeStage, RetireGrant
  <3>4. CASE Activation BY <1>3, <3>4 DEF Activation, CommitPrepare, CommitInspect, Drain
  <3>5. CASE UNCHANGED vars BY <3>5 DEF vars
  <3> QED BY <1>3, <3>1, <3>2, <3>3, <3>4, <3>5 DEF Next
 <2>2. \A f \in Files : vault[f] # Null => store'[vault[f].object] = store[vault[f].object]
   BY <1>3, PointedBytesStay DEF VaultUse, Before
 <2> QED BY <2>1, <2>2, OpenUntouched
<1> QED BY <1>1, <1>2, <1>3

\* The whole invariant holds at first and after every step.
LEMMA VaultInvariant == Spec => [](Before /\ VaultInv)
<1>1. Init => VaultInv
 <2> SUFFICES ASSUME Init PROVE VaultInv OBVIOUS
 <2>1. StagedFilesAreThere BY DEF Init, NoItems, StagedFilesAreThere, Items
 <2> QED BY <2>1, InitObjects, InitContents DEF VaultInv
<1>2. Init => Accepted BY DEF Init, Accepted, AcceptedDevicesHoldTheKey, SeenIsPast
<1>3. TypeOK /\ Accepted /\ [Next]_vars => Accepted' BY AcceptedInvStep
<1>4. Before /\ TypeOK' /\ VaultInv /\ [Next]_vars => VaultInv'
 <2> SUFFICES ASSUME Before, TypeOK', VaultInv, [Next]_vars PROVE VaultInv' OBVIOUS
 <2>0. TypeOK /\ Frozen /\ ObjectsInv /\ StagedFilesAreThere /\ StagedFits /\ RequestsFit /\ SealsHaveKeys /\ VaultOpens
   BY DEF Before, VaultInv, ContentsInv
 <2>1. ObjectsInv' BY <2>0, ObjectsStep
 <2>2. StagedFilesAreThere' BY <2>0, FilesStep
 <2>3. StagedFits' BY <2>0, StagedStep
 <2>4. RequestsFit' BY <2>0, RequestsStep
 <2>5. SealsHaveKeys' /\ VaultOpens' BY <2>0, OpenStep
 <2> QED BY <2>1, <2>2, <2>3, <2>4, <2>5 DEF VaultInv, ContentsInv
<1>5. Spec => []Accepted BY <1>2, <1>3, TypeCorrect, PTL DEF Spec
<1>6. Spec => []Before BY <1>5, TypeCorrect, FrozenInvariant, KeyRecoverable, PTL DEF Before
<1>7. Before => TypeOK BY DEF Before
<1> QED BY <1>1, <1>4, <1>6, <1>7, PTL DEF Spec

\* Every live ciphertext opens, under whatever rotation, claim, upload, purge and
\* drain: payloads under the profile's key, Seal contents under the note key their
\* own wrapper holds, attachments with their bytes in storage.
THEOREM EverythingStillOpens == Spec => []VaultOpens
<1>1. Before /\ VaultInv => VaultOpens BY DEF VaultInv, ContentsInv
<1> QED BY <1>1, VaultInvariant, PTL

\* The contents staged for a Seal agree on one note key, the one in the wrapper
\* that was accepted, however many tabs generated one.
THEOREM SealsAgree == Spec => []StagedSealsAgree
<1>1. Before /\ VaultInv => StagedSealsAgree
 <2> SUFFICES ASSUME TypeOK, StagedFits, StagedFilesAreThere PROVE StagedSealsAgree BY DEF Before, VaultInv, ContentsInv
 <2>1. Null \notin Cipher /\ None \notin Cipher BY TokensAssumption
 <2>2. Bodies \subseteq Items \ Files /\ SealFiles \subseteq Files /\ Files \subseteq Items /\ SealItems = Bodies \cup SealFiles
   BY PartsAssumption DEF Items, SealItems
 <2>3. \A i \in Bodies : repl[i] \in Cipher => Fits(i, repl[i]) BY <2>1, <2>2 DEF StagedFits
 <2>4. \A f \in SealFiles : repl[f] # None => Fits(f, repl[f].body) BY <2>2 DEF StagedFits, StagedFilesAreThere
 <2> QED BY <2>2, <2>3, <2>4 DEF StagedSealsAgree, Fits
<1> QED BY <1>1, VaultInvariant, PTL

\* Cleanup, retirements and purges leave every object an attachment points at and
\* every accepted replacement of the active operation, bytes included.
THEOREM ObjectsAreKept == Spec => []NeededObjectsAreKept
<1>1. Before /\ VaultInv => NeededObjectsAreKept
 <2> SUFFICES ASSUME ObjectsInv, StagedFilesAreThere PROVE NeededObjectsAreKept BY DEF VaultInv
 <2> QED BY DEF ObjectsInv, NothingNeededIsQueued, StagedFilesAreThere, NeededObjectsAreKept, Items
<1> QED BY <1>1, VaultInvariant, PTL

\* Activation changes keys and nothing else: every item says what it said.
LEMMA ActivationKeeps ==
  ASSUME Before, VaultInv, NEW w \in Workers, Activate(w), NEW i \in Items \ Wrappers
  PROVE  Plain(i)' = Plain(i)
<1>0. ObjectsInv /\ StagedFilesAreThere /\ StagedFits BY DEF VaultInv, ContentsInv
<1>1. CASE i \in Files
 <2>1. CASE vault[i] = Null BY <1>0, <1>1, <2>1, Activated DEF Plain
 <2>2. CASE vault[i] # Null
  <3>1. /\ source = vault /\ store' = store
        /\ vault'[i] = [object |-> repl[i].object, scope |-> IF i \in SealFiles THEN "seal" ELSE "vault"]
        /\ store[repl[i].object] = repl[i].body /\ Fits(i, repl[i].body) BY <1>0, <1>1, <2>2, Activated
  <3>2. vault'[i].object = repl[i].object /\ vault'[i] \in Pointer BY <1>0, <1>1, <2>2, <3>1, Activated DEF Pointer
  <3> QED BY <1>1, <2>2, <3>1, <3>2, TokensAssumption DEF Plain, Fits, SourceText
 <2> QED BY <2>1, <2>2
<1>2. CASE i \notin Files
  BY <1>0, <1>2, Activated DEF Plain, Fits, SourceText
<1> QED BY <1>1, <1>2

\* An activation that has gone through the staging, verification and storage
\* checks of every tab involved leaves what every item says as it was.
THEOREM PlaintextKept == Spec => ActivationKeepsPlaintext
<1>1. Before /\ VaultInv /\ [Next]_vars => [Activates => \A i \in Items \ Wrappers : Plain(i)' = Plain(i)]_vars
 <2> SUFFICES ASSUME Before, VaultInv, Next, Activates PROVE \A i \in Items \ Wrappers : Plain(i)' = Plain(i) OBVIOUS
 <2>1. TypeOK /\ Frozen BY DEF Before
 <2>2. PICK w \in Workers : Activate(w)
   BY <2>1, VaultUseStep, LifecycleStep, StagingStep DEF Next, Activates, Activation, CommitPrepare, CommitInspect, Drain,
     fenceVars
 <2> QED BY <2>2, ActivationKeeps
<1> QED BY <1>1, VaultInvariant, PTL DEF Spec, ActivationKeepsPlaintext

-----------------------------------------------------------------------------
(* The service implements the contract of VaultRekey.                       *)

\* What a device reads is what the item says: nothing is unreadable.
EverythingReads ==
  \A i \in Items \ Wrappers : Reading(i) = Plain(i) /\ Plain(i) \in Texts \cup {Null}

\* Whatever opens can be read.
LEMMA ReadingIsPlain == Before /\ VaultInv => EverythingReads
<1> SUFFICES ASSUME Before, VaultInv, NEW i \in Items \ Wrappers
             PROVE  Reading(i) = Plain(i) /\ Plain(i) \in Texts \cup {Null} BY DEF EverythingReads
<1>0. TypeOK /\ VaultOpens /\ SealsHaveKeys BY DEF Before, VaultInv, ContentsInv
<1>1. CASE vault[i] = Null BY <1>1 DEF Reading, Plain
<1>2. CASE vault[i] # Null /\ i \in Files
  BY <1>0, <1>2, NamesObjects, TokensAssumption, PartsAssumption DEF Pointer, VaultOpens, TypeOK, SealsHaveKeys, SealedText,
    Reading, Plain
<1>3. CASE vault[i] # Null /\ i \notin Files
 <2>1. i \in Notes \cup Bodies /\ i \notin SealFiles /\ ~(i \in Notes /\ i \in Bodies) BY <1>3, PartsAssumption DEF Items
 <2>2. vault[i] \in SealedText /\ vault[i] \in Cipher BY <1>0, <1>3, <2>1 DEF TypeOK, Payload, Cipher
 <2>3. vault[i].under = IF i \in Bodies THEN vault[WrapperOf[i]].text ELSE profile.key BY <1>0, <1>3, <2>1 DEF VaultOpens
 <2>4. vault[i].text \in Texts BY <2>2 DEF SealedText
 <2> QED BY <1>3, <2>1, <2>2, <2>3, <2>4 DEF Reading, Plain
<1> QED BY <1>1, <1>2, <1>3

\* Payloads and their bytes stand: every item says what it said.
LEMMA PlainStands ==
  ASSUME vault' = vault, \A f \in Files : vault[f] # Null => store'[vault[f].object] = store[vault[f].object],
         NEW i \in Items \ Wrappers
  PROVE  Plain(i)' = Plain(i)
BY DEF Plain

\* A step changes the key only by activation.
LEMMA KeyIsNew ==
  ASSUME Before, NEW w \in Workers, Activate(w)
  PROVE  /\ activeRotation # None /\ activeRotation' = None
         /\ profile'.key = activeRotation /\ profile'.key \in VaultKeys /\ profile'.key # profile.key
<1>1. activeRotation \in Ops /\ activeRotation # None /\ op[activeRotation].phase \in Live
  BY AcceptedIsActive DEF Before, Activate
<1>2. activeRotation' = None /\ profile'.key = activeRotation BY DEF Activate
<1>3. profile.key # activeRotation BY <1>1, TokensAssumption DEF Before, KeyIsRecoverable, Live
<1> QED BY <1>1, <1>2, <1>3 DEF VaultKeys

\* One edit of the contract: item i reads r afterwards, all others what they read.
LEMMA EditStep ==
  ASSUME EverythingReads, EverythingReads', NEW i \in Items \ Wrappers,
         activeRotation = None, activeRotation' = None, profile'.key = profile.key,
         \A j \in Items \ Wrappers : j # i => Plain(j)' = Plain(j)
  PROVE  Contract!Next
<1> DEFINE r == [j \in Items \ Wrappers |-> Reading(j)]
<1>1. \A j \in Items \ Wrappers : Reading(j) = Plain(j) BY DEF EverythingReads
<1>2. \A j \in Items \ Wrappers : Reading(j)' = Plain(j)' /\ Plain(j)' \in Texts \cup {Null} BY DEF EverythingReads
<1>3. r' = [r EXCEPT ![i] = Plain(i)'] BY <1>1, <1>2
<1>4. Contract!Edit(i, Plain(i)') BY <1>3 DEF Contract!Edit
<1> QED BY <1>2, <1>4 DEF Contract!Next

\* Nothing reads differently.
LEMMA ReadingStands ==
  ASSUME EverythingReads, EverythingReads', \A j \in Items \ Wrappers : Plain(j)' = Plain(j)
  PROVE  [j \in Items \ Wrappers |-> Reading(j)]' = [j \in Items \ Wrappers |-> Reading(j)]
BY DEF EverythingReads

\* Every step of the service is a step of the contract, or changes nothing a
\* device can tell.
LEMMA ContractStep ==
  ASSUME Before, VaultInv, EverythingReads, EverythingReads', [Next]_vars
  PROVE  [Contract!Next]_(Contract!vars)
<1> USE DEF fenceVars, itemVars, fileVars
<1>0. TypeOK /\ Frozen /\ ObjectsInv /\ VaultOpens BY DEF Before, VaultInv, ContentsInv
<1>a. /\ Notes \subseteq Items \ Wrappers /\ Bodies \subseteq Items \ Wrappers /\ Files \subseteq Items \ Wrappers
      /\ Notes \cap Files = {} /\ Bodies \cap Files = {} BY PartsAssumption DEF Items
\* Payloads stand.
<1>1. ASSUME UNCHANGED <<vault, profile>>,
             \/ (activeRotation' # None) <=> (activeRotation # None)
             \/ activeRotation = None /\ activeRotation' # None
             \/ activeRotation # None /\ activeRotation' = None
      PROVE  Contract!Next \/ UNCHANGED Contract!vars
 <2>1. \A f \in Files : vault[f] # Null => store'[vault[f].object] = store[vault[f].object]
  <3>1. ASSUME NEW f \in Files, vault[f] # Null, PurgeFile(f) PROVE FALSE BY <1>0, <1>1, <1>a, <3>1 DEF PurgeFile, TypeOK
  <3> QED BY <1>0, <3>1, PointedBytesStay
 <2>2. \A j \in Items \ Wrappers : Plain(j)' = Plain(j) BY <1>1, <2>1, PlainStands
 <2>3. [j \in Items \ Wrappers |-> Reading(j)]' = [j \in Items \ Wrappers |-> Reading(j)] BY <2>2, ReadingStands
 <2>4. CASE (activeRotation' # None) <=> (activeRotation # None) BY <1>1, <2>3, <2>4 DEF Contract!vars
 <2>5. CASE activeRotation = None /\ activeRotation' # None BY <1>1, <2>3, <2>5 DEF Contract!Next, Contract!Freeze
 <2>6. CASE activeRotation # None /\ activeRotation' = None BY <1>1, <2>3, <2>6 DEF Contract!Next, Contract!Thaw
 <2> QED BY <1>1, <2>4, <2>5, <2>6
<1>2. CASE VaultUse
 <2>1. CASE SessionChange \/ \E c \in Clients : ReadVault(c) BY <1>1, <2>1 DEF SessionChange, ReadVault
 <2>2. ASSUME NEW c \in Clients, Rewrap(c) PROVE Contract!Next \/ UNCHANGED Contract!vars
   BY <1>0, <2>2, PlainStands, ReadingStands DEF Rewrap, TypeOK, Contract!vars
 <2>3. ASSUME NEW c \in Clients, NEW i \in Notes \cup Bodies, (i \in Notes /\ WriteNote(c, i)) \/ (i \in Bodies /\ WriteBody(c, i))
       PROVE  Contract!Next
  <3>1. PICK v : vault' = [vault EXCEPT ![i] = v] BY <2>3 DEF WriteNote, WriteBody
  <3>2. UNCHANGED <<store, activeRotation, profile>> /\ activeRotation = None BY <2>3 DEF WriteNote, WriteBody, VaultWrite
  <3>3. \A j \in Items \ Wrappers : j # i => Plain(j)' = Plain(j) BY <1>0, <3>1, <3>2 DEF Plain, TypeOK
  <3> QED BY <1>a, <3>2, <3>3, EditStep
 <2>4. ASSUME NEW f \in Files, PurgeFile(f) PROVE Contract!Next
   BY <2>4, <1>0, NamesObjects, <1>a, EditStep DEF PurgeFile, TypeOK, ObjectsInv, ObjectsHaveOneUse, Plain
 <2> QED BY <1>2, <2>1, <2>2, <2>3, <2>4 DEF VaultUse
<1>3. CASE Lifecycle
  BY <1>0, <1>3, LifecycleStep, <1>1
<1>4. CASE Staging \/ FileStaging BY <1>0, <1>1, <1>4, StagingStep
<1>5. CASE Activation
 <2>1. ASSUME NEW w \in Workers, Activate(w) PROVE Contract!Next
   BY <2>1, ActivationKeeps, ReadingStands, KeyIsNew DEF Contract!Rekey, Contract!Next
 <2>2. CASE (\E w \in Workers : CommitPrepare(w) \/ CommitInspect(w)) \/ (\E k \in Objects : Drain(k))
   BY <1>1, <2>2 DEF CommitPrepare, CommitInspect, Drain
 <2> QED BY <1>5, <2>1, <2>2 DEF Activation
<1>6. CASE UNCHANGED vars BY <1>1, <1>6 DEF vars
<1> QED BY <1>2, <1>3, <1>4, <1>5, <1>6 DEF Next

\* The first vault is one of the contract's.
LEMMA ContractInit == Init /\ Before /\ VaultInv => Contract!Init
<1> SUFFICES ASSUME Init, Before, VaultInv PROVE Contract!Init OBVIOUS
<1>1. \A j \in Items \ Wrappers : Reading(j) \in Texts \cup {Null} BY ReadingIsPlain DEF EverythingReads
<1>2. profile.key \in VaultKeys /\ activeRotation = None BY DEF Init, VaultKeys
<1> QED BY <1>1, <1>2 DEF Contract!Init

\* Rows, tokens, staging, uploads and storage implement a vault that is rekeyed
\* in one step: no item is ever unreadable, none changes while the vault is
\* frozen, and the whole vault moves to the new key at once.
THEOREM Implements == Spec => ImplementsContract
<1>1. Before /\ VaultInv /\ EverythingReads /\ EverythingReads' /\ [Next]_vars => [Contract!Next]_(Contract!vars)
  BY ContractStep
<1> QED BY <1>1, ContractInit, ReadingIsPlain, VaultInvariant, PTL DEF Spec, ImplementsContract, Contract!Spec
===============================================================================
