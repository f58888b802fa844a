------------------------------ MODULE VaultExport ------------------------------
(***************************************************************************)
(* Saving a portable archive of a vault (src/server/vaultExport/, the      *)
(* export worker, lib/vaultBackup/ and the export page).                   *)
(*                                                                         *)
(* begin() fixes what the archive will hold by the digest of every item;   *)
(* the worker then pulls one entry after another, each rendered and        *)
(* compared under the account lock, while the rest of the program goes on. *)
(* One page exports, cancels and exports again; the continuations of a     *)
(* cancelled run go on beside the next one, and the page's refs are shared *)
(* by all of them.                                                         *)
(***************************************************************************)
EXTENDS Naturals, Sequences

CONSTANTS
  Entries,     \* what the archive is made of, in order: the kind of each entry
  MaxRuns,     \* bound: how often the page starts an export
  MaxVaultChanges   \* bound: changes of the vault by the rest of the program

Kinds == {"profile", "record", "tag", "index", "object"}
ASSUME ExportAssumption == Entries \in Seq(Kinds) /\ MaxRuns \in Nat /\ MaxVaultChanges \in Nat

Slots == 1..Len(Entries)
Runs  == 1..MaxRuns
OfKind(kinds) == {k \in Slots : Entries[k] \in kinds}
EncryptedSlots == OfKind({"profile", "record", "object"})

VARIABLES
  live,       \* the content of each slot: 0 when gone; for an object, its key
  objects,     \* keys of the objects that exist
  fence,      \* generation and whether a rotation is active
  changes,    \* how many contents and keys have been used
  exports,    \* the vault_exports row of each run, with its items
  runs,       \* the continuation of each start()
  refs,       \* the page's refs and its "active" state
  workers,    \* the worker of each run and the entries it has produced
  saved,      \* the file of each run
  cancels     \* cancel requests on their way to the server

exportVars == <<live, objects, fence, changes, exports, runs, refs, workers, saved, cancels>>

ExportRow == [status : {"none", "active", "completed", "cancelled", "gone"},
              generation : Nat, snapshot : [Slots -> Nat]]
RunRow == [stage : {"idle", "preparing", "beginning", "begun", "streaming", "saving", "finishing",
                    "failing", "failed", "success"},
           aborted : BOOLEAN, sink : {0} \cup Runs, awaited : {0} \cup Runs]
WorkerRow == [state : {"none", "running", "done", "failed"}, fenced : BOOLEAN, archive : Seq(Nat)]

ExportTypeOK ==
  /\ live \in [Slots -> Nat] /\ objects \subseteq Nat
  /\ fence \in [generation : Nat, rotating : BOOLEAN]
  /\ changes \in 0..MaxVaultChanges
  /\ exports \in [Runs -> ExportRow]
  /\ runs \in [Runs -> RunRow]
  /\ refs \in [op : {0} \cup Runs, worker : {0} \cup Runs, sink : {0} \cup Runs,
               abort : {0} \cup Runs, active : BOOLEAN]
  /\ workers \in [Runs -> WorkerRow]
  /\ \A i \in Runs : Len(workers[i].archive) <= Len(Entries)
  /\ saved \in [Runs -> {"none", "writing", "kept", "dropped"}]
  /\ cancels \subseteq Runs

NoRow == [status |-> "none", generation |-> 0, snapshot |-> [k \in Slots |-> 0]]
NoRefs == [op |-> 0, worker |-> 0, sink |-> 0, abort |-> 0, active |-> FALSE]

ExportInit ==
  /\ live = [k \in Slots |-> k]
  /\ objects = OfKind({"object"})
  /\ fence = [generation |-> 0, rotating |-> FALSE]
  /\ changes = 0
  /\ exports = [i \in Runs |-> NoRow]
  /\ runs = [i \in Runs |-> [stage |-> "idle", aborted |-> FALSE, sink |-> 0, awaited |-> 0]]
  /\ refs = NoRefs
  /\ workers = [i \in Runs |-> [state |-> "none", fenced |-> FALSE, archive |-> <<>>]]
  /\ saved = [i \in Runs |-> "none"]
  /\ cancels = {}

FailedWorker == [state |-> "failed", fenced |-> FALSE, archive |-> <<>>]
VaultStays == UNCHANGED <<live, objects, fence, changes>>
Goto(i, stage) == runs' = [runs EXCEPT ![i].stage = stage]

-----------------------------------------------------------------------------
(* The page *)

Start(i) ==
  /\ ~refs.active /\ runs[i].stage = "idle" /\ \A j \in Runs : j < i => runs[j].stage # "idle"
  /\ Goto(i, "preparing")
  /\ refs' = [refs EXCEPT !.active = TRUE, !.abort = i]
  /\ VaultStays /\ UNCHANGED <<exports, workers, saved, cancels>>

\* prepareVaultDownload() answers, or no way to save is there.
Prepared(i) ==
  /\ runs[i].stage = "preparing"
  /\ \/ /\ refs' = [refs EXCEPT !.sink = i]
        /\ Goto(i, IF runs[i].aborted THEN "failing" ELSE "beginning")
     \/ Goto(i, "failing") /\ UNCHANGED refs
  /\ VaultStays /\ UNCHANGED <<exports, workers, saved, cancels>>

\* begin() answers; the page first looks whether it was cancelled meanwhile.
BeginAnswered(i) ==
  /\ runs[i].stage = "begun"
  /\ \/ /\ ~runs[i].aborted
        /\ refs' = [refs EXCEPT !.op = i, !.worker = i]
        /\ workers' = [workers EXCEPT ![i].state = "running"]
        /\ Goto(i, "streaming")
     \/ /\ runs[i].aborted
        /\ refs' = [refs EXCEPT !.op = i] /\ Goto(i, "failing") /\ UNCHANGED workers
     \/ Goto(i, "failing") /\ UNCHANGED <<refs, workers>>      \* the reply is lost
  /\ VaultStays /\ UNCHANGED <<exports, saved, cancels>>

\* The stream is there: it goes to the sink the page holds now.
SaveEntry(i) ==
  /\ runs[i].stage = "streaming"
  /\ IF workers[i].state = "failed" \/ refs.sink = 0 \/ refs.worker = 0
     THEN Goto(i, "failing") /\ UNCHANGED saved
     ELSE /\ runs' = [runs EXCEPT ![i].stage = "saving", ![i].sink = refs.sink, ![i].awaited = refs.worker]
          /\ saved' = [saved EXCEPT ![refs.sink] = "writing"]
  /\ VaultStays /\ UNCHANGED <<exports, refs, workers, cancels>>

\* The sink's own answer is not waited for.
SavedOnceProduced(i) ==
  /\ runs[i].stage = "saving"
  /\ \/ /\ workers[i].state = "done"
        /\ saved' = [saved EXCEPT ![runs[i].sink] = IF @ = "writing" THEN "kept" ELSE @]
        /\ Goto(i, "finishing")
     \/ /\ workers[i].state = "failed" \/ runs[i].aborted
        /\ saved' = [saved EXCEPT ![runs[i].sink] = IF @ = "writing" THEN "dropped" ELSE @]
        /\ Goto(i, "failing")
  /\ VaultStays /\ UNCHANGED <<exports, refs, workers, cancels>>

\* A file is committed when its stream ends, and only then.
Saved(i) ==
  /\ runs[i].stage = "saving"
  /\ \/ /\ workers[i].state = "done" /\ workers[runs[i].awaited].state = "done" /\ ~runs[i].aborted
        /\ saved[runs[i].sink] = "writing"
        /\ saved' = [saved EXCEPT ![runs[i].sink] = "kept"]
        /\ Goto(i, "finishing")
     \/ /\ \/ workers[i].state = "failed" \/ workers[runs[i].awaited].state = "failed"
           \/ runs[i].aborted \/ saved[runs[i].sink] = "dropped"
        /\ saved' = [saved EXCEPT ![runs[i].sink] = IF @ = "writing" THEN "dropped" ELSE @]
        /\ Goto(i, "failing")
  /\ VaultStays /\ UNCHANGED <<exports, refs, workers, cancels>>

Stopped(w) == [workers EXCEPT ![w] = IF @.state = "running" THEN FailedWorker ELSE @]

\* sink.abort(): a download of the service worker is dropped, a file being
\* written is locked by its stream and is not.
SinkAborted ==
  IF refs.sink # 0 /\ saved[refs.sink] = "writing"
  THEN {saved, [saved EXCEPT ![refs.sink] = "dropped"]} ELSE {saved}

\* The catch block and the finally block of start().
Catch(i) ==
  /\ runs[i].stage = "failing"
  /\ workers' = IF refs.worker # 0 THEN Stopped(refs.worker) ELSE workers
  /\ cancels' = IF refs.op # 0 THEN cancels \cup {refs.op} ELSE cancels
  /\ refs' = NoRefs
  /\ saved' \in SinkAborted
  /\ Goto(i, "failed")
  /\ VaultStays /\ UNCHANGED exports

\* "Cancel": the run is aborted and the button to start another one is back.
CancelExport ==
  /\ refs.active
  /\ runs' = IF refs.abort # 0 THEN [runs EXCEPT ![refs.abort].aborted = TRUE] ELSE runs
  /\ workers' = IF refs.worker # 0 THEN Stopped(refs.worker) ELSE workers
  /\ cancels' = IF refs.op # 0 THEN cancels \cup {refs.op} ELSE cancels
  /\ refs' = [refs EXCEPT !.active = FALSE]
  /\ saved' \in SinkAborted
  /\ VaultStays /\ UNCHANGED exports

-----------------------------------------------------------------------------
(* The server *)

\* beginVaultExport(): the digest of every item, taken under one lock.
BeginExport(i) ==
  /\ runs[i].stage = "beginning"
  /\ \/ /\ ~fence.rotating
        /\ exports' = [exports EXCEPT ![i] = [status |-> "active",
                                              generation |-> fence.generation, snapshot |-> live]]
        /\ Goto(i, "begun")
     \/ Goto(i, "failing") /\ UNCHANGED exports
  /\ VaultStays /\ UNCHANGED <<refs, workers, saved, cancels>>

\* ownedActive() and verifyOperation().
Exportable(i) ==
  /\ exports[i].status = "active"
  /\ ~fence.rotating /\ exports[i].generation = fence.generation

\* What is rendered now has the digest taken at the start; the index lists every
\* attachment with its object key.
StillThere(i, k) == live[k] # 0
Unchanged(i, k) == live[k] = exports[i].snapshot[k]
IndexUnchanged(i) == \A k \in OfKind({"object"}) : Unchanged(i, k)
Faithful(i, k) == IF Entries[k] = "index" THEN IndexUnchanged(i) ELSE Unchanged(i, k)

Position(i) == Len(workers[i].archive) + 1
\* Entries are produced as the sink takes them.
Pulling(i) == runs[i].stage = "saving" /\ workers[i].state = "running" /\ Position(i) \in Slots
HasObject(i) == Entries[Position(i)] = "object" /\ exports[i].snapshot[Position(i)] # 0

Append1(i, value) ==
  workers' = [workers EXCEPT ![i].archive = Append(@, value), ![i].fenced = FALSE,
                             ![i].state = IF Position(i) = Len(Entries) THEN "done" ELSE @]
WorkerFails(i) == workers' = [workers EXCEPT ![i] = FailedWorker]

\* A response that is cut short, or not 200, fails the worker and the archive.
ReadEntry(i) ==
  LET k == Position(i)
  IN  /\ Pulling(i) /\ ~HasObject(i)
      /\ IF Exportable(i) /\ Faithful(i, k) THEN Append1(i, live[k]) ELSE WorkerFails(i)
      /\ VaultStays /\ UNCHANGED <<exports, runs, refs, saved, cancels>>

\* An attachment: its row is compared under the lock, its object is read after.
FenceObject(i) ==
  LET k == Position(i)
  IN  /\ Pulling(i) /\ HasObject(i) /\ ~workers[i].fenced
      /\ IF Exportable(i) /\ Faithful(i, k)
         THEN workers' = [workers EXCEPT ![i].fenced = TRUE] ELSE WorkerFails(i)
      /\ VaultStays /\ UNCHANGED <<exports, runs, refs, saved, cancels>>

ReadLatest(i) ==
  LET k == Position(i)
  IN  /\ Pulling(i) /\ HasObject(i) /\ workers[i].fenced
      /\ IF live[k] \in objects THEN Append1(i, live[k]) ELSE WorkerFails(i)
      /\ VaultStays /\ UNCHANGED <<exports, runs, refs, saved, cancels>>
ReadObject(i) ==
  LET key == exports[i].snapshot[Position(i)]
  IN  /\ Pulling(i) /\ HasObject(i) /\ workers[i].fenced
      /\ IF key \in objects THEN Append1(i, key) ELSE WorkerFails(i)
      /\ VaultStays /\ UNCHANGED <<exports, runs, refs, saved, cancels>>

\* The network fails at any moment.
Interrupted(i) ==
  /\ workers[i].state = "running" /\ WorkerFails(i)
  /\ VaultStays /\ UNCHANGED <<exports, runs, refs, saved, cancels>>

FinishExport(i) ==
  /\ runs[i].stage = "finishing"
  /\ \/ /\ exports[i].status = "active"
        /\ exports' = [exports EXCEPT ![i].status = "completed"]
        /\ \/ Goto(i, "success") /\ refs' = NoRefs
           \/ Goto(i, "failing") /\ UNCHANGED refs     \* the reply is lost
     \/ Goto(i, "failing") /\ UNCHANGED <<refs, exports>>
  /\ VaultStays /\ UNCHANGED <<workers, saved, cancels>>

\* Nobody reads the items of a row that is not active.
CancelArrives(i) ==
  /\ i \in cancels
  /\ cancels' = cancels \ {i}
  /\ exports' = [exports EXCEPT ![i] = IF @.status = "active" THEN [NoRow EXCEPT !.status = "cancelled"] ELSE @]
  /\ VaultStays /\ UNCHANGED <<runs, refs, workers, saved>>

\* After half an hour a row refuses every request; a cron or the next begin()
\* deletes it.
ExportLapses(i) ==
  /\ exports[i].status \in {"active", "completed", "cancelled"}
  /\ exports' = [exports EXCEPT ![i] = [NoRow EXCEPT !.status = "gone"]]
  /\ VaultStays /\ UNCHANGED <<runs, refs, workers, saved, cancels>>

-----------------------------------------------------------------------------
(* The rest of the program *)

NewKey(k) == Len(Entries) * (changes + 1) + k
Outside == UNCHANGED <<exports, runs, refs, workers, saved, cancels>>

\* A note, tag, profile or attachment is edited, purged or removed.
ChangeSlot(k) ==
  /\ changes < MaxVaultChanges /\ ~fence.rotating /\ live[k] # 0 /\ Entries[k] # "index"
  /\ live' \in {[live EXCEPT ![k] = 0]} \cup
               (IF Entries[k] = "object" THEN {} ELSE {[live EXCEPT ![k] = NewKey(k)]})
  /\ changes' = changes + 1
  /\ UNCHANGED <<objects, fence>> /\ Outside

BeginRotation ==
  /\ changes < MaxVaultChanges /\ ~fence.rotating
  /\ fence' = [fence EXCEPT !.rotating = TRUE]
  /\ UNCHANGED <<live, objects, changes>> /\ Outside

\* Activation re-keys everything encrypted at once, objects under new keys.
Activate ==
  /\ fence.rotating
  /\ \/ /\ fence' = [generation |-> fence.generation + 1, rotating |-> FALSE]
        /\ live' = [k \in Slots |-> IF k \in EncryptedSlots /\ live[k] # 0 THEN NewKey(k) ELSE live[k]]
        /\ objects' = objects \cup {NewKey(k) : k \in {x \in OfKind({"object"}) : live[x] # 0}}
     \/ fence' = [fence EXCEPT !.rotating = FALSE] /\ UNCHANGED <<live, objects>>
  /\ changes' = changes + 1 /\ Outside

\* Cleanup removes an object that no row names any more.
DropObject(key) ==
  /\ key \in objects /\ \A k \in OfKind({"object"}) : live[k] # key
  /\ objects' = objects \ {key}
  /\ UNCHANGED <<live, fence, changes>> /\ Outside

-----------------------------------------------------------------------------
PageRun(i) ==
  Start(i) \/ Prepared(i) \/ BeginAnswered(i) \/ SaveEntry(i) \/ Saved(i) \/ Catch(i)
ServerRun(i) ==
  \/ BeginExport(i) \/ ReadEntry(i) \/ FenceObject(i) \/ ReadObject(i) \/ Interrupted(i)
  \/ FinishExport(i) \/ CancelArrives(i) \/ ExportLapses(i)
Meanwhile == BeginRotation \/ Activate \/ (\E k \in Slots : ChangeSlot(k)) \/ \E key \in objects : DropObject(key)

ExportNext ==
  CancelExport \/ Meanwhile \/ \E i \in Runs : PageRun(i) \/ ServerRun(i)
ExportSpec == ExportInit /\ [][ExportNext]_exportVars

-----------------------------------------------------------------------------
\* An archive is the vault as it was at one moment, entry by entry: no mix of
\* before and after an edit, a passphrase change or a rotation; and a file that is
\* kept is a whole archive.
ArchiveIsOneMoment ==
  \A i \in Runs :
    /\ exports[i].status \in {"active", "completed"} =>
         \A k \in 1..Len(workers[i].archive) : workers[i].archive[k] = exports[i].snapshot[k]
    /\ runs[i].sink # 0 /\ saved[runs[i].sink] = "kept" /\ runs[i].stage \in {"finishing", "success"} =>
         Len(workers[i].archive) = Len(Entries)

\* A page that says the export is complete has kept a file, of the run it says so
\* of, and the server has recorded it, whatever an earlier run of the page does
\* when its answers arrive.
SuccessIsWhole ==
  \A i \in Runs : runs[i].stage = "success" =>
    /\ runs[i].sink # 0 /\ saved[runs[i].sink] = "kept" /\ exports[i].status \in {"completed", "gone"}
=============================================================================
