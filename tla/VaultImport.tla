------------------------------ MODULE VaultImport ------------------------------
(***************************************************************************)
(* Merging a vault archive into an account                                 *)
(* (src/server/vaultImport/, src/lib/vaultBackup/import*.ts, the import    *)
(* worker and the import page).                                            *)
(*                                                                         *)
(* One archive, opened by browsers that each have a session.  A record's   *)
(* content stands for its whole aggregate: head, history, tags and         *)
(* attachment metadata; equal contents are equal digests.  The server      *)
(* calls of one import are made one after another by its page, the other   *)
(* writers of the account run between any two of them, and commit() is     *)
(* two reads and a transaction that holds the account lock.                *)
(***************************************************************************)
EXTENDS Naturals, FiniteSets

CONSTANTS
  Pages,          \* browsers with the import page open, each its own session
  Records,        \* ids of the archived records
  PlainNotes,          \* those whose body is plaintext: a copy may rename attachments
  Bound,          \* those that cannot be copied: Seals and authenticators
  Files,          \* ids of the archived attachments
  Owner,          \* the record each of them belongs to
  MaxImports,     \* bound: vault_imports rows
  MaxEdits,       \* bound: writes to archived ids by the rest of the program
  SweepInCommit   \* whether the daily cleanup may run inside a commit transaction

ASSUME ImportAssumption ==
  /\ PlainNotes \subseteq Records /\ Bound \subseteq Records \ PlainNotes /\ Owner \in [Files -> Records]
  /\ IsFiniteSet(Records) /\ IsFiniteSet(Files)
  /\ MaxImports \in Nat /\ MaxEdits \in Nat /\ SweepInCommit \in BOOLEAN

Imports  == 1..MaxImports
\* Contents of a record: none, the archived one, the one the account held at
\* first, and one for every later edit.
Absent   == 0
Archived == 1
Contents == 0..(2 + MaxEdits)
Actions  == {"insert", "replace", "copy"}
Unfinished == {"review", "staging", "ready"}

VARIABLES
  content,   \* what the account holds under each archived id
  fileRow,   \* the file_attachments row under each archived attachment id
  account,   \* encryption state and profile
  imports,   \* vault_imports with their vault_import_items
  bucket,    \* objects under vault-import/, and whether their bytes are the archive's
  served,    \* <<import, file>> objects that live attachment rows point to
  commits,   \* commit requests: "idle", "checked", or "open" holding the account lock
  taken,     \* the row and items an open commit has read
  pages,     \* the import page of each browser
  edits      \* how many contents the rest of the program has made

importVars == <<content, fileRow, account, imports, bucket, served, commits, taken, pages, edits>>

Plan == [Records -> Actions \cup {"none"}]
NoPlan == [r \in Records |-> "none"]
ImportRow ==
  [phase : Unfinished \cup {"none", "aborted", "committed"}, owner : Pages \cup {"nobody"},
   generation : Nat, vault : [id : Nat, label : {"none", "arc", "other"}], installs : BOOLEAN,
   records : Nat, files : Nat,            \* expectedCounts
   staged : Plan, expected : [Records -> Contents], pending : SUBSET Records,
   granted : SUBSET Files, open : SUBSET Files, verified : SUBSET Files, expired : BOOLEAN]

PageRow ==
  [phase : {"choose", "analyzing", "comparing", "comparingFiles", "review", "planned", "staging",
            "checking", "committing", "complete"},
   op : {0} \cup Imports, blocked : BOOLEAN, cancelled : {0} \cup Imports,
   seen : [Records -> Contents], seenFile : [Files -> {"none", "same", "other", "deleted"}],
   plan : Plan, uploads : SUBSET Files, checking : SUBSET Files]

ImportTypeOK ==
  /\ content \in [Records -> Contents]
  /\ fileRow \in [Files -> {"none", "same", "other", "deleted"}]
  /\ account \in [generation : Nat, rotating : BOOLEAN, id : Nat,
                  key : {"none", "arc", "other"}, labelled : BOOLEAN]
  /\ imports \in [Imports -> ImportRow]
  /\ bucket \in [Imports \X Files -> {"none", "good", "bad"}]
  /\ served \subseteq Imports \X Files
  /\ commits \in [Imports -> {"idle", "checked", "open"}]
  /\ taken \in [Imports -> ImportRow]
  /\ pages \in [Pages -> PageRow]
  /\ edits \in 0..MaxEdits
  /\ \A i \in Imports : imports[i].verified \subseteq imports[i].granted

\* What the archive's own destination may look like: the account it was made
\* from, before or after changes, or an empty one.
NoVault == [id |-> 0, label |-> "none"]
ClosedPage ==
  [phase |-> "choose", op |-> 0, blocked |-> FALSE, cancelled |-> 0,
   seen |-> [r \in Records |-> Absent], seenFile |-> [f \in Files |-> "none"],
   plan |-> NoPlan, uploads |-> {}, checking |-> {}]

BlankRow ==
  [phase |-> "none", owner |-> "nobody", generation |-> 0, vault |-> NoVault, installs |-> FALSE,
   records |-> 0, files |-> 0, staged |-> NoPlan, expected |-> [r \in Records |-> Absent],
   pending |-> {}, granted |-> {}, open |-> {}, verified |-> {}, expired |-> FALSE]

ImportInit ==
  /\ account \in {a \in [generation : {0}, rotating : {FALSE}, id : 0..1,
                         key : {"none", "arc", "other"}, labelled : BOOLEAN] :
                    (a.id = 0) <=> (a.key = "none") /\ (a.id = 0 => ~a.labelled)}
  /\ content \in [Records -> {Absent, Archived, 2}]
  /\ account.id = 0 => \A r \in Records : content[r] = Absent
  /\ fileRow \in [Files -> {"none", "same", "deleted"}]
  /\ \A f \in Files : (fileRow[f] = "same") <=> (content[Owner[f]] # Absent)
  /\ imports = [i \in Imports |-> BlankRow]
  /\ bucket = [x \in Imports \X Files |-> "none"]
  /\ served = {}
  /\ commits = [i \in Imports |-> "idle"]
  /\ taken = [i \in Imports |-> BlankRow]
  /\ pages = [p \in Pages |-> ClosedPage]
  /\ edits = 0

-----------------------------------------------------------------------------
\* withAccountLock: an open commit holds the account row.
Unlocked == \A i \in Imports : commits[i] # "open"

VaultNow == [id |-> account.id, label |-> IF account.labelled THEN account.key ELSE "none"]

\* owned(): the row belongs to the session, has not expired and is in the phase.
Owned(p, i, phases) ==
  /\ i # 0 /\ imports[i].owner = p /\ ~imports[i].expired /\ imports[i].phase \in phases

SameGeneration(i) == account.generation = imports[i].generation
SameVaultOnce(i) == imports[i].installs = (imports[i].vault = NoVault)
SameVault(i) == imports[i].vault = VaultNow

\* The page takes a step of its own; server and storage rest.
ServerRests == UNCHANGED <<content, fileRow, account, imports, bucket, served, commits, taken, edits>>
VaultRests == UNCHANGED <<content, fileRow, account, served, edits>>

SetPage(p, row) == pages' = [pages EXCEPT ![p] = row]
SetImport(i, row) == imports' = [imports EXCEPT ![i] = row]

\* reset(): the page forgets the archive and its operation.
Closed(p) == [ClosedPage EXCEPT !.cancelled = pages[p].cancelled]

\* A request fails, or its reply is lost: the page cancels and starts over.
Aborting(p, rows) ==
  LET i == pages[p].op
  IN  IF i # 0 /\ Owned(p, i, Unfinished \cup {"aborted"})
      THEN [rows EXCEPT ![i].phase = "aborted"] ELSE rows

Reset(p) ==
  /\ pages[p].phase \notin {"choose", "complete", "committing"}
  /\ Unlocked
  /\ SetPage(p, Closed(p))
  /\ imports' \in {Aborting(p, imports), imports}
  /\ VaultRests /\ UNCHANGED <<bucket, commits, taken>>

CancelImportAlways(p) ==
  /\ pages[p].phase \in {"planned", "staging", "checking", "committing"}
  /\ Unlocked
  /\ SetPage(p, [ClosedPage EXCEPT !.cancelled = pages[p].op])
  /\ imports' \in {Aborting(p, imports), imports}
  /\ VaultRests /\ UNCHANGED <<bucket, commits, taken>>

\* "Cancel import", shown until the commit is sent.  The call is best effort.
CancelImport(p) ==
  /\ pages[p].phase \in {"planned", "staging", "checking"}
  /\ Unlocked
  /\ SetPage(p, [ClosedPage EXCEPT !.cancelled = pages[p].op])
  /\ imports' \in {Aborting(p, imports), imports}
  /\ VaultRests /\ UNCHANGED <<bucket, commits, taken>>

\* The page is closed or reloaded, at any moment; a keepalive request cancels.
LeavePage(p) ==
  /\ pages[p].phase # "choose"
  /\ Unlocked
  /\ SetPage(p, ClosedPage)
  /\ imports' \in {Aborting(p, imports), imports}
  /\ VaultRests /\ UNCHANGED <<bucket, commits, taken>>

\* "Discard it and continue": every unfinished import of the account, also one
\* of another tab or device; then the archive is analysed again.
DiscardUnfinished(p) ==
  /\ pages[p].phase = "choose" /\ pages[p].blocked /\ Unlocked
  /\ imports' = [i \in Imports |-> IF imports[i].phase \in Unfinished
                                   THEN [imports[i] EXCEPT !.phase = "aborted"] ELSE imports[i]]
  /\ SetPage(p, [ClosedPage EXCEPT !.phase = "analyzing"])
  /\ VaultRests /\ UNCHANGED <<bucket, commits, taken>>

-----------------------------------------------------------------------------
(* Review *)

\* The worker opens the archive: it is all readable and consistent, or refused.
OpenArchive(p) ==
  /\ pages[p].phase = "choose"
  /\ SetPage(p, [ClosedPage EXCEPT !.phase = "analyzing"])
  /\ ServerRests

\* The destination changed: the opened archive is compared with it again.
ReviewAgain(p) ==
  /\ pages[p].phase \in {"planned", "staging", "checking"} /\ Unlocked
  /\ SetPage(p, [ClosedPage EXCEPT !.phase = "analyzing"])
  /\ imports' \in {Aborting(p, imports), imports}
  /\ VaultRests /\ UNCHANGED <<bucket, commits, taken>>

SweptReviews == [i \in Imports |-> IF imports[i].expired /\ imports[i].phase = "review"
                                   THEN [imports[i] EXCEPT !.phase = "aborted"] ELSE imports[i]]

\* analyze() first closes what has expired.
Swept == [i \in Imports |-> IF imports[i].expired /\ imports[i].phase \in Unfinished
                            THEN [imports[i] EXCEPT !.phase = "aborted"] ELSE imports[i]]

KeyFits == account.id # 0 => account.labelled /\ account.key = "arc"

Analyze(p) ==
  /\ pages[p].phase = "analyzing" /\ Unlocked /\ ~account.rotating
  /\ IF \E i \in Imports : Swept[i].phase \in Unfinished
     THEN /\ imports' = imports
          /\ SetPage(p, [Closed(p) EXCEPT !.blocked = TRUE])
     ELSE \E i \in Imports :
            /\ KeyFits
            /\ imports[i].phase = "none" /\ \A j \in Imports : imports[j].phase = "none" => i <= j
            /\ imports' = [Swept EXCEPT
                 ![i] = [@ EXCEPT !.phase = "review", !.owner = p, !.generation = account.generation,
                                  !.vault = VaultNow, !.installs = (account.id = 0)]]
            /\ \/ SetPage(p, [ClosedPage EXCEPT !.phase = "comparing", !.op = i])
               \/ SetPage(p, Closed(p))     \* the reply is lost
  /\ VaultRests /\ UNCHANGED <<bucket, commits, taken>>

\* The worker asks for what the account holds under the archived ids, one
\* category per request, then under the attachment ids.
Compare(p) ==
  /\ pages[p].phase = "comparing" /\ Unlocked
  /\ Owned(p, pages[p].op, {"review"}) /\ SameGeneration(pages[p].op)
  /\ SetPage(p, [pages[p] EXCEPT !.phase = "comparingFiles", !.seen = content])
  /\ ServerRests

CompareFiles(p) ==
  /\ pages[p].phase = "comparingFiles" /\ Unlocked
  /\ Owned(p, pages[p].op, {"review"}) /\ SameGeneration(pages[p].op)
  /\ SetPage(p, [pages[p] EXCEPT !.phase = "review", !.seenFile = fileRow])
  /\ ServerRests

\* compareArchive() and buildImportPlan(): what may be done with a record.
FilesOf(r) == {f \in Files : Owner[f] = r}
Held(p, r, states) == {f \in FilesOf(r) : pages[p].seenFile[f] \in states}
PlansFor(p, r) ==
  LET seen == pages[p].seen[r]
      foreign == Held(p, r, {"other", "deleted"})
      same == Held(p, r, {"same"})
  IN  CASE seen = Archived -> {"none"}
        [] seen = Absent -> IF foreign \cup same = {} THEN {"insert"} ELSE {"none"}
        [] OTHER -> {"none"} \cup (IF foreign = {} THEN {"replace"} ELSE {})
                             \cup (IF r \in PlainNotes \/ (r \notin Bound /\ foreign \cup same = {})
                                   THEN {"copy"} ELSE {})
Uploads(p, plan) ==
  UNION {FilesOf(r) \ (IF plan[r] = "replace" THEN Held(p, r, {"same"}) ELSE {}) :
           r \in {x \in Records : plan[x] # "none"}}

Decide(p) ==
  /\ pages[p].phase = "review"
  /\ \E plan \in Plan :
       /\ \A r \in Records : plan[r] \in PlansFor(p, r)
       /\ plan # NoPlan
       /\ SetPage(p, [pages[p] EXCEPT !.phase = "planned", !.plan = plan, !.uploads = Uploads(p, plan)])
  /\ ServerRests

BeginImport(p) ==
  LET i == pages[p].op
  IN  /\ pages[p].phase = "planned" /\ Unlocked
      /\ Owned(p, i, {"review"}) /\ SameGeneration(i) /\ ~account.rotating /\ SameVault(i)
      /\ SetImport(i, [imports[i] EXCEPT
           !.phase = "staging",
           !.records = Cardinality({r \in Records : pages[p].plan[r] # "none"}),
           !.files = Cardinality(pages[p].uploads)])
      /\ SetPage(p, [pages[p] EXCEPT !.phase = "staging"])
      /\ VaultRests /\ UNCHANGED <<bucket, commits, taken>>

-----------------------------------------------------------------------------
(* Staging *)

StagedRecords(row) == {r \in Records : row.staged[r] # "none"}

\* recountStaged() and markReadyIfComplete(): whole records only.
MarkReady(row) ==
  IF /\ row.phase = "staging"
     /\ Cardinality(StagedRecords(row) \ row.pending) = row.records
     /\ Cardinality(row.verified) = row.files
  THEN [row EXCEPT !.phase = "ready"] ELSE row

\* A record too large for one request is sent as a head, then its history.
Withheld(r, split) == IF split THEN {r} ELSE {}

StageRecord(p) ==
  LET i == pages[p].op
  IN  /\ pages[p].phase = "staging" /\ Unlocked
      /\ Owned(p, i, {"staging"}) /\ SameGeneration(i)
      /\ \E r \in Records, split \in BOOLEAN :
           /\ pages[p].plan[r] # "none" /\ imports[i].staged[r] = "none" /\ imports[i].pending = {}
           /\ Cardinality(StagedRecords(imports[i])) < imports[i].records
           /\ SetImport(i, MarkReady([imports[i] EXCEPT
                !.staged[r] = pages[p].plan[r],
                !.expected[r] = IF pages[p].plan[r] = "replace" THEN pages[p].seen[r] ELSE Absent,
                !.pending = Withheld(r, split)]))
      /\ VaultRests /\ UNCHANGED <<bucket, commits, taken, pages>>

AppendHistory(p) ==
  LET i == pages[p].op
  IN  /\ pages[p].phase = "staging" /\ Unlocked
      /\ Owned(p, i, {"staging"}) /\ SameGeneration(i)
      /\ imports[i].pending # {}
      /\ SetImport(i, MarkReady([imports[i] EXCEPT !.pending = {}]))
      /\ VaultRests /\ UNCHANGED <<bucket, commits, taken, pages>>

\* attachmentGrant(): the key of an item is allocated once.
Grant(p) ==
  LET i == pages[p].op
  IN  /\ pages[p].phase = "staging" /\ Unlocked
      /\ Owned(p, i, {"staging"}) /\ SameGeneration(i)
      /\ \E f \in pages[p].uploads :
           /\ StagedRecords(imports[i]) = {r \in Records : pages[p].plan[r] # "none"}
           /\ imports[i].pending = {} /\ f \notin imports[i].verified \cup imports[i].open
           /\ SetImport(i, [imports[i] EXCEPT !.granted = @ \cup {f}, !.open = @ \cup {f}])
      /\ VaultRests /\ UNCHANGED <<bucket, commits, taken, pages>>

\* A PUT under a signed URL reaches storage, whatever the page does meanwhile;
\* storage refuses to overwrite (If-None-Match).
PutLands(i, f, bytes) ==
  /\ f \in imports[i].open /\ bucket[<<i, f>>] = "none"
  /\ bucket' = [bucket EXCEPT ![<<i, f>>] = bytes]
  /\ UNCHANGED <<content, fileRow, account, imports, served, commits, taken, pages, edits>>

\* verifyAttachment(): read and hash the object, then record it under the lock.
VerifyRead(p) ==
  /\ pages[p].phase = "staging" /\ Unlocked
  /\ Owned(p, pages[p].op, {"staging"})
  /\ \E f \in imports[pages[p].op].granted \ imports[pages[p].op].verified :
       /\ bucket[<<pages[p].op, f>>] = "good"
       /\ SetPage(p, [pages[p] EXCEPT !.phase = "checking", !.checking = {f}])
  /\ ServerRests

VerifyRecord(p) ==
  LET i == pages[p].op
  IN  /\ pages[p].phase = "checking" /\ Unlocked
      /\ Owned(p, i, {"staging"})
      /\ pages[p].checking \subseteq imports[i].granted
      /\ Cardinality(imports[i].verified) + 1 <= imports[i].files
      /\ SetImport(i, MarkReady([imports[i] EXCEPT !.verified = @ \cup pages[p].checking]))
      /\ SetPage(p, [pages[p] EXCEPT !.phase = "staging", !.checking = {}])
      /\ VaultRests /\ UNCHANGED <<bucket, commits, taken>>

-----------------------------------------------------------------------------
(* Commit *)

\* The first half of commit(), outside the lock: the objects are still there.
CommitCheck(p) ==
  LET i == pages[p].op
  IN  /\ pages[p].phase = "staging" /\ Owned(p, i, {"ready"}) /\ commits[i] = "idle"
      /\ \A f \in imports[i].verified : bucket[<<i, f>>] = "good"
      /\ commits' = [commits EXCEPT ![i] = "checked"]
      /\ SetPage(p, [pages[p] EXCEPT !.phase = "committing"])
      /\ VaultRests /\ UNCHANGED <<bucket, imports, taken>>

\* The transaction: it reads the row and its items again, under the lock.
Passes(i) ==
  /\ imports[i].phase = "ready" /\ ~imports[i].expired
  /\ SameGeneration(i) /\ ~account.rotating /\ SameVault(i)

CommitOpen(i) ==
  /\ commits[i] = "checked" /\ Unlocked
  /\ commits' = [commits EXCEPT ![i] = IF Passes(i) THEN "open" ELSE "idle"]
  /\ taken' = [taken EXCEPT ![i] = IF Passes(i) THEN imports[i] ELSE BlankRow]
  /\ UNCHANGED <<content, fileRow, account, imports, bucket, served, pages, edits>>

\* applyPlan(): an insert needs a free id, a replace the aggregate reviewed, an
\* attachment kept must be the row compared, an attachment added a free id.
Reused(i, r) == {f \in FilesOf(r) : taken[i].staged[r] # "none" /\ f \notin taken[i].verified}
Renamed(i, f) == taken[i].staged[Owner[f]] = "copy" /\ Owner[f] \in PlainNotes

DestinationPresent(i, r) ==
  (content[r] = Absent) <=> (taken[i].staged[r] # "replace")
DestinationHolds(i, r) ==
  CASE taken[i].staged[r] = "insert"  -> content[r] = Absent
    [] taken[i].staged[r] = "replace" -> content[r] # Absent /\ content[r] = taken[i].expected[r]
    [] OTHER -> TRUE

\* validatePlan(): exactly what begin() announced has been staged and verified.
PlanStaged(row) ==
  /\ Cardinality(StagedRecords(row)) = row.records /\ row.pending = {}
  /\ Cardinality(row.verified) = row.files

Applicable(i) ==
  /\ PlanStaged(taken[i])
  /\ taken[i].installs => account.id = 0
  /\ \A r \in Records :
       /\ DestinationHolds(i, r)
       /\ \A f \in Reused(i, r) : taken[i].staged[r] = "replace" /\ fileRow[f] = "same"
  /\ \A f \in taken[i].verified : Renamed(i, f) \/ fileRow[f] = "none"

Landed(i) ==
  /\ content' = [r \in Records |-> IF taken[i].staged[r] \in {"insert", "replace"}
                                   THEN Archived ELSE content[r]]
  /\ fileRow' = [f \in Files |->
       IF taken[i].staged[Owner[f]] \in {"insert", "replace"} THEN "same"
       ELSE IF f \in taken[i].verified /\ ~Renamed(i, f) THEN "other" ELSE fileRow[f]]
  /\ served' = served \cup {<<i, f>> : f \in taken[i].verified}
  /\ account' = IF taken[i].installs
                THEN [account EXCEPT !.id = 1, !.key = "arc", !.labelled = TRUE] ELSE account

\* Records written one by one, without a transaction around them.
CommitPiecemeal(i) ==
  /\ commits[i] = "open"
  /\ commits' = [commits EXCEPT ![i] = "idle"] /\ taken' = [taken EXCEPT ![i] = BlankRow]
  /\ IF Applicable(i)
     THEN Landed(i) /\ imports' = [imports EXCEPT ![i].phase = "committed"]
     ELSE /\ content' = [r \in Records |-> IF DestinationHolds(i, r) /\ taken[i].staged[r] = "insert"
                                           THEN Archived ELSE content[r]]
          /\ UNCHANGED <<fileRow, served, account, imports>>
  /\ UNCHANGED <<bucket, pages, edits>>

\* The transaction ends: everything at once, or nothing and the page is told.
CommitClose(i) ==
  /\ commits[i] = "open"
  /\ commits' = [commits EXCEPT ![i] = "idle"] /\ taken' = [taken EXCEPT ![i] = BlankRow]
  /\ IF Applicable(i)
     THEN /\ Landed(i)
          /\ imports' = [imports EXCEPT ![i].phase = "committed"]
     ELSE UNCHANGED <<content, fileRow, served, account, imports>>
  /\ UNCHANGED <<bucket, pages, edits>>

\* The answer of the commit reaches the page, or the connection drops.
CommitAnswered(p) ==
  LET i == pages[p].op
  IN  /\ pages[p].phase = "committing" /\ commits[i] = "idle"
      /\ \/ /\ imports[i].phase = "committed"
            /\ SetPage(p, [ClosedPage EXCEPT !.phase = "complete", !.op = i])
            /\ UNCHANGED imports
         \/ /\ SetPage(p, Closed(p))
            /\ imports' = Aborting(p, imports)
      /\ VaultRests /\ UNCHANGED <<bucket, commits, taken>>

-----------------------------------------------------------------------------
(* Time, storage and the rest of the program *)

Expire(i) ==
  /\ imports[i].phase \in Unfinished /\ ~imports[i].expired
  /\ SetImport(i, [imports[i] EXCEPT !.expired = TRUE])
  /\ VaultRests /\ UNCHANGED <<bucket, commits, taken, pages>>

\* A signed URL and the grace after it run out; an upload takes no longer.
GraceOver(i, f) ==
  /\ f \in imports[i].open
  /\ SetImport(i, [imports[i] EXCEPT !.open = @ \ {f}])
  /\ VaultRests /\ UNCHANGED <<bucket, commits, taken, pages>>

\* The daily cleanup() takes no account lock.
SweepMayRun == SweepInCommit \/ Unlocked

SweepExpired ==
  /\ SweepMayRun
  /\ Swept # imports /\ imports' = Swept
  /\ VaultRests /\ UNCHANGED <<bucket, commits, taken, pages>>

DueVerified(i, f) ==
  f \in imports[i].granted \ imports[i].open /\ imports[i].phase \in {"aborted", "committed"}
DueAtOnce(i, f) ==
  /\ f \in imports[i].granted
  /\ \/ imports[i].phase = "aborted"
     \/ imports[i].phase = "committed" /\ f \notin imports[i].verified
Due(i, f) ==
  /\ f \in imports[i].granted \ imports[i].open
  /\ \/ imports[i].phase = "aborted"
     \/ imports[i].phase = "committed" /\ f \notin imports[i].verified

SweepObjectOnly(i, f) ==
  /\ SweepMayRun /\ Due(i, f)
  /\ bucket' = [bucket EXCEPT ![<<i, f>>] = "none"]
  /\ SetImport(i, [imports[i] EXCEPT !.granted = @ \ {f}])
  /\ VaultRests /\ UNCHANGED <<commits, taken, pages>>

SweepObject(i, f) ==
  /\ SweepMayRun /\ Due(i, f)
  /\ bucket' = [bucket EXCEPT ![<<i, f>>] = "none"]
  /\ SetImport(i, [imports[i] EXCEPT !.granted = @ \ {f}, !.verified = @ \ {f}])
  /\ VaultRests /\ UNCHANGED <<commits, taken, pages>>

\* A row goes when it names no object that could still need removing.  (It is
\* used again here for the next import, so it waits until nobody refers to it.)
SweepRow(i) ==
  /\ imports[i].phase \in {"aborted", "committed"}
  /\ imports[i].granted = {} /\ commits[i] = "idle"
  /\ \A p \in Pages : i \notin {pages[p].op, pages[p].cancelled}
  /\ SetImport(i, BlankRow)
  /\ VaultRests /\ UNCHANGED <<bucket, commits, taken, pages>>

\* Another tab or device saves, purges or creates under an archived id, and
\* attachments come and go with it (withVaultWrite).
NextText == 3 + edits
CanWrite == Unlocked /\ ~account.rotating /\ edits < MaxEdits
EditRecord(r) ==
  /\ CanWrite /\ content[r] # Absent
  /\ content' = [content EXCEPT ![r] = NextText]
  /\ edits' = edits + 1
  /\ fileRow' \in {fileRow, [f \in Files |-> IF Owner[f] = r /\ fileRow[f] = "same" THEN "deleted" ELSE fileRow[f]]}
  /\ UNCHANGED <<account, imports, bucket, served, commits, taken, pages>>

PurgeRecord(r) ==
  /\ CanWrite /\ content[r] # Absent
  /\ content' = [content EXCEPT ![r] = Absent]
  /\ fileRow' = [f \in Files |-> IF Owner[f] = r /\ fileRow[f] = "same" THEN "deleted" ELSE fileRow[f]]
  /\ edits' = edits + 1
  /\ UNCHANGED <<account, imports, bucket, served, commits, taken, pages>>

\* The storage sweep releases the id of a deleted attachment.
ReleaseFile(f) ==
  /\ Unlocked /\ ~account.rotating /\ fileRow[f] = "deleted"
  /\ fileRow' = [fileRow EXCEPT ![f] = "none"]
  /\ UNCHANGED <<content, account, imports, bucket, served, commits, taken, pages, edits>>

\* A profile is created or erased, its id backfilled, or a rotation runs.
ChangeKey ==
  /\ Unlocked /\ account.generation < 1
  /\ \/ /\ account.id = 0 /\ ~account.rotating
        /\ account' = [account EXCEPT !.id = 1, !.key = "other", !.labelled = TRUE]
     \/ /\ account.id # 0 /\ ~account.labelled /\ ~account.rotating
        /\ account' = [account EXCEPT !.labelled = TRUE]
     \/ /\ account.id # 0 /\ ~account.rotating /\ \A r \in Records : content[r] = Absent
        /\ account' = [account EXCEPT !.id = 0, !.key = "none", !.labelled = FALSE]
     \/ /\ account.id # 0 /\ ~account.rotating
        /\ account' = [account EXCEPT !.rotating = TRUE]
     \/ /\ account.rotating
        /\ account' = [account EXCEPT !.rotating = FALSE]
     \/ /\ account.rotating
        /\ account' = [account EXCEPT !.rotating = FALSE, !.generation = @ + 1,
                                      !.key = "other", !.labelled = TRUE]
  /\ UNCHANGED <<content, fileRow, imports, bucket, served, commits, taken, pages, edits>>

-----------------------------------------------------------------------------
PageStep(p) ==
  \/ OpenArchive(p) \/ Analyze(p) \/ ReviewAgain(p) \/ Compare(p) \/ CompareFiles(p) \/ Decide(p) \/ BeginImport(p)
  \/ StageRecord(p) \/ AppendHistory(p) \/ Grant(p) \/ VerifyRead(p) \/ VerifyRecord(p)
  \/ CommitCheck(p) \/ CommitAnswered(p)
  \/ Reset(p) \/ CancelImport(p) \/ LeavePage(p) \/ DiscardUnfinished(p)
Commit == \E i \in Imports : CommitOpen(i) \/ CommitClose(i)
Sweep == SweepExpired \/ \E i \in Imports : SweepRow(i) \/ \E f \in Files : SweepObject(i, f)
Put == \E i \in Imports, f \in Files, bytes \in {"good", "bad"} : PutLands(i, f, bytes)
Time == \E i \in Imports : Expire(i) \/ \E f \in Files : GraceOver(i, f)
Elsewhere == ChangeKey \/ (\E r \in Records : EditRecord(r) \/ PurgeRecord(r)) \/ \E f \in Files : ReleaseFile(f)

ImportNext == (\E p \in Pages : PageStep(p)) \/ Put \/ Commit \/ Sweep \/ Time \/ Elsewhere
ImportSpec == ImportInit /\ [][ImportNext]_importVars

-----------------------------------------------------------------------------
\* An attachment row that an import made points to an object that is there,
\* with the archive's bytes: no sweep and no late upload takes it away.
ImportedFilesExist == \A x \in served : bucket[x] = "good"

\* Storage never holds an object that no row names: a sweep waits until no
\* upload can arrive behind it.
EveryObjectIsKnown ==
  \A i \in Imports, f \in Files : bucket[<<i, f>>] # "none" => f \in imports[i].granted

\* A page that said "Import cancelled. Nothing was added to your vault." told
\* the truth, and will have.
CancelledAddsNothing ==
  \A p \in Pages : pages[p].cancelled # 0 => imports[pages[p].cancelled].phase # "committed"

CommitsNow(i) == imports[i].phase # "committed" /\ imports'[i].phase = "committed"

\* What a commit overwrites is what its page showed when the user decided: an
\* edit that came after the comparison is never lost, a record that appeared
\* after it is never merged into.
OverwritesWhatWasSeen ==
  [][\A p \in Pages : pages[p].op # 0 /\ CommitsNow(pages[p].op) =>
       \A r \in Records : pages[p].plan[r] \in {"insert", "replace"} => content[r] = pages[p].seen[r]
    ]_importVars

\* The vault takes the whole plan in one step or nothing of it: records, history
\* and attachments never arrive without the import being committed.
WholePlanOrNothing ==
  [][/\ (\E r \in Records : content[r] # Archived /\ content'[r] = Archived)
          => \E i \in Imports : CommitsNow(i)
     /\ \A p \in Pages : pages[p].op # 0 /\ CommitsNow(pages[p].op) =>
          /\ \A r \in Records : pages[p].plan[r] \in {"insert", "replace"} => content'[r] = Archived
          /\ \A f \in pages[p].uploads : <<pages[p].op, f>> \in served'
    ]_importVars

\* The archive's ciphertext lands only in an account whose key is the one it was
\* made with, whatever happened to that account since the review.
LandsUnderItsKey ==
  [][\A i \in Imports : CommitsNow(i) => account'.key = "arc" /\ ~account.rotating]_importVars

\* What a commit does to the vault, whatever happened since the review.
CommitsAreSound == OverwritesWhatWasSeen /\ WholePlanOrNothing /\ LandsUnderItsKey

\* An import nobody finishes does not block the account for good.
UnfinishedImportsEnd ==
  \A i \in Imports : imports[i].phase \in Unfinished ~> imports[i].phase \notin Unfinished
=============================================================================
