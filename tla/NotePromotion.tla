----------------------------- MODULE NotePromotion -----------------------------
(***************************************************************************)
(* Moving a note up a tier, with its history and its attachments           *)
(* (src/controllers/promotions.ts and files.ts, src/db/tier.ts,            *)
(* src/hooks/usePromotions.ts, src/lib/promotionFiles.ts, the cron route). *)
(*                                                                         *)
(* A note id keeps its value from tier to tier, so a row is a pair of an   *)
(* id and a tier.  A body is the number of the edit that wrote it and the  *)
(* attachments it shows; 0 is a blank body.  Every write of the server is  *)
(* one transaction under the account lock; a promotion is a read, a        *)
(* download and an upload per attachment, and the commit, each a request.  *)
(***************************************************************************)
EXTENDS Naturals, FiniteSets, Sequences

CONSTANTS
  Notes,         \* note ids; the first holds the note, the others are free
  First,         \* that id
  Tabs,          \* browsers
  MaxFiles,      \* bound: file_attachments rows ever made
  MaxSaves,      \* bound: saves of a body
  MaxWork,       \* bound: uploads and saves together
  MaxHistory,   \* MAX_VERSIONS, the length a history is cut to
  Batch,         \* batchSize, how many attachments one orphan sweep looks at
  Restored       \* whether an archive may have put a Secret under the note's id

ASSUME PromotionAssumption ==
  /\ First \in Notes /\ MaxFiles \in Nat \ {0} /\ MaxSaves \in Nat /\ MaxWork \in Nat /\ MaxHistory \in Nat \ {0} /\ Batch \in Nat \ {0}
  /\ Restored \in BOOLEAN /\ Notes \cap {"nowhere", "plain", "vault"} = {}

Tiers   == {"note", "secret", "seal"}
FileIds == 1..MaxFiles
Bodies  == [edit : 0..MaxSaves, shows : SUBSET FileIds]
Blank   == [edit |-> 0, shows |-> {}]

VARIABLES
  tierRows,      \* notes, secretNotes and sealNotes, each with its versions
  files,     \* file_attachments
  objects,   \* the attachments whose object is in storage
  tabs,      \* the promotion each browser runs
  saves,     \* how many bodies have been saved; also the clock of updatedAt
  removed    \* attachments deleted by their delete button

promotionVars == <<tierRows, files, objects, tabs, saves, removed>>

\* "expired" has passed its self-destruct time, "over" by more than an hour; "old"
\* has been in the trash for more than that hour and the seconds Undo is offered.
\* "gone" is a row the sweep has taken.
TierRow ==
  [state : {"none", "gone", "live", "expired", "over", "trash", "old"}, body : Bodies, history : Seq(Bodies),
   updatedAt : 0..MaxSaves, armed : BOOLEAN, keyed : BOOLEAN]
\* A file's key: none, the vault's, or the Seal of that id.  A copy is what a
\* promotion uploaded, of which no editor knows.
File ==
  [state : {"none", "live", "deleted", "late", "reaped"}, purged : BOOLEAN, copy : BOOLEAN,
   note : Notes \cup {"nowhere"}, tier : Tiers \cup {"nowhere"},
   key : {"plain", "vault"} \cup Notes]
Tab ==
  [phase : {"idle", "encrypting", "uploading", "failed", "ready", "cleaning"}, note : Notes, tier : {"note", "secret"},
   body : Bodies, history : Seq(Bodies), updatedAt : 0..MaxSaves,
   sources : SUBSET FileIds, done : SUBSET ((0..MaxFiles) \X FileIds), reading : {0} \cup FileIds]

PromotionTypeOK ==
  /\ tierRows \in [Notes -> [Tiers -> TierRow]]
  /\ files \in [FileIds -> File]
  /\ objects \subseteq FileIds
  /\ tabs \in [Tabs -> Tab]
  /\ saves \in 0..MaxSaves
  /\ removed \subseteq FileIds
  /\ \A n \in Notes, t \in Tiers : Len(tierRows[n][t].history) <= MaxHistory

NoTierRow  == [state |-> "none", body |-> Blank, history |-> <<>>, updatedAt |-> 0, armed |-> FALSE, keyed |-> FALSE]
NoFile == [state |-> "none", purged |-> FALSE, copy |-> FALSE, note |-> "nowhere", tier |-> "nowhere", key |-> "plain"]
NoTask == [phase |-> "idle", note |-> First, tier |-> "note", body |-> Blank, history |-> <<>>,
           updatedAt |-> 0, sources |-> {}, done |-> {}, reading |-> 0]

\* A note with an attachment.  Its id is taken in the tier above when the note
\* was promoted before and an archive made earlier has brought it back.
PromotionInit ==
  /\ \E occupied \in BOOLEAN :
       /\ occupied => Restored
       /\ tierRows = [n \in Notes |-> [t \in Tiers |->
            IF n # First \/ t = "seal" \/ (t = "secret" /\ ~occupied) THEN NoTierRow
            ELSE [NoTierRow EXCEPT !.state = "live", !.body.shows = IF t = "note" THEN {1} ELSE {}]]]
  /\ files = [f \in FileIds |-> IF f = 1
       THEN [NoFile EXCEPT !.state = "live", !.note = First, !.tier = "note"] ELSE NoFile]
  /\ objects = {1}
  /\ tabs = [b \in Tabs |-> NoTask]
  /\ saves = 0
  /\ removed = {}

-----------------------------------------------------------------------------
(* Rows and files *)

NoSuchNote(n, t) == tierRows[n][t].state \in {"none", "gone"}
\* getByIdActive(): a row past its hour is not found, one in the trash is.
Active(n, t) == tierRows[n][t].state \in {"live", "expired", "trash", "old"}
Above(t) == IF t = "note" THEN "secret" ELSE "seal"
LiveFile(f) == files[f].state = "live"
Linked(f, n, t) == files[f].note = n /\ files[f].tier = t
Unlinked(f) == files[f].note = "nowhere"
FilesHere(n, t) == {f \in FileIds : LiveFile(f) /\ Linked(f, n, t)}
NextFile ==
  {f \in FileIds : /\ files[f].state = "none" /\ \A g \in 1..(f - 1) : files[g].state # "none"
                   /\ f - 1 + saves <= MaxWork}
MaySave == saves < MaxSaves /\ Cardinality({f \in FileIds : files[f].state # "none"}) + saves <= MaxWork

SetRow(n, t, row) == tierRows' = [tierRows EXCEPT ![n][t] = row]
SetFiles(S, state) == [f \in FileIds |-> IF f \in S THEN [files[f] EXCEPT !.state = state] ELSE files[f]]

\* linkFilesToNote(): any live file of the account whose key the row can hold.
KeyAllowed(f, n, t) ==
  files[f].key \in {"plain", "vault"} \/ (t = "seal" /\ files[f].key = n /\ tierRows[n][t].keyed)
Relinked(S, n, t) ==
  [f \in FileIds |-> IF f \in S /\ LiveFile(f) /\ KeyAllowed(f, n, t)
                     THEN [files[f] EXCEPT !.note = n, !.tier = t] ELSE files[f]]

\* insertVersionCapped(): the newest MaxHistory stay.
CappedLate(history) ==
  IF Len(history) > MaxHistory + 1 THEN SubSeq(history, 2, Len(history)) ELSE history
Capped(history) ==
  IF Len(history) > MaxHistory THEN SubSeq(history, Len(history) - MaxHistory + 1, Len(history)) ELSE history

\* What an editor of the row may show: what it has shown, and new uploads for it.
KnownFiles(n, t) ==
  LET row == tierRows[n][t]
  IN  row.body.shows \cup (UNION {row.history[i].shows : i \in 1..Len(row.history)})
        \cup {f \in FileIds : /\ LiveFile(f) /\ Unlinked(f) /\ ~files[f].copy
                               /\ files[f].key \in IF t = "note" THEN {"plain"} ELSE {"vault", n}}

\* update: the head is replaced, the displaced one recorded unless its content
\* stood for less than the window, and the files shown are linked.
SaveNote(n, t) ==
  /\ Active(n, t) /\ MaySave
  /\ \E shows \in SUBSET KnownFiles(n, t), window \in BOOLEAN :
       /\ SetRow(n, t, [tierRows[n][t] EXCEPT
            !.body = [edit |-> saves + 1, shows |-> shows], !.updatedAt = saves + 1,
            !.history = IF @ = <<>> \/ window THEN Capped(Append(@, tierRows[n][t].body)) ELSE @])
       /\ files' = Relinked(shows, n, t)
  /\ saves' = saves + 1
  /\ UNCHANGED <<objects, tabs, removed>>

\* versions.restore: the head goes to history first; only a Note is re-linked.
RestoreVersion(n, t) ==
  /\ Active(n, t) /\ MaySave
  /\ \E i \in 1..Len(tierRows[n][t].history) :
       /\ SetRow(n, t, [tierRows[n][t] EXCEPT
            !.body = tierRows[n][t].history[i], !.updatedAt = saves + 1,
            !.history = Capped(Append(@, tierRows[n][t].body))])
       /\ files' = IF t = "note" THEN Relinked(tierRows[n][t].history[i].shows, n, t) ELSE files
  /\ saves' = saves + 1
  /\ UNCHANGED <<objects, tabs, removed>>

\* versions.delete: updatedAt stays.
DropVersion(n, t) ==
  /\ Active(n, t)
  /\ \E i \in 1..Len(tierRows[n][t].history) :
       SetRow(n, t, [tierRows[n][t] EXCEPT !.history = SubSeq(@, 1, i - 1) \o SubSeq(@, i + 1, Len(@))])
  /\ UNCHANGED <<files, objects, tabs, saves, removed>>

\* delete and restore of a note reach every file that carries its id.
Trash(n, t) ==
  /\ tierRows[n][t].state = "live"
  /\ SetRow(n, t, [tierRows[n][t] EXCEPT !.state = "trash"])
  /\ files' = SetFiles({f \in FileIds : LiveFile(f) /\ files[f].note = n}, "deleted")
  /\ UNCHANGED <<objects, tabs, saves, removed>>

UndoTrash(n, t) ==
  /\ tierRows[n][t].state = "trash"
  /\ SetRow(n, t, [tierRows[n][t] EXCEPT !.state = "live"])
  /\ files' = SetFiles({f \in FileIds : files[f].note = n /\ files[f].state \notin {"none", "reaped"}}, "live")
  /\ UNCHANGED <<objects, tabs, saves, removed>>

\* Burn after reading, armed.
Arm(n, t) ==
  /\ tierRows[n][t].state = "live" /\ ~tierRows[n][t].armed
  /\ SetRow(n, t, [tierRows[n][t] EXCEPT !.armed = TRUE])
  /\ UNCHANGED <<files, objects, tabs, saves, removed>>

\* "Save as new note": a Note is created with the same attachment ids, and they
\* are linked to it; a Secret's copy links nothing, a Seal's leaves them out.
Duplicate(n, t, m) ==
  /\ tierRows[n][t].state = "live" /\ \A u \in Tiers : tierRows[m][u].state = "none"
  /\ \E body \in {tierRows[n][t].body} \cup {tierRows[n][t].history[i] : i \in 1..Len(tierRows[n][t].history)} :
       /\ SetRow(m, t, [NoTierRow EXCEPT !.state = "live", !.keyed = (t = "seal"),
            !.body = IF t = "seal" THEN [body EXCEPT !.shows = {f \in @ : files[f].key \notin Notes}]
                     ELSE body])
       /\ files' = IF t = "note" THEN Relinked(body.shows, m, t) ELSE files
  /\ UNCHANGED <<objects, tabs, saves, removed>>

\* A self-destruct timer runs out; for an hour an open editor may still cancel it.
ExpireNote(n, t) ==
  /\ tierRows[n][t].state = "live"
  /\ SetRow(n, t, [tierRows[n][t] EXCEPT !.state = "expired"])
  /\ UNCHANGED <<files, objects, tabs, saves, removed>>

CancelTimer(n, t) ==
  /\ tierRows[n][t].state = "expired"
  /\ SetRow(n, t, [tierRows[n][t] EXCEPT !.state = "live", !.armed = FALSE])
  /\ UNCHANGED <<files, objects, tabs, saves, removed>>

\* The editor uploads a file before the note that will show it is saved.
AttachFiles(n, t) ==
  /\ tierRows[n][t].state = "live" /\ MaySave
  /\ \E f \in NextFile :
       /\ files' = [files EXCEPT ![f] = [NoFile EXCEPT !.state = "live",
            !.key = IF t = "note" THEN "plain" ELSE IF t = "secret" THEN "vault" ELSE n]]
       /\ objects' = objects \cup {f}
  /\ UNCHANGED <<tierRows, tabs, saves, removed>>

\* The delete button of an attachment an editor shows.
RemoveFile(n, t) ==
  /\ tierRows[n][t].state = "live"
  /\ \E f \in tierRows[n][t].body.shows :
       /\ LiveFile(f)
       /\ files' = SetFiles({f}, "deleted")
       /\ removed' = removed \cup {f}
  /\ UNCHANGED <<tierRows, objects, tabs, saves>>

-----------------------------------------------------------------------------
(* The cron *)

Hour ==
  /\ \/ \E n \in Notes, t \in Tiers : tierRows[n][t].state \in {"trash", "expired"}
     \/ \E f \in FileIds : files[f].state = "deleted"
  /\ tierRows' = [n \in Notes |-> [t \in Tiers |->
                [tierRows[n][t] EXCEPT !.state = IF @ = "trash" THEN "old" ELSE IF @ = "expired" THEN "over" ELSE @]]]
  /\ files' = SetFiles({f \in FileIds : files[f].state = "deleted"}, "late")
  /\ UNCHANGED <<objects, tabs, saves, removed>>

\* cleanupExpiredRows(): versions and tag links go with the head.
ReapRow(n, t) ==
  /\ tierRows[n][t].state \in {"old", "over"}
  /\ SetRow(n, t, [NoTierRow EXCEPT !.state = "gone"])
  /\ UNCHANGED <<files, objects, tabs, saves, removed>>

Orphan(f) == LiveFile(f) /\ ~Unlinked(f) /\ NoSuchNote(files[f].note, files[f].tier)

\* cleanupOrphanedFiles(): the first Batch linked files, in the table's own order,
\* for which the order they were made in stands.
Scanned ==
  LET linked == {f \in FileIds : LiveFile(f) /\ ~Unlinked(f)}
  IN  {f \in linked : Cardinality({g \in linked : g <= f}) <= Batch}
SweepOrphans ==
  /\ \E f \in Scanned : Orphan(f)
  /\ files' = SetFiles({f \in Scanned : Orphan(f)}, "deleted")
  /\ UNCHANGED <<tierRows, objects, tabs, saves, removed>>

\* cleanupDeletedFiles(), which looks again under the lock: the object goes, and
\* then the row says so, unless the transaction is lost.
PurgeableOnce(f) == files[f].state = "late" /\ ~files[f].purged /\ f \in objects
Purgeable(f) == files[f].state = "late" /\ ~files[f].purged

Purge(f) ==
  /\ Purgeable(f)
  /\ objects' = objects \ {f}
  /\ files' = [files EXCEPT ![f].purged = TRUE]
  /\ UNCHANGED <<tierRows, tabs, saves, removed>>

PurgeLost(f) ==
  /\ Purgeable(f) /\ f \in objects
  /\ objects' = objects \ {f}
  /\ UNCHANGED <<tierRows, files, tabs, saves, removed>>

\* cleanupExpiredRows() drops the rows whose object went an hour ago.
ReapFile(f) ==
  /\ files[f].purged /\ files[f].state # "reaped"
  /\ files' = [files EXCEPT ![f] = [NoFile EXCEPT !.state = "reaped"]]
  /\ removed' = removed \ {f}
  /\ UNCHANGED <<tierRows, objects, tabs, saves>>

-----------------------------------------------------------------------------
(* Promotion *)

SetTab(b, tab) == tabs' = [tabs EXCEPT ![b] = tab]
\* What a promotion that ends badly still holds: the uploads it may delete.
Ending(b, phase) ==
  [NoTask EXCEPT !.phase = phase, !.note = tabs[b].note, !.done = {<<0, p[2]>> : p \in tabs[b].done}]
ServerStays == UNCHANGED <<tierRows, files, objects, saves, removed>>
Task(b) == tabs[b]
Uploaded(b) == {p[2] : p \in Task(b).done}
Uncopied(b) == Task(b).sources \ {p[1] : p \in Task(b).done}

\* One consistent read: the row is not deleted and its burn is not armed.
Present(n, t) == tierRows[n][t].state \in {"live", "expired", "over"} /\ ~tierRows[n][t].armed
Prepared(n, t, sources) ==
  [NoTask EXCEPT !.phase = "encrypting", !.note = n, !.tier = t, !.body = tierRows[n][t].body,
                 !.history = tierRows[n][t].history, !.updatedAt = tierRows[n][t].updatedAt, !.sources = sources]

\* A Note's plaintext attachments are to be encrypted, a Secret's all re-encrypted.
Plaintext(n) == {f \in FilesHere(n, "note") : files[f].key = "plain"}
PrepareNote(b, n) ==
  /\ Task(b).phase = "idle" /\ Present(n, "note")
  /\ SetTab(b, Prepared(n, "note", Plaintext(n)))
  /\ ServerStays

PrepareSecret(b, n) ==
  /\ Task(b).phase = "idle" /\ Present(n, "secret")
  /\ SetTab(b, Prepared(n, "secret", FilesHere(n, "secret")))
  /\ ServerStays

\* GET of an attachment: served while its note is readable.
Readable(f) == LiveFile(f) /\ f \in objects /\ (Unlinked(f) \/ tierRows[files[f].note][files[f].tier].state = "live")

\* What the browser can read: plaintext for a Note, the vault's for a Secret.
Expected(b, f) == files[f].key = "plain" \/ (Task(b).tier = "secret" /\ files[f].key = "vault")
Download(b) ==
  /\ Task(b).phase = "encrypting"
  /\ \E f \in Uncopied(b) :
       /\ Readable(f) /\ Expected(b, f)
       /\ SetTab(b, [Task(b) EXCEPT !.phase = "uploading", !.reading = f])
  /\ ServerStays

\* POST of its replacement: an unlinked row, under the key of the tier above.
KeyInTarget(b) == IF Task(b).tier = "note" THEN "vault" ELSE Task(b).note
Upload(b) ==
  /\ Task(b).phase = "uploading"
  /\ \E f \in NextFile :
       /\ files' = [files EXCEPT ![f] = [NoFile EXCEPT !.state = "live", !.copy = TRUE, !.key = KeyInTarget(b)]]
       /\ objects' = objects \cup {f}
       /\ \/ SetTab(b, [Task(b) EXCEPT !.phase = "encrypting", !.reading = 0,
                          !.done = @ \cup {<<Task(b).reading, f>>}])
          \/ SetTab(b, Ending(b, "failed"))    \* the reply is lost
  /\ UNCHANGED <<tierRows, saves, removed>>

Encrypted(b) ==
  /\ Task(b).phase = "encrypting" /\ Uncopied(b) = {}
  /\ SetTab(b, [Task(b) EXCEPT !.phase = "ready"])
  /\ ServerStays

\* The commit checks the head, the destination, the versions and the files.
SameRow(b) == tierRows[Task(b).note][Task(b).tier].state = "live"
SameInstant(b) == tierRows[Task(b).note][Task(b).tier].updatedAt = Task(b).updatedAt
SameVersions(b) == tierRows[Task(b).note][Task(b).tier].history = Task(b).history
SourceFiles(b) == IF Task(b).tier = "note" THEN Plaintext(Task(b).note) ELSE FilesHere(Task(b).note, "secret")
SameFiles(b) == SourceFiles(b) = {p[1] : p \in Task(b).done}
FreshUploads(b) == \A f \in Uploaded(b) : LiveFile(f) /\ Unlinked(f) /\ files[f].key = KeyInTarget(b)

MayCommit(b) ==
  /\ Present(Task(b).note, Task(b).tier)
  /\ NoSuchNote(Task(b).note, Above(Task(b).tier))
  /\ SameInstant(b) /\ SameVersions(b) /\ SameFiles(b) /\ FreshUploads(b)

\* replaceFileIds(): the browser points the bodies it re-encrypts at the copies.
PointedAsIs(b, body) == body
Pointed(b, body) ==
  [body EXCEPT !.shows = {f \in @ : f \notin {p[1] : p \in Task(b).done}}
                           \cup {p[2] : p \in {q \in Task(b).done : q[1] \in body.shows}}]
\* A Seal's key is made once something has to be under it.
NeedsKey(b) ==
  \/ Task(b).sources # {} \/ Task(b).body # Blank
  \/ \E i \in 1..Len(Task(b).history) : Task(b).history[i] # Blank
Promoted(b, keyed) ==
  [tierRows[Task(b).note][Task(b).tier] EXCEPT
     !.body = Pointed(b, Task(b).body), !.keyed = keyed,
     !.history = [i \in 1..Len(Task(b).history) |-> Pointed(b, Task(b).history[i])]]

\* The copies are linked, their sources retired; a Note's encrypted files move along.
Moved(b) ==
  LET n == Task(b).note
      t == Above(Task(b).tier)
  IN  [f \in FileIds |->
         IF f \in Uploaded(b) THEN [files[f] EXCEPT !.note = n, !.tier = t]
         ELSE IF f \in SourceFiles(b) THEN [files[f] EXCEPT !.state = "deleted"]
         ELSE IF f \in FilesHere(n, Task(b).tier) THEN [files[f] EXCEPT !.tier = t] ELSE files[f]]

CommitPromotion(b, keyed) ==
  /\ Task(b).phase = "ready"
  /\ MayCommit(b)
  /\ tierRows' = [tierRows EXCEPT ![Task(b).note][Above(Task(b).tier)] = Promoted(b, keyed),
                          ![Task(b).note][Task(b).tier] = NoTierRow]
  /\ files' = Moved(b)
  /\ \/ SetTab(b, NoTask)
     \/ SetTab(b, Ending(b, "cleaning"))    \* the reply is lost
  /\ UNCHANGED <<objects, saves, removed>>

NoteToSecret(b) == Task(b).tier = "note" /\ CommitPromotion(b, FALSE)
SecretToSeal(b) == Task(b).tier = "secret" /\ CommitPromotion(b, NeedsKey(b))

\* Refused, or the request never arrives.
CommitFails(b) ==
  /\ Task(b).phase = "ready"
  /\ SetTab(b, Ending(b, "cleaning"))
  /\ ServerStays

\* cleanupUploads, best effort: only rows still unlinked.
StraysOrLinked(b) == {f \in Uploaded(b) : LiveFile(f)}
Strays(b) == {f \in Uploaded(b) : LiveFile(f) /\ Unlinked(f)}

CleanUp(b) ==
  /\ Task(b).phase = "cleaning"
  /\ files' \in {files, SetFiles(Strays(b), "deleted")}
  /\ SetTab(b, NoTask)
  /\ UNCHANGED <<tierRows, objects, saves, removed>>

\* A download or an upload fails: DELETE of each upload so far, best effort.
GiveUp(b) ==
  /\ Task(b).phase \in {"encrypting", "uploading", "failed"}
  /\ \E lost \in SUBSET Uploaded(b) :
       files' = SetFiles({f \in Uploaded(b) \ lost : LiveFile(f)}, "deleted")
  /\ SetTab(b, NoTask)
  /\ UNCHANGED <<tierRows, objects, saves, removed>>

\* The page is closed; what it uploaded stays, unlinked.
CloseTab(b) ==
  /\ Task(b).phase # "idle"
  /\ SetTab(b, NoTask)
  /\ ServerStays

PromotionStep(b) ==
  \/ \E n \in Notes : PrepareNote(b, n) \/ PrepareSecret(b, n)
  \/ Download(b) \/ Upload(b) \/ Encrypted(b) \/ NoteToSecret(b) \/ SecretToSeal(b) \/ CommitFails(b)
  \/ CleanUp(b) \/ GiveUp(b) \/ CloseTab(b)

RowStep(n, t) ==
  \/ SaveNote(n, t) \/ RestoreVersion(n, t) \/ DropVersion(n, t) \/ Trash(n, t) \/ UndoTrash(n, t) \/ Arm(n, t)
  \/ ExpireNote(n, t) \/ CancelTimer(n, t)
  \/ AttachFiles(n, t) \/ RemoveFile(n, t) \/ ReapRow(n, t) \/ \E m \in Notes : Duplicate(n, t, m)

PromotionNext ==
  \/ \E n \in Notes, t \in Tiers : RowStep(n, t)
  \/ \E b \in Tabs : PromotionStep(b)
  \/ Hour \/ SweepOrphans \/ \E f \in FileIds : Purge(f) \/ PurgeLost(f) \/ ReapFile(f)

PromotionSpec == PromotionInit /\ [][PromotionNext]_promotionVars

-----------------------------------------------------------------------------
(* Properties *)

Opens(f, n, t) == LiveFile(f) /\ f \in objects /\ (files[f].key \in Notes => files[f].key = n /\ t = "seal" /\ tierRows[n][t].keyed)

\* An attachment that a live row shows and owns, and that nobody removed, opens:
\* its row is live, its object is there and the row has its key.  No cleanup of
\* a promotion, of a lost reply or of the cron takes a file that is in use.
ShownFilesOpen ==
  \A n \in Notes, t \in Tiers :
    tierRows[n][t].state = "live" =>
      \A f \in tierRows[n][t].body.shows : Linked(f, n, t) /\ f \notin removed => Opens(f, n, t)

\* What a Secret or a Seal shows is ciphertext in storage.
SecretsAreEncrypted ==
  \A n \in Notes, t \in {"secret", "seal"} :
    tierRows[n][t].state = "live" =>
      \A f \in tierRows[n][t].body.shows \ removed : LiveFile(f) => files[f].key # "plain"

\* A promotion moves the note as it stands: the last saved body, every version
\* in its order, and for each attachment shown a live copy in the new row.
Edits(history) == [i \in 1..Len(history) |-> history[i].edit]
CarriesEverything(n, t) ==
  LET from == tierRows[n][t]
      to == tierRows'[n][Above(t)]
  IN  /\ to.state = from.state /\ to.body.edit = from.body.edit /\ Edits(to.history) = Edits(from.history)
      /\ Cardinality(to.body.shows) = Cardinality(from.body.shows)
      /\ \A f \in from.body.shows \cap FilesHere(n, t) :
           \E g \in to.body.shows :
             /\ files'[g].state = "live" /\ files'[g].note = n /\ files'[g].tier = Above(t)
             /\ f = g \/ g \notin from.body.shows
PromotionsCarryEverything ==
  [][\A n \in Notes, t \in {"note", "secret"} :
       tierRows[n][t].state \in {"live", "expired", "over"} /\ tierRows'[n][t].state = "none" => CarriesEverything(n, t)]_promotionVars

\* A deleted attachment leaves storage, unless it is brought back, even when the
\* purge of it was interrupted after the object had gone.
TrashIsPurged == \A f \in FileIds : files[f].state = "late" ~> files[f].purged \/ LiveFile(f)

\* The attachments of a note that is gone do not stay.
OrphansAreSwept == \A f \in FileIds : Orphan(f) ~> ~Orphan(f)

\* A file that its delete button removed is not live again.
RemovedStaysRemoved == \A f \in removed : ~LiveFile(f)

\* Deleting a row takes the files of that row.
TrashTakesItsOwn ==
  [][\A f \in FileIds, n \in Notes, t \in Tiers :
       Linked(f, n, t) /\ tierRows[n][t].state = "live" /\ tierRows'[n][t] = tierRows[n][t]
         /\ LiveFile(f) /\ files'[f].state = "deleted" => f \in removed']_promotionVars

\* Whatever saves, uploads, promotions, sweeps and restores there are, a note
\* keeps its attachments readable, and its content secret once it was made so.
PromotionLosesNothing == [](ShownFilesOpen /\ SecretsAreEncrypted) /\ PromotionsCarryEverything
================================================================================
