---------------------------- MODULE NoteHistory ----------------------------
(***************************************************************************)
(* The version history of one note: the head and its versions at the       *)
(* server (db/tier.ts), the versions endpoints (routers/_versions.ts), and *)
(* the timeline of one page (hooks/useVersions.ts, VersionHistoryModal.tsx)*)
(* with its restores, undos and deletions, while other devices write.      *)
(*                                                                         *)
(* Time runs in units of which Window make VERSION_COMPRESSION_WINDOW_MS.  *)
(* A request, and the toast that offers an undo, take no time on that      *)
(* scale.                                                                  *)
(***************************************************************************)
EXTENDS Naturals, Sequences, SequencesExt

CONSTANTS Wordings,        \* what a note may say
          Window,       \* how long a text stands before it is worth a version
          Cap,          \* versions kept (MAX_VERSIONS)
          MaxRows,      \* versions ever recorded
          MaxTime,
          MaxSteps,     \* edits, restores and deletions
          Hasty         \* until a restore is undone or its toast gone, the timeline may be
                        \* closed, its refetch fail, versions be deleted, others restore

ASSUME HistoryAssumption ==
    /\ {Window, Cap, MaxRows, MaxTime, MaxSteps} \subseteq Nat \ {0}
    /\ Hasty \in BOOLEAN

VARIABLES head,      \* the note at the server
          history,   \* its versions there, oldest first
          lastRow,   \* the last row id given
          clock,
          timeline,  \* the page: is the timeline shown, what does it hold
          pageText,     \* the text the page shows
          fetch,     \* a list request whose answer is under way
          restore,   \* a restore of the page
          deletion,  \* a deletion of the page
          undo,      \* the toast offering to undo the last restore
          steps,
          stood,     \* history: texts displaced after standing for the window
          dropped    \* history: rows deleted by request

historyVars == <<head, history, lastRow, clock, timeline, pageText, fetch, restore,
                 deletion, undo, steps, stood, dropped>>

RowIds == 1 .. MaxRows
Version == [id : RowIds, text : Wordings, at : 0 .. MaxTime]
NoHistoryFetch == [on |-> FALSE, rows |-> <<>>]
NoRestore == [stage |-> "none", undoing |-> FALSE, id |-> 0, text |-> 0, prev |-> 0, was |-> 0]
NoDeletion == [stage |-> "none", id |-> 0, before |-> <<>>]
NoUndo == [on |-> FALSE, text |-> 0, prev |-> 0, was |-> 0]

HistoryInit ==
    /\ \E text \in Wordings : head = [text |-> text, at |-> 0] /\ pageText = text
    /\ history = <<>> /\ lastRow = 0 /\ clock = 0
    /\ timeline = [open |-> FALSE, known |-> FALSE, rows |-> <<>>]
    /\ fetch = NoHistoryFetch /\ restore = NoRestore /\ deletion = NoDeletion /\ undo = NoUndo
    /\ steps = 0 /\ stood = {} /\ dropped = {}

Step == steps < MaxSteps /\ steps' = steps + 1

-----------------------------------------------------------------------------
(* The server *)

NewestRows(rows) == IF Len(rows) > Cap THEN SubSeq(rows, Len(rows) - Cap + 1, Len(rows)) ELSE rows
PrunedThenRecorded(rows, row) == Append(NewestRows(rows), row)
\* insertVersionCapped: one more row, and only the newest Cap are kept.
Recorded(rows, row) == NewestRows(Append(rows, row))
Displaced == [id |-> lastRow + 1, text |-> head.text, at |-> head.at]

WorthSince(rows) == rows = <<>> \/ head.at - rows[Len(rows)].at >= Window
\* shouldRecordVersion: the displaced text stood for the window, or nothing is recorded yet.
WorthRecording(rows) == rows = <<>> \/ clock - head.at >= Window

VersionRow(rows, id) == CHOOSE r \in {rows[i] : i \in DOMAIN rows} : r.id = id
Has(rows, id) == \E i \in DOMAIN rows : rows[i].id = id
Place(rows, id) == CHOOSE i \in DOMAIN rows : rows[i].id = id
\* At most one row has an id.
Without(rows, id) == IF Has(rows, id) THEN RemoveAt(rows, Place(rows, id)) ELSE rows

Saw(push) ==
    stood' = IF clock - head.at >= Window
             THEN stood \cup {[row |-> IF push THEN lastRow + 1 ELSE 0, text |-> head.text]}
             ELSE stood

\* updateWithVersion: nothing at all when nothing changes.
Updated(text) ==
    IF text = head.text THEN UNCHANGED <<head, history, lastRow, stood>>
    ELSE /\ lastRow < MaxRows
         /\ history' = IF WorthRecording(history) THEN Recorded(history, Displaced) ELSE history
         /\ lastRow' = IF WorthRecording(history) THEN lastRow + 1 ELSE lastRow
         /\ head' = [text |-> text, at |-> clock]
         /\ Saw(WorthRecording(history))

RestoredNewest(id) == history[Len(history)]
RestoredRow(id) == VersionRow(history, id)

\* restoreVersion: the displaced head is always recorded, whatever its age.
RestoreAtServer(id) ==
    IF ~Has(history, id) THEN UNCHANGED <<head, history, lastRow, stood>>
    ELSE /\ lastRow < MaxRows
         /\ head' = [text |-> RestoredRow(id).text, at |-> clock]
         /\ history' = Recorded(history, Displaced)
         /\ lastRow' = lastRow + 1
         /\ Saw(TRUE)

Idle == restore.stage = "none" /\ deletion.stage = "none" /\ ~fetch.on /\ ~undo.on

HistoryTick ==
    /\ clock < MaxTime /\ Idle
    /\ clock' = clock + 1
    /\ UNCHANGED <<head, history, lastRow, timeline, pageText, fetch, restore, deletion, undo,
                   steps, stood, dropped>>

Calm == Hasty \/ (restore.stage = "none" /\ ~undo.on)

\* Another device saves, restores or deletes.
EditElsewhere(text) ==
    /\ Step /\ text # head.text
    /\ Updated(text)
    /\ UNCHANGED <<clock, timeline, pageText, fetch, restore, deletion, undo, dropped>>
RestoreElsewhere(id) ==
    /\ Step /\ Calm /\ Has(history, id)
    /\ RestoreAtServer(id)
    /\ UNCHANGED <<clock, timeline, pageText, fetch, restore, deletion, undo, dropped>>
DeleteElsewhere(id) ==
    /\ Step /\ Calm /\ Has(history, id)
    /\ history' = Without(history, id)
    /\ dropped' = dropped \cup {id}
    /\ UNCHANGED <<head, lastRow, clock, timeline, pageText, fetch, restore, deletion, undo, stood>>

-----------------------------------------------------------------------------
(* The page: reading the timeline *)

Asking == [on |-> TRUE, rows |-> history]
\* invalidateQueries: a timeline on screen is fetched again, one that is not waits.
HistoryInvalidated == IF timeline.open THEN Asking ELSE NoHistoryFetch

OpenTimeline ==
    /\ ~timeline.open /\ restore.stage = "none"
    /\ timeline' = [timeline EXCEPT !.open = TRUE]
    /\ fetch' = Asking
    /\ UNCHANGED <<head, history, lastRow, clock, pageText, restore, deletion, undo, steps, stood,
                   dropped>>

CloseTimeline ==
    /\ timeline.open /\ (Hasty \/ restore.stage = "none")
    /\ timeline' = [timeline EXCEPT !.open = FALSE]
    /\ fetch' = NoHistoryFetch
    /\ restore' = IF restore.stage = "refetching" THEN [restore EXCEPT !.stage = "listed"] ELSE restore
    /\ UNCHANGED <<head, history, lastRow, clock, pageText, deletion, undo, steps, stood, dropped>>

HistoryListed == restore' = IF restore.stage = "refetching" THEN [restore EXCEPT !.stage = "listed"]
                     ELSE restore
FetchEnds ==
    /\ fetch.on
    /\ timeline' = [timeline EXCEPT !.known = TRUE, !.rows = fetch.rows]
    /\ fetch' = NoHistoryFetch /\ HistoryListed
    /\ UNCHANGED <<head, history, lastRow, clock, pageText, deletion, undo, steps, stood, dropped>>

\* A refetch that fails leaves what the page had.
HistoryFetchFails ==
    /\ fetch.on /\ (Hasty \/ restore.stage # "refetching")
    /\ fetch' = NoHistoryFetch /\ HistoryListed
    /\ UNCHANGED <<head, history, lastRow, clock, timeline, pageText, deletion, undo, steps, stood,
                   dropped>>

-----------------------------------------------------------------------------
(* The page: restoring and undoing *)

\* Save in the note's editor: the timeline is invalidated, and so fetched when shown again.
EditHere(text) ==
    /\ Step /\ ~timeline.open /\ restore.stage = "none" /\ text # pageText
    /\ Updated(text)
    /\ pageText' = text
    /\ UNCHANGED <<clock, timeline, fetch, restore, deletion, undo, dropped>>

RestoreEntry(i) ==
    LET row == timeline.rows[i] IN
    /\ Step /\ timeline.open /\ timeline.known /\ restore.stage = "none"
    /\ Hasty \/ deletion.stage = "none"
    /\ restore' = [NoRestore EXCEPT !.stage = "asked", !.id = row.id, !.text = row.text, !.prev = pageText]
    /\ pageText' = row.text
    /\ undo' = NoUndo
    /\ UNCHANGED <<head, history, lastRow, clock, timeline, fetch, deletion, stood, dropped>>

\* Undo restores the newest row the page knows of: the restore recorded what it displaced.
UndoRestore ==
    LET newest == timeline.rows[Len(timeline.rows)] IN
    /\ undo.on /\ restore.stage = "none"
    /\ undo' = NoUndo
    /\ IF timeline.rows = <<>> THEN UNCHANGED <<pageText, restore>>
       ELSE /\ pageText' = undo.prev
            /\ restore' = [stage |-> "asked", undoing |-> TRUE, id |-> newest.id,
                           text |-> undo.text, prev |-> undo.prev, was |-> undo.was]
    /\ UNCHANGED <<head, history, lastRow, clock, timeline, fetch, deletion, steps, stood, dropped>>

UndoExpires ==
    /\ undo.on /\ undo' = NoUndo
    /\ UNCHANGED <<head, history, lastRow, clock, timeline, pageText, fetch, restore, deletion,
                   steps, stood, dropped>>

\* The request reaches the server, or does not.
RestoreRuns ==
    /\ restore.stage = "asked"
    /\ RestoreAtServer(restore.id)
    /\ restore' = [restore EXCEPT !.stage = IF Has(history, restore.id) THEN "made" ELSE "failed",
                                  !.was = IF restore.undoing THEN @ ELSE head.text]
    /\ UNCHANGED <<clock, timeline, pageText, fetch, deletion, undo, steps, dropped>>
RestoreLost ==
    /\ restore.stage \in {"asked", "made"}
    /\ restore' = [restore EXCEPT !.stage = "failed"]
    /\ UNCHANGED <<head, history, lastRow, clock, timeline, pageText, fetch, deletion, undo, steps,
                   stood, dropped>>

RestoreSucceedsAtOnce ==
    /\ restore.stage = "made"
    /\ restore' = [restore EXCEPT !.stage = "listed"]
    /\ fetch' = HistoryInvalidated
    /\ UNCHANGED <<head, history, lastRow, clock, timeline, pageText, deletion, undo, steps, stood,
                   dropped>>
\* onSuccess waits for the timeline to be fetched again.
RestoreSucceeds ==
    /\ restore.stage = "made"
    /\ restore' = [restore EXCEPT !.stage = IF timeline.open THEN "refetching" ELSE "listed"]
    /\ fetch' = HistoryInvalidated
    /\ UNCHANGED <<head, history, lastRow, clock, timeline, pageText, deletion, undo, steps, stood,
                   dropped>>

\* Then the toast offers to undo it.
RestoreSettles ==
    /\ restore.stage = "listed"
    /\ undo' = IF restore.undoing THEN NoUndo
               ELSE [on |-> TRUE, text |-> restore.text, prev |-> restore.prev, was |-> restore.was]
    /\ restore' = NoRestore
    /\ UNCHANGED <<head, history, lastRow, clock, timeline, pageText, fetch, deletion, steps, stood,
                   dropped>>

\* A failed restore shows what stood before; a failed undo, the version again.
RestoreFails ==
    /\ restore.stage = "failed"
    /\ pageText' = IF restore.undoing THEN restore.text ELSE restore.prev
    /\ restore' = NoRestore
    /\ UNCHANGED <<head, history, lastRow, clock, timeline, fetch, deletion, undo, steps, stood,
                   dropped>>

-----------------------------------------------------------------------------
(* The page: deleting a version *)

DeleteEntry(i) ==
    LET row == timeline.rows[i] IN
    /\ Step /\ Calm /\ timeline.open /\ timeline.known /\ deletion.stage = "none"
    /\ deletion' = [stage |-> "asked", id |-> row.id, before |-> timeline.rows]
    /\ timeline' = [timeline EXCEPT !.rows = Without(@, row.id)]
    /\ fetch' = NoHistoryFetch /\ HistoryListed
    /\ UNCHANGED <<head, history, lastRow, clock, pageText, undo, stood, dropped>>

\* Idempotent: a row already gone is as good as deleted.
DeleteRuns ==
    /\ deletion.stage = "asked"
    /\ history' = Without(history, deletion.id)
    /\ dropped' = dropped \cup {deletion.id}
    /\ deletion' = [deletion EXCEPT !.stage = "made"]
    /\ UNCHANGED <<head, lastRow, clock, timeline, pageText, fetch, restore, undo, steps, stood>>
DeleteLost ==
    /\ deletion.stage \in {"asked", "made"}
    /\ deletion' = [deletion EXCEPT !.stage = "failed"]
    /\ UNCHANGED <<head, history, lastRow, clock, timeline, pageText, fetch, restore, undo, steps,
                   stood, dropped>>

\* Whatever became of it, the timeline is fetched again.
DeleteSettles ==
    /\ deletion.stage \in {"made", "failed"}
    /\ timeline' = IF deletion.stage = "failed" THEN [timeline EXCEPT !.rows = deletion.before]
                   ELSE timeline
    /\ deletion' = NoDeletion
    /\ fetch' = HistoryInvalidated
    /\ UNCHANGED <<head, history, lastRow, clock, pageText, restore, undo, steps, stood, dropped>>

-----------------------------------------------------------------------------
ServerStep ==
    \/ HistoryTick
    \/ \E text \in Wordings : EditElsewhere(text)
    \/ \E id \in RowIds : RestoreElsewhere(id) \/ DeleteElsewhere(id)
TimelineStep == OpenTimeline \/ CloseTimeline \/ FetchEnds \/ HistoryFetchFails
RestoreStep ==
    \/ \E i \in DOMAIN timeline.rows : RestoreEntry(i)
    \/ UndoRestore \/ UndoExpires \/ RestoreRuns \/ RestoreLost \/ RestoreSucceeds \/ RestoreSettles
    \/ RestoreFails
DeletionStep == (\E i \in DOMAIN timeline.rows : DeleteEntry(i)) \/ DeleteRuns \/ DeleteLost
                    \/ DeleteSettles

HistoryNext == \/ ServerStep \/ TimelineStep \/ RestoreStep \/ DeletionStep
               \/ \E text \in Wordings : EditHere(text)
HistorySpec == HistoryInit /\ [][HistoryNext]_historyVars

-----------------------------------------------------------------------------
(* Versions are in the order they were recorded, oldest content first, never  *)
(* more than the cap, and none is younger than the head (db/tier.ts).         *)
HistoryTypeOK ==
    /\ head.text \in Wordings /\ head.at \in 0 .. clock
    /\ Len(history) <= Cap
    /\ \A i \in DOMAIN history : history[i] \in Version /\ history[i].at <= head.at
    /\ \A i, j \in DOMAIN history : i < j => /\ history[i].id < history[j].id
                                             /\ history[i].at <= history[j].at
    /\ \A i, j \in DOMAIN timeline.rows : i < j => timeline.rows[i].id < timeline.rows[j].id

(* A text that stood for the compression window is a version once displaced,  *)
(* until somebody deletes it or Cap newer ones push it out: "a bad edit or an *)
(* accidental deletion of a paragraph is never fatal" (docs/8.version-history)*)
HistoryKeepsWhatStood ==
    \A s \in stood : \/ s.row \in dropped
                     \/ s.row > 0 /\ (Has(history, s.row) \/ s.row + Cap <= lastRow)

(* A restore puts in the head the text the page had on screen when it was     *)
(* clicked, however the history moved under it (useVersions.ts, by id).       *)
RestoresWhatWasShown ==
    [][(restore.stage = "asked" /\ restore'.stage = "made" /\ ~restore.undoing)
          => head'.text = restore.text]_historyVars

(* "The confirmation toast has an Undo button that puts it right back"        *)
(* (docs/8.version-history.md): an undo that the server accepts leaves the    *)
(* text the restore had displaced.                                            *)
UndoPutsItBack ==
    [][(restore.stage = "asked" /\ restore'.stage = "made" /\ restore.undoing)
          => head'.text = restore.was]_historyVars

(* The history holds what stood, and restoring and undoing mean what the page *)
(* showed (docs/8.version-history.md).                                        *)
HistoryIsKept == []HistoryKeepsWhatStood /\ RestoresWhatWasShown /\ UndoPutsItBack
=============================================================================
