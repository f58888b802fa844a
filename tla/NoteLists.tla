------------------------------ MODULE NoteLists ------------------------------
(***************************************************************************)
(* The lists of one tier in one page: every change shows at once           *)
(* (useTierMutations.ts, useReorder.ts, lib/queryCache.ts), goes to the    *)
(* server in its turn (lib/tierWriteQueue.ts), and is taken back if it     *)
(* fails; when the last one is done the lists are fetched anew, and what   *)
(* is kept on disk leaves the unanswered ones out                          *)
(* (lib/confirmedQueryState.ts). Nobody else writes these notes.           *)
(***************************************************************************)
EXTENDS Naturals, Sequences

CONSTANTS Cards,        \* the tier's notes
          Fresh,        \* those not made yet
          MaxWrites,
          MaxViews,     \* times the page goes over to the other list
          OpensLate     \* the archive may be opened for the first time

ASSUME ListsAssumption == Fresh \subseteq Cards /\ {MaxWrites, MaxViews} \subseteq Nat /\ OpensLate \in BOOLEAN

Views == {"active", "archived"}

VARIABLES server,    \* the rows
          lists,     \* the cached queries
          fetches,   \* per list: the fetch under way
          writes,    \* in the order they were clicked
          shown,     \* the list on the page
          trash,     \* per note: the row the delete toast can put back
          last,      \* history, per note: the last write the server took
          views

listsVars == <<server, lists, fetches, writes, shown, trash, last, views>>

\* Values are the numbers of the writes that chose them.
Values == 0 .. MaxWrites
CardRow == [color : Values, position : Values, archived : BOOLEAN, temp : BOOLEAN]
NoCardRow == [color |-> 0, position |-> 0, archived |-> FALSE, temp |-> TRUE, gone |-> TRUE]
NewRow == [color |-> 0, position |-> 0, archived |-> FALSE, temp |-> FALSE]
Rows == [Cards -> CardRow \cup {NoCardRow}]
Empty == [n \in Cards |-> NoCardRow]

HeadRow == [there : BOOLEAN, deleted : BOOLEAN, row : CardRow]
\* there: the query exists; loaded: it has data; stale: it is invalidated.
List == [there : BOOLEAN, loaded : BOOLEAN, stale : BOOLEAN, rows : Rows]
NoList == [there |-> FALSE, loaded |-> FALSE, stale |-> FALSE, rows |-> Empty]
Fetch == [stage : {"none", "asked", "served"}, cause : {"view", "settle"}, rows : Rows]
NoFetch == [stage |-> "none", cause |-> "view", rows |-> Empty]
\* before: the lists as they stood when it was clicked; alone: no other write of
\* its note, and no fetch the page made by itself, came in between.
ListWrite == [kind : {"color", "move", "archive", "delete", "restore", "create"}, note : Cards, value : Values,
          stage : {"queued", "sent", "taken", "failed", "done", "undone"}, before : [Views -> List],
          row : CardRow \cup {NoCardRow}, reached : BOOLEAN, alone : BOOLEAN]
NoLists == [v \in Views |-> NoList]

Listed(n, v) == server[n].there /\ ~server[n].deleted /\ server[n].row.archived = (v = "archived")
ListAnswer(v) == [n \in Cards |-> IF Listed(n, v) THEN server[n].row ELSE NoCardRow]

Open == {i \in 1 .. Len(writes) : writes[i].stage \notin {"done", "undone"}}

ListsInit ==
    /\ server = [n \in Cards |-> [there |-> n \notin Fresh, deleted |-> FALSE, row |-> NewRow]]
    /\ lists = [v \in Views |-> IF OpensLate /\ v = "archived" THEN NoList
                                ELSE [there |-> TRUE, loaded |-> TRUE, stale |-> FALSE, rows |-> ListAnswer(v)]]
    /\ fetches = [v \in Views |-> NoFetch]
    /\ writes = <<>> /\ shown = "active" /\ views = 0
    /\ trash = Empty /\ last = [n \in Cards |-> 0]

-----------------------------------------------------------------------------
(* Showing a change at once *)

In(rows, n) == rows[n] # NoCardRow
\* toggleArchive looks the row up in whichever list has it.
Found(n) == LET W == {v \in Views : lists[v].loaded /\ In(lists[v].rows, n)} IN
            IF W = {} THEN NoCardRow ELSE lists[CHOOSE v \in W : TRUE].rows[n]

Belongs(v, row) == row.archived = (v = "archived")
Rehomed(rows, v, w) == [rows EXCEPT ![w.note] = IF Belongs(v, w.row) THEN w.row ELSE NoCardRow]
RehomedInPlace(rows, v, w) == IF In(rows, w.note) THEN [rows EXCEPT ![w.note] = w.row] ELSE rows
Toggled(rows, v, w) == Rehomed(rows, v, w)
Changed(v, w) ==
    LET rows == lists[v].rows
        n == w.note
    IN CASE w.kind = "color" -> IF In(rows, n) THEN [rows EXCEPT ![n].color = w.value] ELSE rows
         [] w.kind = "move" -> IF In(rows, n) THEN [rows EXCEPT ![n].position = w.value] ELSE rows
         [] w.kind = "archive" -> Toggled(rows, v, w)
         [] w.kind = "delete" -> [rows EXCEPT ![n] = NoCardRow]
         [] w.kind \in {"restore", "create"} -> IF Belongs(v, w.row) THEN [rows EXCEPT ![n] = w.row] ELSE rows

\* onMutate: fetches under way are cancelled first.
Click(kind, n, row) ==
    LET w == [kind |-> kind, note |-> n, value |-> Len(writes) + 1, stage |-> "queued", before |-> lists, row |-> row,
              reached |-> FALSE, alone |-> \A i \in Open : writes[i].note # n]
    IN /\ Len(writes) < MaxWrites
       /\ writes' = Append([i \in 1 .. Len(writes) |->
                               IF writes[i].note = n THEN [writes[i] EXCEPT !.alone = FALSE] ELSE writes[i]], w)
       /\ lists' = [v \in Views |-> IF lists[v].loaded THEN [lists[v] EXCEPT !.rows = Changed(v, w)] ELSE lists[v]]
       /\ fetches' = [v \in Views |-> NoFetch]
       /\ UNCHANGED <<server, shown, last, views>>

OnPage(n) == In(lists[shown].rows, n) /\ ~lists[shown].rows[n].temp
Recolor(n) == OnPage(n) /\ Click("color", n, NoCardRow) /\ UNCHANGED trash
Move(n) == OnPage(n) /\ Click("move", n, NoCardRow) /\ UNCHANGED trash
Archive(n) == OnPage(n) /\ Click("archive", n, [Found(n) EXCEPT !.archived = ~@]) /\ UNCHANGED trash
Delete(n) == OnPage(n) /\ Click("delete", n, NoCardRow) /\ trash' = [trash EXCEPT ![n] = lists[shown].rows[n]]
\* deleteNoteWithUndo: whatever became of the delete.
UndoDeletion(n) == trash[n] # NoCardRow /\ Click("restore", n, trash[n]) /\ trash' = [trash EXCEPT ![n] = NoCardRow]
Create(n) ==
    /\ n \in Fresh /\ \A i \in 1 .. Len(writes) : writes[i].kind = "create" => writes[i].note # n
    /\ Click("create", n, [NewRow EXCEPT !.temp = TRUE]) /\ UNCHANGED trash

-----------------------------------------------------------------------------
(* The request *)

\* queueTierWrite: after the earlier ones of the same note, however they ended.
WriteInTurn(i) == \A j \in Open : j < i /\ writes[j].note = writes[i].note => writes[j].stage \in {"taken", "failed"}
AtOnce(i) == TRUE
MaySend(i) == WriteInTurn(i)

Send(i) ==
    /\ writes[i].stage = "queued" /\ MaySend(i)
    /\ writes' = [writes EXCEPT ![i].stage = "sent"]
    /\ UNCHANGED <<server, lists, fetches, shown, trash, last, views>>

Taken(head, w) ==
    CASE w.kind = "color" -> [head EXCEPT !.row.color = w.value]
      [] w.kind = "move" -> [head EXCEPT !.row.position = w.value]
      [] w.kind = "archive" -> [head EXCEPT !.row.archived = w.row.archived]
      [] w.kind = "delete" -> [head EXCEPT !.deleted = TRUE]
      [] w.kind = "restore" -> [head EXCEPT !.deleted = FALSE]
      [] w.kind = "create" -> [head EXCEPT !.there = TRUE]

\* The server takes it; the answer may be lost.
Take(i) ==
    /\ writes[i].stage = "sent"
    /\ server' = [server EXCEPT ![writes[i].note] = Taken(@, writes[i])]
    /\ last' = [last EXCEPT ![writes[i].note] = i]
    /\ \E answer \in {"taken", "failed"} :
          writes' = [writes EXCEPT ![i].stage = answer, ![i].reached = TRUE]
    /\ UNCHANGED <<lists, fetches, shown, trash, views>>
LoseWrite(i) ==
    /\ writes[i].stage = "sent" /\ writes' = [writes EXCEPT ![i].stage = "failed"]
    /\ UNCHANGED <<server, lists, fetches, shown, trash, last, views>>

-----------------------------------------------------------------------------
(* The answer *)

\* rollbackItem, in one list: the fields that still show the change, or all of the row.
TakenBack(rows, w, v) ==
    LET n == w.note
        previous == w.before[v].rows[n]
        present == rows[n]
    IN IF ~w.before[v].loaded \/ (w.kind = "create" /\ ~present.temp) THEN rows
       ELSE IF previous = NoCardRow THEN [rows EXCEPT ![n] = NoCardRow]
       ELSE IF present = NoCardRow THEN IF w.kind = "color" THEN rows ELSE [rows EXCEPT ![n] = previous]
       ELSE CASE w.kind = "color" ->
                   IF present.color = w.value THEN [rows EXCEPT ![n].color = previous.color] ELSE rows
              [] w.kind = "archive" ->
                   IF present.archived = w.row.archived THEN [rows EXCEPT ![n].archived = previous.archived] ELSE rows
              [] w.kind \in {"move", "delete", "restore", "create"} -> [rows EXCEPT ![n] = previous]
AllTakenBack(rows, w, v) == IF w.before[v].loaded THEN w.before[v].rows ELSE rows
RolledBack(rows, w, v) == TakenBack(rows, w, v)

\* create: the temporary row becomes the server's.
Adopted(rows, w) ==
    IF w.kind = "create" /\ In(rows, w.note) /\ rows[w.note].temp THEN [rows EXCEPT ![w.note] = NewRow] ELSE rows

LastOne(i) == Open \subseteq {i}
NoOne(i) == Open = {}
MayRefetch(i) == LastOne(i)
\* Only the lists that were there when it was clicked; a reorder asks for all of them.
Refetched(w) == {v \in Views : lists[v].there /\ (w.kind = "move" \/ w.before[v].there)}

Settle(i) ==
    LET w == writes[i]
        ok == w.stage = "taken"
        stale == IF MayRefetch(i) THEN Refetched(w) ELSE {}
    IN /\ w.stage \in {"taken", "failed"}
       /\ writes' = [writes EXCEPT ![i].stage = IF ok THEN "done" ELSE "undone", ![i].before = NoLists,
                                   ![i].row = NoCardRow, ![i].alone = FALSE]
       /\ lists' = [v \in Views |->
             LET list == lists[v] IN
             [list EXCEPT !.rows = IF ~list.loaded THEN @ ELSE IF ok THEN Adopted(@, w) ELSE RolledBack(@, w, v),
                          !.stale = @ \/ v \in stale]]
       /\ fetches' = [v \in Views |-> IF v \in stale THEN IF v = shown THEN [NoFetch EXCEPT !.stage = "asked",
                                                                                            !.cause = "settle"]
                                                          ELSE NoFetch
                                      ELSE fetches[v]]
       /\ UNCHANGED <<server, shown, trash, last, views>>

-----------------------------------------------------------------------------
(* Fetching *)

Serve(v) ==
    /\ fetches[v].stage = "asked"
    /\ fetches' = [fetches EXCEPT ![v].stage = "served", ![v].rows = ListAnswer(v)]
    /\ UNCHANGED <<server, lists, writes, shown, trash, last, views>>
Arrive(v) ==
    /\ fetches[v].stage = "served"
    /\ lists' = [lists EXCEPT ![v] = [there |-> TRUE, loaded |-> TRUE, stale |-> FALSE, rows |-> fetches[v].rows]]
    /\ fetches' = [fetches EXCEPT ![v] = NoFetch]
    /\ writes' = IF fetches[v].cause = "settle" THEN writes
                 ELSE [i \in 1 .. Len(writes) |-> [writes[i] EXCEPT !.alone = FALSE]]
    /\ UNCHANGED <<server, shown, trash, last, views>>
FetchFails(v) ==
    /\ fetches[v].stage # "none" /\ fetches' = [fetches EXCEPT ![v] = NoFetch]
    /\ UNCHANGED <<server, lists, writes, shown, trash, last, views>>

\* A list is fetched whenever it comes up, or the window does; one fetch at a time.
Show(v) ==
    /\ views < MaxViews /\ views' = views + 1 /\ shown' = v
    /\ lists' = [lists EXCEPT ![v].there = TRUE]
    /\ fetches' = [fetches EXCEPT ![v] = IF @.stage = "none" THEN [NoFetch EXCEPT !.stage = "asked"] ELSE @]
    /\ UNCHANGED <<server, writes, trash, last>>

-----------------------------------------------------------------------------
UserStep(n) == Recolor(n) \/ Move(n) \/ Archive(n) \/ Delete(n) \/ UndoDeletion(n) \/ Create(n)
WriteStep(i) == Send(i) \/ Take(i) \/ LoseWrite(i) \/ Settle(i)
ListsNext ==
    \/ \E n \in Cards : UserStep(n)
    \/ \E i \in 1 .. Len(writes) : WriteStep(i)
    \/ \E v \in Views : Serve(v) \/ Arrive(v) \/ FetchFails(v) \/ Show(v)

ListsSpec == ListsInit /\ [][ListsNext]_listsVars

-----------------------------------------------------------------------------
\* confirmedQueryState: the unanswered writes taken back, the latest first, and no temporary rows.
FromLatest(k) == Len(writes) + 1 - k
Unwound(v) ==
    LET rows[k \in 0 .. Len(writes)] ==
            IF k = 0 THEN lists[v].rows
            ELSE IF FromLatest(k) \in Open THEN TakenBack(rows[k - 1], writes[FromLatest(k)], v) ELSE rows[k - 1]
    IN rows[Len(writes)]
Confirmed(v) == LET rows == Unwound(v) IN [n \in Cards |-> IF rows[n].temp THEN NoCardRow ELSE rows[n]]

(* A list holds the rows that belong to it, whatever was put there or taken   *)
(* back.                                                                      *)
ListsTypeOK ==
    /\ server \in [Cards -> HeadRow] /\ lists \in [Views -> List] /\ fetches \in [Views -> Fetch]
    /\ shown \in Views /\ trash \in Rows /\ last \in [Cards -> Values] /\ views \in 0 .. MaxViews
    /\ writes \in Seq(ListWrite) /\ Len(writes) <= MaxWrites
    /\ \A v \in Views, n \in Cards : In(lists[v].rows, n) => Belongs(v, lists[v].rows[n])

(* The server takes the writes of a note in the order they were clicked       *)
(* ("Preserve click order at the server", tierWriteQueue.ts).                 *)
WritesKeepClickOrder == [][\A n \in Cards : last'[n] >= last[n]]_listsVars

(* A write that has its note to itself is on the page until it is settled,    *)
(* whatever becomes of the others ("Roll back only this item", queryCache.ts; *)
(* "a response can erase another request's optimistic item/patch",            *)
(* useTierMutations.ts).                                                      *)
ShownUntilSettled ==
    \A i \in Open, v \in Views :
        LET w == writes[i] IN
        w.alone /\ w.before[v].loaded => lists[v].rows[w.note] = (Changed(v, w))[w.note]

(* What goes to disk shows no change the server has not taken ("Persist       *)
(* confirmed rows while keeping the live UI optimistic").                     *)
DiskHoldsNothingUnanswered ==
    \A i \in Open, v \in Views :
        ~writes[i].reached /\ writes[i].kind = "color" => Confirmed(v)[writes[i].note].color # writes[i].value

(* When nothing is under way, the list on the page is the server's.           *)
SettledListsAreTrue ==
    LET list == lists[shown] IN
    Open = {} /\ list.loaded /\ ~list.stale /\ fetches[shown].stage = "none" => list.rows = ListAnswer(shown)

(* "Writes must either reach the server or fail and roll back": the color of  *)
(* a write that failed and never reached it is not left behind.               *)
FailedWritesAreGone ==
    \A i \in 1 .. Len(writes), v \in Views :
        Open = {} /\ writes[i].stage = "undone" /\ ~writes[i].reached /\ writes[i].kind = "color"
            => lists[v].rows[writes[i].note].color # i

(* A list never shows less than was clicked nor, in the end, other than the   *)
(* server has; neither does its copy on disk.                                 *)
ListsAreTrue ==
    [](ShownUntilSettled /\ DiskHoldsNothingUnanswered /\ SettledListsAreTrue) /\ WritesKeepClickOrder
=============================================================================
