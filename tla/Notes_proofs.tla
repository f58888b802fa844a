------------------------------ MODULE Notes_proofs ------------------------------
(***************************************************************************)
(* The notes: a Seal that starts with a stored note key keeps it and stays *)
(* readable, for any number of devices, texts and retained versions; the   *)
(* version history of a note, for any wordings, window and cap; the tags   *)
(* of an account and of a note, for any calls of a page and of another     *)
(* device; the drafts of a browser, for any windows, slots, saves and      *)
(* texts.                                                                  *)
(***************************************************************************)
EXTENDS SealNotes, NoteHistory, Tags, NoteDrafts, FiniteSetTheorems, SequenceTheorems, WellFoundedInduction, TLAPS

Opened(k) == [under : {k}, text : Texts] \cup {None}
Copy(k)   == [nek : {k}, body : Opened(k)]

\* Everybody who remembers a note key of the Seal remembers the same one.
OneKey(k) ==
  /\ k \in Keys
  /\ row \in Copy(k)
  /\ versions \in Seq(Opened(k))
  /\ linked \subseteq {k}
  /\ view \in [Devices -> Copy(k)]
  /\ attached \in [Devices -> SUBSET {k}]
  /\ sent \in [Devices -> [data : Copy(k), withKey : BOOLEAN, files : SUBSET {k}, undo : Copy(k)] \cup {None}]

\* The version cap drops versions, it never makes one up.
LEMMA SnapshotSeq ==
  ASSUME NEW k, versions \in Seq(Opened(k)), NEW b \in Opened(k)
  PROVE  Snapshot(b) \in Seq(Opened(k))
<1>1. Append(versions, b) \in Seq(Opened(k)) /\ Append(versions, b) # << >> BY AppendProperties
<1>2. Tail(Append(versions, b)) \in Seq(Opened(k)) BY <1>1, HeadTailProperties
<1> QED BY <1>1, <1>2 DEF Snapshot

\* A timeline without one of its entries is still a timeline.
LEMMA RemovedSeq ==
  ASSUME NEW S, NEW s \in Seq(S), NEW i \in DOMAIN s
  PROVE  RemoveAt(s, i) \in Seq(S)
<1>1. i \in Int /\ i \in 1 .. Len(s) /\ Len(s) \in Nat /\ \A j \in 1 .. Len(s) : s[j] \in S BY LenProperties, ElementOfSeq
<1>2. SubSeq(s, 1, i - 1) \in Seq(S) /\ SubSeq(s, i + 1, Len(s)) \in Seq(S) BY <1>1, SubSeqProperties
<1> QED BY <1>2, ConcatProperties DEF RemoveAt

\* A stored key is not a null column.
LEMMA NoneIsNoKey == ASSUME NEW k \in Keys PROVE k # None
BY NoneAssumption

\* Creation with a body stores the one key.
LEMMA InitOneKey == InitWritten => \E k \in Keys : OneKey(k)
<1> SUFFICES ASSUME NEW d \in Devices, NEW t \in Texts,
                    Start([nek |-> <<d, 1>>, body |-> [under |-> <<d, 1>>, text |-> t]])
             PROVE  <<d, 1>> \in Keys /\ OneKey(<<d, 1>>) BY DEF InitWritten
<1> DEFINE k == <<d, 1>>  first == [nek |-> k, body |-> [under |-> k, text |-> t]]
<1>1. k \in Keys BY SealAssumption DEF Keys
<1>2. first \in Copy(k) BY DEF Copy, Opened
<1>3. /\ row = first /\ versions = << >> /\ linked = {}
      /\ view = [x \in Devices |-> first]
      /\ attached = [x \in Devices |-> {}]
      /\ sent = [x \in Devices |-> None] BY DEF Start
<1> HIDE DEF k, first
<1>4. versions \in Seq(Opened(k)) BY <1>3, EmptySeq
<1>5. OneKey(k) BY <1>1, <1>2, <1>3, <1>4 DEF OneKey
<1> QED BY <1>1, <1>5 DEF k

\* No step, of any device or of the server, brings a second key in.
LEMMA OneKeyStep == ASSUME NEW k, OneKey(k), [Next]_vars PROVE OneKey(k)'
<1> DEFINE B == Opened(k)  C == Copy(k)  U == [data : C, withKey : BOOLEAN, files : SUBSET {k}, undo : C]
<1>0. /\ k \in Keys /\ k # None
      /\ \A x \in C : x.nek = k /\ x.body \in B
      /\ \A d \in Devices : view[d] \in C /\ (sent[d] # None => sent[d] \in U)
      /\ row \in C BY NoneIsNoKey DEF OneKey, Copy
<1>1. CASE UNCHANGED vars BY <1>1 DEF vars, OneKey
<1>2. ASSUME NEW d \in Devices, Refetch(d) \/ Close(d) PROVE OneKey(k)' BY <1>2 DEF OneKey, Refetch, Close
<1>3. ASSUME NEW d \in Devices, Mint(d) PROVE OneKey(k)' BY <1>0, <1>3 DEF Mint
<1>4. ASSUME NEW d \in Devices, Attach(d) PROVE OneKey(k)'
  BY <1>0, <1>4 DEF EditorKey, OneKey, Attach
<1>5. ASSUME NEW d \in Devices, NEW data \in C, NEW withKey \in BOOLEAN, NEW files \in SUBSET {k}, Submit(d, data, withKey, files) PROVE OneKey(k)'
  BY <1>0, <1>5 DEF OneKey, Submit
<1>6. ASSUME NEW d \in Devices, NEW t \in Texts, SaveText(d, t) PROVE OneKey(k)'
 <2>1. BodyKey(d) = k BY <1>0 DEF BodyKey, EditorKey
 <2>2. [nek |-> k, body |-> [under |-> k, text |-> t]] \in C /\ attached[d] \in SUBSET {k} BY DEF OneKey, Copy, Opened
 <2>3. PICK files \in SUBSET {k} : Submit(d, [nek |-> k, body |-> [under |-> k, text |-> t]], TRUE, files)
   BY <1>6, <2>1, <2>2 DEF SaveText
 <2> QED BY <1>5, <2>2, <2>3
<1>7. ASSUME NEW d \in Devices, SaveEmpty(d) \/ ClearInView(d) PROVE OneKey(k)'
 <2>1. [nek |-> view[d].nek, body |-> None] \in C BY <1>0 DEF Copy, Opened
 <2>2. PICK withKey \in BOOLEAN : Submit(d, [nek |-> view[d].nek, body |-> None], withKey, {})
   BY <1>7, Zenon DEF SaveEmpty, ClearInView
 <2>3. {} \in SUBSET {k} OBVIOUS
 <2> QED BY <1>5, <2>1, <2>2, <2>3
<1>8. ASSUME NEW d \in Devices, Write(d) PROVE OneKey(k)'
 <2>1. sent[d].data \in C /\ sent[d].files \subseteq {k} /\ sent[d].undo \in C BY <1>0, <1>8 DEF Write
 <2>5. [row EXCEPT !.body = sent[d].data.body] \in C BY <1>0, <2>1 DEF Copy
 <2>2. view' \in [Devices -> C] BY <1>8, <2>1 DEF Write, Answer, Rollback, OneKey
 <2>8. attached' \in [Devices -> SUBSET {k}]
   BY <1>8 DEF OneKey, Write, Answer, Rollback
 <2>3. versions' \in Seq(B) BY <1>0, <1>8, SnapshotSeq DEF Write, OneKey
 <2>4. sent' \in [Devices -> U \cup {None}] BY <1>8 DEF Write, OneKey
 <2>6. row' \in C BY <1>8, <2>1, <2>5 DEF Write
 <2>7. linked' \subseteq {k} BY <1>8, <2>1 DEF Write, OneKey
 <2> QED BY <1>0, <2>2, <2>3, <2>4, <2>6, <2>7, <2>8 DEF OneKey
<1>9. ASSUME NEW d \in Devices, Lose(d) PROVE OneKey(k)' BY <1>0, <1>9 DEF Lose, Rollback, OneKey
<1>10. ASSUME NEW i \in DOMAIN versions, Restore(i) PROVE OneKey(k)'
  BY LenProperties, ElementOfSeq, <1>0, <1>10, SnapshotSeq DEF OneKey, Restore, Copy, deviceVars
<1>11. ASSUME NEW i \in DOMAIN versions, DeleteVersion(i) PROVE OneKey(k)'
  BY <1>11, RemovedSeq DEF DeleteVersion, OneKey, deviceVars
<1> QED BY <1>1, <1>2, <1>3, <1>4, <1>6, <1>7, <1>8, <1>9, <1>10, <1>11 DEF Next

\* Where there is one key, it opens everything.
LEMMA OneKeyOpens == ASSUME NEW k, OneKey(k) PROVE EverythingOpens
<1>1. row.nek = k /\ row.body \in Opened(k) /\ linked \subseteq {k} BY DEF OneKey, Copy
<1>2. \A i \in DOMAIN versions : versions[i] \in Opened(k) BY LenProperties, ElementOfSeq DEF OneKey
<1> QED BY <1>1, <1>2 DEF EverythingOpens, Opened

\* However many devices edit, empty, restore and retry, a Seal created with a
\* body stays readable: head, history and attachments.
THEOREM WrittenSealsOpen == SpecWritten => []EverythingOpens
<1> DEFINE Inv == \E k \in Keys : OneKey(k)
<1>1. InitWritten => Inv BY InitOneKey
<1>2. Inv /\ [Next]_vars => Inv' BY OneKeyStep
<1>3. Inv => EverythingOpens BY OneKeyOpens
<1> QED BY <1>1, <1>2, <1>3, PTL DEF SpecWritten

-----------------------------------------------------------------------------
(* The history: its inductive invariant.                                   *)

HistoryRow == [id : Nat, text : Wordings, at : Nat]
Said == Wordings \cup {0}
HistoryShape ==
  /\ head \in [text : Wordings, at : Nat] /\ clock \in Nat /\ lastRow \in Nat /\ pageText \in Said
  /\ timeline \in [open : BOOLEAN, known : BOOLEAN, rows : Seq(HistoryRow)]
  /\ fetch \in [on : BOOLEAN, rows : Seq(HistoryRow)]
  /\ restore \in [stage : {"none", "asked", "made", "refetching", "listed", "failed"}, undoing : BOOLEAN, id : Nat,
                  text : Said, prev : Said, was : Said]
  /\ deletion \in [stage : {"none", "asked", "made", "failed"}, id : Nat, before : Seq(HistoryRow)]
  /\ undo \in [on : BOOLEAN, text : Said, prev : Said, was : Said]
  /\ stood \subseteq [row : Nat, text : Wordings]

\* The ids of the rows rise, and so Cap newer rows are Cap higher ids.
Spaced(rows) == \A i, j \in DOMAIN rows : i <= j => rows[i].id + (j - i) <= rows[j].id
Given(rows, last) == \A i \in DOMAIN rows : rows[i].id <= last
HistoryRows(rows, last) == rows \in Seq(HistoryRow) /\ Spaced(rows) /\ Given(rows, last)

\* What a page lists under an id says what the history says under it.
Agree(rows, h) == \A i \in DOMAIN rows, j \in DOMAIN h : rows[i].id = h[j].id => rows[i].text = h[j].text
Listed(rows, h, last) == rows \in Seq(HistoryRow) /\ Given(rows, last) /\ Agree(rows, h)
\* So does a request about an id.
Means(id, text, h, last) == id <= last /\ \A j \in DOMAIN h : h[j].id = id => h[j].text = text

EndsWith(rows, id) == rows # <<>> /\ rows[Len(rows)].id = id

\* A restore just made: what it displaced is the newest row, and too young a
\* head for another.
Displaces(was) ==
  /\ EndsWith(history, lastRow) /\ history[Len(history)].text = was /\ head.at = clock

\* While the page waits for its restore, and while its toast is on, nobody
\* records, restores or deletes, and the page knows the newest row.
ToastIsTrue ==
  /\ restore.stage # "none" => ~undo.on /\ deletion.stage = "none" /\ (~restore.undoing => timeline.open)
  /\ undo.on => deletion.stage = "none" /\ Displaces(undo.was) /\ EndsWith(timeline.rows, lastRow)
                /\ (fetch.on => EndsWith(fetch.rows, lastRow))
  /\ ~restore.undoing =>
       /\ restore.stage \in {"made", "refetching", "listed"} => Displaces(restore.was)
       /\ restore.stage = "refetching" => fetch.on /\ EndsWith(fetch.rows, lastRow)
       /\ restore.stage = "listed" => ~fetch.on /\ EndsWith(timeline.rows, lastRow)
  /\ restore.stage = "asked" /\ restore.undoing => Means(restore.id, restore.was, history, lastRow)

PageMeans ==
  /\ Listed(timeline.rows, history, lastRow) /\ Listed(fetch.rows, history, lastRow)
  /\ Listed(deletion.before, history, lastRow)
  /\ restore.stage = "asked" /\ ~restore.undoing => Means(restore.id, restore.text, history, lastRow)

HistoryInv ==
  /\ HistoryShape /\ HistoryRows(history, lastRow) /\ head.at <= clock
  /\ PageMeans /\ HistoryKeepsWhatStood /\ (~Hasty => ToastIsTrue)

-----------------------------------------------------------------------------
(* Rows *)

\* What is left without an id.
LEMMA WithoutRows ==
  ASSUME NEW rows \in Seq(HistoryRow), NEW id, NEW less, less = Without(rows, id)
  PROVE  /\ less \in Seq(HistoryRow)
         /\ \A i \in DOMAIN less : \E j \in DOMAIN rows : less[i] = rows[j]
         /\ \A j \in DOMAIN rows : rows[j].id # id => \E i \in DOMAIN less : less[i] = rows[j]
         /\ Spaced(rows) => Spaced(less)
<1>1. Len(rows) \in Nat /\ DOMAIN rows = 1 .. Len(rows) /\ \A i \in 1 .. Len(rows) : rows[i] \in HistoryRow BY LenProperties
<1>2. CASE ~Has(rows, id) BY <1>2 DEF Without
<1>3. CASE Has(rows, id)
 <2> DEFINE k == Place(rows, id)
            n == Len(rows)
 <2>1. k \in 1 .. n /\ rows[k].id = id BY <1>1, <1>3 DEF Has, Place
 <2>2. less = SubSeq(rows, 1, k - 1) \o SubSeq(rows, k + 1, n) BY <1>3 DEF Without, RemoveAt
 <2> HIDE DEF k
 <2>3. /\ SubSeq(rows, 1, k - 1) \in Seq(HistoryRow) /\ Len(SubSeq(rows, 1, k - 1)) = k - 1
       /\ \A i \in 1 .. (k - 1) : SubSeq(rows, 1, k - 1)[i] = rows[i]
   BY <1>1, <2>1, SubSeqProperties
 <2>4. /\ SubSeq(rows, k + 1, n) \in Seq(HistoryRow) /\ Len(SubSeq(rows, k + 1, n)) = n - k
       /\ \A i \in 1 .. (n - k) : SubSeq(rows, k + 1, n)[i] = rows[k + i]
  <3>1. \A i \in (k + 1) .. n : rows[i] \in HistoryRow BY <1>1, <2>1
  <3>2. k + 1 \in Int /\ n \in Int /\ n - (k + 1) + 1 = n - k /\ (~(k + 1 <= n) => n - k = 0)
   <4>1. n \in Nat BY <1>1
   <4> HIDE DEF n
   <4> QED BY <2>1, <4>1
  <3>3. \A i \in 1 .. (n - k) : (k + 1) + i - 1 = k + i BY <1>1, <2>1
  <3> QED BY <3>1, <3>2, <3>3, SubSeqProperties
 <2>5. /\ less \in Seq(HistoryRow) /\ Len(less) = n - 1 /\ DOMAIN less = 1 .. (n - 1)
       /\ \A i \in 1 .. (n - 1) : less[i] = IF i < k THEN rows[i] ELSE rows[i + 1]
  <3>1. /\ less \in Seq(HistoryRow) /\ Len(less) = (k - 1) + (n - k)
        /\ \A i \in 1 .. ((k - 1) + (n - k)) :
             less[i] = IF i <= k - 1 THEN SubSeq(rows, 1, k - 1)[i] ELSE SubSeq(rows, k + 1, n)[i - (k - 1)]
    BY <2>2, <2>3, <2>4, ConcatProperties
  <3>2. (k - 1) + (n - k) = n - 1 BY <1>1, <2>1
  <3>3. ASSUME NEW i \in 1 .. (n - 1) PROVE less[i] = IF i < k THEN rows[i] ELSE rows[i + 1]
   <4>1. CASE i < k
    <5>1. i <= k - 1 /\ i \in 1 .. (k - 1) BY <1>1, <2>1, <4>1
    <5> QED BY <2>3, <3>1, <3>2, <4>1, <5>1
   <4>2. CASE ~(i < k)
    <5>1. i - (k - 1) \in 1 .. (n - k) /\ k + (i - (k - 1)) = i + 1 /\ ~(i <= k - 1) BY <1>1, <2>1, <4>2
    <5> QED BY <2>4, <3>1, <3>2, <4>2, <5>1
   <4> QED BY <4>1, <4>2
  <3> QED BY <3>1, <3>2, <3>3, LenProperties
 <2>6. \A i \in DOMAIN less : \E j \in DOMAIN rows : less[i] = rows[j]
  <3> TAKE i \in DOMAIN less
  <3>1. i \in 1 .. n /\ i + 1 \in 1 .. n BY <1>1, <2>5
  <3> QED BY <1>1, <2>5, <3>1
 <2>7. \A j \in DOMAIN rows : rows[j].id # id => \E i \in DOMAIN less : less[i] = rows[j]
  <3> TAKE j \in DOMAIN rows
  <3> HAVE rows[j].id # id
  <3>1. j # k /\ j \in 1 .. n BY <1>1, <2>1
  <3>2. CASE j < k
    BY <1>1, <2>1, <3>1, <3>2, <2>5
  <3>3. CASE j > k
   <4>1. j - 1 \in 1 .. (n - 1) /\ ~(j - 1 < k) /\ (j - 1) + 1 = j BY <1>1, <2>1, <3>1, <3>3
   <4> QED BY <2>5, <4>1
  <3> QED BY <1>1, <2>1, <3>1, <3>2, <3>3
 <2>8. ASSUME Spaced(rows), NEW i \in DOMAIN less, NEW j \in DOMAIN less, i <= j
       PROVE  less[i].id + (j - i) <= less[j].id
  <3> DEFINE a == IF i < k THEN i ELSE i + 1
             b == IF j < k THEN j ELSE j + 1
  <3>1. a \in 1 .. n /\ b \in 1 .. n /\ a <= b /\ b - a >= j - i /\ b - a \in Int /\ j - i \in Int BY <1>1, <2>1, <2>5, <2>8
  <3>2. less[i] = rows[a] /\ less[j] = rows[b] BY <2>5
  <3>3. rows[a].id + (b - a) <= rows[b].id BY <1>1, <2>8, <3>1 DEF Spaced
  <3>4. rows[a].id \in Nat /\ rows[b].id \in Nat BY <1>1, <3>1 DEF HistoryRow
  <3> QED BY <3>1, <3>2, <3>3, <3>4
 <2> QED BY <2>5, <2>6, <2>7, <2>8 DEF Spaced
<1> QED BY <1>2, <1>3

\* One more row, and the newest Cap of them.
LEMMA RecordedRows ==
  ASSUME NEW h, NEW last \in Nat, HistoryRows(h, last), NEW entry \in HistoryRow, entry.id = last + 1,
         NEW more, more = Recorded(h, entry)
  PROVE  /\ HistoryRows(more, last + 1) /\ EndsWith(more, last + 1) /\ more[Len(more)] = entry /\ Len(more) \in DOMAIN more
         /\ \A i \in DOMAIN more : more[i] = entry \/ \E j \in DOMAIN h : more[i] = h[j]
         /\ \A j \in DOMAIN h : h[j].id + Cap <= last + 1 \/ \E i \in DOMAIN more : more[i] = h[j]
<1> DEFINE all == Append(h, entry)
           n == Len(h)
<1>1. n \in Nat /\ DOMAIN h = 1 .. n /\ h \in Seq(HistoryRow) /\ \A i \in 1 .. n : h[i] \in HistoryRow /\ h[i].id \in Nat
 <2>1. h \in Seq(HistoryRow) BY DEF HistoryRows
 <2>2. n \in Nat /\ DOMAIN h = 1 .. n /\ h \in [1 .. n -> HistoryRow] BY <2>1, LenProperties
 <2>3. \A i \in 1 .. n : h[i] \in HistoryRow BY <2>2
 <2>4. \A r \in HistoryRow : r.id \in Nat BY DEF HistoryRow
 <2> QED BY <2>1, <2>2, <2>3, <2>4
<1>2. /\ all \in Seq(HistoryRow) /\ Len(all) = n + 1 /\ DOMAIN all = 1 .. (n + 1)
      /\ all[n + 1] = entry /\ \A i \in 1 .. n : all[i] = h[i] BY <1>1
<1>3. Cap \in Nat /\ Cap >= 1 BY HistoryAssumption
<1>4. \A i, j \in 1 .. (n + 1) : i <= j => all[i].id + (j - i) <= all[j].id
 <2> TAKE i, j \in 1 .. (n + 1)
 <2> HAVE i <= j
 <2>1. CASE j <= n
  <3>1. i \in 1 .. n /\ j \in 1 .. n BY <1>1, <2>1
  <3> QED BY <1>1, <1>2, <3>1 DEF HistoryRows, Spaced
 <2>2. CASE j = n + 1 /\ i = n + 1 BY <1>1, <1>2, <2>2
 <2>3. CASE j = n + 1 /\ i <= n
  <3>1. i \in 1 .. n /\ n \in 1 .. n BY <1>1, <2>3
  <3>2. h[i].id + (n - i) <= h[n].id BY <1>1, <2>3, <3>1 DEF HistoryRows, Spaced
  <3>3. h[n].id <= last /\ h[i].id \in Nat /\ h[n].id \in Nat BY <1>1, <3>1 DEF HistoryRows, Given
  <3> QED BY <1>1, <1>2, <2>3, <3>1, <3>2, <3>3
 <2> QED BY <1>1, <2>1, <2>2, <2>3
<1>5. \A i \in 1 .. (n + 1) : all[i].id <= last + 1 BY <1>1, <1>2 DEF HistoryRows, Given
<1> HIDE DEF all
<1>6. CASE ~(n + 1 > Cap)
 <2>1. more = all BY <1>2, <1>6 DEF Recorded, NewestRows, all
 <2>2. n + 1 \in 1 .. (n + 1) /\ all # <<>> BY <1>1, <1>2
 <2>3. \A j \in 1 .. n : j \in 1 .. (n + 1) BY <1>1
 <2>4. HistoryRows(more, last + 1) BY <1>2, <1>4, <1>5, <2>1 DEF HistoryRows, Spaced, Given
 <2>5. \A i \in DOMAIN more : more[i] = entry \/ \E j \in DOMAIN h : more[i] = h[j]
  <3> TAKE i \in DOMAIN more
  <3>1. i = n + 1 \/ i \in 1 .. n BY <1>1, <1>2, <2>1
  <3> QED BY <1>1, <1>2, <2>1, <3>1
 <2>6. \A j \in DOMAIN h : \E i \in DOMAIN more : more[i] = h[j] BY <1>1, <1>2, <2>1, <2>3
 <2> QED BY <1>2, <2>1, <2>2, <2>4, <2>5, <2>6 DEF EndsWith
<1>7. CASE n + 1 > Cap
 <2> DEFINE cut == n + 1 - Cap
 <2>1. cut \in Nat /\ cut >= 1 /\ cut + Cap = n + 1 BY <1>1, <1>3, <1>7
 <2>2. more = SubSeq(all, cut + 1, n + 1)
  <3>1. more = SubSeq(all, Len(all) - Cap + 1, Len(all)) BY <1>2, <1>7 DEF Recorded, NewestRows, all
  <3>2. Len(all) - Cap + 1 = cut + 1 BY <1>1, <1>2, <1>3
  <3> QED BY <1>2, <3>1, <3>2
 <2>3. /\ more \in Seq(HistoryRow) /\ Len(more) = Cap /\ DOMAIN more = 1 .. Cap
       /\ \A i \in 1 .. Cap : more[i] = all[cut + i]
  <3>1. \A i \in (cut + 1) .. (n + 1) : all[i] \in HistoryRow BY <1>1, <1>2, <2>1
  <3>2. cut + 1 \in Int /\ n + 1 \in Int /\ cut + 1 <= n + 1 /\ (n + 1) - (cut + 1) + 1 = Cap BY <1>1, <1>3, <2>1
  <3>3. \A i \in 1 .. Cap : (cut + 1) + i - 1 = cut + i BY <1>3, <2>1
  <3> HIDE DEF cut
  <3>4. more \in Seq(HistoryRow) /\ Len(more) = Cap /\ \A i \in 1 .. Cap : more[i] = all[(cut + 1) + i - 1]
    BY <2>2, <3>1, <3>2, SubSeqProperties
  <3> QED BY <3>3, <3>4, LenProperties
 <2> HIDE DEF cut
 <2>4. \A i \in 1 .. Cap : cut + i \in 1 .. (n + 1) BY <1>1, <1>3, <2>1
 <2>5. Spaced(more)
  <3> SUFFICES ASSUME NEW i \in 1 .. Cap, NEW j \in 1 .. Cap, i <= j PROVE more[i].id + (j - i) <= more[j].id BY <2>3 DEF Spaced
  <3>1. cut + i <= cut + j /\ (cut + j) - (cut + i) = j - i BY <1>3, <2>1
  <3> QED BY <1>4, <2>3, <2>4, <3>1
 <2>6. Given(more, last + 1) BY <1>5, <2>3, <2>4 DEF Given
 <2>7. Cap \in 1 .. Cap /\ more[Cap] = entry /\ more # <<>> BY <1>2, <1>3, <2>1, <2>3
 <2>8. \A i \in DOMAIN more : more[i] = entry \/ \E j \in DOMAIN h : more[i] = h[j]
  <3> TAKE i \in DOMAIN more
  <3>1. cut + i = n + 1 \/ cut + i \in 1 .. n BY <1>1, <1>3, <2>1, <2>3
  <3> QED BY <1>1, <1>2, <2>3, <3>1
 <2>9. \A j \in DOMAIN h : h[j].id + Cap <= last + 1 \/ \E i \in DOMAIN more : more[i] = h[j]
  <3> TAKE j \in DOMAIN h
  <3>1. j \in 1 .. n /\ j \in 1 .. (n + 1) /\ n + 1 \in 1 .. (n + 1) /\ j <= n + 1 BY <1>1
  <3>2. CASE j <= cut
   <4>1. h[j].id + ((n + 1) - j) <= last + 1 /\ h[j].id \in Nat BY <1>1, <1>2, <1>4, <3>1
   <4>2. (n + 1) - j >= Cap BY <1>1, <1>3, <2>1, <3>1, <3>2
   <4> QED BY <1>1, <1>3, <3>1, <4>1, <4>2
  <3>3. CASE j > cut
   <4>1. j - cut \in 1 .. Cap /\ cut + (j - cut) = j BY <1>1, <1>3, <2>1, <3>1, <3>3
   <4> QED BY <1>2, <2>3, <3>1, <4>1
  <3> QED BY <1>1, <2>1, <3>1, <3>2, <3>3
 <2> QED BY <2>3, <2>5, <2>6, <2>7, <2>8, <2>9 DEF HistoryRows, EndsWith
<1> QED BY <1>6, <1>7
\* What a page lists stays true of a history that only gets newer rows.
LEMMA ListedStays ==
  ASSUME NEW h, NEW last \in Nat, NEW h2, NEW more \in Nat, last <= more,
         \A i \in DOMAIN h2 : h2[i].id > last \/ \E j \in DOMAIN h : h2[i] = h[j]
  PROVE  /\ \A rows : Listed(rows, h, last) => Listed(rows, h2, more)
         /\ \A id, text : id \in Nat /\ Means(id, text, h, last) => Means(id, text, h2, more)
<1>1. ASSUME NEW rows, Listed(rows, h, last) PROVE Listed(rows, h2, more)
 <2>1. rows \in Seq(HistoryRow) /\ \A i \in DOMAIN rows : rows[i].id \in Nat /\ rows[i].id <= last
  <3>1. rows \in Seq(HistoryRow) BY <1>1 DEF Listed
  <3>2. DOMAIN rows = 1 .. Len(rows) /\ \A i \in 1 .. Len(rows) : rows[i] \in HistoryRow BY <3>1, LenProperties
  <3>3. \A r \in HistoryRow : r.id \in Nat BY DEF HistoryRow
  <3> QED BY <1>1, <3>1, <3>2, <3>3 DEF Listed, Given
 <2>2. Given(rows, more) BY <2>1 DEF Given
 <2>3. Agree(rows, h2)
  <3> SUFFICES ASSUME NEW i \in DOMAIN rows, NEW j \in DOMAIN h2, rows[i].id = h2[j].id PROVE rows[i].text = h2[j].text
    BY DEF Agree
  <3>1. ~(h2[j].id > last) BY <2>1
  <3>2. PICK k \in DOMAIN h : h2[j] = h[k] BY <3>1
  <3> QED BY <1>1, <3>2 DEF Listed, Agree
 <2> QED BY <2>1, <2>2, <2>3 DEF Listed
<1>2. ASSUME NEW id \in Nat, NEW text, Means(id, text, h, last) PROVE Means(id, text, h2, more)
 <2>1. id <= last BY <1>2 DEF Means
 <2>2. ASSUME NEW j \in DOMAIN h2, h2[j].id = id PROVE h2[j].text = text
  <3>1. PICK k \in DOMAIN h : h2[j] = h[k] BY <2>1, <2>2
  <3> QED BY <1>2, <2>2, <3>1 DEF Means
 <2> QED BY <2>1, <2>2 DEF Means
<1> QED BY <1>1, <1>2

\* The history is true of itself: its ids are all different.
LEMMA ListedItself ==
  ASSUME NEW h, NEW last \in Nat, HistoryRows(h, last)
  PROVE  /\ Listed(h, h, last)
         /\ \A i, j \in DOMAIN h : h[i].id = h[j].id => i = j
<1>1. h \in Seq(HistoryRow) /\ DOMAIN h = 1 .. Len(h) /\ Len(h) \in Nat /\ \A i \in 1 .. Len(h) : h[i].id \in Nat
 <2>1. h \in Seq(HistoryRow) BY DEF HistoryRows
 <2>2. DOMAIN h = 1 .. Len(h) /\ Len(h) \in Nat /\ \A i \in 1 .. Len(h) : h[i] \in HistoryRow BY <2>1, LenProperties
 <2>3. \A r \in HistoryRow : r.id \in Nat BY DEF HistoryRow
 <2> QED BY <2>1, <2>2, <2>3
<1>2. \A i, j \in DOMAIN h : h[i].id = h[j].id => i = j
 <2> SUFFICES ASSUME NEW i \in 1 .. Len(h), NEW j \in 1 .. Len(h), h[i].id = h[j].id PROVE i = j BY <1>1
 <2>1. i <= j => h[i].id + (j - i) <= h[j].id BY <1>1 DEF HistoryRows, Spaced
 <2>2. j <= i => h[j].id + (i - j) <= h[i].id BY <1>1 DEF HistoryRows, Spaced
 <2>3. h[i].id \in Nat /\ h[j].id \in Nat BY <1>1
 <2> QED BY <2>1, <2>2, <2>3
<1> QED BY <1>1, <1>2 DEF Listed, HistoryRows, Agree

-----------------------------------------------------------------------------
(* The server *)

\* What every change of the server keeps.
Moves ==
  /\ head' \in [text : Wordings, at : Nat] /\ head'.at <= clock /\ lastRow' \in Nat /\ lastRow <= lastRow'
  /\ HistoryRows(history', lastRow')
  /\ \A i \in DOMAIN history' : history'[i].id > lastRow \/ \E j \in DOMAIN history : history'[i] = history[j]
  /\ stood' \subseteq [row : Nat, text : Wordings] /\ HistoryKeepsWhatStood'

\* The head becomes a version.
LEMMA DisplacedMoves ==
  ASSUME HistoryInv, NEW text \in Wordings,
         history' = Recorded(history, Displaced), lastRow' = lastRow + 1, head' = [text |-> text, at |-> clock],
         Saw(TRUE), UNCHANGED dropped
  PROVE  /\ Moves /\ EndsWith(history', lastRow') /\ history'[Len(history')].text = head.text
         /\ Len(history') \in DOMAIN history'
<1>1. /\ head \in [text : Wordings, at : Nat] /\ clock \in Nat /\ lastRow \in Nat /\ HistoryRows(history, lastRow)
      /\ head.at <= clock /\ HistoryKeepsWhatStood /\ stood \subseteq [row : Nat, text : Wordings]
  BY DEF HistoryInv, HistoryShape
<1>2. Displaced \in HistoryRow /\ Displaced.id = lastRow + 1 /\ Displaced.text = head.text BY <1>1 DEF Displaced, HistoryRow
<1>3. /\ HistoryRows(history', lastRow + 1) /\ EndsWith(history', lastRow + 1) /\ history'[Len(history')] = Displaced
      /\ Len(history') \in DOMAIN history'
      /\ \A i \in DOMAIN history' : history'[i] = Displaced \/ \E j \in DOMAIN history : history'[i] = history[j]
      /\ \A j \in DOMAIN history : history[j].id + Cap <= lastRow + 1 \/ \E i \in DOMAIN history' : history'[i] = history[j]
  BY <1>1, RecordedRows, <1>2
<1>4. \A i \in DOMAIN history' : history'[i].id > lastRow \/ \E j \in DOMAIN history : history'[i] = history[j]
  BY <1>1, <1>2, <1>3
<1>5. \A s \in stood' : s \in stood \/ s.row = lastRow + 1 BY DEF Saw
<1>6. HistoryKeepsWhatStood'
 <2> SUFFICES ASSUME NEW s \in stood'
              PROVE  s.row \in dropped \/ (s.row > 0 /\ (Has(history', s.row) \/ s.row + Cap <= lastRow + 1))
   BY DEF HistoryKeepsWhatStood
 <2>1. CASE s.row = lastRow + 1 BY <1>1, <1>2, <1>3, <2>1 DEF Has
 <2>2. CASE s \in stood /\ s.row \notin dropped
  <3>1. s.row > 0 /\ (Has(history, s.row) \/ s.row + Cap <= lastRow) BY <1>1, <2>2 DEF HistoryKeepsWhatStood
  <3>2. CASE Has(history, s.row)
   <4>1. PICK j \in DOMAIN history : history[j].id = s.row BY <3>2 DEF Has
   <4>2. history[j].id + Cap <= lastRow + 1 \/ \E i \in DOMAIN history' : history'[i] = history[j] BY <1>3
   <4> QED BY <3>1, <4>1, <4>2 DEF Has
  <3>3. CASE s.row + Cap <= lastRow /\ ~Has(history, s.row)
    BY <1>1, <2>2, HistoryAssumption, <3>1, <3>3
  <3> QED BY <3>1, <3>2, <3>3
 <2> QED BY <1>5, <2>1, <2>2
<1>7. head' \in [text : Wordings, at : Nat] /\ head'.at <= clock /\ stood' \subseteq [row : Nat, text : Wordings]
  BY <1>1 DEF Saw
<1> QED BY <1>1, <1>2, <1>3, <1>4, <1>6, <1>7 DEF Moves

\* Nothing moves.
LEMMA NothingMoves ==
  ASSUME HistoryInv, UNCHANGED <<head, history, lastRow, stood, dropped>>
  PROVE  Moves
BY DEF HistoryInv, HistoryShape, HistoryKeepsWhatStood, Has, Moves

\* updateWithVersion
LEMMA UpdatedMoves ==
  ASSUME HistoryInv, NEW text \in Wordings, Updated(text), UNCHANGED dropped
  PROVE  /\ Moves
         /\ \A was : Displaces(was) => head'.at = clock /\ history' = history /\ lastRow' = lastRow
<1>1. /\ head \in [text : Wordings, at : Nat] /\ clock \in Nat /\ lastRow \in Nat /\ HistoryRows(history, lastRow)
      /\ head.at <= clock /\ HistoryKeepsWhatStood /\ stood \subseteq [row : Nat, text : Wordings]
  BY DEF HistoryInv, HistoryShape
<1>2. CASE text = head.text
  BY <1>2, NothingMoves DEF Updated, Displaces
<1>3. CASE text # head.text /\ WorthRecording(history)
  BY <1>3, DisplacedMoves, <1>1, HistoryAssumption DEF Updated, Saw, WorthRecording, Displaces, EndsWith
<1>4. CASE text # head.text /\ ~WorthRecording(history)
  BY <1>4, <1>1 DEF Updated, Saw, WorthRecording, HistoryKeepsWhatStood, Has, Moves
<1> QED BY <1>2, <1>3, <1>4

\* restoreVersion
LEMMA RestoredMoves ==
  ASSUME HistoryInv, NEW id, RestoreAtServer(id), UNCHANGED <<dropped, clock>>
  PROVE  /\ Moves
         /\ Has(history, id) => /\ EndsWith(history', lastRow') /\ history'[Len(history')].text = head.text
                                /\ head'.at = clock'
                                /\ \E j \in DOMAIN history : history[j].id = id /\ head'.text = history[j].text
         /\ ~Has(history, id) => UNCHANGED <<head, history, lastRow>>
<1>1. CASE ~Has(history, id)
  BY <1>1, NothingMoves DEF RestoreAtServer
<1>2. CASE Has(history, id)
 <2>1. /\ head' = [text |-> RestoredRow(id).text, at |-> clock] /\ history' = Recorded(history, Displaced)
       /\ lastRow' = lastRow + 1 /\ Saw(TRUE) BY <1>2 DEF RestoreAtServer
 <2>2. \E r \in {history[i] : i \in DOMAIN history} : r.id = id BY <1>2 DEF Has
 <2>3. RestoredRow(id) \in {history[i] : i \in DOMAIN history} /\ RestoredRow(id).id = id BY <2>2 DEF RestoredRow, VersionRow
 <2>4. PICK j \in DOMAIN history : RestoredRow(id) = history[j] BY <2>3
 <2>5. history[j].text \in Wordings
  <3>1. history \in Seq(HistoryRow) BY DEF HistoryInv, HistoryRows
  <3>2. history[j] \in HistoryRow BY <3>1, LenProperties
  <3> QED BY <3>2 DEF HistoryRow
 <2>6. /\ Moves /\ EndsWith(history', lastRow') /\ history'[Len(history')].text = head.text BY <2>1, <2>4, <2>5, DisplacedMoves
 <2>7. head'.at = clock' /\ head'.text = history[j].text BY <2>1, <2>4
 <2> QED BY <1>2, <2>3, <2>4, <2>6, <2>7
<1> QED BY <1>1, <1>2

\* deleteVersionById
LEMMA DeletedMoves ==
  ASSUME HistoryInv, NEW id, history' = Without(history, id), dropped' = dropped \cup {id}, UNCHANGED <<head, lastRow, stood>>
  PROVE  Moves
<1>1. /\ head \in [text : Wordings, at : Nat] /\ lastRow \in Nat /\ HistoryRows(history, lastRow)
      /\ head.at <= clock /\ HistoryKeepsWhatStood /\ stood \subseteq [row : Nat, text : Wordings]
  BY DEF HistoryInv, HistoryShape
<1>2. history \in Seq(HistoryRow) /\ Spaced(history) /\ Given(history, lastRow) BY <1>1 DEF HistoryRows
<1>3. /\ history' \in Seq(HistoryRow) /\ \A i \in DOMAIN history' : \E j \in DOMAIN history : history'[i] = history[j]
      /\ \A j \in DOMAIN history : history[j].id # id => \E i \in DOMAIN history' : history'[i] = history[j]
      /\ Spaced(history')
  BY <1>2, WithoutRows
<1>4. Given(history', lastRow) BY <1>2, <1>3 DEF Given
<1>5. HistoryKeepsWhatStood'
 <2> SUFFICES ASSUME NEW s \in stood, s.row \notin dropped, s.row # id
              PROVE  s.row > 0 /\ (Has(history', s.row) \/ s.row + Cap <= lastRow) BY DEF HistoryKeepsWhatStood
 <2>1. s.row > 0 /\ (Has(history, s.row) \/ s.row + Cap <= lastRow) BY <1>1 DEF HistoryKeepsWhatStood
 <2>2. Has(history, s.row) => Has(history', s.row) BY <1>3 DEF Has
 <2> QED BY <2>1, <2>2
<1> QED BY <1>1, <1>3, <1>4, <1>5 DEF Moves, HistoryRows
-----------------------------------------------------------------------------
(* The steps *)

\* What the page lists and asks is true of a history that moves.
LEMMA PageStays ==
  ASSUME HistoryInv, Moves
  PROVE  /\ Listed(timeline.rows, history', lastRow') /\ Listed(fetch.rows, history', lastRow')
         /\ Listed(deletion.before, history', lastRow') /\ Listed(history', history', lastRow')
         /\ Listed(<<>>, history', lastRow')
         /\ restore.stage = "asked" /\ ~restore.undoing => Means(restore.id, restore.text, history', lastRow')
         /\ \A id \in Nat : \A text : Means(id, text, history, lastRow) => Means(id, text, history', lastRow')
<1>1. /\ lastRow \in Nat /\ restore.id \in Nat /\ Listed(timeline.rows, history, lastRow)
      /\ Listed(fetch.rows, history, lastRow) /\ Listed(deletion.before, history, lastRow)
      /\ restore.stage = "asked" /\ ~restore.undoing => Means(restore.id, restore.text, history, lastRow)
  BY DEF HistoryInv, HistoryShape, PageMeans
<1>2. /\ lastRow' \in Nat /\ lastRow <= lastRow' /\ HistoryRows(history', lastRow')
      /\ \A i \in DOMAIN history' : history'[i].id > lastRow \/ \E j \in DOMAIN history : history'[i] = history[j] BY DEF Moves
<1>3. \A h2 : \A more \in Nat : lastRow <= more /\ (\A i \in DOMAIN h2 : h2[i].id > lastRow \/ \E j \in DOMAIN history : h2[i] = history[j])
        => /\ \A rows : Listed(rows, history, lastRow) => Listed(rows, h2, more)
           /\ \A id, text : id \in Nat /\ Means(id, text, history, lastRow) => Means(id, text, h2, more) BY <1>1, ListedStays
<1>4. /\ \A rows : Listed(rows, history, lastRow) => Listed(rows, history', lastRow')
      /\ \A id, text : id \in Nat /\ Means(id, text, history, lastRow) => Means(id, text, history', lastRow') BY <1>2, <1>3
<1>5. Listed(history', history', lastRow')
  BY ListedItself, <1>2
<1>6. Listed(<<>>, history', lastRow') BY EmptySeq DEF Listed, Given, Agree
<1> QED BY <1>1, <1>4, <1>5, <1>6

\* The page moves, the server does not.
LEMMA PageMoves ==
  ASSUME HistoryInv, UNCHANGED <<head, history, lastRow, clock, stood, dropped>>, HistoryShape', PageMeans',
         ~Hasty => ToastIsTrue'
  PROVE  HistoryInv'
<1>1. HistoryRows(history, lastRow)' /\ head'.at <= clock' /\ HistoryKeepsWhatStood'
  BY DEF HistoryInv, HistoryKeepsWhatStood, Has
<1> QED BY <1>1 DEF HistoryInv

\* The server moves, the page does not.
LEMMA ServerMoves ==
  ASSUME HistoryInv, Moves, UNCHANGED <<clock, timeline, fetch, restore, deletion, undo>>, pageText' \in Said,
         ~Hasty => \/ restore.stage = "none" /\ ~undo.on
                   \/ \A was : Displaces(was) => head'.at = clock /\ history' = history /\ lastRow' = lastRow
  PROVE  HistoryInv'
<1>1. HistoryShape' BY DEF HistoryInv, HistoryShape, Moves
<1>2. PageMeans' BY PageStays DEF PageMeans
<1>3. ~Hasty => ToastIsTrue'
 <2> SUFFICES ASSUME ~Hasty PROVE ToastIsTrue' OBVIOUS
 <2>1. ToastIsTrue BY DEF HistoryInv
 <2>2. CASE restore.stage = "none" /\ ~undo.on BY <2>2 DEF ToastIsTrue
 <2>3. CASE \A was : Displaces(was) => head'.at = clock /\ history' = history /\ lastRow' = lastRow
   BY <2>3, PageStays, <2>1 DEF Displaces, HistoryInv, HistoryShape, ToastIsTrue
 <2> QED BY <2>2, <2>3
<1> QED BY <1>1, <1>2, <1>3 DEF HistoryInv, Moves

\* Time passes, and the other devices edit, restore and delete.
LEMMA ServerStepKeeps == ASSUME HistoryInv, ServerStep PROVE HistoryInv'
<1>1. CASE HistoryTick
 <2>1. /\ clock' \in Nat /\ head'.at <= clock' /\ restore.stage = "none" /\ ~undo.on
       /\ UNCHANGED <<head, history, lastRow, timeline, pageText, fetch, restore, deletion, undo, stood, dropped>>
   BY <1>1 DEF HistoryTick, Idle, HistoryInv, HistoryShape
 <2>2. HistoryShape' /\ PageMeans' BY <2>1 DEF HistoryInv, HistoryShape, PageMeans
 <2>3. HistoryKeepsWhatStood' /\ HistoryRows(history, lastRow)' BY <2>1 DEF HistoryInv, HistoryKeepsWhatStood, Has
 <2>4. ToastIsTrue' BY <2>1 DEF ToastIsTrue
 <2> QED BY <2>1, <2>2, <2>3, <2>4 DEF HistoryInv
<1>2. ASSUME NEW text \in Wordings, EditElsewhere(text) PROVE HistoryInv'
  BY <1>2, UpdatedMoves, ServerMoves DEF EditElsewhere, HistoryInv, HistoryShape
<1>3. ASSUME NEW id \in RowIds, RestoreElsewhere(id) \/ DeleteElsewhere(id) PROVE HistoryInv'
 <2>1. UNCHANGED <<clock, timeline, pageText, fetch, restore, deletion, undo>> /\ (~Hasty => restore.stage = "none" /\ ~undo.on)
   BY <1>3 DEF RestoreElsewhere, DeleteElsewhere, Calm
 <2>2. Moves
  <3>1. CASE RestoreElsewhere(id) BY <2>1, <3>1, RestoredMoves DEF RestoreElsewhere
  <3>2. CASE DeleteElsewhere(id) BY <3>2, DeletedMoves DEF DeleteElsewhere
  <3> QED BY <1>3, <3>1, <3>2
 <2>3. pageText' \in Said BY <2>1 DEF HistoryInv, HistoryShape
 <2> QED BY <2>1, <2>2, <2>3, ServerMoves
<1> QED BY <1>1, <1>2, <1>3 DEF ServerStep
\* What the invariant says of a state, in the form the steps of the page use.
LEMMA HistoryHere ==
  ASSUME HistoryInv
  PROVE  /\ HistoryShape /\ PageMeans /\ (~Hasty => ToastIsTrue) /\ history \in Seq(HistoryRow) /\ <<>> \in Seq(HistoryRow)
         /\ Listed(history, history, lastRow) /\ Listed(<<>>, history, lastRow)
         /\ NoHistoryFetch \in [on : BOOLEAN, rows : Seq(HistoryRow)] /\ ~NoHistoryFetch.on /\ NoHistoryFetch.rows = <<>>
         /\ Asking \in [on : BOOLEAN, rows : Seq(HistoryRow)] /\ Asking.on /\ Asking.rows = history
         /\ NoRestore.stage = "none" /\ ~NoRestore.undoing /\ 0 \in Said /\ Wordings \subseteq Said
         /\ NoUndo \in [on : BOOLEAN, text : Said, prev : Said, was : Said] /\ ~NoUndo.on
         /\ NoRestore \in [stage : {"none", "asked", "made", "refetching", "listed", "failed"}, undoing : BOOLEAN,
                           id : Nat, text : Said, prev : Said, was : Said]
         /\ NoDeletion \in [stage : {"none", "asked", "made", "failed"}, id : Nat, before : Seq(HistoryRow)]
         /\ NoDeletion.before = <<>> /\ NoDeletion.stage = "none"
<1>1. HistoryRows(history, lastRow) /\ lastRow \in Nat BY DEF HistoryInv, HistoryShape
<1>2. history \in Seq(HistoryRow) /\ <<>> \in Seq(HistoryRow) BY <1>1, EmptySeq DEF HistoryRows
<1>3. Listed(history, history, lastRow)
  BY ListedItself, <1>1
<1>4. Listed(<<>>, history, lastRow) BY EmptySeq DEF Listed, Given, Agree
<1>5. 0 \in Said /\ Wordings \subseteq Said BY DEF Said
<1> QED BY <1>2, <1>3, <1>4, <1>5 DEF HistoryInv, NoHistoryFetch, Asking, NoRestore, NoUndo, NoDeletion

\* The timeline is opened and closed, and its list is fetched.
LEMMA TimelineStepKeeps == ASSUME HistoryInv, TimelineStep PROVE HistoryInv'
<1>0. HistoryShape /\ PageMeans /\ (~Hasty => ToastIsTrue) /\ history \in Seq(HistoryRow) /\ <<>> \in Seq(HistoryRow)
      /\ Listed(history, history, lastRow) /\ Listed(<<>>, history, lastRow)
      /\ NoHistoryFetch \in [on : BOOLEAN, rows : Seq(HistoryRow)] /\ ~NoHistoryFetch.on /\ NoHistoryFetch.rows = <<>>
      /\ Asking \in [on : BOOLEAN, rows : Seq(HistoryRow)] /\ Asking.on /\ Asking.rows = history BY HistoryHere
<1>1. CASE OpenTimeline
  BY <1>1, <1>0, PageMoves DEF OpenTimeline, HistoryShape, PageMeans, ToastIsTrue, Displaces
<1>2. CASE CloseTimeline
  BY <1>2, <1>0, PageMoves DEF CloseTimeline, HistoryShape, PageMeans, ToastIsTrue, Displaces
<1>3. CASE FetchEnds
 <2>1. /\ timeline' = [timeline EXCEPT !.known = TRUE, !.rows = fetch.rows] /\ fetch' = NoHistoryFetch /\ fetch.on
       /\ restore' = IF restore.stage = "refetching" THEN [restore EXCEPT !.stage = "listed"] ELSE restore
       /\ UNCHANGED <<head, history, lastRow, clock, pageText, deletion, undo, stood, dropped>>
   BY <1>3 DEF FetchEnds, HistoryListed
 <2>2. /\ timeline'.rows = fetch.rows /\ timeline'.open = timeline.open
       /\ timeline' \in [open : BOOLEAN, known : BOOLEAN, rows : Seq(HistoryRow)] BY <1>0, <2>1 DEF HistoryShape
 <2>3. HistoryShape' /\ PageMeans' BY <1>0, <2>1, <2>2 DEF HistoryShape, PageMeans
 <2>4. ~Hasty => ToastIsTrue'
  <3> SUFFICES ASSUME ~Hasty PROVE ToastIsTrue' OBVIOUS
  <3>1. CASE restore.stage = "refetching"
    BY <1>0, <2>1, <3>1, <2>2 DEF HistoryShape, ToastIsTrue, Displaces
  <3>2. CASE restore.stage # "refetching" BY <1>0, <2>1, <2>2, <3>2 DEF ToastIsTrue, Displaces
  <3> QED BY <3>1, <3>2
 <2> QED BY <2>1, <2>3, <2>4, PageMoves
<1>4. CASE HistoryFetchFails
 <2>1. /\ fetch' = NoHistoryFetch /\ (Hasty \/ restore.stage # "refetching")
       /\ restore' = IF restore.stage = "refetching" THEN [restore EXCEPT !.stage = "listed"] ELSE restore
       /\ UNCHANGED <<head, history, lastRow, clock, timeline, pageText, deletion, undo, stood, dropped>>
   BY <1>4 DEF HistoryFetchFails, HistoryListed
 <2>3. HistoryShape' /\ PageMeans' BY <1>0, <2>1 DEF HistoryShape, PageMeans
 <2>4. ~Hasty => ToastIsTrue' BY <1>0, <2>1 DEF ToastIsTrue, Displaces
 <2> QED BY <2>1, <2>3, <2>4, PageMoves
<1> QED BY <1>1, <1>2, <1>3, <1>4 DEF TimelineStep

\* What is typed stays on the page.
LEMMA EditHereKeeps == ASSUME HistoryInv, NEW text \in Wordings, EditHere(text) PROVE HistoryInv'
<1>1. Updated(text) /\ pageText' = text /\ UNCHANGED <<clock, timeline, fetch, restore, deletion, undo, dropped>>
  BY DEF EditHere
<1>2. Moves /\ \A was : Displaces(was) => head'.at = clock /\ history' = history /\ lastRow' = lastRow BY <1>1, UpdatedMoves
<1>3. pageText' \in Said BY <1>1 DEF Said
<1> QED BY <1>1, <1>2, <1>3, ServerMoves

\* A row of the list is what the request is about.
LEMMA RestoreEntryKeeps == ASSUME HistoryInv, NEW i \in DOMAIN timeline.rows, RestoreEntry(i) PROVE HistoryInv'
<1>0. HistoryShape /\ PageMeans /\ (~Hasty => ToastIsTrue) /\ 0 \in Said /\ Wordings \subseteq Said
      /\ NoUndo \in [on : BOOLEAN, text : Said, prev : Said, was : Said] /\ ~NoUndo.on BY HistoryHere
<1> DEFINE entry == timeline.rows[i]
<1>1. entry \in HistoryRow
  BY <1>0, LenProperties DEF HistoryShape
<1>2. /\ restore' = [NoRestore EXCEPT !.stage = "asked", !.id = entry.id, !.text = entry.text, !.prev = pageText]
      /\ timeline.open /\ (Hasty \/ deletion.stage = "none") /\ pageText' = entry.text /\ undo' = NoUndo
      /\ UNCHANGED <<head, history, lastRow, clock, timeline, fetch, deletion, stood, dropped>> BY DEF RestoreEntry
<1>3. Means(entry.id, entry.text, history, lastRow) BY <1>0 DEF PageMeans, Listed, Given, Agree, Means
<1>4. entry.id \in Nat /\ entry.text \in Wordings BY <1>1 DEF HistoryRow
<1> HIDE DEF entry
<1>5. /\ restore' \in [stage : {"none", "asked", "made", "refetching", "listed", "failed"}, undoing : BOOLEAN,
                       id : Nat, text : Said, prev : Said, was : Said]
      /\ restore'.stage = "asked" /\ ~restore'.undoing /\ restore'.id = entry.id /\ restore'.text = entry.text
  BY <1>0, <1>2, <1>4 DEF NoRestore, HistoryShape
<1>6. HistoryShape' BY <1>0, <1>2, <1>4, <1>5 DEF HistoryShape
<1>7. PageMeans' BY <1>0, <1>2, <1>3, <1>5 DEF PageMeans
<1>8. ~Hasty => ToastIsTrue' BY <1>0, <1>2, <1>5 DEF ToastIsTrue
<1> QED BY <1>2, <1>6, <1>7, <1>8, PageMoves

\* The newest row the page knows is the one the restore recorded.
LEMMA UndoRestoreKeeps == ASSUME HistoryInv, UndoRestore PROVE HistoryInv'
<1>0. HistoryShape /\ PageMeans /\ (~Hasty => ToastIsTrue) /\ 0 \in Said /\ Wordings \subseteq Said
      /\ NoUndo \in [on : BOOLEAN, text : Said, prev : Said, was : Said] /\ ~NoUndo.on
      /\ Listed(history, history, lastRow) /\ history \in Seq(HistoryRow) BY HistoryHere
<1>1. undo.on /\ restore.stage = "none" /\ undo' = NoUndo
      /\ UNCHANGED <<head, history, lastRow, clock, timeline, fetch, deletion, stood, dropped>> BY DEF UndoRestore
<1>2. CASE timeline.rows = <<>>
  BY <1>2, <1>0, <1>1, PageMoves DEF UndoRestore, HistoryShape, PageMeans, ToastIsTrue
<1>3. CASE timeline.rows # <<>>
 <2> DEFINE newest == timeline.rows[Len(timeline.rows)]
 <2>1. newest \in HistoryRow /\ Len(timeline.rows) \in DOMAIN timeline.rows
   BY <1>0, <1>3, EmptySeq, LenProperties DEF HistoryShape
 <2>2. /\ pageText' = undo.prev
       /\ restore' = [stage |-> "asked", undoing |-> TRUE, id |-> newest.id, text |-> undo.text, prev |-> undo.prev,
                      was |-> undo.was] BY <1>3 DEF UndoRestore
 <2>3. newest.id \in Nat /\ newest.id <= lastRow BY <1>0, <2>1 DEF PageMeans, Listed, Given, HistoryRow
 <2>4. ~Hasty => Means(newest.id, undo.was, history, lastRow)
  <3> SUFFICES ASSUME ~Hasty, NEW j \in DOMAIN history, history[j].id = newest.id PROVE history[j].text = undo.was
    BY <2>3 DEF Means
  <3>1. Displaces(undo.was) /\ EndsWith(timeline.rows, lastRow) BY <1>0, <1>1 DEF ToastIsTrue
  <3>2. Len(history) \in DOMAIN history /\ history[Len(history)].id = lastRow /\ history[Len(history)].text = undo.was
    BY <1>0, <3>1, EmptySeq, LenProperties DEF Displaces, EndsWith
  <3>3. newest.id = lastRow BY <3>1 DEF EndsWith
  <3> QED BY <1>0, <3>2, <3>3 DEF Listed, Agree
 <2> HIDE DEF newest
 <2>5. HistoryShape' BY <1>0, <1>1, <2>2, <2>3 DEF HistoryShape
 <2>6. PageMeans' /\ (~Hasty => ToastIsTrue') BY <1>0, <1>1, <2>2, <2>4 DEF PageMeans, ToastIsTrue
 <2> QED BY <1>1, <2>5, <2>6, PageMoves
<1> QED BY <1>2, <1>3
\* The toast is gone.
LEMMA UndoExpiresKeeps == ASSUME HistoryInv, UndoExpires PROVE HistoryInv'
<1>0. HistoryShape /\ PageMeans /\ (~Hasty => ToastIsTrue) /\ NoUndo \in [on : BOOLEAN, text : Said, prev : Said, was : Said]
      /\ ~NoUndo.on BY HistoryHere
<1>1. undo' = NoUndo /\ UNCHANGED <<head, history, lastRow, clock, timeline, pageText, fetch, restore, deletion, stood, dropped>>
  BY DEF UndoExpires
<1>2. HistoryShape' /\ PageMeans' BY <1>0, <1>1 DEF HistoryShape, PageMeans
<1>3. ~Hasty => ToastIsTrue' BY <1>0, <1>1 DEF ToastIsTrue, Displaces
<1> QED BY <1>1, <1>2, <1>3, PageMoves

\* The request is served: the head is what the row said, and became a row itself.
LEMMA RestoreRunsKeeps == ASSUME HistoryInv, RestoreRuns PROVE HistoryInv'
<1>0. HistoryShape /\ PageMeans /\ (~Hasty => ToastIsTrue) /\ Wordings \subseteq Said BY HistoryHere
<1>1. /\ restore.stage = "asked" /\ RestoreAtServer(restore.id) /\ UNCHANGED <<clock, timeline, pageText, fetch, deletion, undo, dropped>>
      /\ restore' = [restore EXCEPT !.stage = IF Has(history, restore.id) THEN "made" ELSE "failed",
                                    !.was = IF restore.undoing THEN @ ELSE head.text] BY DEF RestoreRuns
<1>2. /\ Moves
      /\ Has(history, restore.id) => /\ EndsWith(history', lastRow') /\ history'[Len(history')].text = head.text
                                     /\ head'.at = clock' BY <1>1, RestoredMoves
<1>3. /\ Listed(timeline.rows, history', lastRow') /\ Listed(fetch.rows, history', lastRow')
      /\ Listed(deletion.before, history', lastRow') BY <1>2, PageStays
<1>4. /\ restore' \in [stage : {"none", "asked", "made", "refetching", "listed", "failed"}, undoing : BOOLEAN,
                       id : Nat, text : Said, prev : Said, was : Said]
      /\ restore'.stage = (IF Has(history, restore.id) THEN "made" ELSE "failed") /\ restore'.undoing = restore.undoing
      /\ restore'.was = IF restore.undoing THEN restore.was ELSE head.text BY <1>0, <1>1 DEF HistoryShape
<1>5. HistoryShape' BY <1>0, <1>1, <1>2, <1>4 DEF HistoryShape, Moves
<1>6. PageMeans' BY <1>1, <1>3, <1>4 DEF PageMeans
<1>7. ~Hasty => ToastIsTrue'
 <2> SUFFICES ASSUME ~Hasty PROVE ToastIsTrue' OBVIOUS
 <2>1. ~undo.on /\ deletion.stage = "none" /\ (~restore.undoing => timeline.open) BY <1>0, <1>1 DEF ToastIsTrue
 <2>2. ASSUME ~restore.undoing, restore'.stage = "made" PROVE Displaces(restore.was)' BY <1>2, <1>4, <2>2 DEF Displaces
 <2> QED BY <1>1, <1>4, <2>1, <2>2 DEF ToastIsTrue
<1> QED BY <1>1, <1>2, <1>5, <1>6, <1>7 DEF HistoryInv, Moves

\* What a restore comes to changes the page only.
LEMMA RestoreEndsKeeps ==
  ASSUME HistoryInv, RestoreLost \/ RestoreSucceeds \/ RestoreSettles \/ RestoreFails
  PROVE  HistoryInv'
<1>0. HistoryShape /\ PageMeans /\ (~Hasty => ToastIsTrue) /\ history \in Seq(HistoryRow) /\ <<>> \in Seq(HistoryRow)
      /\ Listed(history, history, lastRow) /\ Listed(<<>>, history, lastRow)
      /\ NoHistoryFetch \in [on : BOOLEAN, rows : Seq(HistoryRow)] /\ ~NoHistoryFetch.on /\ NoHistoryFetch.rows = <<>>
      /\ Asking \in [on : BOOLEAN, rows : Seq(HistoryRow)] /\ Asking.on /\ Asking.rows = history
      /\ NoRestore.stage = "none" /\ ~NoRestore.undoing
      /\ NoUndo \in [on : BOOLEAN, text : Said, prev : Said, was : Said] /\ ~NoUndo.on
      /\ NoRestore \in [stage : {"none", "asked", "made", "refetching", "listed", "failed"}, undoing : BOOLEAN,
                        id : Nat, text : Said, prev : Said, was : Said] BY HistoryHere
<1>1. CASE RestoreLost
  BY <1>1, <1>0, PageMoves DEF RestoreLost, HistoryShape, PageMeans, ToastIsTrue
<1>2. CASE RestoreSucceeds
  BY <1>2, <1>0, PageMoves DEF RestoreSucceeds, HistoryInvalidated, HistoryShape, PageMeans, ToastIsTrue, Displaces
<1>3. CASE RestoreSettles
  BY <1>3, <1>0, PageMoves DEF RestoreSettles, HistoryShape, PageMeans, ToastIsTrue, Displaces
<1>4. CASE RestoreFails
  BY <1>4, <1>0, PageMoves DEF RestoreFails, HistoryShape, PageMeans, ToastIsTrue, Displaces
<1> QED BY <1>1, <1>2, <1>3, <1>4

\* A row goes from the list at once.
LEMMA DeleteEntryKeeps == ASSUME HistoryInv, NEW i \in DOMAIN timeline.rows, DeleteEntry(i) PROVE HistoryInv'
<1>0. HistoryShape /\ PageMeans /\ (~Hasty => ToastIsTrue) /\ Listed(<<>>, history, lastRow)
      /\ NoHistoryFetch \in [on : BOOLEAN, rows : Seq(HistoryRow)] /\ ~NoHistoryFetch.on /\ NoHistoryFetch.rows = <<>>
  BY HistoryHere
<1> DEFINE entry == timeline.rows[i]
<1>1. entry \in HistoryRow /\ timeline.rows \in Seq(HistoryRow)
  BY <1>0, LenProperties DEF HistoryShape
<1>2. /\ deletion' = [stage |-> "asked", id |-> entry.id, before |-> timeline.rows]
      /\ timeline' = [timeline EXCEPT !.rows = Without(@, entry.id)] /\ fetch' = NoHistoryFetch
      /\ restore' = (IF restore.stage = "refetching" THEN [restore EXCEPT !.stage = "listed"] ELSE restore)
      /\ (~Hasty => restore.stage = "none" /\ ~undo.on)
      /\ UNCHANGED <<head, history, lastRow, clock, pageText, undo, stood, dropped>> BY DEF DeleteEntry, HistoryListed, Calm
<1>3. entry.id \in Nat BY <1>1 DEF HistoryRow
<1> HIDE DEF entry
<1>4. PICK less : less = Without(timeline.rows, entry.id) OBVIOUS
<1>5. /\ less \in Seq(HistoryRow) /\ \A k \in DOMAIN less : \E j \in DOMAIN timeline.rows : less[k] = timeline.rows[j]
  BY <1>1, <1>4, WithoutRows
<1>6. Listed(less, history, lastRow)
 <2>1. Listed(timeline.rows, history, lastRow) BY <1>0 DEF PageMeans
 <2>2. Given(less, lastRow) BY <1>5, <2>1 DEF Listed, Given
 <2>3. Agree(less, history)
  <3> SUFFICES ASSUME NEW k \in DOMAIN less, NEW j \in DOMAIN history, less[k].id = history[j].id
               PROVE  less[k].text = history[j].text BY DEF Agree
  <3>1. PICK m \in DOMAIN timeline.rows : less[k] = timeline.rows[m] BY <1>5
  <3> QED BY <2>1, <3>1 DEF Listed, Agree
 <2> QED BY <1>5, <2>2, <2>3 DEF Listed
<1>7. timeline' \in [open : BOOLEAN, known : BOOLEAN, rows : Seq(HistoryRow)] /\ timeline'.rows = less
  BY <1>0, <1>2, <1>4, <1>5 DEF HistoryShape
<1>8. HistoryShape' BY <1>0, <1>1, <1>2, <1>3, <1>7 DEF HistoryShape
<1>9. PageMeans' BY <1>0, <1>2, <1>6, <1>7 DEF PageMeans, HistoryShape
<1>10. ~Hasty => ToastIsTrue' BY <1>2 DEF ToastIsTrue
<1> QED BY <1>2, <1>8, <1>9, <1>10, PageMoves

\* The row goes from the server.
LEMMA DeleteRunsKeeps == ASSUME HistoryInv, DeleteRuns PROVE HistoryInv'
<1>0. HistoryShape /\ PageMeans /\ (~Hasty => ToastIsTrue) BY HistoryHere
<1>1. /\ deletion.stage = "asked" /\ history' = Without(history, deletion.id) /\ dropped' = dropped \cup {deletion.id}
      /\ deletion' = [deletion EXCEPT !.stage = "made"]
      /\ UNCHANGED <<head, lastRow, clock, timeline, pageText, fetch, restore, undo, stood>> BY DEF DeleteRuns
<1>2. Moves BY <1>1, DeletedMoves
<1>3. /\ Listed(timeline.rows, history', lastRow') /\ Listed(fetch.rows, history', lastRow')
      /\ Listed(deletion.before, history', lastRow')
      /\ restore.stage = "asked" /\ ~restore.undoing => Means(restore.id, restore.text, history', lastRow') BY <1>2, PageStays
<1>4. deletion' \in [stage : {"none", "asked", "made", "failed"}, id : Nat, before : Seq(HistoryRow)]
      /\ deletion'.before = deletion.before BY <1>0, <1>1 DEF HistoryShape
<1>5. HistoryShape' /\ PageMeans' BY <1>0, <1>1, <1>3, <1>4 DEF HistoryShape, PageMeans
<1>6. ~Hasty => ToastIsTrue' BY <1>0, <1>1 DEF ToastIsTrue
<1> QED BY <1>1, <1>2, <1>5, <1>6 DEF HistoryInv, Moves

\* What a deletion comes to changes the page only.
LEMMA DeleteEndsKeeps == ASSUME HistoryInv, DeleteLost \/ DeleteSettles PROVE HistoryInv'
<1>0. HistoryShape /\ PageMeans /\ (~Hasty => ToastIsTrue) /\ history \in Seq(HistoryRow)
      /\ Listed(history, history, lastRow) /\ Listed(<<>>, history, lastRow)
      /\ NoHistoryFetch \in [on : BOOLEAN, rows : Seq(HistoryRow)] /\ ~NoHistoryFetch.on /\ NoHistoryFetch.rows = <<>>
      /\ Asking \in [on : BOOLEAN, rows : Seq(HistoryRow)] /\ Asking.on /\ Asking.rows = history
      /\ NoDeletion \in [stage : {"none", "asked", "made", "failed"}, id : Nat, before : Seq(HistoryRow)]
      /\ NoDeletion.before = <<>> /\ NoDeletion.stage = "none" BY HistoryHere
<1>1. CASE DeleteLost
  BY <1>1, <1>0, PageMoves DEF DeleteLost, HistoryShape, PageMeans, ToastIsTrue
<1>2. CASE DeleteSettles
  BY <1>2, <1>0, PageMoves DEF DeleteSettles, HistoryInvalidated, HistoryShape, PageMeans, ToastIsTrue
<1> QED BY <1>1, <1>2

-----------------------------------------------------------------------------
\* It holds of a new note.
LEMMA HistoryStarts == HistoryInit => HistoryInv
<1> SUFFICES ASSUME HistoryInit PROVE HistoryInv OBVIOUS
<1>1. PICK text \in Wordings : head = [text |-> text, at |-> 0] /\ pageText = text BY DEF HistoryInit
<1>2. HistoryShape BY <1>1, EmptySeq DEF HistoryInit, HistoryShape, Said, NoHistoryFetch, NoRestore, NoDeletion, NoUndo
<1>3. HistoryRows(history, lastRow) BY EmptySeq DEF HistoryInit, HistoryRows, Spaced, Given
<1>4. Listed(<<>>, <<>>, 0) BY EmptySeq DEF Listed, Given, Agree
<1>5. PageMeans BY <1>4 DEF HistoryInit, PageMeans, NoHistoryFetch, NoRestore, NoDeletion
<1>6. HistoryKeepsWhatStood /\ ToastIsTrue /\ head.at <= clock
  BY <1>1 DEF HistoryInit, HistoryKeepsWhatStood, ToastIsTrue, NoRestore, NoUndo
<1> QED BY <1>2, <1>3, <1>5, <1>6 DEF HistoryInv

\* Every step keeps it.
LEMMA HistoryStepKeeps == HistoryInv /\ [HistoryNext]_historyVars => HistoryInv'
<1> SUFFICES ASSUME HistoryInv, [HistoryNext]_historyVars PROVE HistoryInv' OBVIOUS
<1>1. CASE ServerStep \/ TimelineStep BY <1>1, ServerStepKeeps, TimelineStepKeeps
<1>2. CASE RestoreStep
  BY <1>2, RestoreEntryKeeps, UndoRestoreKeeps, UndoExpiresKeeps, RestoreRunsKeeps, RestoreEndsKeeps DEF RestoreStep
<1>3. CASE DeletionStep BY <1>3, DeleteEntryKeeps, DeleteRunsKeeps, DeleteEndsKeeps DEF DeletionStep
<1>4. ASSUME NEW text \in Wordings, EditHere(text) PROVE HistoryInv' BY <1>4, EditHereKeeps
<1>5. CASE UNCHANGED historyVars
 <2>1. HistoryShape' /\ PageMeans' /\ HistoryKeepsWhatStood' /\ HistoryRows(history, lastRow)'
   BY <1>5 DEF historyVars, HistoryInv, HistoryShape, PageMeans, HistoryKeepsWhatStood, Has
 <2>2. ~Hasty => ToastIsTrue' BY <1>5 DEF historyVars, HistoryInv, ToastIsTrue, Displaces
 <2>3. head'.at <= clock' BY <1>5 DEF historyVars, HistoryInv
 <2> QED BY <2>1, <2>2, <2>3 DEF HistoryInv
<1> QED BY <1>1, <1>2, <1>3, <1>4, <1>5 DEF HistoryNext

\* Only the request that is served makes a restore.
LEMMA OnlyServedIsMade ==
  ASSUME HistoryInv, [HistoryNext]_historyVars, restore.stage = "asked", restore'.stage = "made"
  PROVE  RestoreRuns
<1> USE DEF NoRestore, HistoryListed
<1>1. ~ServerStep BY DEF ServerStep, HistoryTick, EditElsewhere, RestoreElsewhere, DeleteElsewhere
<1>2. ~TimelineStep BY DEF TimelineStep, OpenTimeline, CloseTimeline, FetchEnds, HistoryFetchFails
<1>3. ~DeletionStep BY DEF DeletionStep, DeleteEntry, DeleteRuns, DeleteLost, DeleteSettles
<1>4. ~\E text \in Wordings : EditHere(text) BY DEF EditHere
<1>5. RestoreStep => RestoreRuns
 <2>1. ~\E i \in DOMAIN timeline.rows : RestoreEntry(i) BY DEF RestoreEntry
 <2>2. ~RestoreLost BY DEF RestoreLost, HistoryInv, HistoryShape
 <2>3. ~UndoRestore /\ ~UndoExpires /\ ~RestoreSucceeds /\ ~RestoreSettles /\ ~RestoreFails
   BY DEF UndoRestore, UndoExpires, RestoreSucceeds, RestoreSettles, RestoreFails
 <2> QED BY <2>1, <2>2, <2>3 DEF RestoreStep
<1>6. ~UNCHANGED historyVars BY DEF historyVars
<1> QED BY <1>1, <1>2, <1>3, <1>4, <1>5, <1>6 DEF HistoryNext

\* The head becomes what the row of the request said.
LEMMA ServedRestores ==
  ASSUME HistoryInv, RestoreRuns, restore'.stage = "made"
  PROVE  /\ ~restore.undoing => head'.text = restore.text
         /\ ~Hasty /\ restore.undoing => head'.text = restore.was
<1>1. /\ restore.stage = "asked" /\ RestoreAtServer(restore.id) /\ UNCHANGED <<clock, dropped>>
      /\ restore' = [restore EXCEPT !.stage = IF Has(history, restore.id) THEN "made" ELSE "failed",
                                    !.was = IF restore.undoing THEN @ ELSE head.text] BY DEF RestoreRuns
<1>2. Has(history, restore.id) BY <1>1 DEF HistoryInv, HistoryShape
<1>3. PICK j \in DOMAIN history : history[j].id = restore.id /\ head'.text = history[j].text BY <1>1, <1>2, RestoredMoves
<1>4. ~restore.undoing => Means(restore.id, restore.text, history, lastRow) BY <1>1 DEF HistoryInv, PageMeans
<1>5. ~Hasty /\ restore.undoing => Means(restore.id, restore.was, history, lastRow) BY <1>1 DEF HistoryInv, ToastIsTrue
<1> QED BY <1>3, <1>4, <1>5 DEF Means

(***************************************************************************)
(* For any wordings, window, cap and length of life, whatever other devices *)
(* do meanwhile: a text that stood for the window is a version until it is *)
(* pruned or deleted, and a restore gives the head the text of the row the *)
(* page showed (db/tier.ts, useVersions.ts, VersionHistoryModal.tsx).      *)
(***************************************************************************)
THEOREM HistoryStands == HistorySpec => []HistoryKeepsWhatStood /\ RestoresWhatWasShown
<1>1. HistorySpec => []HistoryInv BY HistoryStarts, HistoryStepKeeps, PTL DEF HistorySpec
<1>2. HistoryInv => HistoryKeepsWhatStood BY DEF HistoryInv
<1>3. HistoryInv /\ [HistoryNext]_historyVars =>
        [(restore.stage = "asked" /\ restore'.stage = "made" /\ ~restore.undoing) => head'.text = restore.text]_historyVars
  BY OnlyServedIsMade, ServedRestores
<1> QED BY <1>1, <1>2, <1>3, PTL DEF HistorySpec, RestoresWhatWasShown

(***************************************************************************)
(* And the undo of a restore puts back what the restore displaced, if the  *)
(* timeline stays open with its fetches answered, and nobody deletes       *)
(* versions or restores elsewhere, until the toast is gone.                *)
(***************************************************************************)
THEOREM HistoryIsKeptUnhurried == ASSUME ~Hasty PROVE HistorySpec => HistoryIsKept
<1>1. HistorySpec => []HistoryInv BY HistoryStarts, HistoryStepKeeps, PTL DEF HistorySpec
<1>2. HistoryInv /\ [HistoryNext]_historyVars =>
        [(restore.stage = "asked" /\ restore'.stage = "made" /\ restore.undoing) => head'.text = restore.was]_historyVars
  BY OnlyServedIsMade, ServedRestores
<1>3. HistorySpec => UndoPutsItBack BY <1>1, <1>2, PTL DEF HistorySpec, UndoPutsItBack
<1> QED BY <1>3, HistoryStands DEF HistoryIsKept

-----------------------------------------------------------------------------
(* Ranks and selections                                                    *)

\* Every set of naturals that is not empty has a least element.
LEMMA LeastOf ==
  ASSUME NEW S, S \subseteq Nat, S # {}
  PROVE  \E m \in S : \A n \in S : m <= n
<1>1. IsWellFoundedOn(OpToRel(<, Nat), Nat) BY NatLessThanWellFounded
<1>2. PICK m \in S : \A n \in S : ~(<<n, m>> \in OpToRel(<, Nat)) BY <1>1, WFMin
<1>3. \A n \in S : ~(n < m) BY <1>2 DEF OpToRel
<1>4. m \in Nat /\ \A n \in S : n \in Nat OBVIOUS
<1> QED BY <1>3, <1>4

\* Induction, over the set of the numbers that have the property.
LEMMA ByInduction ==
  ASSUME NEW S, 0 \in S, \A n \in Nat : n \in S => n + 1 \in S
  PROVE  Nat \subseteq S
<1> SUFFICES ASSUME Nat \ S # {} PROVE FALSE OBVIOUS
<1>1. PICK m \in Nat \ S : \A n \in Nat \ S : m <= n BY LeastOf
<1>2. m # 0 /\ m - 1 \in Nat /\ m - 1 \notin Nat \ S BY <1>1
<1> QED BY <1>1, <1>2

\* Every place of a set of places has a rank, and every rank is some place's.
LEMMA Ranks ==
  ASSUME NEW m \in Nat, NEW kept, \A j \in kept : j \in Nat /\ j >= 1 /\ j <= m
  PROVE  /\ Cardinality(kept) \in Nat
         /\ \A i \in kept : Cardinality({j \in kept : j <= i}) \in 1 .. Cardinality(kept)
         /\ \A k \in 1 .. Cardinality(kept) : \E i \in kept : Cardinality({j \in kept : j <= i}) = k
         /\ \A i, h \in kept : Cardinality({j \in kept : j <= i}) = Cardinality({j \in kept : j <= h}) => i = h
<1> DEFINE Upto == [n \in Nat |-> {j \in kept : j <= n}]
           Of(k, n) == \E i \in kept : i <= n /\ Cardinality(Upto[i]) = k
           Reached == {n \in Nat : \A k \in 1 .. Cardinality(Upto[n]) : Of(k, n)}
<1>0. \A j \in kept : j \in Nat /\ j >= 1 /\ j <= m OBVIOUS
<1>u. \A n \in Nat : Upto[n] \subseteq kept /\ \A j \in kept : j \in Upto[n] <=> j <= n OBVIOUS
<1> HIDE DEF Upto
<1>1. IsFiniteSet(kept) /\ \A n \in Nat : IsFiniteSet(Upto[n]) /\ Upto[n] \subseteq kept /\ Cardinality(Upto[n]) \in Nat
 <2>1. IsFiniteSet(1 .. m) BY FS_Interval
 <2>2. IsFiniteSet(kept)
   BY <1>0, <2>1, FS_Subset
 <2>3. \A n \in Nat : Upto[n] \subseteq kept BY <1>u
 <2>4. \A n \in Nat : IsFiniteSet(Upto[n]) BY <2>2, <2>3, FS_Subset
 <2> QED BY <2>2, <2>3, <2>4, FS_CardinalityType
<1>2. 0 \in Reached
  BY <1>0, <1>u, FS_EmptySet
<1>3. \A n \in Nat : n \in Reached => n + 1 \in Reached
 <2> SUFFICES ASSUME NEW n \in Nat, n \in Reached,
                     NEW k \in 1 .. Cardinality(Upto[n + 1])
              PROVE  Of(k, n + 1)
  <3> HIDE DEF Of
  <3> QED OBVIOUS
 <2>0. \A h \in 1 .. Cardinality(Upto[n]) : Of(h, n) OBVIOUS
 <2>9. \A h : Of(h, n) => Of(h, n + 1) BY <1>0
 <2>1. CASE n + 1 \in kept
  <3>0. \A j \in kept : j <= n + 1 <=> j <= n \/ j = n + 1 BY <1>0
  <3>1. Upto[n + 1] = Upto[n] \cup {n + 1} /\ n + 1 \notin Upto[n] BY <1>0, <1>u, <2>1, <3>0
  <3>2. Cardinality(Upto[n + 1]) = Cardinality(Upto[n]) + 1 BY <1>1, <3>1, FS_AddElement
  <3>3. CASE k \in 1 .. Cardinality(Upto[n]) BY <2>0, <2>9, <3>3
  <3>4. CASE k = Cardinality(Upto[n + 1])
    BY <2>1, <3>4
  <3>5. Cardinality(Upto[n]) \in Nat BY <1>1
  <3> QED BY <3>2, <3>3, <3>4, <3>5
 <2>2. CASE n + 1 \notin kept
  <3>0. \A j \in kept : j <= n + 1 <=> j <= n BY <1>0, <2>2
  <3>1. Upto[n + 1] = Upto[n] BY <1>u, <3>0
  <3> QED BY <2>0, <2>9, <3>1
 <2> QED BY <2>1, <2>2
<1>4. m \in Reached /\ Upto[m] = kept
 <2>1. Nat \subseteq Reached
  <3> HIDE DEF Reached
  <3> QED BY <1>2, <1>3, ByInduction
 <2>2. Upto[m] = kept BY <1>0, <1>u
 <2> QED BY <2>1, <2>2
<1>5. \A i \in kept : Cardinality(Upto[i]) \in 1 .. Cardinality(kept)
 <2> TAKE i \in kept
 <2>1. i \in Nat /\ {i} \subseteq Upto[i] BY <1>0, <1>u
 <2>2. Cardinality(Upto[i]) <= Cardinality(kept) /\ Cardinality({i}) <= Cardinality(Upto[i]) BY <1>1, <2>1, FS_Subset
 <2>3. Cardinality({i}) = 1 BY FS_Singleton
 <2> QED BY <1>1, <2>1, <2>2, <2>3, FS_CardinalityType
<1>6. \A i, h \in kept : i < h => Cardinality(Upto[i]) < Cardinality(Upto[h])
 <2> SUFFICES ASSUME NEW i \in kept, NEW h \in kept, i < h PROVE Cardinality(Upto[i]) < Cardinality(Upto[h]) OBVIOUS
 <2>1. i \in Nat /\ h \in Nat BY <1>0
 <2>a. h \in Upto[h] /\ h \notin Upto[i] BY <1>u, <2>1
 <2>b. \A j \in kept : j <= i => j <= h BY <1>0, <2>1
 <2>2. Upto[i] \subseteq Upto[h] /\ h \in Upto[h] /\ h \notin Upto[i] BY <1>u, <2>1, <2>a, <2>b
 <2>3. IsFiniteSet(Upto[h]) /\ Cardinality(Upto[h]) \in Nat /\ Cardinality(Upto[i]) \in Nat BY <1>1, <2>1
 <2>4. Cardinality(Upto[i]) <= Cardinality(Upto[h]) /\ (Cardinality(Upto[i]) = Cardinality(Upto[h]) => Upto[i] = Upto[h])
   BY <2>2, <2>3, FS_Subset
 <2> QED BY <2>2, <2>3, <2>4
<1>7. \A i, h \in kept : Cardinality(Upto[i]) = Cardinality(Upto[h]) => i = h
 <2> SUFFICES ASSUME NEW i \in kept, NEW h \in kept, Cardinality(Upto[i]) = Cardinality(Upto[h]) PROVE i = h OBVIOUS
 <2>1. i \in Nat /\ h \in Nat /\ Cardinality(Upto[i]) \in Nat BY <1>0, <1>1
 <2>2. ~(i < h) /\ ~(h < i) BY <1>6, <2>1
 <2> QED BY <2>1, <2>2
<1>8. \A k \in 1 .. Cardinality(kept) : \E i \in kept : Cardinality(Upto[i]) = k BY <1>4
<1>9. \A i \in kept : Upto[i] = {j \in kept : j <= i} BY <1>0 DEF Upto
<1>10. Cardinality(kept) \in Nat BY <1>1, FS_CardinalityType
<1>11. \A i \in kept : Cardinality({j \in kept : j <= i}) \in 1 .. Cardinality(kept) BY <1>5, <1>9
<1>12. \A k \in 1 .. Cardinality(kept) : \E i \in kept : Cardinality({j \in kept : j <= i}) = k BY <1>8, <1>9
<1>13. \A i, h \in kept : Cardinality({j \in kept : j <= i}) = Cardinality({j \in kept : j <= h}) => i = h BY <1>7, <1>9
<1> QED BY <1>10, <1>11, <1>12, <1>13

\* What is left of a selection is what it has of the rest.
LEMMA OnlyLeft ==
  ASSUME NEW D, NEW ids \in Seq(D), NEW S
  PROVE  Only(ids, S) \in Seq(D) /\ Range(Only(ids, S)) = Range(ids) \cap S
<1> DEFINE kept == {i \in DOMAIN ids : ids[i] \in S}
           c == Cardinality(kept)
           Rank(i) == Cardinality({j \in kept : j <= i})
           At(k) == CHOOSE i \in kept : Rank(i) = k
<1>1. kept \subseteq 1 .. Len(ids) /\ Len(ids) \in Nat /\ DOMAIN ids = 1 .. Len(ids) /\ \A i \in DOMAIN ids : ids[i] \in D
  BY LenProperties, ElementOfSeq
<1>2. c \in Nat /\ (\A i \in kept : Rank(i) \in 1 .. c) /\ (\A k \in 1 .. c : \E i \in kept : Rank(i) = k)
      /\ \A i, h \in kept : Rank(i) = Rank(h) => i = h
 <2>1. \A j \in kept : j \in Nat /\ j >= 1 /\ j <= Len(ids) BY <1>1
 <2> QED BY <1>1, <2>1, Ranks
<1>3. Only(ids, S) = [k \in 1 .. c |-> ids[At(k)]] BY DEF Only
<1>4. \A k \in 1 .. c : At(k) \in kept /\ Rank(At(k)) = k BY <1>2
<1>5. \A i \in kept : \E k \in 1 .. c : At(k) = i BY <1>2, <1>4
<1> HIDE DEF c, Rank, At
<1>6. Only(ids, S) \in [1 .. c -> D] BY <1>1, <1>3, <1>4
<1>7. Only(ids, S) \in Seq(D) BY <1>2, <1>6, SeqDef
<1>8. Range(Only(ids, S)) \subseteq Range(ids) \cap S BY <1>1, <1>3, <1>4 DEF Range
<1>9. Range(ids) \cap S \subseteq Range(Only(ids, S)) BY <1>1, <1>3, <1>5 DEF Range
<1> QED BY <1>7, <1>8, <1>9

-----------------------------------------------------------------------------
(* The tags: their inductive invariant.                                    *)

TagStages == {"asked", "owned", "free", "ok", "failed", "done", "undone"}
Answered == {"done", "undone"}
TagCall == [op : {"tags", "create", "rename", "delete"}, id : Ids \cup {0}, name : TagNames, here : BOOLEAN,
            adds : BOOLEAN, stage : TagStages, before : TagList, held : Selection, ids : Seq(Ids)]
TagsShape ==
  /\ tagRows \in [Ids -> TagNames] /\ noteTags \in Seq(Ids) /\ tagList \in TagList /\ tagFetch \in TagFetch
  /\ selection \in Selection /\ tagCalls \in Seq(TagCall)

CallFits(c) ==
  /\ c.op \in {"rename", "delete"} => c.id \in Ids
  /\ c.op = "create" /\ c.stage = "asked" => c.id = 0
  /\ c.op = "create" /\ c.stage = "ok" => c.id \in Ids
  /\ c.op \in {"create", "rename"} => c.name # 0
  /\ c.op = "tags" => c.stage \notin {"owned", "free"} /\ c.here

\* A tag that was ever there has its row, or is the tag of a call.
EverMade == {d \in Ids : tagRows[d] # 0 \/ \E i \in DOMAIN tagCalls : tagCalls[i].id = d}
Names(names, R) == \A d \in Ids : names[d] # 0 => d \in R
Within(c, R) == Range(c.ids) \subseteq R /\ Range(c.held.ids) \subseteq R /\ Names(c.before.names, R)
\* Only such tags are on the page or in a call, and so a new tag is in none.
OnlyEverMade ==
  /\ Range(selection.ids) \subseteq EverMade /\ Names(tagList.names, EverMade) /\ Names(tagFetch.names, EverMade)
  /\ \A i \in DOMAIN tagCalls : Within(tagCalls[i], EverMade)

\* The changes of the list that were made here and are not answered.
Changes == {i \in DOMAIN tagCalls : tagCalls[i].op # "tags" /\ tagCalls[i].here /\ tagCalls[i].stage \notin Answered}
ListSettles ==
  Changes = {} /\ ~news =>
    /\ tagFetch.stage = "none" => tagList.names = tagRows /\ tagList.temps = {}
    /\ tagFetch.stage = "read" => tagFetch.names = tagRows

\* The writes of the note's tags that are not answered, and the tags to be added.
TagWrites == {i \in DOMAIN tagCalls : tagCalls[i].op = "tags" /\ tagCalls[i].stage \notin Answered}
Makings == {i \in DOMAIN tagCalls : tagCalls[i].op = "create" /\ tagCalls[i].adds /\ tagCalls[i].stage \notin Answered}
AreSaved(ids) == Range(noteTags) = {d \in Range(ids) : tagRows[d] # 0}
NotSaved(by) == \E j \in DOMAIN tagCalls : j = by /\ tagCalls[j].stage = "undone"
\* What a write goes back to is what the write before it sends.
Follows(i, j) ==
  /\ j \in TagWrites /\ j < i /\ tagCalls[i].held.ids = tagCalls[j].ids
  /\ \A k \in TagWrites : k < i => k <= j
First(i) == \A j \in TagWrites : i <= j

NewestIsShown ==
  TagWrites # {} => /\ selection.by \in TagWrites /\ selection.ids = tagCalls[selection.by].ids
                    /\ \A j \in TagWrites : j <= selection.by
ShownIsSaved == TagWrites = {} /\ ~doubtful => AreSaved(selection.ids)
WritesFollow == \A i \in TagWrites : ~First(i) => tagCalls[i].stage = "asked" /\ Follows(i, tagCalls[i].held.by)
FirstIsHeard ==
  \A i \in TagWrites : First(i) =>
    /\ tagCalls[i].stage = "ok" => AreSaved(tagCalls[i].ids)
    /\ tagCalls[i].stage # "ok" /\ ~doubtful => NotSaved(tagCalls[i].held.by) \/ AreSaved(tagCalls[i].held.ids)
MakingIsAlone == \A i \in Makings : TagWrites = {} /\ Makings = {i} /\ tagCalls[i].held = selection
InTurn == NewestIsShown /\ ShownIsSaved /\ WritesFollow /\ FirstIsHeard /\ MakingIsAlone

TagsInv ==
  /\ TagsShape /\ (\A i \in DOMAIN tagCalls : CallFits(tagCalls[i]))
  /\ OnlyEverMade /\ NamesAreUnique /\ ListSettles /\ (Waits => InTurn)

-----------------------------------------------------------------------------
(* Calls *)

\* The fields of a call.
LEMMA CallFields ==
  ASSUME NEW c \in TagCall
  PROVE  /\ c.op \in {"tags", "create", "rename", "delete"} /\ c.id \in Ids \cup {0} /\ c.name \in TagNames
         /\ c.here \in BOOLEAN /\ c.adds \in BOOLEAN /\ c.stage \in TagStages /\ c.before \in TagList
         /\ c.held \in Selection /\ c.ids \in Seq(Ids) /\ c.held.ids \in Seq(Ids) /\ c.held.by \in Nat
         /\ c = [op |-> c.op, id |-> c.id, name |-> c.name, here |-> c.here, adds |-> c.adds, stage |-> c.stage,
                 before |-> c.before, held |-> c.held, ids |-> c.ids]
<1>1. c.held \in Selection BY DEF TagCall
<1>2. c.held.ids \in Seq(Ids) /\ c.held.by \in Nat BY <1>1 DEF Selection
<1> QED BY <1>1, <1>2 DEF TagCall

\* Nothing listed, nothing selected.
LEMMA NothingYet ==
  /\ NoTagList \in TagList /\ (\A d \in Ids : NoTagList.names[d] = 0) /\ NoTagList.temps = {}
  /\ [ids |-> <<>>, by |-> 0] \in Selection /\ <<>> \in Seq(Ids) /\ Range(<<>>) = {} /\ 0 \in TagNames
<1>1. 0 \in TagNames BY TagsAssumption DEF TagNames
<1>2. [d \in Ids |-> 0] \in [Ids -> TagNames] BY <1>1
<1>3. NoTagList \in TagList /\ (\A d \in Ids : NoTagList.names[d] = 0) /\ NoTagList.temps = {} BY <1>2 DEF NoTagList, TagList
<1>4. [ids |-> <<>>, by |-> 0] \in Selection /\ <<>> \in Seq(Ids) BY EmptySeq DEF Selection
<1>5. Range(<<>>) = {} BY EmptySeq DEF Range
<1> QED BY <1>1, <1>3, <1>4, <1>5

\* A call as it is made.
LEMMA NewCall ==
  ASSUME NEW op \in {"tags", "create", "rename", "delete"}, NEW id \in Ids \cup {0}, NEW name \in TagNames
  PROVE  /\ Call(op, id, name) \in TagCall
         /\ Call(op, id, name) = [op |-> op, id |-> id, name |-> name, here |-> TRUE, adds |-> FALSE, stage |-> "asked",
                                  before |-> NoTagList, held |-> [ids |-> <<>>, by |-> 0], ids |-> <<>>]
BY NothingYet DEF Call, TagCall, TagStages

\* A call that is over keeps what it was about.
LEMMA PastCall ==
  ASSUME NEW c \in TagCall, NEW stage \in Answered
  PROVE  /\ Past(c, stage) \in TagCall
         /\ Past(c, stage) = [op |-> c.op, id |-> c.id, name |-> c.name, here |-> TRUE, adds |-> FALSE, stage |-> stage,
                              before |-> NoTagList, held |-> [ids |-> <<>>, by |-> 0], ids |-> <<>>]
<1>1. c.op \in {"tags", "create", "rename", "delete"} /\ c.id \in Ids \cup {0} /\ c.name \in TagNames BY CallFields
<1>2. Past(c, stage) = [op |-> c.op, id |-> c.id, name |-> c.name, here |-> TRUE, adds |-> FALSE, stage |-> stage,
                        before |-> NoTagList, held |-> [ids |-> <<>>, by |-> 0], ids |-> <<>>]
 <2> DEFINE plain == Call(c.op, c.id, c.name)
 <2>1. plain = [op |-> c.op, id |-> c.id, name |-> c.name, here |-> TRUE, adds |-> FALSE, stage |-> "asked",
               before |-> NoTagList, held |-> [ids |-> <<>>, by |-> 0], ids |-> <<>>] BY <1>1, NewCall
 <2>2. Past(c, stage) = [plain EXCEPT !.stage = stage] BY DEF Past
 <2> HIDE DEF plain
 <2> QED BY <2>1, <2>2
<1>3. stage \in TagStages BY DEF Answered, TagStages
<1> QED BY <1>1, <1>2, <1>3, NothingYet DEF TagCall

\* What a call comes to: it is over, or has another stage and maybe its tag.
Comes(c, e) ==
  /\ e \in TagCall /\ e.op = c.op /\ e.name = c.name
  /\ e.id = c.id \/ (c.op = "create" /\ c.stage = "asked" /\ e.id \in Ids)
  /\ \/ e.stage \in Answered /\ e.here /\ ~e.adds /\ e.before = NoTagList /\ e.held.ids = <<>> /\ e.ids = <<>>
     \/ e.stage \notin Answered /\ e.here = c.here /\ e.adds = c.adds /\ e.before = c.before /\ e.held = c.held /\ e.ids = c.ids

\* Reaches moves one call.
LEMMA ReachesComes ==
  ASSUME TagsShape, NEW i \in DOMAIN tagCalls, NEW stage \in TagStages, Reaches(i, stage)
  PROVE  \E e : /\ Comes(tagCalls[i], e) /\ e.id = tagCalls[i].id /\ tagCalls' = [tagCalls EXCEPT ![i] = e]
                /\ ~Ends(i, stage) => e.stage = stage
                /\ Ends(i, stage) => e.stage = IF stage \in {"ok", "done"} THEN "done" ELSE "undone"
<1> DEFINE c == tagCalls[i]
           over == IF stage \in {"ok", "done"} THEN "done" ELSE "undone"
           e == IF Ends(i, stage) THEN Past(c, over) ELSE [c EXCEPT !.stage = stage]
<1>1. c \in TagCall BY ElementOfSeq DEF TagsShape
<1>2. tagCalls' = [tagCalls EXCEPT ![i] = e] BY DEF Reaches
<1>3. over \in Answered BY DEF Answered
<1>4. Ends(i, stage) => Comes(c, e) /\ e.id = c.id /\ e.stage = over BY <1>1, <1>3, PastCall DEF Comes
<1>5. ~Ends(i, stage) => Comes(c, e) /\ e.id = c.id /\ e.stage = stage
 <2> SUFFICES ASSUME ~Ends(i, stage) PROVE Comes(c, e) /\ e.id = c.id /\ e.stage = stage OBVIOUS
 <2>1. e = [c EXCEPT !.stage = stage] /\ stage \notin Answered BY DEF Ends, Answered
 <2> HIDE DEF c, e
 <2>2. e \in TagCall /\ e.stage = stage BY <1>1, <2>1 DEF TagCall
 <2>3. /\ e.op = c.op /\ e.name = c.name /\ e.id = c.id /\ e.here = c.here /\ e.adds = c.adds /\ e.before = c.before
       /\ e.held = c.held /\ e.ids = c.ids BY <1>1, <2>1 DEF TagCall
 <2> QED BY <2>1, <2>2, <2>3 DEF Comes
<1> HIDE DEF e, over
<1> QED BY <1>2, <1>4, <1>5 DEF over

\* What the invariant says of the calls when one of them moves.
LEMMA CallMoves ==
  ASSUME TagsInv, NEW i \in DOMAIN tagCalls, NEW e, Comes(tagCalls[i], e), CallFits(e), tagCalls' = [tagCalls EXCEPT ![i] = e],
         \A d \in Ids : tagRows[d] # 0 => tagRows'[d] # 0 \/ e.id = d
  PROVE  /\ tagCalls' \in Seq(TagCall) /\ (\A j \in DOMAIN tagCalls' : CallFits(tagCalls'[j]))
         /\ DOMAIN tagCalls' = DOMAIN tagCalls /\ tagCalls'[i] = e /\ \A j \in DOMAIN tagCalls \ {i} : tagCalls'[j] = tagCalls[j]
         /\ EverMade \subseteq EverMade' /\ \A j \in DOMAIN tagCalls' : Within(tagCalls'[j], EverMade')
<1>1. tagCalls \in Seq(TagCall) /\ e \in TagCall BY DEF TagsInv, TagsShape, Comes
<1>2. /\ DOMAIN tagCalls' = DOMAIN tagCalls /\ tagCalls'[i] = e /\ \A j \in DOMAIN tagCalls \ {i} : tagCalls'[j] = tagCalls[j]
  BY <1>1
<1>3. tagCalls' \in Seq(TagCall) BY <1>1, ExceptSeq
<1>4. \A j \in DOMAIN tagCalls' : CallFits(tagCalls'[j]) BY <1>2 DEF TagsInv
<1>5. \A j \in DOMAIN tagCalls : tagCalls[j].id \in Ids => tagCalls'[j].id = tagCalls[j].id
 <2> SUFFICES ASSUME tagCalls[i].id \in Ids PROVE e.id = tagCalls[i].id BY <1>2
 <2>1. CallFits(tagCalls[i]) /\ 0 \notin Ids BY DEF TagsInv, Ids
 <2> QED BY <2>1 DEF Comes, CallFits
<1>6. EverMade \subseteq EverMade' BY <1>2, <1>5 DEF EverMade
<1>7. \A j \in DOMAIN tagCalls : Within(tagCalls[j], EverMade') BY <1>6 DEF TagsInv, OnlyEverMade, Within, Names
<1>8. Within(e, EverMade')
 <2>1. CASE e.stage \in Answered
   BY <2>1, NothingYet DEF Comes, Within, Names
 <2>2. CASE e.stage \notin Answered BY <1>7, <2>2 DEF Comes, Within
 <2> QED BY <2>1, <2>2
<1> QED BY <1>2, <1>3, <1>4, <1>6, <1>7, <1>8

\* And when one is made.
LEMMA CallAdded ==
  ASSUME TagsInv, NEW c \in TagCall, CallFits(c), tagCalls' = Append(tagCalls, c), tagRows' = tagRows, Within(c, EverMade)
  PROVE  /\ tagCalls' \in Seq(TagCall) /\ (\A j \in DOMAIN tagCalls' : CallFits(tagCalls'[j]))
         /\ Newest \in Nat /\ Newest \notin DOMAIN tagCalls /\ DOMAIN tagCalls' = DOMAIN tagCalls \cup {Newest}
         /\ (\A j \in DOMAIN tagCalls : j \in Nat /\ j < Newest) /\ tagCalls'[Newest] = c
         /\ \A j \in DOMAIN tagCalls : tagCalls'[j] = tagCalls[j]
         /\ EverMade \subseteq EverMade' /\ \A j \in DOMAIN tagCalls' : Within(tagCalls'[j], EverMade')
<1>1. tagCalls \in Seq(TagCall) BY DEF TagsInv, TagsShape
<1>2. /\ tagCalls' \in Seq(TagCall) /\ Len(tagCalls) \in Nat /\ DOMAIN tagCalls = 1 .. Len(tagCalls)
      /\ DOMAIN tagCalls' = 1 .. (Len(tagCalls) + 1) /\ tagCalls'[Len(tagCalls) + 1] = c
      /\ \A j \in 1 .. Len(tagCalls) : tagCalls'[j] = tagCalls[j] BY <1>1, AppendProperties, LenProperties
<1>3. /\ Newest \in Nat /\ Newest \notin DOMAIN tagCalls /\ DOMAIN tagCalls' = DOMAIN tagCalls \cup {Newest}
      /\ (\A j \in DOMAIN tagCalls : j \in Nat /\ j < Newest) /\ tagCalls'[Newest] = c
      /\ \A j \in DOMAIN tagCalls : tagCalls'[j] = tagCalls[j] BY <1>2 DEF Newest
<1>4. \A j \in DOMAIN tagCalls' : CallFits(tagCalls'[j]) BY <1>3 DEF TagsInv
<1>5. EverMade \subseteq EverMade' BY <1>3 DEF EverMade
<1>6. \A j \in DOMAIN tagCalls' : Within(tagCalls'[j], EverMade')
  BY <1>3, <1>5 DEF TagsInv, OnlyEverMade, Within, Names
<1> QED BY <1>2, <1>3, <1>4, <1>5, <1>6

\* Calls are numbered.
LEMMA CallNumbers ==
  ASSUME TagsShape
  PROVE  /\ Len(tagCalls) \in Nat /\ DOMAIN tagCalls = 1 .. Len(tagCalls)
         /\ \A i \in DOMAIN tagCalls : i \in Nat /\ i >= 1 /\ tagCalls[i] \in TagCall
         /\ \A S : UnansweredCalls(S) = {i \in DOMAIN tagCalls : tagCalls[i].op \in S /\ tagCalls[i].stage \notin Answered}
<1>1. tagCalls \in Seq(TagCall) BY DEF TagsShape
<1>2. Len(tagCalls) \in Nat /\ DOMAIN tagCalls = 1 .. Len(tagCalls) /\ \A i \in DOMAIN tagCalls : tagCalls[i] \in TagCall
  BY <1>1, LenProperties, ElementOfSeq
<1> QED BY <1>2 DEF UnansweredCalls, Answered

\* What is saved stays saved when the rows and the note's tags change together.
SavedStays ==
  \A ids : Range(ids) \subseteq EverMade /\ AreSaved(ids) => (Range(noteTags))' = {d \in Range(ids) : tagRows'[d] # 0}

\* What has nothing to do with the note's tags leaves them in turn.
LEMMA TurnStays ==
  ASSUME TagsInv, InTurn, SavedStays, selection' = selection, ~doubtful' => ~doubtful,
         TagWrites' = TagWrites, Makings' \subseteq Makings,
         \A i \in TagWrites : tagCalls'[i] = tagCalls[i],
         \A i \in Makings' : tagCalls'[i].held = tagCalls[i].held,
         \A i \in DOMAIN tagCalls : i \in DOMAIN tagCalls' /\ (tagCalls[i].stage = "undone" => tagCalls'[i].stage = "undone")
  PROVE  InTurn'
<1>1. Range(selection.ids) \subseteq EverMade
      /\ \A i \in DOMAIN tagCalls : Range(tagCalls[i].ids) \subseteq EverMade /\ Range(tagCalls[i].held.ids) \subseteq EverMade
  BY DEF TagsInv, OnlyEverMade, Within
<1>2. TagWrites \subseteq DOMAIN tagCalls BY DEF TagWrites
<1>3. NewestIsShown' BY DEF InTurn, NewestIsShown
<1>4. ShownIsSaved' BY <1>1 DEF InTurn, ShownIsSaved, AreSaved, SavedStays
<1>5. \A i : First(i)' <=> First(i) BY DEF First
<1>6. WritesFollow' BY <1>5 DEF InTurn, WritesFollow, Follows
<1>7. \A by : NotSaved(by) => NotSaved(by)' BY DEF NotSaved
<1>8. FirstIsHeard'
 <2> SUFFICES ASSUME NEW i \in TagWrites, First(i)
              PROVE  /\ tagCalls[i].stage = "ok" => (Range(noteTags))' = {d \in Range(tagCalls[i].ids) : tagRows'[d] # 0}
                     /\ tagCalls[i].stage # "ok" /\ ~doubtful' =>
                          \/ NotSaved(tagCalls[i].held.by)'
                          \/ (Range(noteTags))' = {d \in Range(tagCalls[i].held.ids) : tagRows'[d] # 0}
   BY <1>5 DEF FirstIsHeard, AreSaved, NotSaved
 <2>1. /\ tagCalls[i].stage = "ok" => AreSaved(tagCalls[i].ids)
       /\ tagCalls[i].stage # "ok" /\ ~doubtful => NotSaved(tagCalls[i].held.by) \/ AreSaved(tagCalls[i].held.ids)
   BY DEF InTurn, FirstIsHeard
 <2>2. Range(tagCalls[i].ids) \subseteq EverMade /\ Range(tagCalls[i].held.ids) \subseteq EverMade BY <1>1, <1>2
 <2> HIDE DEF TagsInv, InTurn
 <2>3. NotSaved(tagCalls[i].held.by) => NotSaved(tagCalls[i].held.by)' BY DEF NotSaved
 <2> QED BY <2>1, <2>2, <2>3 DEF SavedStays
<1>9. MakingIsAlone' BY DEF InTurn, MakingIsAlone
<1> QED BY <1>3, <1>4, <1>6, <1>8, <1>9 DEF InTurn

\* A new write goes back to what is shown.
LEMMA TurnTakes ==
  ASSUME TagsInv, InTurn, NEW c, NEW n \in Nat,
         DOMAIN tagCalls' = DOMAIN tagCalls \cup {n}, tagCalls'[n] = c, \A i \in DOMAIN tagCalls : i \in Nat /\ i < n,
         c.op = "tags", c.stage = "asked", c.held = selection, selection' = [ids |-> c.ids, by |-> n],
         TagWrites' = TagWrites \cup {n}, Makings' = {}, \A i \in TagWrites : tagCalls'[i] = tagCalls[i],
         \A i \in DOMAIN tagCalls : tagCalls[i].stage = "undone" => tagCalls'[i].stage = "undone",
         UNCHANGED <<tagRows, noteTags, doubtful>>
  PROVE  InTurn'
<1>1. TagWrites \subseteq DOMAIN tagCalls /\ n \notin TagWrites /\ \A i \in TagWrites : i \in Nat /\ i < n BY DEF TagWrites
<1>2. NewestIsShown' BY <1>1 DEF NewestIsShown
<1>3. ShownIsSaved' /\ MakingIsAlone' BY DEF ShownIsSaved, MakingIsAlone
<1>4. \A i \in TagWrites : First(i)' <=> First(i) BY <1>1 DEF First
<1>5. First(n)' <=> TagWrites = {} BY <1>1 DEF First
<1>6. WritesFollow'
 <2>1. ASSUME NEW i \in TagWrites, ~First(i)' PROVE tagCalls'[i].stage = "asked" /\ Follows(i, tagCalls[i].held.by)'
   BY <1>4, <2>1, <1>1 DEF InTurn, WritesFollow, Follows
 <2>2. ASSUME TagWrites # {} PROVE Follows(n, tagCalls[n].held.by)'
   BY <2>2, <1>1 DEF InTurn, NewestIsShown, Follows
 <2>3. \A i \in TagWrites : (tagCalls'[i].stage = "asked" /\ Follows(i, tagCalls[i].held.by)') \/ First(i)' BY <2>1
 <2>4. tagCalls'[n].stage = "asked" /\ (~First(n)' => Follows(n, tagCalls[n].held.by)') BY <1>5, <2>2
 <2> QED BY <2>3, <2>4 DEF WritesFollow
<1>7. \A i \in TagWrites : i \in DOMAIN tagCalls' BY <1>1
<1>8. FirstIsHeard'
 <2>1. ASSUME NEW i \in TagWrites, First(i)
       PROVE  /\ tagCalls[i].stage = "ok" => AreSaved(tagCalls[i].ids)
              /\ tagCalls[i].stage # "ok" /\ ~doubtful => NotSaved(tagCalls[i].held.by)' \/ AreSaved(tagCalls[i].held.ids)
   BY <2>1, <1>7 DEF InTurn, FirstIsHeard, NotSaved
 <2>2. ASSUME TagWrites = {}, ~doubtful PROVE AreSaved(selection.ids) BY <2>2 DEF InTurn, ShownIsSaved
 <2> QED BY <1>1, <1>4, <1>5, <2>1, <2>2 DEF FirstIsHeard, AreSaved
<1> QED BY <1>2, <1>3, <1>6, <1>8 DEF InTurn

\* Who is not asked any more is the first.
LEMMA HeardIsFirst ==
  ASSUME InTurn, NEW i \in TagWrites, tagCalls[i].stage # "asked"
  PROVE  First(i)
BY DEF InTurn, WritesFollow

\* A tag to be added to the note is made while nothing is written.
LEMMA TurnMakes ==
  ASSUME TagsInv, InTurn, NEW c, NEW n,
         DOMAIN tagCalls' = DOMAIN tagCalls \cup {n}, tagCalls'[n] = c, n \notin DOMAIN tagCalls,
         \A i \in DOMAIN tagCalls : tagCalls'[i] = tagCalls[i],
         c.op = "create", c.held = selection, TagWrites = {}, Makings = {},
         UNCHANGED <<tagRows, noteTags, selection, doubtful>>
  PROVE  InTurn'
<1>1. TagWrites' = {} /\ Makings' \subseteq {n} BY DEF TagWrites, Makings
<1>2. NewestIsShown' /\ WritesFollow' /\ FirstIsHeard' BY <1>1 DEF NewestIsShown, WritesFollow, FirstIsHeard
<1>3. ShownIsSaved' BY DEF InTurn, ShownIsSaved, AreSaved
<1>4. MakingIsAlone' BY <1>1 DEF MakingIsAlone
<1> QED BY <1>2, <1>3, <1>4 DEF InTurn

\* The first write is served, or fails, and waits to be heard.
LEMMA TurnServed ==
  ASSUME TagsInv, InTurn, NEW i \in TagWrites, First(i), NEW e, Comes(tagCalls[i], e), e.stage \notin Answered,
         tagCalls' = [tagCalls EXCEPT ![i] = e], UNCHANGED <<tagRows, selection>>,
         \/ /\ e.stage = "ok" /\ UNCHANGED doubtful
            /\ (Range(noteTags))' = {d \in Range(tagCalls[i].ids) : tagRows[d] # 0}
         \/ tagCalls[i].stage = "asked" /\ e.stage # "ok" /\ UNCHANGED <<noteTags, doubtful>>
         \/ e.stage # "ok" /\ doubtful' /\ UNCHANGED noteTags
  PROVE  InTurn'
<1>1. /\ DOMAIN tagCalls' = DOMAIN tagCalls /\ tagCalls'[i] = e /\ \A j \in DOMAIN tagCalls \ {i} : tagCalls'[j] = tagCalls[j]
      /\ i \in DOMAIN tagCalls BY DEF TagsInv, TagsShape, TagWrites
<1>2. e.op = tagCalls[i].op /\ e.held = tagCalls[i].held /\ e.ids = tagCalls[i].ids BY DEF Comes
<1>3. TagWrites' = TagWrites /\ Makings' = Makings /\ i \in TagWrites /\ i \notin Makings BY <1>1, <1>2 DEF TagWrites, Makings
<1>4. Makings = {} BY <1>3 DEF InTurn, MakingIsAlone
<1>5. \A j : First(j)' <=> First(j) BY <1>3 DEF First
<1>6. \A j \in TagWrites : tagCalls'[j].held = tagCalls[j].held /\ tagCalls'[j].ids = tagCalls[j].ids
  BY <1>1, <1>2, <1>3 DEF TagWrites
<1>7. NewestIsShown' /\ ShownIsSaved' /\ MakingIsAlone'
  BY <1>3, <1>4, <1>6 DEF InTurn, NewestIsShown, ShownIsSaved, MakingIsAlone
<1>8. \A j \in TagWrites : j # i => ~First(j) /\ tagCalls'[j] = tagCalls[j]
 <2> SUFFICES ASSUME NEW j \in TagWrites, j # i PROVE ~First(j) /\ tagCalls'[j] = tagCalls[j] OBVIOUS
 <2>1. i \in Nat /\ j \in Nat /\ j \in DOMAIN tagCalls BY <1>1, CallNumbers DEF TagsInv, TagWrites
 <2> QED BY <1>1, <2>1 DEF First
<1>9. WritesFollow'
 <2> SUFFICES ASSUME NEW j \in TagWrites, j # i PROVE tagCalls'[j].stage = "asked" /\ Follows(j, tagCalls[j].held.by)'
   BY <1>3, <1>5 DEF WritesFollow
 <2>1. tagCalls[j].stage = "asked" /\ Follows(j, tagCalls[j].held.by) /\ tagCalls'[j] = tagCalls[j]
   BY <1>8 DEF InTurn, WritesFollow
 <2> QED BY <1>3, <1>6, <2>1 DEF Follows
<1>10. NotSaved(tagCalls[i].held.by) => NotSaved(tagCalls[i].held.by)' BY <1>1, <1>2, <1>3 DEF NotSaved, TagWrites, Answered
<1>11. /\ tagCalls'[i].stage = "ok" => AreSaved(tagCalls[i].ids)'
       /\ tagCalls'[i].stage # "ok" /\ ~doubtful' => NotSaved(tagCalls[i].held.by)' \/ AreSaved(tagCalls[i].held.ids)'
 <2>1. CASE e.stage = "ok" BY <1>1, <1>2, <2>1 DEF AreSaved
 <2>2. CASE tagCalls[i].stage = "asked" /\ e.stage # "ok" /\ UNCHANGED <<noteTags, doubtful>>
   BY <2>2, <1>1, <1>2, <1>10 DEF InTurn, FirstIsHeard, AreSaved
 <2>3. CASE e.stage # "ok" /\ doubtful' BY <1>1, <2>3
 <2> QED BY <2>1, <2>2, <2>3
<1>12. FirstIsHeard' BY <1>3, <1>5, <1>8, <1>11 DEF FirstIsHeard
<1> QED BY <1>7, <1>9, <1>12 DEF InTurn

\* The first write is heard, and the next is the first.
LEMMA TurnHeard ==
  ASSUME TagsInv, InTurn, NEW i \in TagWrites, First(i), NEW e, e.stage \in Answered, e.op = "tags",
         tagCalls' = [tagCalls EXCEPT ![i] = e], UNCHANGED <<tagRows, noteTags>>,
         (tagCalls[i].stage = "ok" /\ e.stage = "done") \/ e.stage = "undone",
         selection.by # i => selection' = selection /\ (doubtful' \/ ~doubtful),
         selection.by = i /\ ~doubtful' => AreSaved(selection'.ids)
  PROVE  InTurn'
<1>1. /\ DOMAIN tagCalls' = DOMAIN tagCalls /\ tagCalls'[i] = e /\ \A j \in DOMAIN tagCalls \ {i} : tagCalls'[j] = tagCalls[j]
      /\ i \in DOMAIN tagCalls BY DEF TagsInv, TagsShape, TagWrites
<1>2. TagWrites' = TagWrites \ {i} /\ Makings' = Makings /\ i \notin Makings BY <1>1 DEF TagWrites, Makings
<1>3. Makings = {} BY <1>2 DEF InTurn, MakingIsAlone
<1>4. \A j \in TagWrites : j \in Nat /\ j \in DOMAIN tagCalls BY CallNumbers DEF TagsInv, TagWrites
<1>5. \A j \in TagWrites \ {i} : i < j /\ ~First(j) /\ tagCalls'[j] = tagCalls[j] BY <1>1, <1>4 DEF First
<1>6. TagWrites' # {} => selection.by # i BY <1>2, <1>4, <1>5 DEF InTurn, NewestIsShown
<1>7. NewestIsShown' BY <1>2, <1>5, <1>6 DEF InTurn, NewestIsShown
<1>8. ShownIsSaved'
 <2> SUFFICES ASSUME TagWrites' = {}, ~doubtful' PROVE AreSaved(selection.ids)' BY DEF ShownIsSaved
 <2>1. selection.by = i BY <1>2 DEF InTurn, NewestIsShown
 <2> QED BY <2>1 DEF AreSaved
<1>9. MakingIsAlone' BY <1>2, <1>3 DEF MakingIsAlone
<1>10. \A j \in TagWrites \ {i} : tagCalls[j].stage = "asked" /\ Follows(j, tagCalls[j].held.by)
  BY <1>5 DEF InTurn, WritesFollow
<1>11. WritesFollow'
 <2> SUFFICES ASSUME NEW j \in TagWrites \ {i}, ~First(j)' PROVE tagCalls'[j].stage = "asked" /\ Follows(j, tagCalls[j].held.by)'
   BY <1>2 DEF WritesFollow
 <2>1. tagCalls[j].stage = "asked" /\ Follows(j, tagCalls[j].held.by) /\ tagCalls'[j] = tagCalls[j] BY <1>5, <1>10
 <2>2. PICK k \in TagWrites \ {i} : ~(j <= k) BY <1>2 DEF First
 <2>3. k < j /\ i < k BY <1>4, <1>5, <2>2
 <2>4. tagCalls[j].held.by \in TagWrites /\ k <= tagCalls[j].held.by BY <2>1, <2>3 DEF Follows
 <2>5. tagCalls[j].held.by \in TagWrites \ {i} BY <1>4, <2>3, <2>4
 <2> QED BY <1>2, <1>5, <2>1, <2>5 DEF Follows
<1>12. FirstIsHeard'
 <2> SUFFICES ASSUME NEW j \in TagWrites \ {i}, First(j)', ~doubtful'
              PROVE  NotSaved(tagCalls[j].held.by)' \/ AreSaved(tagCalls[j].held.ids)' BY <1>2, <1>5, <1>10 DEF FirstIsHeard
 <2>1. Follows(j, tagCalls[j].held.by) /\ tagCalls'[j] = tagCalls[j] BY <1>5, <1>10
 <2>2. tagCalls[j].held.by = i
   BY <2>1, <1>2, <1>4 DEF Follows, First
 <2>3. tagCalls[j].held.ids = tagCalls[i].ids BY <2>1, <2>2 DEF Follows
 <2>4. CASE e.stage = "undone" BY <1>1, <2>1, <2>2, <2>4 DEF NotSaved
 <2>5. CASE tagCalls[i].stage = "ok"
   BY <2>5, <2>1, <2>3 DEF InTurn, FirstIsHeard, AreSaved
 <2> QED BY <2>4, <2>5
<1> QED BY <1>7, <1>8, <1>9, <1>11, <1>12 DEF InTurn

\* The invariant, from what a step does to its parts.
LEMMA SettlesStill ==
  ASSUME ListSettles, ~news' => (~news /\ tagRows' = tagRows /\ (Changes' = {} => Changes = {})), UNCHANGED <<tagList, tagFetch>>
  PROVE  ListSettles'
BY DEF ListSettles

\* Names stay unique when the rows do not change.
LEMMA NamesStay ==
  ASSUME NamesAreUnique, UNCHANGED tagRows
  PROVE  NamesAreUnique'
BY DEF NamesAreUnique, NamesLive

\* What is said of the page when nothing on it changes.
LEMMA PageStill ==
  ASSUME TagsInv, EverMade \subseteq EverMade', UNCHANGED <<selection, tagList, tagFetch>>
  PROVE  Range(selection.ids)' \subseteq EverMade' /\ Names(tagList'.names, EverMade') /\ Names(tagFetch'.names, EverMade')
BY DEF TagsInv, OnlyEverMade, Names

\* What the server knows to be saved stays so when it changes nothing.
LEMMA StillSaved ==
  ASSUME UNCHANGED <<tagRows, noteTags>>
  PROVE  SavedStays
BY DEF SavedStays, AreSaved

\* What a write sends, when the page chooses.
LEMMA SendKeeps ==
  ASSUME TagsInv, NEW ids \in Seq(Ids), SendTags(ids, selection), Range(ids) \subseteq EverMade, Undisturbed,
         UNCHANGED <<tagRows, noteTags, tagList, tagFetch, news, doubtful>>
  PROVE  TagsInv'
<1> DEFINE c == [Call("tags", 0, 0) EXCEPT !.held = selection, !.ids = ids]
<1>1. /\ selection \in Selection /\ selection.ids \in Seq(Ids) /\ Range(selection.ids) \subseteq EverMade
  BY DEF TagsInv, TagsShape, Selection, OnlyEverMade
<1>2. /\ c \in TagCall /\ c.op = "tags" /\ c.stage = "asked" /\ c.held = selection /\ c.ids = ids /\ c.here
      /\ c.before = NoTagList /\ c.name = 0
 <2> DEFINE plain == Call("tags", 0, 0)
 <2>1. plain \in TagCall
       /\ plain = [op |-> "tags", id |-> 0, name |-> 0, here |-> TRUE, adds |-> FALSE, stage |-> "asked",
                                before |-> NoTagList, held |-> [ids |-> <<>>, by |-> 0], ids |-> <<>>] BY NewCall, NothingYet
 <2>2. c = [plain EXCEPT !.held = selection, !.ids = ids] OBVIOUS
 <2> HIDE DEF TagsInv, plain, c
 <2>3. c = [op |-> "tags", id |-> 0, name |-> 0, here |-> TRUE, adds |-> FALSE, stage |-> "asked",
            before |-> NoTagList, held |-> selection, ids |-> ids] BY <2>1, <2>2
 <2>4. c \in TagCall BY <1>1, <2>3, NothingYet DEF TagCall, TagStages
 <2> QED BY <2>3, <2>4
<1>3. tagCalls' = Append(tagCalls, c) /\ selection' = [ids |-> ids, by |-> Newest] BY DEF SendTags
<1> HIDE DEF c
<1>4. CallFits(c) /\ Within(c, EverMade) BY <1>1, <1>2, NothingYet DEF CallFits, Within, Names
<1>5. /\ tagCalls' \in Seq(TagCall) /\ (\A j \in DOMAIN tagCalls' : CallFits(tagCalls'[j]))
      /\ Newest \in Nat /\ Newest \notin DOMAIN tagCalls /\ DOMAIN tagCalls' = DOMAIN tagCalls \cup {Newest}
      /\ (\A j \in DOMAIN tagCalls : j \in Nat /\ j < Newest) /\ tagCalls'[Newest] = c
      /\ \A j \in DOMAIN tagCalls : tagCalls'[j] = tagCalls[j]
      /\ EverMade \subseteq EverMade' /\ \A j \in DOMAIN tagCalls' : Within(tagCalls'[j], EverMade')
  BY <1>2, <1>3, <1>4, CallAdded
<1>6. TagsShape' BY <1>3, <1>5 DEF TagsInv, TagsShape, Selection
<1>7. OnlyEverMade' BY <1>3, <1>5 DEF TagsInv, OnlyEverMade, Names
<1>8. ListSettles'
  BY <1>2, <1>5 DEF Changes, TagsInv, ListSettles
<1>9. ASSUME Waits PROVE InTurn'
  BY <1>2, <1>5, CallNumbers, <1>9, <1>3, TurnTakes DEF TagWrites, Makings, Answered, TagsInv, Undisturbed
<1> QED BY <1>5, <1>6, <1>7, <1>8, <1>9, NamesStay DEF TagsInv

\* A tag is picked: it is one the page lists.
LEMMA PickKeeps == ASSUME TagsInv, NEW d \in Ids, PickTag(d) PROVE TagsInv'
<1>1. selection.ids \in Seq(Ids) /\ Range(selection.ids) \subseteq EverMade /\ d \in EverMade
  BY DEF TagsInv, TagsShape, Selection, OnlyEverMade, Names, PickTag
<1>2. Append(selection.ids, d) \in Seq(Ids) /\ Range(Append(selection.ids, d)) \subseteq EverMade
  BY <1>1, AppendProperties, LenProperties DEF Range
<1> QED BY <1>2, SendKeeps DEF PickTag

\* A chip is removed.
LEMMA RemoveKeeps == ASSUME TagsInv, NEW d \in Ids, RemoveChip(d) PROVE TagsInv'
<1>1. selection.ids \in Seq(Ids) /\ Range(selection.ids) \subseteq EverMade BY DEF TagsInv, TagsShape, Selection, OnlyEverMade
<1>2. Only(selection.ids, Ids \ {d}) \in Seq(Ids) /\ Range(Only(selection.ids, Ids \ {d})) \subseteq EverMade BY <1>1, OnlyLeft
<1> QED BY <1>2, SendKeeps DEF RemoveChip

\* A call that is made next to the note's writes.
LEMMA MadeBeside ==
  ASSUME TagsInv, NEW c \in TagCall, c.op # "tags", c.stage = "asked", CallFits(c), Within(c, EverMade),
         tagCalls' = Append(tagCalls, c), tagRows' = tagRows, noteTags' = noteTags, selection' = selection,
         doubtful' = doubtful, Waits /\ c.adds /\ c.op = "create" => c.held = selection /\ TagWrites = {} /\ Makings = {}
  PROVE  Waits => InTurn'
<1> SUFFICES ASSUME Waits PROVE InTurn' OBVIOUS
<1>1. /\ Newest \in Nat /\ Newest \notin DOMAIN tagCalls /\ DOMAIN tagCalls' = DOMAIN tagCalls \cup {Newest}
      /\ tagCalls'[Newest] = c /\ \A j \in DOMAIN tagCalls : tagCalls'[j] = tagCalls[j] BY CallAdded
<1>2. InTurn BY DEF TagsInv
<1>3. CASE c.adds /\ c.op = "create" BY <1>1, <1>2, <1>3, TurnMakes
<1>4. CASE ~(c.adds /\ c.op = "create")
  BY <1>1, <1>4, StillSaved, <1>2, TurnStays DEF TagWrites, Makings
<1> QED BY <1>3, <1>4

\* A change of the list: the page shows what will come of it.
LEMMA ChangingKeeps ==
  ASSUME TagsInv, NEW c \in TagCall, c.op # "tags", c.stage = "asked", c.here, CallFits(c), Within(c, EverMade),
         NEW after \in TagList, Names(after.names, EverMade), Changing(c, after),
         Waits /\ c.adds /\ c.op = "create" => c.held = selection /\ TagWrites = {} /\ Makings = {}
  PROVE  TagsInv'
<1>1. /\ tagCalls' = Append(tagCalls, c) /\ tagList' = after /\ tagFetch' = NoFetchOfTags
      /\ UNCHANGED <<tagRows, noteTags, selection, news, doubtful>> BY DEF Changing
<1>2. /\ tagCalls' \in Seq(TagCall) /\ (\A j \in DOMAIN tagCalls' : CallFits(tagCalls'[j]))
      /\ DOMAIN tagCalls' = DOMAIN tagCalls \cup {Newest} /\ tagCalls'[Newest] = c
      /\ EverMade \subseteq EverMade' /\ \A j \in DOMAIN tagCalls' : Within(tagCalls'[j], EverMade') BY <1>1, CallAdded
<1>3. NoFetchOfTags \in TagFetch /\ \A d \in Ids : NoFetchOfTags.names[d] = 0
  BY NothingYet DEF NoFetchOfTags, TagFetch
<1>4. TagsShape' BY <1>1, <1>2, <1>3 DEF TagsInv, TagsShape
<1>5. OnlyEverMade' BY <1>1, <1>2, <1>3 DEF TagsInv, OnlyEverMade, Names
<1>6. ListSettles'
  BY <1>2 DEF Changes, Answered, ListSettles
<1>7. Waits => InTurn' BY <1>1, MadeBeside
<1> QED BY <1>1, <1>2, <1>4, <1>5, <1>6, <1>7, NamesStay DEF TagsInv

\* A call of the list as it is made.
LEMMA ListCall ==
  ASSUME TagsInv, NEW op \in {"rename", "delete"}, NEW d \in Ids, NEW n \in TagNames, op = "rename" => n # 0
  PROVE  \E c \in TagCall : /\ c = [Call(op, d, n) EXCEPT !.before = tagList]
                            /\ c.op = op /\ c.stage = "asked" /\ c.here /\ ~c.adds /\ CallFits(c) /\ Within(c, EverMade)
<1> DEFINE plain == Call(op, d, n)
<1>1. /\ plain \in TagCall
      /\ plain = [op |-> op, id |-> d, name |-> n, here |-> TRUE, adds |-> FALSE, stage |-> "asked",
                 before |-> NoTagList, held |-> [ids |-> <<>>, by |-> 0], ids |-> <<>>] BY NewCall
<1>2. PICK c : c = [plain EXCEPT !.before = tagList] OBVIOUS
<1>3. tagList \in TagList /\ Names(tagList.names, EverMade) BY DEF TagsInv, TagsShape, OnlyEverMade
<1> HIDE DEF plain, TagsInv
<1>4. c = [op |-> op, id |-> d, name |-> n, here |-> TRUE, adds |-> FALSE, stage |-> "asked",
           before |-> tagList, held |-> [ids |-> <<>>, by |-> 0], ids |-> <<>>] BY <1>1, <1>2
<1>5. c \in TagCall
  BY <1>3, <1>4, NothingYet DEF TagCall, TagStages
<1>6. CallFits(c) /\ Within(c, EverMade) BY <1>3, <1>4, NothingYet DEF CallFits, Within
<1>7. c = [Call(op, d, n) EXCEPT !.before = tagList] BY <1>2 DEF plain
<1> QED BY <1>4, <1>5, <1>6, <1>7

\* Renaming
LEMMA RenameKeeps == ASSUME TagsInv, NEW d \in Ids, NEW n \in TagNames \ {0}, RenameTag(d, n) PROVE TagsInv'
<1>1. PICK c \in TagCall : /\ c = [Call("rename", d, n) EXCEPT !.before = tagList]
                           /\ c.op = "rename" /\ c.stage = "asked" /\ c.here /\ ~c.adds /\ CallFits(c) /\ Within(c, EverMade)
  BY ListCall
<1>3. PICK after : after = [tagList EXCEPT !.names[d] = n] OBVIOUS
<1>4. tagList \in TagList /\ tagList.names[d] # 0 /\ Names(tagList.names, EverMade) /\ Changing(c, after)
  BY <1>1, <1>3 DEF RenameTag, TagsInv, TagsShape, OnlyEverMade
<1>5. after \in TagList /\ Names(after.names, EverMade)
  BY <1>3, <1>4 DEF TagList, Names
<1> QED BY <1>1, <1>4, <1>5, ChangingKeeps

\* Deleting
LEMMA DeleteKeeps == ASSUME TagsInv, NEW d \in Ids, DeleteTag(d) PROVE TagsInv'
<1>1. PICK c \in TagCall : /\ c = [Call("delete", d, 0) EXCEPT !.before = tagList]
                           /\ c.op = "delete" /\ c.stage = "asked" /\ c.here /\ ~c.adds /\ CallFits(c) /\ Within(c, EverMade)
  BY NothingYet, ListCall
<1>3. PICK after : after = [tagList EXCEPT !.names[d] = 0] OBVIOUS
<1>4. tagList \in TagList /\ Names(tagList.names, EverMade) /\ Changing(c, after)
  BY <1>1, <1>3 DEF DeleteTag, TagsInv, TagsShape, OnlyEverMade
<1>5. after \in TagList /\ Names(after.names, EverMade)
  BY <1>3, <1>4, NothingYet DEF TagList, Names
<1> QED BY <1>1, <1>4, <1>5, ChangingKeeps

\* Creating, on its own or for the note.
LEMMA CreateKeeps == ASSUME TagsInv, NEW n \in TagNames \ {0}, NEW adds \in BOOLEAN, CreateTag(n, adds) PROVE TagsInv'
<1> DEFINE plain == Call("create", 0, n)
           held == IF adds THEN selection ELSE plain.held
<1>1. /\ plain \in TagCall
      /\ plain = [op |-> "create", id |-> 0, name |-> n, here |-> TRUE, adds |-> FALSE, stage |-> "asked",
                 before |-> NoTagList, held |-> [ids |-> <<>>, by |-> 0], ids |-> <<>>] BY NewCall
<1>2. PICK c : c = [plain EXCEPT !.adds = adds, !.held = IF adds THEN selection ELSE @] OBVIOUS
<1>3. PICK after : after = [tagList EXCEPT !.temps = @ \cup {Newest}] OBVIOUS
<1>4. /\ Changing(c, after) /\ tagList \in TagList /\ Names(tagList.names, EverMade) /\ MayCall
      /\ selection \in Selection /\ Range(selection.ids) \subseteq EverMade
      /\ (adds => Undisturbed /\ (Waits => UnansweredCalls({"tags"}) = {}))
  BY <1>2, <1>3 DEF CreateTag, Changing, TagsInv, TagsShape, OnlyEverMade
<1>5. Waits /\ adds => TagWrites = {} /\ Makings = {}
  BY CallNumbers, <1>4 DEF TagsInv, TagWrites, Makings, Undisturbed
<1>6. Len(tagCalls) \in Nat BY CallNumbers DEF TagsInv
<1> HIDE DEF plain, TagsInv
<1>7. c = [op |-> "create", id |-> 0, name |-> n, here |-> TRUE, adds |-> adds, stage |-> "asked",
           before |-> NoTagList, held |-> held, ids |-> <<>>] BY <1>1, <1>2
<1>8. held \in Selection /\ (adds => held = selection) /\ Range(held.ids) \subseteq EverMade BY <1>1, <1>4, NothingYet
<1> HIDE DEF held
<1>9. c \in TagCall /\ CallFits(c) /\ Within(c, EverMade)
  BY <1>7, <1>8, NothingYet DEF TagCall, TagStages, CallFits, Within, Names
<1>10. after \in TagList /\ Names(after.names, EverMade)
  BY <1>3, <1>4, <1>6, TagsAssumption DEF TagList, MayCall, Newest
<1> QED BY <1>4, <1>5, <1>7, <1>8, <1>9, <1>10, ChangingKeeps

\* Another device
LEMMA ElsewhereKeeps ==
  ASSUME TagsInv, NEW op \in {"create", "rename", "delete"}, NEW d \in Ids \cup {0}, NEW n \in TagNames,
         op # "create" => d \in Ids, op = "create" => d = 0, op # "delete" => n # 0, Elsewhere(op, d, n)
  PROVE  TagsInv'
<1> DEFINE plain == Call(op, d, n)
<1>1. /\ plain \in TagCall
      /\ plain = [op |-> op, id |-> d, name |-> n, here |-> TRUE, adds |-> FALSE, stage |-> "asked",
                 before |-> NoTagList, held |-> [ids |-> <<>>, by |-> 0], ids |-> <<>>] BY NewCall
<1>2. PICK c : c = [plain EXCEPT !.here = FALSE] OBVIOUS
<1>3. tagCalls' = Append(tagCalls, c) /\ UNCHANGED <<tagRows, noteTags, tagList, tagFetch, selection, news, doubtful>>
  BY <1>2 DEF Elsewhere
<1>4. c \in TagCall /\ c.op = op /\ c.stage = "asked" /\ ~c.here /\ ~c.adds /\ CallFits(c) /\ Within(c, EverMade)
 <2> HIDE DEF plain, TagsInv
 <2>1. c = [op |-> op, id |-> d, name |-> n, here |-> FALSE, adds |-> FALSE, stage |-> "asked",
            before |-> NoTagList, held |-> [ids |-> <<>>, by |-> 0], ids |-> <<>>] BY <1>1, <1>2
 <2>2. c \in TagCall BY <2>1, NothingYet DEF TagCall, TagStages
 <2> QED BY <2>1, <2>2, NothingYet DEF CallFits, Within, Names
<1>5. /\ tagCalls' \in Seq(TagCall) /\ (\A j \in DOMAIN tagCalls' : CallFits(tagCalls'[j]))
      /\ DOMAIN tagCalls' = DOMAIN tagCalls \cup {Newest} /\ tagCalls'[Newest] = c
      /\ \A j \in DOMAIN tagCalls : tagCalls'[j] = tagCalls[j]
      /\ EverMade \subseteq EverMade' /\ \A j \in DOMAIN tagCalls' : Within(tagCalls'[j], EverMade') BY <1>3, <1>4, CallAdded
<1>6. TagsShape' /\ OnlyEverMade' BY <1>3, <1>5 DEF TagsInv, TagsShape, OnlyEverMade, Names
<1>7. ListSettles'
  BY <1>4, <1>5, <1>3 DEF Changes, TagsInv, ListSettles
<1>8. Waits => InTurn' BY <1>3, <1>4, MadeBeside
<1> QED BY <1>3, <1>5, <1>6, <1>7, <1>8, NamesStay DEF TagsInv

\* What the server does for a call that is not of the note leaves the rest sound.
LEMMA ServedBeside ==
  ASSUME TagsInv, NEW i \in DOMAIN tagCalls, NEW e, Comes(tagCalls[i], e), CallFits(e), tagCalls' = [tagCalls EXCEPT ![i] = e],
         tagCalls[i].op # "tags", tagCalls[i].stage \notin Answered, e.stage \in Answered => ~tagCalls[i].here,
         UNCHANGED <<tagList, tagFetch, selection>>, ~doubtful' => ~doubtful,
         tagRows' \in [Ids -> TagNames], noteTags' \in Seq(Ids), NamesAreUnique', SavedStays,
         \A d \in Ids : tagRows[d] # 0 => tagRows'[d] # 0 \/ e.id = d,
         ~news' => ~news /\ tagRows' = tagRows
  PROVE  TagsInv'
<1>1. /\ tagCalls' \in Seq(TagCall) /\ (\A j \in DOMAIN tagCalls' : CallFits(tagCalls'[j]))
      /\ DOMAIN tagCalls' = DOMAIN tagCalls /\ tagCalls'[i] = e /\ (\A j \in DOMAIN tagCalls \ {i} : tagCalls'[j] = tagCalls[j])
      /\ EverMade \subseteq EverMade' /\ \A j \in DOMAIN tagCalls' : Within(tagCalls'[j], EverMade') BY CallMoves
<1>2. TagsShape' BY <1>1 DEF TagsInv, TagsShape
<1>3. OnlyEverMade' BY <1>1 DEF TagsInv, OnlyEverMade, Names
<1>4. e.op = tagCalls[i].op /\ (e.stage \notin Answered => e.here = tagCalls[i].here /\ e.adds = tagCalls[i].adds /\ e.held = tagCalls[i].held)
  BY DEF Comes
<1>5. ListSettles'
  BY <1>1, <1>4 DEF Changes, TagsInv, ListSettles
<1>6. ASSUME Waits PROVE InTurn'
  BY <1>1, <1>4, <1>6, TurnStays DEF TagWrites, Makings, Answered, TagsInv
<1> QED BY <1>1, <1>2, <1>3, <1>5, <1>6 DEF TagsInv

\* A call of the list that reaches a stage fits.
LEMMA ReachedFits ==
  ASSUME TagsInv, NEW i \in DOMAIN tagCalls, tagCalls[i].stage \notin Answered,
         NEW stage \in {"owned", "free", "ok", "failed"}, Reaches(i, stage),
         tagCalls[i].op \in {"rename", "delete"} \/ stage = "failed"
  PROVE  \E e : /\ Comes(tagCalls[i], e) /\ CallFits(e) /\ e.id = tagCalls[i].id /\ tagCalls' = [tagCalls EXCEPT ![i] = e]
                /\ (e.stage \in Answered => ~tagCalls[i].here) /\ (tagCalls[i].here => e.stage = stage)
<1>1. PICK e : /\ Comes(tagCalls[i], e) /\ e.id = tagCalls[i].id /\ tagCalls' = [tagCalls EXCEPT ![i] = e]
               /\ ~Ends(i, stage) => e.stage = stage
               /\ Ends(i, stage) => e.stage = IF stage \in {"ok", "done"} THEN "done" ELSE "undone"
  BY ReachesComes DEF TagsInv, TagStages
<1>2. tagCalls[i].here \/ ~tagCalls[i].here OBVIOUS
<1>3. Ends(i, stage) => ~tagCalls[i].here BY DEF Ends
<1>4. CallFits(tagCalls[i]) BY DEF TagsInv
<1>5. e.stage \in Answered => ~tagCalls[i].here BY <1>1, <1>3 DEF Answered
<1>6. CallFits(e) BY <1>1, <1>3, <1>4, <1>5 DEF CallFits, Comes, Answered
<1> QED BY <1>1, <1>3, <1>5, <1>6

\* The look before a rename or a deletion, and the look for its name.
LEMMA LooksKeep == ASSUME TagsInv, NEW i \in DOMAIN tagCalls, LookUp(i) \/ CheckName(i) PROVE TagsInv'
<1>1. PICK stage \in {"owned", "free", "failed"} : Quietly(i, stage) /\ tagCalls[i].op \in {"rename", "delete"} /\ tagCalls[i].stage \notin Answered
  BY DEF LookUp, CheckName, Answered
<1>2. /\ Reaches(i, stage) /\ UNCHANGED <<tagList, tagFetch, selection, doubtful, tagRows, noteTags, news>>
  BY <1>1 DEF Quietly, Served
<1>3. PICK e : /\ Comes(tagCalls[i], e) /\ CallFits(e) /\ e.id = tagCalls[i].id /\ tagCalls' = [tagCalls EXCEPT ![i] = e]
               /\ (e.stage \in Answered => ~tagCalls[i].here) BY <1>1, <1>2, ReachedFits
<1>4. tagRows' \in [Ids -> TagNames] /\ noteTags' \in Seq(Ids) /\ NamesAreUnique' /\ SavedStays
  BY <1>2, NamesStay, StillSaved DEF TagsInv, TagsShape
<1> QED BY <1>1, <1>2, <1>3, <1>4, ServedBeside

\* Renaming, at the server
LEMMA ServeRenameKeeps == ASSUME TagsInv, NEW i \in DOMAIN tagCalls, ServeRename(i) PROVE TagsInv'
<1> DEFINE d == tagCalls[i].id
           n == tagCalls[i].name
<1>1. /\ tagCalls[i].op = "rename" /\ tagCalls[i].stage \notin Answered /\ d \in Ids /\ n # 0 /\ n \in TagNames
      /\ tagRows \in [Ids -> TagNames] /\ noteTags \in Seq(Ids) /\ UNCHANGED <<tagList, tagFetch, selection, doubtful, noteTags>>
  BY CallNumbers, CallFields DEF TagsInv, ServeRename, Served, TagsShape, CallFits, Answered
<1>2. PICK stage \in {"ok", "failed"} :
        /\ Reaches(i, stage)
        /\ \/ UNCHANGED <<tagRows, news>>
           \/ /\ tagRows[d] # 0 /\ Named(n) \subseteq {d} /\ tagRows' = [tagRows EXCEPT ![d] = n] /\ news' = TRUE
  BY DEF ServeRename, NameIsFree
<1>3. PICK e : /\ Comes(tagCalls[i], e) /\ CallFits(e) /\ e.id = tagCalls[i].id /\ tagCalls' = [tagCalls EXCEPT ![i] = e]
               /\ (e.stage \in Answered => ~tagCalls[i].here) BY <1>1, <1>2, ReachedFits
<1> HIDE DEF d, n
<1>4. CASE UNCHANGED <<tagRows, news>>
  BY <1>1, <1>4, NamesStay, StillSaved, <1>3, ServedBeside DEF TagsInv
<1>5. CASE tagRows[d] # 0 /\ Named(n) \subseteq {d} /\ tagRows' = [tagRows EXCEPT ![d] = n] /\ news' = TRUE
 <2>1. \A x \in Ids : tagRows'[x] = IF x = d THEN n ELSE tagRows[x] BY <1>1, <1>5
 <2>2. \A x \in Ids : tagRows'[x] # 0 <=> tagRows[x] # 0 BY <1>1, <1>5, <2>1
 <2>3. NamesAreUnique'
   BY <1>5, <2>1 DEF Named, TagsInv, NamesAreUnique, NamesLive
 <2>4. SavedStays
   BY <1>1, <2>2 DEF EverMade, SavedStays, AreSaved
 <2>5. tagRows' \in [Ids -> TagNames] /\ noteTags' \in Seq(Ids) BY <1>1, <1>5
 <2>6. ~news' => ~news /\ tagRows' = tagRows BY <1>5
 <2> QED BY <1>1, <1>3, <2>2, <2>3, <2>4, <2>5, <2>6, ServedBeside
<1> QED BY <1>2, <1>4, <1>5

\* Deleting, at the server
LEMMA ServeDeleteKeeps == ASSUME TagsInv, NEW i \in DOMAIN tagCalls, ServeDelete(i) PROVE TagsInv'
<1> DEFINE d == tagCalls[i].id
<1>1. /\ tagCalls[i].op = "delete" /\ tagCalls[i].stage \notin Answered /\ d \in Ids
      /\ tagRows \in [Ids -> TagNames] /\ noteTags \in Seq(Ids) /\ UNCHANGED <<tagList, tagFetch, selection, doubtful>>
      /\ tagRows' = [tagRows EXCEPT ![d] = 0] /\ noteTags' = Only(noteTags, Ids \ {d}) /\ news' = TRUE /\ Reaches(i, "ok")
  BY DEF TagsInv, ServeDelete, Served, Detached, TagsShape, CallFits, Answered
<1>2. PICK e : /\ Comes(tagCalls[i], e) /\ CallFits(e) /\ e.id = tagCalls[i].id /\ tagCalls' = [tagCalls EXCEPT ![i] = e]
               /\ (e.stage \in Answered => ~tagCalls[i].here) BY <1>1, ReachedFits
<1> HIDE DEF d
<1>3. e.id = d BY <1>2 DEF d
<1>4. \A x \in Ids : tagRows'[x] = IF x = d THEN 0 ELSE tagRows[x] BY <1>1
<1>5. noteTags' \in Seq(Ids) /\ (Range(noteTags))' = Range(noteTags) \cap (Ids \ {d}) BY <1>1, OnlyLeft
<1>6. NamesAreUnique'
  BY <1>4 DEF TagsInv, NamesAreUnique, NamesLive
<1>7. SavedStays
 <2> SUFFICES ASSUME NEW ids, Range(ids) \subseteq EverMade, AreSaved(ids)
              PROVE  (Range(noteTags))' = {x \in Range(ids) : tagRows'[x] # 0} BY DEF SavedStays
 <2>1. Range(noteTags) = {x \in Range(ids) : tagRows[x] # 0} /\ Range(ids) \subseteq Ids BY DEF AreSaved, EverMade
 <2> QED BY <1>4, <1>5, <2>1
<1>8. tagRows' \in [Ids -> TagNames] /\ \A x \in Ids : tagRows[x] # 0 => tagRows'[x] # 0 \/ e.id = x
  BY <1>1, <1>3, <1>4, NothingYet
<1> QED BY <1>1, <1>2, <1>5, <1>6, <1>7, <1>8, ServedBeside

\* A tag is made, or was there.
LEMMA MadeComes ==
  ASSUME TagsInv, NEW i \in DOMAIN tagCalls, tagCalls[i].op = "create", tagCalls[i].stage = "asked", NEW d \in Ids, Made(i, d)
  PROVE  \E e : /\ Comes(tagCalls[i], e) /\ CallFits(e) /\ e.id = d /\ tagCalls' = [tagCalls EXCEPT ![i] = e]
                /\ (e.stage \in Answered => ~tagCalls[i].here)
<1> DEFINE c == tagCalls[i]
<1>1. c \in TagCall /\ CallFits(c) /\ c.op = "create" /\ c.stage = "asked" /\ d \in Ids \cup {0} BY CallNumbers DEF TagsInv
<1>2. CASE c.here
 <2>1. PICK e : e = [c EXCEPT !.stage = "ok", !.id = d] OBVIOUS
 <2>2. tagCalls' = [tagCalls EXCEPT ![i] = e] BY <1>2, <2>1 DEF Made
 <2> HIDE DEF c, TagsInv
 <2>3. /\ e.stage = "ok" /\ e.id = d /\ e.op = c.op /\ e.name = c.name /\ e.here = c.here /\ e.adds = c.adds
       /\ e.before = c.before /\ e.held = c.held /\ e.ids = c.ids BY <1>1, <2>1 DEF TagCall
 <2>4. e \in TagCall BY <1>1, <2>1 DEF TagCall, TagStages
 <2>5. Comes(c, e) /\ CallFits(e) BY <1>1, <2>3, <2>4 DEF Comes, CallFits, Answered
 <2>6. e.stage \notin Answered BY <2>3 DEF Answered
 <2> QED BY <2>2, <2>3, <2>5, <2>6 DEF c
<1>3. CASE ~c.here
 <2>1. PICK k : k = [c EXCEPT !.id = d] OBVIOUS
 <2>2. tagCalls' = [tagCalls EXCEPT ![i] = Past(k, "done")] BY <1>3, <2>1 DEF Made
 <2> HIDE DEF c, TagsInv
 <2>3. k \in TagCall /\ k.id = d /\ k.op = c.op /\ k.name = c.name BY <1>1, <2>1 DEF TagCall
 <2>4. Past(k, "done") \in TagCall
       /\ Past(k, "done") = [op |-> k.op, id |-> k.id, name |-> k.name, here |-> TRUE, adds |-> FALSE, stage |-> "done",
                             before |-> NoTagList, held |-> [ids |-> <<>>, by |-> 0], ids |-> <<>>]
   BY <2>3, PastCall DEF Answered
 <2>5. PICK e : e = Past(k, "done") OBVIOUS
 <2>6. Comes(c, e) /\ CallFits(e) /\ e.id = d BY <1>1, <2>3, <2>4, <2>5 DEF Comes, CallFits, Answered
 <2> QED BY <1>3, <2>2, <2>5, <2>6 DEF c
<1> QED BY <1>2, <1>3

\* Creating, at the server: a new tag's id was never anybody's.
LEMMA ServeCreateKeeps == ASSUME TagsInv, NEW i \in DOMAIN tagCalls, ServeCreate(i) PROVE TagsInv'
<1> DEFINE n == tagCalls[i].name
<1>1. /\ tagCalls[i].op = "create" /\ tagCalls[i].stage = "asked" /\ n # 0 /\ n \in TagNames
      /\ tagRows \in [Ids -> TagNames] /\ noteTags \in Seq(Ids) /\ UNCHANGED <<tagList, tagFetch, selection, doubtful, noteTags>>
      /\ tagCalls[i].stage \notin Answered
  BY CallNumbers, CallFields DEF TagsInv, ServeCreate, Served, TagsShape, CallFits, Answered
<1>2. PICK d \in Ids :
        /\ Made(i, d)
        /\ \/ UNCHANGED <<tagRows, news>>
           \/ /\ Named(n) = {} /\ tagRows[d] = 0 /\ \A j \in 1 .. Len(tagCalls) : tagCalls[j].id # d
              /\ tagRows' = [tagRows EXCEPT ![d] = n] /\ news' = TRUE BY DEF ServeCreate, Named
<1>3. PICK e : /\ Comes(tagCalls[i], e) /\ CallFits(e) /\ e.id = d /\ tagCalls' = [tagCalls EXCEPT ![i] = e]
               /\ (e.stage \in Answered => ~tagCalls[i].here) BY <1>1, <1>2, MadeComes
<1> HIDE DEF n
<1>4. CASE UNCHANGED <<tagRows, news>>
  BY <1>1, <1>4, NamesStay, StillSaved, <1>3, ServedBeside DEF TagsInv
<1>5. CASE /\ Named(n) = {} /\ tagRows[d] = 0 /\ \A j \in 1 .. Len(tagCalls) : tagCalls[j].id # d
           /\ tagRows' = [tagRows EXCEPT ![d] = n] /\ news' = TRUE
 <2>1. \A x \in Ids : tagRows'[x] = IF x = d THEN n ELSE tagRows[x] BY <1>1, <1>5
 <2>2. NamesAreUnique'
   BY <1>5, <2>1 DEF Named, TagsInv, NamesAreUnique, NamesLive
 <2>3. SavedStays
  <3>1. d \notin EverMade /\ EverMade \subseteq Ids BY <1>5, CallNumbers DEF EverMade, TagsInv
  <3>2. \A x \in EverMade : tagRows'[x] = tagRows[x] BY <2>1, <3>1
  <3> SUFFICES ASSUME NEW ids, Range(ids) \subseteq EverMade, AreSaved(ids)
               PROVE  (Range(noteTags))' = {x \in Range(ids) : tagRows'[x] # 0} BY DEF SavedStays
  <3>3. (Range(noteTags))' = {x \in Range(ids) : tagRows[x] # 0} BY <1>1 DEF AreSaved
  <3> QED BY <3>2, <3>3
 <2>4. tagRows' \in [Ids -> TagNames] /\ noteTags' \in Seq(Ids) /\ \A x \in Ids : tagRows[x] # 0 => tagRows'[x] # 0
   BY <1>1, <1>5, <2>1
 <2>5. ~news' => ~news /\ tagRows' = tagRows BY <1>5
 <2> QED BY <1>1, <1>3, <2>2, <2>3, <2>4, <2>5, ServedBeside
<1> QED BY <1>2, <1>4, <1>5

\* What the server does for a call of the note, and the page with its answer, leaves the list sound.
LEMMA NoteMoves ==
  ASSUME TagsInv, NEW i \in DOMAIN tagCalls, tagCalls[i].op = "tags", NEW e, Comes(tagCalls[i], e), CallFits(e),
         tagCalls' = [tagCalls EXCEPT ![i] = e], UNCHANGED <<tagRows, tagList, tagFetch, news>>,
         noteTags' \in Seq(Ids), selection' \in Selection, Range(selection'.ids) \subseteq EverMade, Waits => InTurn'
  PROVE  TagsInv'
<1>1. /\ tagCalls' \in Seq(TagCall) /\ (\A j \in DOMAIN tagCalls' : CallFits(tagCalls'[j]))
      /\ DOMAIN tagCalls' = DOMAIN tagCalls /\ tagCalls'[i] = e /\ (\A j \in DOMAIN tagCalls \ {i} : tagCalls'[j] = tagCalls[j])
      /\ EverMade \subseteq EverMade' /\ \A j \in DOMAIN tagCalls' : Within(tagCalls'[j], EverMade') BY CallMoves
<1>2. TagsShape' BY <1>1 DEF TagsInv, TagsShape
<1>3. OnlyEverMade' BY <1>1 DEF TagsInv, OnlyEverMade, Names
<1>4. ListSettles'
  BY <1>1 DEF Changes, Comes, TagsInv, ListSettles
<1> QED BY <1>1, <1>2, <1>3, <1>4, NamesStay DEF TagsInv

\* Whoever may be sent is the first.
LEMMA SentIsFirst ==
  ASSUME TagsInv, NEW i, MaySendTags(i)
  PROVE  First(i)
<1>1. \A j \in TagWrites : j >= i /\ j \in Nat BY CallNumbers DEF TagsInv, MaySendTags, TagWrites
<1> QED BY <1>1 DEF First

\* A call of the note reaches a stage.
LEMMA NoteReaches ==
  ASSUME TagsInv, NEW i \in DOMAIN tagCalls, tagCalls[i].op = "tags", NEW stage \in {"ok", "failed", "done", "undone"}, Reaches(i, stage)
  PROVE  /\ \E e : /\ Comes(tagCalls[i], e) /\ CallFits(e) /\ e.stage = stage /\ e.id = tagCalls[i].id
                   /\ tagCalls' = [tagCalls EXCEPT ![i] = e]
         /\ tagCalls[i] \in TagCall /\ tagCalls[i].stage \in {"asked", "ok", "failed", "done", "undone"}
         /\ Range(tagCalls[i].held.ids) \subseteq EverMade
<1>1. CallFits(tagCalls[i]) /\ tagCalls[i] \in TagCall /\ Within(tagCalls[i], EverMade) BY CallNumbers DEF TagsInv, OnlyEverMade
<1>2. tagCalls[i].here /\ tagCalls[i].stage \in {"asked", "ok", "failed", "done", "undone"}
  BY <1>1, CallFields DEF CallFits, TagStages
<1>3. PICK e : /\ Comes(tagCalls[i], e) /\ e.id = tagCalls[i].id /\ tagCalls' = [tagCalls EXCEPT ![i] = e]
               /\ ~Ends(i, stage) => e.stage = stage
               /\ Ends(i, stage) => e.stage = IF stage \in {"ok", "done"} THEN "done" ELSE "undone"
  BY ReachesComes DEF TagsInv, TagStages
<1>4. e.stage = stage BY <1>2, <1>3 DEF Ends
<1>5. CallFits(e) BY <1>1, <1>2, <1>3, <1>4 DEF CallFits, Comes
<1> QED BY <1>1, <1>2, <1>3, <1>4, <1>5 DEF Within

\* The note's tags are set.
LEMMA ServeTagsKeeps == ASSUME TagsInv, NEW i \in DOMAIN tagCalls, ServeTags(i) PROVE TagsInv'
<1>1. /\ tagCalls[i].op = "tags" /\ tagCalls[i].stage = "asked" /\ MaySendTags(i) /\ noteTags' = Only(tagCalls[i].ids, NamesLive)
      /\ Reaches(i, "ok") /\ UNCHANGED <<tagRows, news, tagList, tagFetch, selection, doubtful>> BY DEF ServeTags, Served, Owned
<1>2. PICK e : /\ Comes(tagCalls[i], e) /\ CallFits(e) /\ e.stage = "ok" /\ tagCalls' = [tagCalls EXCEPT ![i] = e]
  BY <1>1, NoteReaches
<1>3. tagCalls[i].ids \in Seq(Ids) BY CallNumbers, CallFields DEF TagsInv
<1>4. noteTags' \in Seq(Ids) /\ (Range(noteTags))' = Range(tagCalls[i].ids) \cap NamesLive BY <1>1, <1>3, OnlyLeft
<1>5. Range(tagCalls[i].ids) \subseteq Ids
  BY <1>3, ElementOfSeq, LenProperties DEF Range
<1>6. (Range(noteTags))' = {d \in Range(tagCalls[i].ids) : tagRows[d] # 0} BY <1>4, <1>5 DEF NamesLive
<1>7. ASSUME Waits PROVE InTurn'
  BY <1>1, <1>2, <1>7, SentIsFirst, <1>6, TurnServed DEF TagWrites, TagsInv, Answered
<1> QED BY <1>1, <1>2, <1>4, <1>7, NoteMoves DEF TagsInv, TagsShape, OnlyEverMade

\* A call is lost, or its answer.
LEMMA MishapKeeps == ASSUME TagsInv, NEW i \in DOMAIN tagCalls, Mishap(i) PROVE TagsInv'
<1>1. /\ Reaches(i, "failed") /\ tagCalls[i].here /\ UNCHANGED <<tagRows, noteTags, tagList, tagFetch, selection, news>>
      /\ \/ tagCalls[i].stage = "asked" /\ (tagCalls[i].op = "tags" => MaySendTags(i)) /\ UNCHANGED doubtful
         \/ tagCalls[i].stage = "ok" /\ doubtful' = (doubtful \/ tagCalls[i].op = "tags") BY DEF Mishap
<1>2. tagCalls[i].stage \notin Answered BY <1>1 DEF Answered
<1>3. CASE tagCalls[i].op = "tags"
 <2>1. PICK e : /\ Comes(tagCalls[i], e) /\ CallFits(e) /\ e.stage = "failed" /\ tagCalls' = [tagCalls EXCEPT ![i] = e]
   BY <1>1, <1>3, NoteReaches
 <2>2. ASSUME Waits PROVE InTurn'
  <3>1. i \in TagWrites /\ InTurn /\ e.stage \notin Answered BY <1>2, <1>3, <2>1, <2>2 DEF TagWrites, TagsInv, Answered
  <3>2. First(i) BY <1>1, <1>3, <3>1, SentIsFirst, HeardIsFirst
  <3>3. CASE tagCalls[i].stage = "asked" /\ UNCHANGED doubtful BY <1>1, <2>1, <3>1, <3>2, <3>3, TurnServed
  <3>4. CASE tagCalls[i].stage = "ok" /\ doubtful' = (doubtful \/ tagCalls[i].op = "tags")
   <4>1. doubtful' BY <1>3, <3>4
   <4> QED BY <1>1, <2>1, <3>1, <3>2, <4>1, TurnServed
  <3> QED BY <1>1, <3>3, <3>4
 <2>3. noteTags' \in Seq(Ids) /\ selection' \in Selection /\ Range(selection'.ids) \subseteq EverMade
   BY <1>1 DEF TagsInv, TagsShape, OnlyEverMade
 <2> QED BY <1>1, <1>3, <2>1, <2>2, <2>3, NoteMoves
<1>4. CASE tagCalls[i].op # "tags"
 <2>1. PICK e : /\ Comes(tagCalls[i], e) /\ CallFits(e) /\ e.id = tagCalls[i].id /\ tagCalls' = [tagCalls EXCEPT ![i] = e]
                /\ (e.stage \in Answered => ~tagCalls[i].here) BY <1>1, <1>2, ReachedFits
 <2>2. tagRows' \in [Ids -> TagNames] /\ noteTags' \in Seq(Ids) /\ NamesAreUnique' /\ SavedStays
   BY <1>1, NamesStay, StillSaved DEF TagsInv, TagsShape
 <2>3. ~doubtful' => ~doubtful BY <1>1
 <2> QED BY <1>1, <1>2, <1>4, <2>1, <2>2, <2>3, ServedBeside
<1> QED BY <1>3, <1>4

\* The write is heard to be saved.
LEMMA SavedKeeps == ASSUME TagsInv, NEW i \in DOMAIN tagCalls, TagsSaved(i) PROVE TagsInv'
<1>1. /\ tagCalls[i].op = "tags" /\ tagCalls[i].stage = "ok" /\ Reaches(i, "done") /\ doubtful' = (doubtful /\ selection.by # i)
      /\ UNCHANGED <<tagRows, noteTags, tagList, tagFetch, selection, news>> BY DEF TagsSaved, Heard
<1>2. PICK e : /\ Comes(tagCalls[i], e) /\ CallFits(e) /\ e.stage = "done" /\ tagCalls' = [tagCalls EXCEPT ![i] = e]
  BY <1>1, NoteReaches
<1>3. ASSUME Waits PROVE InTurn'
 <2>1. i \in TagWrites /\ InTurn /\ e.stage \in Answered /\ e.op = "tags"
   BY <1>1, <1>2, <1>3 DEF TagWrites, TagsInv, Answered, Comes
 <2>2. First(i) BY <1>1, <2>1, HeardIsFirst
 <2>3. selection.by = i => AreSaved(selection.ids) BY <1>1, <2>1, <2>2 DEF InTurn, NewestIsShown, FirstIsHeard
 <2>4. selection.by # i => doubtful' \/ ~doubtful BY <1>1
 <2> QED BY <1>1, <1>2, <2>1, <2>2, <2>3, <2>4, TurnHeard
<1>4. noteTags' \in Seq(Ids) /\ selection' \in Selection /\ Range(selection'.ids) \subseteq EverMade
  BY <1>1 DEF TagsInv, TagsShape, OnlyEverMade
<1> QED BY <1>1, <1>2, <1>3, <1>4, NoteMoves

\* Or not to be: what it replaced is shown again, unless more was chosen since.
LEMMA NotSavedKeeps == ASSUME TagsInv, NEW i \in DOMAIN tagCalls, TagsNotSaved(i) PROVE TagsInv'
<1>1. /\ tagCalls[i].op = "tags" /\ tagCalls[i].stage = "failed" /\ Reaches(i, "undone")
      /\ selection' = IF selection.by = i THEN tagCalls[i].held ELSE selection
      /\ doubtful' = (doubtful \/ \E j \in 1 .. Len(tagCalls) : tagCalls[i].held.by = j /\ tagCalls[j].stage = "undone")
      /\ UNCHANGED <<tagRows, noteTags, tagList, tagFetch, news>> BY DEF TagsNotSaved, Heard, PutBack
<1>2. PICK e : /\ Comes(tagCalls[i], e) /\ CallFits(e) /\ e.stage = "undone" /\ tagCalls' = [tagCalls EXCEPT ![i] = e]
  BY <1>1, NoteReaches
<1>3. DOMAIN tagCalls = 1 .. Len(tagCalls) /\ tagCalls[i].held \in Selection /\ Range(tagCalls[i].held.ids) \subseteq EverMade
  BY <1>1, NoteReaches, CallNumbers, CallFields DEF TagsInv
<1>4. ASSUME Waits PROVE InTurn'
 <2>1. i \in TagWrites /\ InTurn /\ e.stage \in Answered /\ e.op = "tags"
   BY <1>1, <1>2, <1>4 DEF TagWrites, TagsInv, Answered, Comes
 <2>2. First(i) BY <1>1, <2>1, HeardIsFirst
 <2>3. doubtful' \/ ~doubtful BY <1>1
 <2>4. ASSUME selection.by = i, ~doubtful' PROVE AreSaved(selection'.ids)
   BY <1>1, <1>3, <2>4, <2>1, <2>2 DEF NotSaved, InTurn, FirstIsHeard
 <2>5. selection.by # i => selection' = selection BY <1>1
 <2> QED BY <1>1, <1>2, <2>1, <2>2, <2>3, <2>4, <2>5, TurnHeard
<1>5. noteTags' \in Seq(Ids) /\ selection' \in Selection /\ Range(selection'.ids) \subseteq EverMade
  BY <1>1, <1>3 DEF TagsInv, TagsShape, OnlyEverMade
<1> QED BY <1>1, <1>2, <1>4, <1>5, NoteMoves

\* The answer of a change of the list: the list is fetched again.
LEMMA ListHeard ==
  ASSUME TagsInv, NEW i \in DOMAIN tagCalls, tagCalls[i].op # "tags", tagCalls[i].stage \notin Answered,
         NEW e, Comes(tagCalls[i], e), e.stage \in Answered, tagCalls' = [tagCalls EXCEPT ![i] = e], e.id = tagCalls[i].id,
         TagsRefetched(i), UNCHANGED <<tagRows, noteTags, selection, doubtful>>,
         tagList' \in TagList, Names(tagList'.names, EverMade)
  PROVE  TagsInv'
<1>0. CallFits(e)
  BY DEF TagsInv, CallFits, Comes, Answered
<1>1. /\ tagCalls' \in Seq(TagCall) /\ (\A j \in DOMAIN tagCalls' : CallFits(tagCalls'[j]))
      /\ DOMAIN tagCalls' = DOMAIN tagCalls /\ tagCalls'[i] = e /\ (\A j \in DOMAIN tagCalls \ {i} : tagCalls'[j] = tagCalls[j])
      /\ EverMade \subseteq EverMade' /\ \A j \in DOMAIN tagCalls' : Within(tagCalls'[j], EverMade') BY <1>0, CallMoves
<1>2. tagFetch' \in TagFetch /\ tagFetch'.stage = "asked" /\ \A d \in Ids : tagFetch'.names[d] = 0
  BY NothingYet DEF TagsRefetched, Invalidated, NoFetchOfTags, TagFetch
<1>3. TagsShape' /\ ListSettles' BY <1>1, <1>2 DEF TagsInv, TagsShape, ListSettles
<1>4. OnlyEverMade' BY <1>1, <1>2 DEF TagsInv, OnlyEverMade, Names
<1>5. ASSUME Waits PROVE InTurn'
  BY <1>1, StillSaved, <1>5, TurnStays DEF TagWrites, Makings, Comes, Answered, TagsInv
<1> QED BY <1>1, <1>3, <1>4, <1>5, NamesStay DEF TagsInv

\* A tag was not made; a rename or a deletion was answered.
LEMMA HeardKeeps == ASSUME TagsInv, NEW i \in DOMAIN tagCalls, CreateFails(i) \/ ChangeAnswered(i) PROVE TagsInv'
<1>1. PICK stage \in Answered :
        /\ Reaches(i, stage) /\ TagsRefetched(i) /\ UNCHANGED <<tagRows, noteTags, selection, doubtful>>
        /\ tagCalls[i].op # "tags" /\ tagCalls[i].stage \notin Answered
        /\ tagList' \in {[tagList EXCEPT !.temps = @ \ {i}], tagCalls[i].before, tagList}
  BY DEF CreateFails, ChangeAnswered, Heard, Over, Answered
<1>2. PICK e : /\ Comes(tagCalls[i], e) /\ e.id = tagCalls[i].id /\ tagCalls' = [tagCalls EXCEPT ![i] = e]
               /\ ~Ends(i, stage) => e.stage = stage
               /\ Ends(i, stage) => e.stage = IF stage \in {"ok", "done"} THEN "done" ELSE "undone"
  BY <1>1, ReachesComes DEF TagsInv, TagStages, Answered
<1>3. e.stage \in Answered BY <1>2 DEF Answered
<1>4. tagList' \in TagList /\ Names(tagList'.names, EverMade)
 <2>1. tagList \in TagList /\ Names(tagList.names, EverMade) BY DEF TagsInv, TagsShape, OnlyEverMade
 <2>2. tagCalls[i].before \in TagList /\ Names(tagCalls[i].before.names, EverMade)
   BY CallNumbers, CallFields DEF TagsInv, OnlyEverMade, Within
 <2>3. PICK less : less = [tagList EXCEPT !.temps = @ \ {i}] OBVIOUS
 <2>4. less \in TagList /\ less.names = tagList.names BY <2>1, <2>3 DEF TagList
 <2> QED BY <1>1, <2>1, <2>2, <2>3, <2>4
<1> QED BY <1>1, <1>2, <1>3, <1>4, ListHeard

\* A tag was made, and is added to the note.
LEMMA AddedKeeps ==
  ASSUME TagsInv, NEW i \in DOMAIN tagCalls, tagCalls[i].op = "create", tagCalls[i].stage = "ok", tagCalls[i].adds,
         NEW e, Comes(tagCalls[i], e), e.stage = "done", e.id = tagCalls[i].id,
         NEW c \in TagCall, CallFits(c), Within(c, EverMade), c.op = "tags", c.stage = "asked", c.held = tagCalls[i].held,
         tagCalls' = Append([tagCalls EXCEPT ![i] = e], c), selection' = [ids |-> c.ids, by |-> Newest],
         TagsRefetched(i), UNCHANGED <<tagRows, noteTags, doubtful>>,
         tagList' \in TagList, Names(tagList'.names, EverMade)
  PROVE  TagsInv'
<1>0. CallFits(e) /\ e \in TagCall /\ e.op = "create" /\ ~e.adds /\ tagCalls \in Seq(TagCall)
  BY DEF TagsInv, CallFits, Comes, Answered, TagsShape
<1>1. PICK moved : moved = [tagCalls EXCEPT ![i] = e] OBVIOUS
<1>2. /\ moved \in Seq(TagCall) /\ Len(moved) = Len(tagCalls) /\ moved[i] = e /\ \A j \in DOMAIN tagCalls \ {i} : moved[j] = tagCalls[j]
  BY <1>0, <1>1, ExceptSeq
<1>3. Len(tagCalls) \in Nat /\ DOMAIN tagCalls = 1 .. Len(tagCalls) BY <1>0, LenProperties
<1>4. /\ tagCalls' \in Seq(TagCall) /\ DOMAIN tagCalls' = 1 .. (Len(tagCalls) + 1) /\ tagCalls'[Len(tagCalls) + 1] = c
      /\ \A j \in 1 .. Len(tagCalls) : tagCalls'[j] = moved[j] BY <1>1, <1>2, <1>3, AppendProperties, LenProperties
<1>5. /\ Newest \in Nat /\ Newest \notin DOMAIN tagCalls /\ DOMAIN tagCalls' = DOMAIN tagCalls \cup {Newest}
      /\ (\A j \in DOMAIN tagCalls : j \in Nat /\ j < Newest) /\ tagCalls'[Newest] = c /\ tagCalls'[i] = e
      /\ \A j \in DOMAIN tagCalls \ {i} : tagCalls'[j] = tagCalls[j] BY <1>2, <1>3, <1>4 DEF Newest
<1>6. \A j \in DOMAIN tagCalls' : CallFits(tagCalls'[j]) BY <1>0, <1>5 DEF TagsInv
<1>7. EverMade \subseteq EverMade' BY <1>5 DEF EverMade
<1>8. \A j \in DOMAIN tagCalls' : Within(tagCalls'[j], EverMade')
  BY NothingYet, <1>5, <1>7 DEF TagsInv, OnlyEverMade, Comes, Within, Names, Answered
<1>9. tagFetch' \in TagFetch /\ tagFetch'.stage = "asked" /\ \A d \in Ids : tagFetch'.names[d] = 0
  BY NothingYet DEF TagsRefetched, Invalidated, NoFetchOfTags, TagFetch
<1>10. TagsShape' /\ ListSettles'
  BY CallFields, <1>4, <1>5, <1>9 DEF TagsInv, TagsShape, Selection, ListSettles
<1>11. OnlyEverMade' BY <1>7, <1>8, <1>9 DEF TagsInv, OnlyEverMade, Names, Within
<1>12. ASSUME Waits PROVE InTurn'
  BY <1>12, <1>0, <1>5, TurnTakes DEF Makings, TagsInv, Answered, InTurn, MakingIsAlone, TagWrites
<1> QED BY <1>4, <1>6, <1>10, <1>11, <1>12, NamesStay DEF TagsInv

\* A tag was made.
LEMMA CreatedKeeps == ASSUME TagsInv, NEW i \in DOMAIN tagCalls, CreateSucceeds(i) PROVE TagsInv'
<1> DEFINE d == tagCalls[i].id
           n == tagCalls[i].name
           held == tagCalls[i].held
<1>1. /\ tagCalls[i].op = "create" /\ tagCalls[i].stage = "ok" /\ TagsRefetched(i) /\ UNCHANGED <<tagRows, noteTags, doubtful>>
      /\ tagList' = [tagList EXCEPT !.temps = @ \ {i}, !.names[d] = IF @ = 0 THEN n ELSE @]
      /\ \/ /\ Adds(i) /\ selection' = [ids |-> Added(i), by |-> Newest]
            /\ tagCalls' = Append([tagCalls EXCEPT ![i] = Past(@, "done")], [Call("tags", 0, 0) EXCEPT !.held = held, !.ids = Added(i)])
         \/ tagCalls' = [tagCalls EXCEPT ![i] = Past(@, "done")] /\ UNCHANGED selection BY DEF CreateSucceeds, Heard
<1>2. /\ tagCalls[i] \in TagCall /\ CallFits(tagCalls[i]) /\ Within(tagCalls[i], EverMade)
      /\ d \in Ids /\ n \in TagNames /\ held \in Selection /\ held.ids \in Seq(Ids) /\ Range(held.ids) \subseteq EverMade
  BY CallNumbers, <1>1, CallFields DEF TagsInv, OnlyEverMade, CallFits, Within
<1>3. d \in EverMade BY <1>2 DEF EverMade
<1>4. PICK e : e = Past(tagCalls[i], "done") OBVIOUS
<1>5. Comes(tagCalls[i], e) /\ e.stage = "done" /\ e.id = d /\ e.stage \in Answered /\ tagCalls[i].stage \notin Answered
 <2>1. "done" \in Answered /\ tagCalls[i].stage \notin Answered BY <1>1 DEF Answered
 <2>2. PICK c : c = tagCalls[i] OBVIOUS
 <2>3. e \in TagCall
       /\ e = [op |-> c.op, id |-> c.id, name |-> c.name, here |-> TRUE, adds |-> FALSE, stage |-> "done",
               before |-> NoTagList, held |-> [ids |-> <<>>, by |-> 0], ids |-> <<>>] BY <1>2, <1>4, <2>1, <2>2, PastCall
 <2> HIDE DEF TagsInv
 <2> QED BY <2>1, <2>2, <2>3 DEF Comes
<1>6. tagList' \in TagList /\ Names(tagList'.names, EverMade)
 <2>1. tagList \in TagList /\ Names(tagList.names, EverMade) /\ tagList.names \in [Ids -> TagNames]
   BY DEF TagsInv, TagsShape, OnlyEverMade, TagList
 <2> HIDE DEF d, n, TagsInv
 <2>2. PICK shown : shown = [tagList.names EXCEPT ![d] = IF @ = 0 THEN n ELSE @] OBVIOUS
 <2>3. tagList' = [names |-> shown, temps |-> tagList.temps \ {i}] BY <1>1, <2>1, <2>2 DEF TagList
 <2>4. shown \in [Ids -> TagNames] /\ \A x \in Ids : shown[x] # 0 => x = d \/ tagList.names[x] # 0 BY <1>2, <2>1, <2>2
 <2> QED BY <1>3, <2>1, <2>3, <2>4 DEF TagList, Names
<1> HIDE DEF d, n, held
<1>7. CASE tagCalls' = [tagCalls EXCEPT ![i] = Past(@, "done")] /\ UNCHANGED selection
  BY <1>4, <1>7, <1>1, <1>5, <1>6, ListHeard DEF d
<1>8. CASE /\ Adds(i) /\ selection' = [ids |-> Added(i), by |-> Newest]
           /\ tagCalls' = Append([tagCalls EXCEPT ![i] = Past(@, "done")], [Call("tags", 0, 0) EXCEPT !.held = held, !.ids = Added(i)])
 <2>1. Added(i) = Append(held.ids, d) /\ tagCalls[i].adds BY <1>8 DEF Adds, Added, held, d
 <2>2. Append(held.ids, d) \in Seq(Ids) /\ Range(Append(held.ids, d)) \subseteq EverMade
   BY <1>2, AppendProperties, LenProperties, <1>3 DEF Range
 <2> DEFINE plain == Call("tags", 0, 0)
 <2>3. /\ plain \in TagCall
       /\ plain = [op |-> "tags", id |-> 0, name |-> 0, here |-> TRUE, adds |-> FALSE, stage |-> "asked",
                  before |-> NoTagList, held |-> [ids |-> <<>>, by |-> 0], ids |-> <<>>] BY NewCall, NothingYet
 <2>4. PICK more : more = Append(held.ids, d) OBVIOUS
 <2>5. PICK c : c = [plain EXCEPT !.held = held, !.ids = more] OBVIOUS
 <2>6. tagCalls' = Append([tagCalls EXCEPT ![i] = e], c) /\ selection' = [ids |-> more, by |-> Newest]
   BY <1>4, <1>8, <2>1, <2>4, <2>5
 <2> HIDE DEF plain, TagsInv
 <2>7. c = [op |-> "tags", id |-> 0, name |-> 0, here |-> TRUE, adds |-> FALSE, stage |-> "asked",
            before |-> NoTagList, held |-> held, ids |-> more] BY <2>3, <2>5
 <2>8. c \in TagCall BY <1>2, <2>2, <2>4, <2>7, NothingYet DEF TagCall, TagStages
 <2>9. CallFits(c) /\ Within(c, EverMade) BY <1>2, <2>2, <2>4, <2>7, NothingYet DEF CallFits, Within, Names
 <2>10. c.op = "tags" /\ c.stage = "asked" /\ c.held = tagCalls[i].held /\ c.ids = more BY <2>7 DEF held
 <2>11. e.id = tagCalls[i].id BY <1>5 DEF d
 <2> QED BY <1>1, <1>5, <1>6, <2>1, <2>6, <2>8, <2>9, <2>10, <2>11, AddedKeeps
<1> QED BY <1>1, <1>7, <1>8

\* The list is read, and shown.
LEMMA FetchKeeps == ASSUME TagsInv, ReadTags \/ FetchedTags PROVE TagsInv'
<1>1. UNCHANGED <<tagRows, noteTags, selection, tagCalls, news, doubtful>> BY DEF ReadTags, FetchedTags
<1>2. /\ tagList' \in TagList /\ tagFetch' \in TagFetch /\ Names(tagList'.names, EverMade) /\ Names(tagFetch'.names, EverMade)
      /\ ListSettles'
 <2>1. /\ tagRows \in [Ids -> TagNames] /\ tagList \in TagList /\ tagFetch \in TagFetch
       /\ Names(tagList.names, EverMade) /\ Names(tagFetch.names, EverMade) /\ Names(tagRows, EverMade) /\ ListSettles
   BY DEF TagsInv, TagsShape, OnlyEverMade, Names, EverMade
 <2>2. Changes' = Changes BY <1>1 DEF Changes
 <2>3. CASE ReadTags BY <1>1, <2>1, <2>2, <2>3 DEF ReadTags, TagFetch, ListSettles
 <2>4. CASE FetchedTags
   BY NothingYet, <2>4, <2>1, <1>1, <2>2 DEF NoFetchOfTags, TagFetch, FetchedTags, TagList, ListSettles, Names
 <2> QED BY <2>3, <2>4
<1>3. EverMade' = EverMade BY <1>1 DEF EverMade
<1>4. TagsShape' /\ OnlyEverMade' BY <1>1, <1>2, <1>3 DEF TagsInv, TagsShape, OnlyEverMade
<1>5. ASSUME Waits PROVE InTurn'
  BY <1>1, <1>5 DEF TagsInv, InTurn, NewestIsShown, ShownIsSaved, WritesFollow, FirstIsHeard, MakingIsAlone, TagWrites,
                    Makings, AreSaved, NotSaved, Follows, First
<1> QED BY <1>1, <1>2, <1>4, <1>5, NamesStay DEF TagsInv

\* It holds of a page just opened.
LEMMA TagsStart == TagsInit => TagsInv
<1> SUFFICES ASSUME TagsInit PROVE TagsInv OBVIOUS
<1> DEFINE rows == [d \in Ids |-> IF d = 1 THEN 1 ELSE 0]
<1>1. /\ tagRows = rows /\ noteTags \in {<<>>, <<1>>} /\ tagList = [names |-> rows, temps |-> {}]
      /\ tagFetch = NoFetchOfTags /\ selection = [ids |-> noteTags, by |-> 0] /\ tagCalls = <<>> BY DEF TagsInit
<1>2. 1 \in Ids /\ 1 \in TagNames /\ 0 \in TagNames /\ 0 # 1 BY TagsAssumption DEF Ids, TagNames
<1>3. rows \in [Ids -> TagNames] /\ \A d \in Ids : rows[d] # 0 <=> d = 1 BY <1>2
<1> HIDE DEF rows
<1>4. noteTags \in Seq(Ids) /\ Range(noteTags) \subseteq {1} /\ \A d \in Range(noteTags) : d \in Ids
 <2>1. <<>> \in Seq(Ids) /\ Range(<<>>) = {} BY NothingYet
 <2>2. <<1>> \in Seq(Ids) /\ Range(<<1>>) = {1} BY <1>2 DEF Range
 <2> QED BY <1>1, <1>2, <2>1, <2>2
<1>5. NoFetchOfTags \in TagFetch /\ NoFetchOfTags.stage = "none" /\ \A d \in Ids : NoFetchOfTags.names[d] = 0
  BY NothingYet DEF NoFetchOfTags, TagFetch
<1>6. tagCalls \in Seq(TagCall) /\ DOMAIN tagCalls = {} BY <1>1, EmptySeq
<1>7. TagsShape BY <1>1, <1>3, <1>4, <1>5, <1>6 DEF TagsShape, TagList, Selection
<1>8. EverMade = {1} BY <1>1, <1>2, <1>3, <1>6 DEF EverMade
<1>9. OnlyEverMade BY <1>1, <1>3, <1>4, <1>5, <1>6, <1>8 DEF OnlyEverMade, Names
<1>10. NamesAreUnique /\ ListSettles BY <1>1, <1>3, <1>5 DEF NamesAreUnique, NamesLive, ListSettles
<1>11. InTurn
 <2>1. TagWrites = {} /\ Makings = {} BY <1>6 DEF TagWrites, Makings
 <2>2. AreSaved(selection.ids) BY <1>1, <1>2, <1>3, <1>4 DEF AreSaved
 <2> QED BY <2>1, <2>2 DEF InTurn, NewestIsShown, ShownIsSaved, WritesFollow, FirstIsHeard, MakingIsAlone
<1> QED BY <1>6, <1>7, <1>9, <1>10, <1>11 DEF TagsInv

\* Every step keeps it.
LEMMA TagsStepKeeps == TagsInv /\ [TagsNext]_tagVars => TagsInv'
<1> SUFFICES ASSUME TagsInv, [TagsNext]_tagVars PROVE TagsInv' OBVIOUS
<1>1. ASSUME NEW d \in Ids, PickTag(d) \/ RemoveChip(d) \/ DeleteTag(d) PROVE TagsInv'
  BY <1>1, PickKeeps, RemoveKeeps, DeleteKeeps
<1>2. ASSUME NEW d \in Ids, NEW n \in TagNames \ {0}, RenameTag(d, n) PROVE TagsInv' BY <1>2, RenameKeeps
<1>3. ASSUME NEW n \in TagNames \ {0}, NEW adds \in BOOLEAN, CreateTag(n, adds) PROVE TagsInv' BY <1>3, CreateKeeps
<1>4. ASSUME NEW n \in TagNames \ {0}, Elsewhere("create", 0, n) PROVE TagsInv' BY <1>4, ElsewhereKeeps
<1>5. ASSUME NEW d \in Ids, Elsewhere("delete", d, 0) PROVE TagsInv' BY <1>5, NothingYet, ElsewhereKeeps
<1>6. ASSUME NEW d \in Ids, NEW n \in TagNames \ {0}, Elsewhere("rename", d, n) PROVE TagsInv' BY <1>6, ElsewhereKeeps
<1>7. \A i \in 1 .. Len(tagCalls) : i \in DOMAIN tagCalls BY CallNumbers DEF TagsInv
<1>8. ASSUME NEW i \in 1 .. Len(tagCalls),
             ServeCreate(i) \/ LookUp(i) \/ CheckName(i) \/ ServeRename(i) \/ ServeDelete(i) \/ ServeTags(i) \/ Mishap(i)
      PROVE  TagsInv'
  BY <1>7, <1>8, ServeCreateKeeps, LooksKeep, ServeRenameKeeps, ServeDeleteKeeps, ServeTagsKeeps, MishapKeeps
<1>9. ASSUME NEW i \in 1 .. Len(tagCalls),
             CreateSucceeds(i) \/ CreateFails(i) \/ ChangeAnswered(i) \/ TagsSaved(i) \/ TagsNotSaved(i)
      PROVE  TagsInv' BY <1>7, <1>9, CreatedKeeps, HeardKeeps, SavedKeeps, NotSavedKeeps
<1>10. CASE ReadTags \/ FetchedTags BY <1>10, FetchKeeps
<1>11. CASE UNCHANGED tagVars
 <2>1. UNCHANGED <<tagRows, noteTags, tagList, tagFetch, selection, tagCalls, news, doubtful>> BY <1>11 DEF tagVars
 <2>2. TagsShape' /\ (\A i \in DOMAIN tagCalls' : CallFits(tagCalls'[i])) /\ NamesAreUnique'
   BY <2>1, NamesStay DEF TagsInv, TagsShape
 <2>3. OnlyEverMade' /\ ListSettles' BY <2>1 DEF TagsInv, OnlyEverMade, EverMade, ListSettles, Changes
 <2>4. Waits => InTurn'
   BY <2>1 DEF TagsInv, InTurn, NewestIsShown, ShownIsSaved, WritesFollow, FirstIsHeard, MakingIsAlone, TagWrites,
               Makings, AreSaved, NotSaved, Follows, First
 <2> QED BY <2>2, <2>3, <2>4 DEF TagsInv
<1> QED BY <1>1, <1>2, <1>3, <1>4, <1>5, <1>6, <1>8, <1>9, <1>10, <1>11 DEF TagsNext

\* What the invariant says of a list whose changes are answered.
LEMMA SettledIsTrue == TagsInv => SettledTagsAreTrue
<1> SUFFICES ASSUME TagsInv PROVE SettledTagsAreTrue OBVIOUS
<1>1. \A S : UnansweredCalls(S) = {i \in DOMAIN tagCalls : tagCalls[i].op \in S /\ tagCalls[i].stage \notin Answered}
  BY CallNumbers DEF TagsInv
<1>2. \A i \in DOMAIN tagCalls : tagCalls[i].op \in {"tags", "create", "rename", "delete"}
  BY CallNumbers, CallFields DEF TagsInv
<1>3. (\A i \in UnansweredCalls({"create", "rename", "delete"}) : ~tagCalls[i].here) => Changes = {} BY <1>1, <1>2 DEF Changes
<1> QED BY <1>3 DEF TagsInv, ListSettles, SettledTagsAreTrue

(***************************************************************************)
(* For any number of tags, names, calls and mishaps, of this page and of   *)
(* another device: names are unique at the server, and once the changes of *)
(* the list are answered and its fetch is in, the page lists the tags      *)
(* there are (controllers/tags.ts, useTagMutations.ts).                    *)
(***************************************************************************)
THEOREM TagsStayTrue == TagsSpec => [](NamesAreUnique /\ SettledTagsAreTrue)
<1>1. TagsInv => NamesAreUnique /\ SettledTagsAreTrue BY SettledIsTrue DEF TagsInv
<1> QED BY <1>1, TagsStart, TagsStepKeeps, PTL DEF TagsSpec

(***************************************************************************)
(* And when the user leaves the note's tags alone while a tag is plain for  *)
(* it, the server has what the modal shows once the note's writes are      *)
(* answered, unless a reply was lost or what was put back had failed too   *)
(* (useNoteModalMeta.ts, AddTagButton.tsx, tierWriteQueue.ts).             *)
(***************************************************************************)
THEOREM TagsAgreeUndisturbed == ASSUME Waits PROVE TagsSpec => []TagsAgree
<1>1. TagsInv => TagsAgree
 <2> SUFFICES ASSUME TagsInv PROVE ChoicesStand BY SettledIsTrue DEF TagsInv, TagsAgree
 <2>1. UnansweredCalls({"tags"}) = TagWrites BY CallNumbers DEF TagsInv, TagWrites
 <2> QED BY <2>1 DEF ChoicesStand, TagsInv, InTurn, ShownIsSaved, AreSaved
<1> QED BY <1>1, TagsStart, TagsStepKeeps, PTL DEF TagsSpec

-----------------------------------------------------------------------------
(* Drafts: the inductive invariant.                                        *)

DraftRow ==
  [text : DraftTexts, owner : Accounts \cup {Nobody}, clear : BOOLEAN, same : SUBSET (Nat \cup Windows)]
FormRow ==
  [slot : Nat, new : BOOLEAN, text : DraftTexts, base : DraftTexts, editing : BOOLEAN, cipher : DraftTexts \cup {NoText},
   submitted : DraftTexts \cup {NoText}, last : Nat]
SaveRow ==
  [stage : {"none", "asked", "settled"}, window : Windows, slot : Slots, text : DraftTexts, new : BOOLEAN, heard : BOOLEAN,
   waived : BOOLEAN]
DraftsShape ==
  /\ drafts \in [Slots -> DraftRow \cup {NoDraft}] /\ forms \in [Windows -> FormRow] /\ attempts \in Seq(SaveRow)
  /\ Len(attempts) <= MaxTries
  /\ flushes \subseteq Flush /\ offers \in [Windows -> [Slots -> DraftTexts \cup {NoText}]]
  /\ owners \in [Windows -> Accounts \cup {Nobody}] /\ cookie \in Accounts \cup {Nobody}
  /\ slotsMinted \in 0 .. MaxSlots /\ gone \subseteq Slots

\* An editor has a slot, and remembers a save of that slot.
FormFits(form) ==
  /\ form = NoForm \/ form.slot \in Slots
  /\ form.last # 0 => form.last \in DOMAIN attempts /\ attempts[form.last].slot = form.slot
\* What a draft repeats is the last save of its slot.
RepeatsLast(s, draft) ==
  \A a \in draft.same \ Windows :
    /\ a \in DOMAIN attempts /\ attempts[a].slot = s /\ attempts[a].text = draft.text
    /\ \A b \in DOMAIN attempts : b > a => attempts[b].slot # s
\* Nothing is unsaved in an editor.
AsSaved(form) == form.text = form.base
\* Nothing is on its way to a slot that was emptied.
StaysEmpty(s) ==
  /\ drafts[s] = NoDraft
  /\ \A w \in Windows : forms[w].slot = s => AsSaved(forms[w])
  /\ \A f \in flushes : f.slot = s => ~f.live

DraftsInv ==
  /\ DraftsShape
  /\ \A w \in Windows : FormFits(forms[w])
  /\ \A s \in Slots : RepeatsLast(s, drafts[s])
  /\ \A s \in gone : StaysEmpty(s)
  /\ UnansweredSaveIsOnDisk

\* Texts are numbers, and the name for none is above them.
LEMMA DraftNumbers ==
  /\ MaxText \in Nat /\ MaxSlots \in Nat /\ MaxTries \in Nat /\ NoText \notin DraftTexts /\ 0 \in DraftTexts
  /\ Slots \subseteq Nat \ {0} /\ NoDraft \notin DraftRow /\ NoDraft.same = {} /\ NoDraft.text = NoText
  /\ \A w \in Windows : w \notin 0 .. MaxTries
BY DraftAssumption DEF NoText, DraftTexts, Slots, NoDraft, DraftRow

\* A slot that holds something else than nothing holds a draft.
LEMMA NotNothing ==
  ASSUME NEW draft \in DraftRow
  PROVE  draft # NoDraft
BY DraftNumbers

\* A list whose entries are replaced is as long as it was.
LEMMA SameLength ==
  ASSUME NEW S, NEW seq \in Seq(S), NEW f, DOMAIN f = DOMAIN seq, f = [i \in DOMAIN f |-> f[i]],
         \A i \in DOMAIN seq : f[i] \in S
  PROVE  f \in Seq(S) /\ Len(f) = Len(seq)
<1>1. Len(seq) \in Nat /\ DOMAIN seq = 1 .. Len(seq) BY LenProperties
<1>2. f \in [1 .. Len(seq) -> S] BY <1>1
<1>3. f \in Seq(S) BY <1>1, <1>2, SeqDef
<1>4. Len(f) \in Nat /\ DOMAIN f = 1 .. Len(f) BY <1>3, LenProperties
<1> QED BY <1>1, <1>3, <1>4

\* A window without an editor.
LEMMA NoFormIs ==
  /\ NoForm \in FormRow /\ NoForm.slot = 0 /\ NoForm.last = 0 /\ NoForm.text = 0 /\ NoForm.base = 0 /\ ~NoForm.editing
  /\ AsSaved(NoForm)
BY DraftNumbers DEF NoForm, FormRow, AsSaved

\* The first state is sound.
LEMMA DraftsStartSound == DraftsInit => DraftsInv
<1> SUFFICES ASSUME DraftsInit PROVE DraftsInv OBVIOUS
<1>1. NoForm \in FormRow /\ NoForm.last = 0 BY DraftNumbers DEF NoForm, FormRow
<1>2. attempts \in Seq(SaveRow) /\ Len(attempts) = 0 /\ DOMAIN attempts = {} BY DEF DraftsInit
<1>3. DraftsShape BY <1>1, <1>2, DraftNumbers DEF DraftsInit, DraftsShape
<1>4. \A w \in Windows : FormFits(forms[w]) BY <1>1 DEF DraftsInit, FormFits
<1>5. \A s \in Slots : RepeatsLast(s, drafts[s]) BY DraftNumbers DEF DraftsInit, RepeatsLast
<1>6. gone = {} BY DEF DraftsInit
<1>7. UnansweredSaveIsOnDisk BY <1>2 DEF UnansweredSaveIsOnDisk
<1> QED BY <1>3, <1>4, <1>5, <1>6, <1>7 DEF DraftsInv

-----------------------------------------------------------------------------
(* Drafts: what a step may do that is no save and no answer.               *)

\* What is written over a slot: it stays a draft, it repeats nothing, or nothing
\* that somebody waits for is there.
Lawful(s, draft) ==
  \/ draft = drafts[s]
  \/ draft \in DraftRow /\ draft.same \subseteq Windows
  \/ draft \in DraftRow /\ drafts[s] # NoDraft /\ draft.text = drafts[s].text /\ draft.same \subseteq drafts[s].same \cup Windows
  \/ draft = NoDraft /\ \A a \in DOMAIN attempts : attempts[a].slot = s => attempts'[a].waived
\* The saves ask for what they asked for, and are given up or unheard at most.
SameSaves ==
  /\ attempts' \in Seq(SaveRow) /\ Len(attempts') = Len(attempts)
  /\ \A a \in DOMAIN attempts :
       /\ attempts'[a].stage = attempts[a].stage /\ attempts'[a].slot = attempts[a].slot /\ attempts'[a].text = attempts[a].text
       /\ (attempts'[a].heard => attempts[a].heard) /\ (attempts[a].waived => attempts'[a].waived)

\* Drafts and saves stay as they should.
LEMMA SavesStand ==
  ASSUME DraftsInv, SameSaves, \A s \in Slots : Lawful(s, drafts'[s])
  PROVE  /\ UnansweredSaveIsOnDisk' /\ (\A s \in Slots : RepeatsLast(s, drafts[s]))' /\ ~Answers
<1>1. attempts \in Seq(SaveRow) /\ DOMAIN attempts = 1 .. Len(attempts) /\ DOMAIN attempts' = DOMAIN attempts
      /\ attempts \in [1 .. Len(attempts) -> SaveRow] BY LenProperties DEF DraftsInv, DraftsShape, SameSaves
<1>2. \A a \in DOMAIN attempts : attempts[a] \in SaveRow /\ attempts[a].slot \in Slots BY <1>1 DEF SaveRow
<1>3. ~Answers BY DEF Answers, SameSaves
<1>4. ASSUME NEW s \in Slots PROVE RepeatsLast(s, drafts[s])'
 <2>1. RepeatsLast(s, drafts[s]) /\ Lawful(s, drafts'[s]) BY DEF DraftsInv
 <2>2. CASE drafts'[s] = drafts[s] BY <1>1, <2>1, <2>2 DEF RepeatsLast, SameSaves
 <2>3. CASE drafts'[s].same \subseteq Windows BY <2>3 DEF RepeatsLast
 <2>4. CASE drafts'[s].text = drafts[s].text /\ drafts'[s].same \subseteq drafts[s].same \cup Windows
   BY <1>1, <2>1, <2>4 DEF RepeatsLast, SameSaves
 <2>5. CASE drafts'[s] = NoDraft BY <2>5, DraftNumbers DEF RepeatsLast
 <2> QED BY <2>1, <2>2, <2>3, <2>4, <2>5 DEF Lawful
<1>5. UnansweredSaveIsOnDisk'
 <2> SUFFICES ASSUME NEW a \in DOMAIN attempts, attempts'[a].stage = "asked", attempts'[a].heard, ~attempts'[a].waived,
                     \A b \in DOMAIN attempts : b > a => attempts'[b].slot # attempts'[a].slot
              PROVE  drafts'[attempts'[a].slot] # NoDraft BY <1>1 DEF UnansweredSaveIsOnDisk
 <2>1. /\ attempts[a].stage = "asked" /\ attempts[a].heard /\ ~attempts[a].waived /\ attempts'[a].slot = attempts[a].slot
       /\ \A b \in DOMAIN attempts : b > a => attempts[b].slot # attempts[a].slot BY DEF SameSaves
 <2>2. drafts[attempts[a].slot] # NoDraft BY <2>1 DEF DraftsInv, UnansweredSaveIsOnDisk
 <2>3. Lawful(attempts[a].slot, drafts'[attempts[a].slot]) BY <1>2
 <2> QED BY <2>1, <2>2, <2>3, NotNothing DEF Lawful
<1> QED BY <1>3, <1>4, <1>5

\* A step of one window that is no save and no answer.
LEMMA LawfulStep ==
  ASSUME DraftsInv, NEW w \in Windows, NEW form \in FormRow, forms' = [forms EXCEPT ![w] = form],
         SameSaves, \A s \in Slots : Lawful(s, drafts'[s]), drafts' \in [Slots -> DraftRow \cup {NoDraft}],
         flushes' \subseteq Flush, offers' \in [Windows -> [Slots -> DraftTexts \cup {NoText}]],
         owners' \in [Windows -> Accounts \cup {Nobody}], cookie' \in Accounts \cup {Nobody},
         slotsMinted' \in 0 .. MaxSlots, gone' \subseteq Slots,
         form = NoForm \/ form.slot \in Slots,
         form.last = 0 \/ (form.last = forms[w].last /\ form.slot = forms[w].slot),
         \A s \in gone' :
           /\ drafts'[s] = NoDraft /\ (form.slot = s => AsSaved(form))
           /\ \A v \in Windows \ {w} : forms[v].slot = s => AsSaved(forms[v])
           /\ \A f \in flushes' : f.slot = s => ~f.live
  PROVE  DraftsInv' /\ ~Answers
<1>1. forms \in [Windows -> FormRow] /\ Len(attempts) <= MaxTries /\ DOMAIN attempts' = DOMAIN attempts
  BY LenProperties DEF DraftsInv, DraftsShape, SameSaves
<1>2. /\ UnansweredSaveIsOnDisk' /\ (\A s \in Slots : RepeatsLast(s, drafts[s]))' /\ ~Answers BY SavesStand
<1>3. DraftsShape' BY <1>1 DEF DraftsShape, SameSaves
<1>4. ASSUME NEW v \in Windows PROVE FormFits(forms[v])'
 <2>1. forms'[v] = (IF v = w THEN form ELSE forms[v]) /\ FormFits(forms[v]) BY <1>1 DEF DraftsInv
 <2>3. CASE v = w BY <1>1, <2>1, <2>3 DEF FormFits, SameSaves
 <2>4. CASE v # w BY <1>1, <2>1, <2>4 DEF FormFits, SameSaves
 <2> QED BY <2>3, <2>4
<1>5. ASSUME NEW s \in gone' PROVE StaysEmpty(s)' BY <1>1, <1>5 DEF StaysEmpty
<1> QED BY <1>2, <1>3, <1>4, <1>5 DEF DraftsInv

-----------------------------------------------------------------------------
(* Drafts: writing a slot, checkpoints and what the saves go through.      *)

\* The types of what a window has.
LEMMA WindowTyped ==
  ASSUME DraftsInv, NEW w \in Windows
  PROVE  /\ forms[w] \in FormRow /\ FormFits(forms[w]) /\ owners[w] \in Accounts \cup {Nobody}
         /\ drafts \in [Slots -> DraftRow \cup {NoDraft}] /\ forms \in [Windows -> FormRow]
         /\ slotsMinted \in 0 .. MaxSlots /\ slotsMinted \in Nat /\ gone \subseteq Slots /\ flushes \subseteq Flush /\ offers \in [Windows -> [Slots -> DraftTexts \cup {NoText}]]
         /\ owners \in [Windows -> Accounts \cup {Nobody}] /\ cookie \in Accounts \cup {Nobody}
         /\ forms[w].editing => forms[w] # NoForm
         /\ forms[w] # NoForm => forms[w].slot \in Slots
<1>1. slotsMinted \in 0 .. MaxSlots /\ gone \subseteq Slots /\ MaxSlots \in Nat BY DraftNumbers DEF DraftsInv, DraftsShape
<1>2. slotsMinted \in Nat BY <1>1
<1>3. FormFits(forms[w]) BY DEF DraftsInv
<1>4. forms[w] # NoForm => forms[w].slot \in Slots BY <1>3 DEF FormFits
<1>5. forms[w].editing => forms[w] # NoForm BY DEF NoForm
<1> QED BY <1>1, <1>2, <1>3, <1>4, <1>5 DEF DraftsInv, DraftsShape

\* A slot is written, or its owner refuses.
LEMMA StoredSlot ==
  ASSUME DraftsInv, NEW w \in Windows, NEW s \in Slots, NEW text \in DraftTexts, NEW owner \in Accounts \cup {Nobody},
         NEW by \in SUBSET (Nat \cup Windows)
  PROVE  LET disk == Stored(drafts, w, s, text, owner, by)
         IN  /\ disk \in [Slots -> DraftRow \cup {NoDraft}] /\ \A r \in Slots : r # s => disk[r] = drafts[r]
             /\ disk[s] = drafts[s] \/ (disk[s] \in DraftRow /\ disk[s].same = by /\ disk[s].text = text)
             /\ owner = owners[w] => disk[s] \in DraftRow /\ disk[s].same = by /\ disk[s].text = text
<1> DEFINE holder == IF owner = Nobody THEN owners[w] ELSE owner
<1> DEFINE new == [text |-> text, owner |-> holder, clear |-> ~Encrypts, same |-> by]
<1>1. drafts \in [Slots -> DraftRow \cup {NoDraft}] /\ holder \in Accounts \cup {Nobody} BY WindowTyped
<1>2. Encrypts \in BOOLEAN BY DEF Encrypts
<1> HIDE DEF holder
<1>3. new \in DraftRow /\ new.same = by /\ new.text = text BY <1>1, <1>2 DEF DraftRow
<1>4. /\ Stored(drafts, w, s, text, owner, by) \in {drafts, [drafts EXCEPT ![s] = new]}
      /\ owner = owners[w] => Stored(drafts, w, s, text, owner, by) = [drafts EXCEPT ![s] = new] BY DEF Stored, Written, holder
<1> HIDE DEF new
<1> QED BY <1>1, <1>3, <1>4

\* What a flush writes at once is a draft of the editor's own slot.
LEMMA FlushedNow ==
  ASSUME DraftsInv, NEW w \in Windows
  PROVE  LET disk == FlushNow(drafts, w)
         IN  /\ disk \in [Slots -> DraftRow \cup {NoDraft}] /\ (\A s \in Slots : Lawful(s, disk[s]))
             /\ \A s \in gone : disk[s] = NoDraft
<1> DEFINE disk == FlushNow(drafts, w)
<1> DEFINE f == forms[w]
<1>0. drafts \in [Slots -> DraftRow \cup {NoDraft}] /\ gone \subseteq Slots /\ \A s \in gone : drafts[s] = NoDraft
  BY WindowTyped DEF DraftsInv, StaysEmpty
<1>1. CASE disk = drafts BY <1>0, <1>1 DEF Lawful
<1>2. ASSUME Worth(f), NEW text \in DraftTexts, disk = Stored(drafts, w, f.slot, text, owners[w], {})
      PROVE  /\ disk \in [Slots -> DraftRow \cup {NoDraft}] /\ (\A s \in Slots : Lawful(s, disk[s]))
             /\ \A s \in gone : disk[s] = NoDraft
 <2>1. f.slot \in Slots /\ owners[w] \in Accounts \cup {Nobody} BY <1>2, WindowTyped DEF Worth, Dirty
 <2>2. f.slot \notin gone BY <1>2 DEF DraftsInv, StaysEmpty, Worth, Dirty, AsSaved
 <2>3. /\ disk \in [Slots -> DraftRow \cup {NoDraft}] /\ \A r \in Slots : r # f.slot => disk[r] = drafts[r]
       /\ disk[f.slot] \in DraftRow /\ disk[f.slot].same = {} BY <1>2, <2>1, StoredSlot
 <2> QED BY <1>0, <2>2, <2>3 DEF Lawful
<1>3. f.text \in DraftTexts /\ f.cipher \in DraftTexts \cup {NoText} BY WindowTyped DEF FormRow
<1>4. \/ disk = drafts
      \/ Worth(f) /\ disk = Stored(drafts, w, f.slot, f.text, owners[w], {})
      \/ Worth(f) /\ f.cipher # NoText /\ disk = Stored(drafts, w, f.slot, f.cipher, owners[w], {}) BY DEF FlushNow
<1> HIDE DEF disk
<1> QED BY <1>1, <1>2, <1>3, <1>4 DEF disk

\* What it starts to encrypt is not for a slot that was emptied.
LEMMA FlushedLater ==
  ASSUME DraftsInv, NEW w \in Windows
  PROVE  FlushLater(w) \subseteq Flush /\ \A f \in FlushLater(w) : f.slot \notin gone
<1>1. CASE ~Worth(forms[w]) BY <1>1 DEF FlushLater
<1>2. CASE Worth(forms[w])
 <2>1. forms[w].slot \in Slots /\ owners[w] \in Accounts \cup {Nobody} /\ forms[w].text \in DraftTexts
   BY <1>2, WindowTyped DEF Worth, Dirty, FormRow
 <2>2. forms[w].slot \notin gone BY <1>2 DEF DraftsInv, StaysEmpty, Worth, Dirty, AsSaved
 <2> DEFINE new == [window |-> w, slot |-> forms[w].slot, text |-> forms[w].text, owner |-> owners[w], live |-> TRUE]
 <2>3. new \in Flush /\ new.slot = forms[w].slot BY <2>1 DEF Flush
 <2>4. FlushLater(w) \in {{}, {new}} BY DEF FlushLater
 <2> HIDE DEF new
 <2> QED BY <2>2, <2>3, <2>4
<1> QED BY <1>1, <1>2

\* The saves of a list, when each entry is replaced by one that asks for the same.
LEMMA SavesReplaced ==
  ASSUME DraftsInv, DOMAIN attempts' = DOMAIN attempts, attempts' = [a \in DOMAIN attempts' |-> attempts'[a]],
         \A a \in DOMAIN attempts :
           /\ attempts'[a] \in SaveRow
           /\ attempts'[a].stage = attempts[a].stage /\ attempts'[a].slot = attempts[a].slot /\ attempts'[a].text = attempts[a].text
           /\ (attempts'[a].heard => attempts[a].heard) /\ (attempts[a].waived => attempts'[a].waived)
  PROVE  SameSaves
<1>1. attempts \in Seq(SaveRow) BY DEF DraftsInv, DraftsShape
<1>2. attempts' \in Seq(SaveRow) /\ Len(attempts') = Len(attempts) BY <1>1, SameLength
<1> QED BY <1>2 DEF SameSaves

\* The saves nobody touches.
LEMMA SavesLeft ==
  ASSUME DraftsInv, attempts' = attempts
  PROVE  SameSaves
BY DEF DraftsInv, DraftsShape, SameSaves

\* The saves whose copy somebody gives up.
LEMMA SavesWaived ==
  ASSUME DraftsInv, NEW S, attempts' = Waive(S)
  PROVE  SameSaves /\ \A a \in DOMAIN attempts : attempts[a].slot \in S => attempts'[a].waived
<1>1. attempts \in [1 .. Len(attempts) -> SaveRow] /\ DOMAIN attempts = 1 .. Len(attempts)
  BY LenProperties DEF DraftsInv, DraftsShape
<1>2. \A a \in DOMAIN attempts : attempts'[a] = [attempts[a] EXCEPT !.waived = @ \/ attempts[a].slot \in S] BY DEF Waive
<1>3. ASSUME NEW a \in DOMAIN attempts
      PROVE  /\ attempts'[a] \in SaveRow
             /\ attempts'[a].stage = attempts[a].stage /\ attempts'[a].slot = attempts[a].slot /\ attempts'[a].text = attempts[a].text
             /\ (attempts'[a].heard => attempts[a].heard) /\ (attempts[a].waived => attempts'[a].waived)
             /\ attempts[a].slot \in S => attempts'[a].waived
 <2>1. attempts[a] \in SaveRow BY <1>1
 <2> DEFINE given == (attempts[a].waived \/ attempts[a].slot \in S)
 <2>2. given \in BOOLEAN BY <2>1 DEF SaveRow
 <2>3. attempts'[a] = [attempts[a] EXCEPT !.waived = given] BY <1>2
 <2>4. attempts[a].waived => given OBVIOUS
 <2>5. attempts[a].slot \in S => given OBVIOUS
 <2> HIDE DEF given
 <2> QED BY <2>1, <2>2, <2>3, <2>4, <2>5 DEF SaveRow
<1>4. DOMAIN attempts' = DOMAIN attempts /\ attempts' = [a \in DOMAIN attempts' |-> attempts'[a]] BY DEF Waive
<1>5. SameSaves BY <1>3, <1>4, SavesReplaced
<1> QED BY <1>3, <1>5

\* The saves whose answers nobody will hear.
LEMMA SavesDeafened ==
  ASSUME DraftsInv, NEW w \in Windows, attempts' = Deafened(w)
  PROVE  SameSaves
<1>1. attempts \in [1 .. Len(attempts) -> SaveRow] /\ DOMAIN attempts = 1 .. Len(attempts)
  BY LenProperties DEF DraftsInv, DraftsShape
<1>2. \A a \in DOMAIN attempts : attempts'[a] = [attempts[a] EXCEPT !.heard = @ /\ attempts[a].window # w] BY DEF Deafened
<1>3. ASSUME NEW a \in DOMAIN attempts
      PROVE  /\ attempts'[a] \in SaveRow
             /\ attempts'[a].stage = attempts[a].stage /\ attempts'[a].slot = attempts[a].slot /\ attempts'[a].text = attempts[a].text
             /\ (attempts'[a].heard => attempts[a].heard) /\ (attempts[a].waived => attempts'[a].waived)
 <2>1. attempts[a] \in SaveRow BY <1>1
 <2> DEFINE hears == (attempts[a].heard /\ attempts[a].window # w)
 <2>2. hears \in BOOLEAN BY <2>1 DEF SaveRow
 <2>3. attempts'[a] = [attempts[a] EXCEPT !.heard = hears] BY <1>2
 <2>4. hears => attempts[a].heard OBVIOUS
 <2> HIDE DEF hears
 <2> QED BY <2>1, <2>2, <2>3, <2>4 DEF SaveRow
<1>4. DOMAIN attempts' = DOMAIN attempts /\ attempts' = [a \in DOMAIN attempts' |-> attempts'[a]] BY DEF Deafened
<1> QED BY <1>3, <1>4, SavesReplaced

-----------------------------------------------------------------------------
(* Drafts: typing, checkpoints, discarding and leaving.                    *)

\* A window's editor moves; nothing is written.
LEMMA FormAlone ==
  ASSUME DraftsInv, NEW w \in Windows, NEW form \in FormRow, forms' = [forms EXCEPT ![w] = form],
         UNCHANGED <<drafts, attempts, flushes, offers, owners, cookie>>,
         slotsMinted' \in 0 .. MaxSlots, gone' \subseteq gone,
         form = NoForm \/ form.slot \in Slots,
         form.last = 0 \/ (form.last = forms[w].last /\ form.slot = forms[w].slot),
         form.slot \in gone' => AsSaved(form)
  PROVE  DraftsInv' /\ ~Answers
<1>1. SameSaves BY SavesLeft
<1>2. \A s \in Slots : Lawful(s, drafts'[s]) BY DEF Lawful
<1>3. /\ drafts' \in [Slots -> DraftRow \cup {NoDraft}] /\ flushes' \subseteq Flush
      /\ offers' \in [Windows -> [Slots -> DraftTexts \cup {NoText}]]
      /\ owners' \in [Windows -> Accounts \cup {Nobody}] /\ cookie' \in Accounts \cup {Nobody} BY WindowTyped
<1>4. gone' \subseteq Slots BY WindowTyped
<1>5. \A s \in gone' :
        /\ drafts'[s] = NoDraft /\ (form.slot = s => AsSaved(form))
        /\ \A v \in Windows \ {w} : forms[v].slot = s => AsSaved(forms[v])
        /\ \A f \in flushes' : f.slot = s => ~f.live BY DEF DraftsInv, StaysEmpty
<1> QED BY <1>1, <1>2, <1>3, <1>4, <1>5, LawfulStep

\* Opening, editing and typing.
LEMMA TypingKeeps ==
  ASSUME DraftsInv, NEW w \in Windows,
         (\E new \in BOOLEAN : OpenForm(w, new)) \/ StartEdit(w) \/ (\E text \in DraftTexts : Type(w, text))
  PROVE  DraftsInv' /\ ~Answers
<1>0. /\ forms[w] \in FormRow /\ slotsMinted \in 0 .. MaxSlots /\ slotsMinted \in Nat
      /\ gone \subseteq Slots /\ FormFits(forms[w])
      /\ forms[w].editing => forms[w] # NoForm
      /\ forms[w] # NoForm => forms[w].slot \in Slots
      /\ MaxSlots \in Nat /\ 0 \in DraftTexts BY WindowTyped, DraftNumbers
<1>1. ASSUME NEW new \in BOOLEAN, OpenForm(w, new) PROVE DraftsInv' /\ ~Answers
 <2> DEFINE form == [NoForm EXCEPT !.slot = slotsMinted + 1, !.new = new, !.editing = new]
 <2>1. /\ forms' = [forms EXCEPT ![w] = form] /\ slotsMinted' = slotsMinted + 1 /\ slotsMinted < MaxSlots
       /\ UNCHANGED <<drafts, attempts, flushes, offers, owners, cookie, gone>> BY <1>1 DEF OpenForm
 <2>2. form \in FormRow /\ form.slot = slotsMinted + 1 /\ form.last = 0 /\ form.text = 0 /\ form.base = 0
  <3>1. slotsMinted + 1 \in Nat /\ NoForm \in FormRow BY <1>0, NoFormIs
  <3>2. NoForm.last = 0 /\ NoForm.text = 0 /\ NoForm.base = 0 BY NoFormIs
  <3> QED BY <3>1, <3>2 DEF FormRow
 <2> HIDE DEF form
 <2>3. AsSaved(form) BY <2>2 DEF AsSaved
 <2>4. slotsMinted' \in 0 .. MaxSlots /\ form.slot \in Slots BY <1>0, <2>1, <2>2 DEF Slots
 <2> QED BY <2>1, <2>2, <2>3, <2>4, FormAlone
<1>2. CASE StartEdit(w)
 <2> DEFINE form == [forms[w] EXCEPT !.editing = TRUE]
 <2>1. /\ forms' = [forms EXCEPT ![w] = form] /\ forms[w] # NoForm
       /\ UNCHANGED <<drafts, attempts, flushes, offers, owners, cookie, slotsMinted, gone>> BY <1>2 DEF StartEdit
 <2>2. /\ form \in FormRow /\ form.slot = forms[w].slot /\ form.last = forms[w].last /\ form.text = forms[w].text
       /\ form.base = forms[w].base BY <1>0 DEF FormRow
 <2>3. form.slot \in gone' => AsSaved(form) BY <2>1, <2>2 DEF DraftsInv, StaysEmpty, AsSaved
 <2> HIDE DEF form
 <2> QED BY <1>0, <2>1, <2>2, <2>3, FormAlone
<1>3. ASSUME NEW text \in DraftTexts, Type(w, text) PROVE DraftsInv' /\ ~Answers
 <2> DEFINE form == [forms[w] EXCEPT !.text = text]
 <2>1. /\ forms' = [forms EXCEPT ![w] = form] /\ forms[w] # NoForm /\ gone' = gone \ {forms[w].slot}
       /\ UNCHANGED <<drafts, attempts, flushes, offers, owners, cookie, slotsMinted>> BY <1>0, <1>3 DEF Type
 <2>2. form \in FormRow /\ form.slot = forms[w].slot /\ form.last = forms[w].last BY <1>0 DEF FormRow
 <2> HIDE DEF form
 <2>3. form.slot \notin gone' BY <2>1, <2>2
 <2> QED BY <1>0, <2>1, <2>2, <2>3, FormAlone
<1> QED BY <1>1, <1>2, <1>3

\* What holds of the slots that were emptied, in steps that empty no other.
LEMMA StillEmpty ==
  ASSUME DraftsInv, NEW s \in gone
  PROVE  /\ drafts[s] = NoDraft /\ (\A v \in Windows : forms[v].slot = s => AsSaved(forms[v]))
         /\ \A f \in flushes : f.slot = s => ~f.live
BY DEF DraftsInv, StaysEmpty

\* A checkpoint starts, or is written at once.
LEMMA PauseKeeps ==
  ASSUME DraftsInv, NEW w \in Windows, Pause(w) \/ LeaveForm(w)
  PROVE  DraftsInv' /\ ~Answers
<1> DEFINE form == forms'[w]
<1>0. /\ drafts' = FlushNow(drafts, w) /\ flushes' = flushes \cup FlushLater(w)
      /\ UNCHANGED <<attempts, offers, owners, cookie, slotsMinted, gone>>
      /\ forms' = [forms EXCEPT ![w] = NoForm] \/ forms' = forms BY DEF Pause, LeaveForm
<1>1. /\ forms \in [Windows -> FormRow] /\ FormFits(forms[w]) /\ NoForm \in FormRow /\ NoForm.last = 0 /\ NoForm.slot = 0
      /\ slotsMinted \in 0 .. MaxSlots /\ gone \subseteq Slots /\ flushes \subseteq Flush
      /\ offers \in [Windows -> [Slots -> DraftTexts \cup {NoText}]]
      /\ owners \in [Windows -> Accounts \cup {Nobody}] /\ cookie \in Accounts \cup {Nobody} BY NoFormIs, WindowTyped
<1>2. /\ drafts' \in [Slots -> DraftRow \cup {NoDraft}] /\ (\A s \in Slots : Lawful(s, drafts'[s]))
      /\ \A s \in gone : drafts'[s] = NoDraft BY <1>0, FlushedNow
<1>3. flushes' \subseteq Flush /\ \A f \in FlushLater(w) : f.slot \notin gone BY <1>0, <1>1, FlushedLater
<1>4. SameSaves BY <1>0, SavesLeft
<1>5. form \in {NoForm, forms[w]} /\ forms' = [forms EXCEPT ![w] = form] BY <1>0, <1>1
<1> HIDE DEF form
<1>6. /\ form \in FormRow /\ (form = NoForm \/ form.slot \in Slots)
      /\ form.last = 0 \/ (form.last = forms[w].last /\ form.slot = forms[w].slot) BY <1>1, <1>5 DEF FormFits
<1>7. \A s \in gone' :
        /\ drafts'[s] = NoDraft /\ (form.slot = s => AsSaved(form))
        /\ \A v \in Windows \ {w} : forms[v].slot = s => AsSaved(forms[v])
        /\ \A f \in flushes' : f.slot = s => ~f.live
 <2> TAKE s \in gone'
 <2>1. /\ drafts[s] = NoDraft /\ (\A v \in Windows : forms[v].slot = s => AsSaved(forms[v]))
       /\ \A f \in flushes : f.slot = s => ~f.live BY <1>0, StillEmpty
 <2>2. form.slot = s => AsSaved(form) BY <1>5, <2>1, NoFormIs
 <2> QED BY <1>0, <1>2, <1>3, <2>1, <2>2
<1>8. /\ offers' \in [Windows -> [Slots -> DraftTexts \cup {NoText}]]
      /\ owners' \in [Windows -> Accounts \cup {Nobody}] /\ cookie' \in Accounts \cup {Nobody}
      /\ slotsMinted' \in 0 .. MaxSlots /\ gone' \subseteq Slots BY <1>0, <1>1
<1> QED BY <1>2, <1>3, <1>4, <1>5, <1>6, <1>7, <1>8, LawfulStep

\* A checkpoint is encrypted: it lands if its slot was neither emptied nor saved.
LEMMA CheckpointedKeeps ==
  ASSUME DraftsInv, NEW f \in flushes, Checkpointed(f)
  PROVE  DraftsInv' /\ ~Answers
<1> DEFINE w == f.window
<1> DEFINE form == IF forms[w].slot = f.slot THEN [forms[w] EXCEPT !.cipher = f.text] ELSE forms[w]
<1>0. f \in Flush /\ w \in Windows /\ f.slot \in Slots /\ f.text \in DraftTexts /\ f.owner \in Accounts \cup {Nobody}
  BY DEF DraftsInv, DraftsShape, Flush
<1>1. /\ forms \in [Windows -> FormRow] /\ forms[w] \in FormRow /\ FormFits(forms[w])
      /\ slotsMinted \in 0 .. MaxSlots /\ gone \subseteq Slots /\ flushes \subseteq Flush
      /\ offers \in [Windows -> [Slots -> DraftTexts \cup {NoText}]]
      /\ owners \in [Windows -> Accounts \cup {Nobody}] /\ cookie \in Accounts \cup {Nobody}
      /\ drafts \in [Slots -> DraftRow \cup {NoDraft}]
      /\ forms[w] # NoForm => forms[w].slot \in Slots BY <1>0, WindowTyped
<1>2. /\ flushes' = flushes \ {f} /\ forms' = [forms EXCEPT ![w] = form]
      /\ drafts' = (IF f.live THEN Stored(drafts, w, f.slot, f.text, f.owner, {}) ELSE drafts)
      /\ UNCHANGED <<attempts, offers, owners, cookie, slotsMinted, gone>> BY <1>1 DEF Checkpointed, Lands
<1>3. SameSaves BY <1>2, SavesLeft
<1>4. /\ form \in FormRow /\ form.slot = forms[w].slot /\ form.last = forms[w].last /\ form.editing = forms[w].editing
      /\ form.text = forms[w].text /\ form.base = forms[w].base BY <1>0, <1>1 DEF FormRow
<1>5. form = NoForm \/ form.slot \in Slots
 <2>1. CASE forms[w] = NoForm
   BY <2>1, DraftNumbers, <1>0 DEF NoForm
 <2> QED BY <1>1, <1>4, <2>1
<1>6. /\ drafts' \in [Slots -> DraftRow \cup {NoDraft}] /\ (\A s \in Slots : Lawful(s, drafts'[s]))
      /\ \A s \in gone : drafts'[s] = NoDraft
 <2>1. \A s \in gone : drafts[s] = NoDraft /\ (f.slot = s => ~f.live) /\ s \in Slots BY <1>0, StillEmpty, WindowTyped
 <2>2. CASE f.live
   BY <1>0, <1>2, <2>2, StoredSlot, <2>1 DEF Lawful
 <2>3. CASE ~f.live BY <1>1, <1>2, <2>1, <2>3 DEF Lawful
 <2> QED BY <2>2, <2>3
<1> HIDE DEF form
<1>7. \A s \in gone' :
        /\ drafts'[s] = NoDraft /\ (form.slot = s => AsSaved(form))
        /\ \A v \in Windows \ {w} : forms[v].slot = s => AsSaved(forms[v])
        /\ \A g \in flushes' : g.slot = s => ~g.live
 <2> TAKE s \in gone'
 <2>1. /\ drafts[s] = NoDraft /\ (\A v \in Windows : forms[v].slot = s => AsSaved(forms[v]))
       /\ \A g \in flushes : g.slot = s => ~g.live BY <1>2, StillEmpty
 <2>2. form.slot = s => AsSaved(form) BY <1>0, <1>4, <2>1 DEF AsSaved
 <2> QED BY <1>2, <1>6, <2>1, <2>2
<1>8. flushes' \subseteq Flush /\ form.last = forms[w].last /\ form.slot = forms[w].slot BY <1>1, <1>2, <1>4
<1> HIDE DEF w
<1> QED BY <1>0, <1>1, <1>2, <1>3, <1>4, <1>5, <1>6, <1>7, <1>8, LawfulStep

\* The checkpoints of a new era are those there were, and none for its slot lands.
LEMMA NewEras ==
  ASSUME DraftsInv, NEW w \in Windows
  PROVE  /\ NewEra(w) \subseteq Flush
         /\ \A s \in Slots : (\A f \in flushes : f.slot = s => ~f.live \/ (f.window = w /\ s = forms[w].slot))
                               => \A f \in NewEra(w) : f.slot = s => ~f.live
<1>1. flushes \subseteq Flush BY WindowTyped
<1>2. ASSUME NEW g \in NewEra(w)
      PROVE  /\ g \in Flush
             /\ \E f \in flushes : f.slot = g.slot /\ f.window = g.window
                                   /\ (g.live => f.live /\ ~(f.window = w /\ f.slot = forms[w].slot))
 <2>1. PICK f \in flushes : g = IF f.window = w /\ f.slot = forms[w].slot THEN [f EXCEPT !.live = FALSE] ELSE f
   BY <1>2 DEF NewEra
 <2>2. f \in Flush BY <1>1
 <2> QED BY <2>1, <2>2 DEF Flush
<1> QED BY <1>2

\* An editor empties its slot: by Cancel, or as it closes on typing that was not saved.
LEMMA EmptyingKeeps ==
  ASSUME DraftsInv, NEW w \in Windows, NEW form \in FormRow, forms' = [forms EXCEPT ![w] = form], forms[w] # NoForm,
         form = NoForm \/ (form.slot = forms[w].slot /\ form.last = forms[w].last), AsSaved(form),
         drafts' = [drafts EXCEPT ![forms[w].slot] = NoDraft], flushes' = NewEra(w), gone' = Discards(w),
         attempts' = Waive({forms[w].slot}), UNCHANGED <<offers, owners, cookie, calls, slotsMinted>>
  PROVE  DraftsInv' /\ ~Answers
<1> DEFINE s0 == forms[w].slot
<1>0. /\ s0 \in Slots /\ slotsMinted \in 0 .. MaxSlots
      /\ gone \subseteq Slots /\ drafts \in [Slots -> DraftRow \cup {NoDraft}]
      /\ offers \in [Windows -> [Slots -> DraftTexts \cup {NoText}]]
      /\ owners \in [Windows -> Accounts \cup {Nobody}] /\ cookie \in Accounts \cup {Nobody} BY WindowTyped
<1>1. SameSaves /\ \A a \in DOMAIN attempts : attempts[a].slot = s0 => attempts'[a].waived BY SavesWaived
<1>2. drafts' \in [Slots -> DraftRow \cup {NoDraft}] /\ drafts'[s0] = NoDraft /\ \A r \in Slots : r # s0 => drafts'[r] = drafts[r]
  BY <1>0
<1>3. \A r \in Slots : Lawful(r, drafts'[r]) BY <1>1, <1>2 DEF Lawful
<1>4. gone' \in {gone, gone \cup {s0}} /\ (gone' # gone => OnlyHere(w)) BY DEF Discards
<1>5. flushes' \subseteq Flush BY NewEras
<1> HIDE DEF s0
<1>6. ASSUME NEW s \in gone'
      PROVE  /\ drafts'[s] = NoDraft /\ (form.slot = s => AsSaved(form))
             /\ \A v \in Windows \ {w} : forms[v].slot = s => AsSaved(forms[v])
             /\ \A f \in flushes' : f.slot = s => ~f.live
 <2>1. CASE s \in gone
   BY <2>1, StillEmpty, <1>0, NewEras, <1>2
 <2>2. CASE s = s0 /\ OnlyHere(w)
   BY <2>2, <1>0, NewEras, <1>2 DEF OnlyHere, s0
 <2> QED BY <1>4, <2>1, <2>2
<1>7. /\ offers' \in [Windows -> [Slots -> DraftTexts \cup {NoText}]]
      /\ owners' \in [Windows -> Accounts \cup {Nobody}] /\ cookie' \in Accounts \cup {Nobody}
      /\ slotsMinted' \in 0 .. MaxSlots /\ gone' \subseteq Slots BY <1>0, <1>4
<1>8. /\ form = NoForm \/ form.slot \in Slots
      /\ form.last = 0 \/ (form.last = forms[w].last /\ form.slot = forms[w].slot) BY <1>0, NoFormIs DEF s0
<1>9. \A s \in gone' :
        /\ drafts'[s] = NoDraft /\ (form.slot = s => AsSaved(form))
        /\ \A v \in Windows \ {w} : forms[v].slot = s => AsSaved(forms[v])
        /\ \A f \in flushes' : f.slot = s => ~f.live BY <1>6
<1>10. \A s \in Slots : Lawful(s, drafts'[s]) BY <1>3
<1>11. drafts' \in [Slots -> DraftRow \cup {NoDraft}] BY <1>2
<1>12. SameSaves BY <1>1
<1>13. form = NoForm \/ form.slot \in Slots BY <1>8
<1>14. form.last = 0 \/ (form.last = forms[w].last /\ form.slot = forms[w].slot) BY <1>8
<1>15. forms' = [forms EXCEPT ![w] = form] OBVIOUS
<1> QED BY <1>5, <1>7, <1>9, <1>10, <1>11, <1>12, <1>13, <1>14, <1>15, LawfulStep

\* Cancel, and closing an editor.
LEMMA LeavingKeeps ==
  ASSUME DraftsInv, NEW w \in Windows, Cancel(w) \/ CloseForm(w)
  PROVE  DraftsInv' /\ ~Answers
<1> DEFINE f == forms[w]
<1>0. f \in FormRow /\ (f.editing => f # NoForm) BY WindowTyped
<1>1. CASE Cancel(w)
 <2> DEFINE form == [f EXCEPT !.text = f.base, !.editing = FALSE, !.submitted = NoText]
 <2>1. form \in FormRow /\ form.slot = f.slot /\ form.last = f.last /\ form.text = form.base BY <1>0 DEF FormRow
 <2>2. forms' = [forms EXCEPT ![w] = form] BY <1>1 DEF Cancel
 <2> HIDE DEF form
 <2>3. AsSaved(form) BY <2>1 DEF AsSaved
 <2> QED BY <1>0, <1>1, <2>1, <2>2, <2>3, EmptyingKeeps DEF Cancel
<1>2. CASE CloseForm(w)
 <2>1. CASE Dirty(f) BY <1>2, <2>1, NoFormIs, EmptyingKeeps DEF CloseForm
 <2>2. CASE ~Dirty(f)
   BY <1>2, <2>2, NoFormIs, WindowTyped, FormAlone DEF CloseForm
 <2> QED BY <2>1, <2>2
<1> QED BY <1>1, <1>2

-----------------------------------------------------------------------------
(* Drafts: toasts, sessions and pages.                                     *)

\* What holds of every slot that was emptied, when no editor but one's moves.
LEMMA OthersStay ==
  ASSUME DraftsInv, NEW w \in Windows, gone' \subseteq gone, flushes' \subseteq flushes, NEW form,
         \A s \in gone' : form.slot = s => AsSaved(form), \A s \in gone' : drafts'[s] = NoDraft
  PROVE  /\ \A s \in gone' :
              /\ drafts'[s] = NoDraft /\ (form.slot = s => AsSaved(form))
              /\ \A v \in Windows \ {w} : forms[v].slot = s => AsSaved(forms[v])
              /\ \A f \in flushes' : f.slot = s => ~f.live
         /\ flushes' \subseteq Flush /\ gone' \subseteq Slots
BY StillEmpty, WindowTyped

\* The toasts of a window are shown anew.
LEMMA LookKeeps ==
  ASSUME DraftsInv, NEW w \in Windows, Look(w)
  PROVE  DraftsInv' /\ ~Answers
<1>0. /\ offers' = [offers EXCEPT ![w] = Refreshed(w, drafts)] /\ drafts' = Shown(w, drafts)
      /\ UNCHANGED <<forms, attempts, flushes, owners, cookie, slotsMinted, gone>> BY DEF Look
<1>1. /\ forms \in [Windows -> FormRow] /\ forms[w] \in FormRow /\ FormFits(forms[w])
      /\ slotsMinted \in 0 .. MaxSlots
      /\ offers \in [Windows -> [Slots -> DraftTexts \cup {NoText}]]
      /\ owners \in [Windows -> Accounts \cup {Nobody}] /\ cookie \in Accounts \cup {Nobody}
      /\ drafts \in [Slots -> DraftRow \cup {NoDraft}] /\ gone \subseteq Slots BY WindowTyped
<1>2. ASSUME NEW s \in Slots, s \in Recoverable(w, drafts)
      PROVE  /\ drafts[s] \in DraftRow /\ drafts[s].text \in DraftTexts /\ drafts[s] # NoDraft
             /\ [drafts[s] EXCEPT !.same = @ \cup {w}] \in DraftRow
             /\ Lawful(s, [drafts[s] EXCEPT !.same = @ \cup {w}])
 <2>1. drafts[s] \in DraftRow /\ drafts[s] # NoDraft BY <1>1, <1>2 DEF Recoverable
 <2> DEFINE draft == [drafts[s] EXCEPT !.same = @ \cup {w}]
 <2>2. draft \in DraftRow /\ draft.text = drafts[s].text /\ draft.same = drafts[s].same \cup {w} /\ drafts[s].text \in DraftTexts
   BY <2>1 DEF DraftRow
 <2> HIDE DEF draft
 <2> QED BY <2>1, <2>2 DEF Lawful, draft
<1>3. \A s \in Slots : drafts'[s] = IF s \in Recoverable(w, drafts) THEN [drafts[s] EXCEPT !.same = @ \cup {w}] ELSE drafts[s]
  BY <1>0 DEF Shown
<1>4. \A s \in Slots : Lawful(s, drafts'[s]) /\ drafts'[s] \in DraftRow \cup {NoDraft}
 <2> TAKE s \in Slots
 <2>1. CASE s \in Recoverable(w, drafts) BY <1>2, <1>3, <2>1
 <2>2. CASE s \notin Recoverable(w, drafts) BY <1>1, <1>3, <2>2 DEF Lawful
 <2> QED BY <2>1, <2>2
<1>5. drafts' \in [Slots -> DraftRow \cup {NoDraft}] BY <1>0, <1>4 DEF Shown
<1>6. offers' \in [Windows -> [Slots -> DraftTexts \cup {NoText}]]
 <2>1. Refreshed(w, drafts) \in [Slots -> DraftTexts \cup {NoText}]
  <3>1. \A s \in Slots : offers[w][s] \in DraftTexts \cup {NoText} BY <1>1
  <3>2. \A s \in Slots : (IF s \in Recoverable(w, drafts) THEN drafts[s].text
                         ELSE IF drafts[s] = NoDraft THEN NoText ELSE offers[w][s]) \in DraftTexts \cup {NoText} BY <1>2, <3>1
  <3> QED BY <3>2 DEF Refreshed
 <2> HIDE DEF Refreshed
 <2> QED BY <1>0, <1>1, <2>1
<1>7. SameSaves BY <1>0, SavesLeft
<1>8. \A s \in gone : drafts'[s] = NoDraft BY <1>1, <1>3, StillEmpty DEF Recoverable
<1>9. /\ \A s \in gone' :
           /\ drafts'[s] = NoDraft /\ (forms[w].slot = s => AsSaved(forms[w]))
           /\ \A v \in Windows \ {w} : forms[v].slot = s => AsSaved(forms[v])
           /\ \A f \in flushes' : f.slot = s => ~f.live
      /\ flushes' \subseteq Flush /\ gone' \subseteq Slots BY <1>0, <1>8, StillEmpty, OthersStay
<1>10. forms' = [forms EXCEPT ![w] = forms[w]] /\ (forms[w] = NoForm \/ forms[w].slot \in Slots) BY <1>0, <1>1 DEF FormFits
<1>11. /\ owners' \in [Windows -> Accounts \cup {Nobody}] /\ cookie' \in Accounts \cup {Nobody}
       /\ slotsMinted' \in 0 .. MaxSlots BY <1>0, <1>1
<1>12. \A s \in Slots : Lawful(s, drafts'[s]) BY <1>4
<1>13. forms[w].last = 0 \/ (forms[w].last = forms[w].last /\ forms[w].slot = forms[w].slot) OBVIOUS
<1> QED BY <1>1, <1>5, <1>6, <1>7, <1>9, <1>10, <1>11, <1>12, <1>13, LawfulStep

\* A step that empties no slot anew.
LEMMA LawfulKeeps ==
  ASSUME DraftsInv, NEW w \in Windows, NEW form \in FormRow, forms' = [forms EXCEPT ![w] = form],
         SameSaves, \A s \in Slots : Lawful(s, drafts'[s]), drafts' \in [Slots -> DraftRow \cup {NoDraft}],
         flushes' \subseteq flushes \cup FlushLater(w), offers' \in [Windows -> [Slots -> DraftTexts \cup {NoText}]],
         owners' \in [Windows -> Accounts \cup {Nobody}], cookie' \in Accounts \cup {Nobody},
         slotsMinted' = slotsMinted, gone' \subseteq gone, form = NoForm \/ form.slot \in Slots,
         form.last = 0 \/ (form.last = forms[w].last /\ form.slot = forms[w].slot),
         \A s \in gone' : drafts'[s] = NoDraft /\ (form.slot = s => AsSaved(form))
  PROVE  DraftsInv' /\ ~Answers
<1>1. /\ slotsMinted' \in 0 .. MaxSlots /\ gone' \subseteq Slots /\ flushes \subseteq Flush BY WindowTyped
<1>2. flushes' \subseteq Flush /\ \A f \in FlushLater(w) : f.slot \notin gone BY <1>1, FlushedLater
<1>3. \A s \in gone' :
        /\ drafts'[s] = NoDraft /\ (form.slot = s => AsSaved(form))
        /\ \A v \in Windows \ {w} : forms[v].slot = s => AsSaved(forms[v])
        /\ \A f \in flushes' : f.slot = s => ~f.live BY <1>2, StillEmpty
<1> QED BY <1>1, <1>2, <1>3, LawfulStep

\* Continue in a toast.
LEMMA ContinueKeeps ==
  ASSUME DraftsInv, NEW w \in Windows, NEW s \in Slots, Continue(w, s)
  PROVE  DraftsInv' /\ ~Answers
<1> DEFINE found == drafts[s] # NoDraft /\ drafts[s].owner = owners[w]
<1> DEFINE text == IF found THEN drafts[s].text ELSE offers[w][s]
<1> DEFINE new == [text |-> text, owner |-> owners[w], clear |-> TRUE, same |-> {}]
<1> DEFINE form == [NoForm EXCEPT !.slot = s, !.new = TRUE, !.text = text, !.editing = TRUE]
<1>0. /\ offers[w][s] # NoText /\ drafts' = (IF found THEN drafts ELSE [drafts EXCEPT ![s] = new])
      /\ forms' = [forms EXCEPT ![w] = form] /\ offers' = [offers EXCEPT ![w][s] = NoText] /\ gone' = gone \ {s}
      /\ UNCHANGED <<attempts, flushes, owners, cookie, slotsMinted>> BY DEF Continue
<1>1. /\ drafts \in [Slots -> DraftRow \cup {NoDraft}] /\ offers \in [Windows -> [Slots -> DraftTexts \cup {NoText}]]
      /\ owners[w] \in Accounts \cup {Nobody} /\ owners \in [Windows -> Accounts \cup {Nobody}]
      /\ cookie \in Accounts \cup {Nobody} /\ gone \subseteq Slots BY WindowTyped
<1>2. text \in DraftTexts
 <2>1. offers[w][s] \in DraftTexts BY <1>0, <1>1
 <2>2. CASE found
   BY <1>1, <2>2 DEF DraftRow
 <2>3. CASE ~found BY <2>1, <2>3
 <2> QED BY <2>2, <2>3
<1> HIDE DEF text
<1>3. new \in DraftRow /\ new.same = {} BY <1>1, <1>2 DEF DraftRow
<1>4. form \in FormRow /\ form.slot = s /\ form.last = 0
  BY NoFormIs, DraftNumbers, <1>2 DEF FormRow
<1> HIDE DEF new, form, found
<1>5. drafts' \in [Slots -> DraftRow \cup {NoDraft}] /\ \A r \in Slots : Lawful(r, drafts'[r])
 <2>1. CASE found BY <1>0, <1>1, <2>1 DEF Lawful
 <2>2. CASE ~found BY <1>0, <1>1, <1>3, <2>2 DEF Lawful
 <2> QED BY <2>1, <2>2
<1>6. \A r \in gone' : drafts'[r] = NoDraft /\ form.slot # r
 <2> TAKE r \in gone'
 <2>1. r \in gone /\ r # s /\ drafts[r] = NoDraft BY <1>0, StillEmpty
 <2> QED BY <1>0, <1>1, <1>4, <2>1
<1>7. offers' \in [Windows -> [Slots -> DraftTexts \cup {NoText}]]
  BY <1>1, <1>0
<1>8. SameSaves BY <1>0, SavesLeft
<1>9. \A r \in gone' : drafts'[r] = NoDraft /\ (form.slot = r => AsSaved(form)) BY <1>6
<1>10. /\ owners' \in [Windows -> Accounts \cup {Nobody}] /\ cookie' \in Accounts \cup {Nobody} /\ slotsMinted' = slotsMinted
       /\ gone' \subseteq gone /\ flushes' \subseteq flushes \cup FlushLater(w) BY <1>0, <1>1
<1>11. form = NoForm \/ form.slot \in Slots BY <1>4
<1>12. form.last = 0 \/ (form.last = forms[w].last /\ form.slot = forms[w].slot) BY <1>4
<1>13. forms' = [forms EXCEPT ![w] = form] BY <1>0
<1> HIDE <1>0
<1> QED BY <1>4, <1>5, <1>7, <1>8, <1>9, <1>10, <1>11, <1>12, <1>13, LawfulKeeps

\* A step in which no editor moves, and no slot is typed in.
LEMMA DiskKeeps ==
  ASSUME DraftsInv, NEW w \in Windows, SameSaves, \A s \in Slots : Lawful(s, drafts'[s]),
         drafts' \in [Slots -> DraftRow \cup {NoDraft}], \A s \in gone : drafts'[s] = NoDraft,
         offers' \in [Windows -> [Slots -> DraftTexts \cup {NoText}]], cookie' \in Accounts \cup {Nobody},
         UNCHANGED <<forms, flushes, owners, slotsMinted, gone>>
  PROVE  DraftsInv' /\ ~Answers
<1>1. /\ forms[w] \in FormRow /\ forms \in [Windows -> FormRow] /\ FormFits(forms[w])
      /\ owners \in [Windows -> Accounts \cup {Nobody}] BY WindowTyped
<1>2. \A s \in gone' : drafts'[s] = NoDraft /\ (forms[w].slot = s => AsSaved(forms[w])) BY StillEmpty
<1>3. forms' = [forms EXCEPT ![w] = forms[w]] /\ (forms[w] = NoForm \/ forms[w].slot \in Slots) BY <1>1 DEF FormFits
<1>4. /\ owners' \in [Windows -> Accounts \cup {Nobody}] /\ slotsMinted' = slotsMinted
      /\ gone' \subseteq gone /\ flushes' \subseteq flushes \cup FlushLater(w) BY <1>1
<1>5. forms[w].last = 0 \/ (forms[w].last = forms[w].last /\ forms[w].slot = forms[w].slot) OBVIOUS
<1> QED BY <1>1, <1>2, <1>3, <1>4, <1>5, LawfulKeeps

\* Dismiss in a toast.
LEMMA DismissKeeps ==
  ASSUME DraftsInv, NEW w \in Windows, NEW s \in Slots, Dismiss(w, s)
  PROVE  DraftsInv' /\ ~Answers
<1>0. /\ drafts' = ClearIfSame(drafts, s, w) /\ offers' = [offers EXCEPT ![w][s] = NoText]
      /\ (IF w \in drafts[s].same THEN attempts' = Waive({s}) ELSE attempts' = attempts)
      /\ UNCHANGED <<forms, flushes, gone, owners, cookie, slotsMinted>> BY DEF Dismiss
<1>1. /\ drafts \in [Slots -> DraftRow \cup {NoDraft}] /\ offers \in [Windows -> [Slots -> DraftTexts \cup {NoText}]]
      /\ cookie \in Accounts \cup {Nobody} /\ gone \subseteq Slots BY WindowTyped
<1>2. offers' \in [Windows -> [Slots -> DraftTexts \cup {NoText}]]
  BY <1>1, <1>0
<1>3. CASE w \in drafts[s].same
 <2>1. attempts' = Waive({s}) /\ drafts' = [drafts EXCEPT ![s] = NoDraft] BY <1>0, <1>3 DEF ClearIfSame
 <2>2. SameSaves /\ \A a \in DOMAIN attempts : attempts[a].slot = s => attempts'[a].waived
   BY <2>1, SavesWaived
 <2>3. drafts' \in [Slots -> DraftRow \cup {NoDraft}] /\ \A r \in Slots : Lawful(r, drafts'[r]) BY <1>1, <2>1, <2>2 DEF Lawful
 <2>4. \A r \in gone : drafts'[r] = NoDraft BY <1>1, <2>1, StillEmpty
 <2>5. cookie' \in Accounts \cup {Nobody} /\ UNCHANGED <<forms, flushes, owners, slotsMinted, gone>> BY <1>0, <1>1
 <2> QED BY <1>2, <2>2, <2>3, <2>4, <2>5, DiskKeeps
<1>4. CASE w \notin drafts[s].same
 <2>1. attempts' = attempts /\ drafts' = drafts BY <1>0, <1>4 DEF ClearIfSame
 <2>2. SameSaves BY <2>1, SavesLeft
 <2>3. drafts' \in [Slots -> DraftRow \cup {NoDraft}] /\ \A r \in Slots : Lawful(r, drafts'[r]) BY <1>1, <2>1 DEF Lawful
 <2>4. \A r \in gone : drafts'[r] = NoDraft BY <2>1, StillEmpty
 <2>5. cookie' \in Accounts \cup {Nobody} /\ UNCHANGED <<forms, flushes, owners, slotsMinted, gone>> BY <1>0, <1>1
 <2> QED BY <1>2, <2>2, <2>3, <2>4, <2>5, DiskKeeps
<1> QED BY <1>3, <1>4

\* Signing out, and hearing of it.
LEMMA SignedOutKeeps ==
  ASSUME DraftsInv, NEW w \in Windows, SignOutHere(w) \/ HearSignOut(w)
  PROVE  DraftsInv' /\ ~Answers
<1>0. /\ drafts' = [s \in Slots |-> NoDraft] /\ attempts' = Waive(Slots) /\ cookie' = Nobody
      /\ UNCHANGED <<forms, flushes, offers, owners, slotsMinted, gone>> BY DEF SignOutHere, HearSignOut, Cleared
<1>1. SameSaves /\ \A a \in DOMAIN attempts : attempts[a].slot \in Slots => attempts'[a].waived BY <1>0, SavesWaived
<1>2. \A s \in Slots : Lawful(s, drafts'[s]) BY <1>0, <1>1 DEF Lawful
<1>3. /\ drafts' \in [Slots -> DraftRow \cup {NoDraft}] /\ (\A s \in gone : drafts'[s] = NoDraft)
      /\ offers' \in [Windows -> [Slots -> DraftTexts \cup {NoText}]] /\ cookie' \in Accounts \cup {Nobody} BY <1>0, WindowTyped
<1> QED BY <1>0, <1>1, <1>2, <1>3, DiskKeeps

\* A page learns who is signed in.
LEMMA LearnKeeps ==
  ASSUME DraftsInv, NEW w \in Windows, LearnAccount(w)
  PROVE  DraftsInv' /\ ~Answers
<1> DEFINE unmounts == forms[w] # NoForm /\ ~forms[w].new
<1> DEFINE left == IF unmounts THEN FlushNow(drafts, w) ELSE drafts
<1> DEFINE form == IF unmounts THEN NoForm ELSE forms[w]
<1>1. /\ forms[w] \in FormRow /\ forms \in [Windows -> FormRow] /\ FormFits(forms[w])
      /\ owners \in [Windows -> Accounts \cup {Nobody}] /\ cookie \in Accounts \cup {Nobody}
      /\ offers \in [Windows -> [Slots -> DraftTexts \cup {NoText}]]
      /\ drafts \in [Slots -> DraftRow \cup {NoDraft}] /\ gone \subseteq Slots BY WindowTyped
<1>0. /\ owners' = [owners EXCEPT ![w] = cookie]
      /\ drafts' = (IF cookie = Nobody THEN left ELSE Claimed(left, cookie))
      /\ forms' = [forms EXCEPT ![w] = form] /\ flushes' \subseteq flushes \cup FlushLater(w)
      /\ offers' = [offers EXCEPT ![w] = [s \in Slots |-> NoText]]
      /\ UNCHANGED <<attempts, cookie, slotsMinted, gone>> BY <1>1 DEF LearnAccount
<1>2. /\ left \in [Slots -> DraftRow \cup {NoDraft}] /\ (\A s \in Slots : Lawful(s, left[s]))
      /\ \A s \in gone : left[s] = NoDraft
 <2>1. CASE unmounts BY <2>1, FlushedNow
 <2>2. CASE ~unmounts BY <1>1, <2>2, StillEmpty DEF Lawful
 <2> QED BY <2>1, <2>2
<1>3. /\ form \in FormRow /\ (form = NoForm \/ form.slot \in Slots)
      /\ form.last = 0 \/ (form.last = forms[w].last /\ form.slot = forms[w].slot)
      /\ \A s \in gone : form.slot = s => AsSaved(form) BY <1>1, NoFormIs, StillEmpty DEF FormFits
<1> HIDE DEF left, form, unmounts
<1>4. ASSUME cookie # Nobody, NEW s \in Slots
      PROVE  drafts'[s] \in DraftRow \cup {NoDraft} /\ Lawful(s, drafts'[s]) /\ (s \in gone => drafts'[s] = NoDraft)
 <2>0. drafts'[s] = IF left[s] # NoDraft /\ left[s].owner = Nobody THEN [left[s] EXCEPT !.owner = cookie, !.same = {}] ELSE left[s]
   BY <1>0, <1>4 DEF Claimed
 <2>1. CASE left[s] # NoDraft /\ left[s].owner = Nobody
  <3>1. left[s] \in DraftRow /\ s \notin gone BY <1>2, <2>1
  <3> DEFINE entry == [left[s] EXCEPT !.owner = cookie, !.same = {}]
  <3>2. entry \in DraftRow /\ entry.same = {} BY <1>1, <3>1 DEF DraftRow
  <3>3. drafts'[s] = entry BY <2>0, <2>1
  <3> HIDE DEF entry
  <3> QED BY <3>1, <3>2, <3>3 DEF Lawful
 <2>2. CASE ~(left[s] # NoDraft /\ left[s].owner = Nobody) BY <1>2, <2>0, <2>2
 <2> QED BY <2>1, <2>2
<1>5. /\ drafts' \in [Slots -> DraftRow \cup {NoDraft}] /\ (\A s \in Slots : Lawful(s, drafts'[s]))
      /\ \A s \in gone : drafts'[s] = NoDraft
 <2>1. CASE cookie = Nobody BY <1>0, <1>2, <2>1
 <2>2. CASE cookie # Nobody
   BY <1>0, <2>2, <1>1, <1>4 DEF Claimed
 <2> QED BY <2>1, <2>2
<1>6. SameSaves BY <1>0, SavesLeft
<1>7. /\ owners' \in [Windows -> Accounts \cup {Nobody}] /\ cookie' \in Accounts \cup {Nobody}
      /\ offers' \in [Windows -> [Slots -> DraftTexts \cup {NoText}]] BY <1>0, <1>1
<1>8. \A s \in gone' : drafts'[s] = NoDraft /\ (form.slot = s => AsSaved(form)) BY <1>0, <1>3, <1>5
<1>9. gone' \subseteq gone /\ slotsMinted' = slotsMinted /\ forms' = [forms EXCEPT ![w] = form] BY <1>0
<1> QED BY <1>0, <1>3, <1>5, <1>6, <1>7, <1>8, <1>9, LawfulKeeps

\* A page is closed and opened again.
LEMMA ReloadKeeps ==
  ASSUME DraftsInv, NEW w \in Windows, Reload(w)
  PROVE  DraftsInv' /\ ~Answers
<1>0. /\ drafts' = FlushNow(drafts, w) /\ forms' = [forms EXCEPT ![w] = NoForm] /\ attempts' = Deafened(w)
      /\ flushes' \subseteq flushes /\ offers' = [offers EXCEPT ![w] = [s \in Slots |-> NoText]]
      /\ owners' = [owners EXCEPT ![w] = cookie] /\ UNCHANGED <<cookie, slotsMinted, gone>> BY DEF Reload
<1>1. /\ owners \in [Windows -> Accounts \cup {Nobody}] /\ cookie \in Accounts \cup {Nobody}
      /\ offers \in [Windows -> [Slots -> DraftTexts \cup {NoText}]] BY WindowTyped
<1>2. /\ drafts' \in [Slots -> DraftRow \cup {NoDraft}] /\ (\A s \in Slots : Lawful(s, drafts'[s]))
      /\ \A s \in gone : drafts'[s] = NoDraft BY <1>0, FlushedNow
<1>3. SameSaves BY <1>0, SavesDeafened
<1>4. /\ owners' \in [Windows -> Accounts \cup {Nobody}] /\ cookie' \in Accounts \cup {Nobody}
      /\ offers' \in [Windows -> [Slots -> DraftTexts \cup {NoText}]] BY <1>0, <1>1
<1>5. /\ NoForm \in FormRow /\ NoForm.last = 0
      /\ \A s \in gone' : drafts'[s] = NoDraft /\ (NoForm.slot = s => AsSaved(NoForm)) BY <1>0, <1>2, NoFormIs
<1>6. gone' \subseteq gone /\ slotsMinted' = slotsMinted /\ flushes' \subseteq flushes \cup FlushLater(w) BY <1>0
<1>7. NoForm = NoForm \/ NoForm.slot \in Slots OBVIOUS
<1>8. NoForm.last = 0 \/ (NoForm.last = forms[w].last /\ NoForm.slot = forms[w].slot) BY <1>5
<1>9. forms' = [forms EXCEPT ![w] = NoForm] BY <1>0
<1> HIDE <1>0
<1> QED BY <1>2, <1>3, <1>4, <1>5, <1>6, <1>7, <1>8, <1>9, LawfulKeeps

\* Nothing but the cookie changes, or nothing at all.
LEMMA CookieKeeps ==
  ASSUME DraftsInv, cookie' \in Accounts \cup {Nobody}, UNCHANGED <<drafts, forms, attempts, flushes, offers, owners, slotsMinted, gone>>
  PROVE  DraftsInv' /\ ~Answers
<1>1. DraftsShape' BY DEF DraftsInv, DraftsShape
<1>2. (\A w \in Windows : FormFits(forms[w]))' /\ (\A s \in Slots : RepeatsLast(s, drafts[s]))'
  BY DEF DraftsInv, FormFits, RepeatsLast
<1>3. (\A s \in gone : StaysEmpty(s))' BY DEF DraftsInv, StaysEmpty
<1>4. UnansweredSaveIsOnDisk' /\ ~Answers BY DEF DraftsInv, UnansweredSaveIsOnDisk, Answers
<1> QED BY <1>1, <1>2, <1>3, <1>4 DEF DraftsInv

-----------------------------------------------------------------------------
(* Drafts: saves and their answers.                                        *)

\* A save is asked for: the slot repeats it, and it is the last of its slot.
LEMMA SavingKeeps ==
  ASSUME DraftsInv, NEW w \in Windows, NEW text \in DraftTexts, NEW form, forms[w] # NoForm,
         form = NoForm \/ form = Submits(forms[w], text), Saving(w, text, form)
  PROVE  DraftsInv' /\ ~Answers
<1> DEFINE a == Len(attempts) + 1
<1> DEFINE s0 == forms[w].slot
<1> DEFINE entry == SaveAttempt(w, text)
<1>0. /\ a <= MaxTries /\ attempts' = Append(attempts, entry) /\ drafts' = Stored(drafts, w, s0, text, owners[w], {a})
      /\ flushes' = NewEra(w) /\ forms' = [forms EXCEPT ![w] = form] /\ gone' = gone \ {s0}
      /\ UNCHANGED <<offers, owners, cookie, slotsMinted>> BY DEF Saving
<1>1. /\ forms[w] \in FormRow /\ forms \in [Windows -> FormRow] /\ owners[w] \in Accounts \cup {Nobody} /\ s0 \in Slots
      /\ gone \subseteq Slots /\ owners \in [Windows -> Accounts \cup {Nobody}] /\ cookie \in Accounts \cup {Nobody}
      /\ offers \in [Windows -> [Slots -> DraftTexts \cup {NoText}]] /\ slotsMinted \in 0 .. MaxSlots BY WindowTyped
<1>2. attempts \in Seq(SaveRow) /\ Len(attempts) \in Nat /\ DOMAIN attempts = 1 .. Len(attempts)
  BY LenProperties DEF DraftsInv, DraftsShape
<1>3. entry \in SaveRow /\ entry.slot = s0 /\ entry.text = text BY <1>1 DEF SaveAttempt, SaveRow, FormRow
<1> HIDE DEF entry
<1>4. /\ attempts' \in Seq(SaveRow) /\ Len(attempts') = a /\ DOMAIN attempts' = 1 .. a /\ attempts'[a] = entry
      /\ \A b \in DOMAIN attempts : attempts'[b] = attempts[b] BY <1>0, <1>2, <1>3, AppendProperties
<1>5. /\ a \in Nat /\ a \in DOMAIN attempts' /\ DOMAIN attempts \subseteq DOMAIN attempts'
      /\ \A b \in DOMAIN attempts' : b = a \/ (b \in DOMAIN attempts /\ b < a)
      /\ \A b \in DOMAIN attempts : b \in DOMAIN attempts' /\ a > b
      /\ \A b \in DOMAIN attempts' : ~(b > a)
      /\ a # 0 BY <1>2, <1>4
<1>6. /\ drafts' \in [Slots -> DraftRow \cup {NoDraft}] /\ (\A r \in Slots : r # s0 => drafts'[r] = drafts[r])
      /\ drafts'[s0] \in DraftRow /\ drafts'[s0].same = {a} /\ drafts'[s0].text = text
 <2> DEFINE by == {a}
 <2>1. by \in SUBSET (Nat \cup Windows) BY <1>5
 <2> DEFINE owner == owners[w]
 <2>2. owner \in Accounts \cup {Nobody} /\ owner = owners[w] /\ drafts' = Stored(drafts, w, s0, text, owner, by) BY <1>0, <1>1
 <2> HIDE DEF a, s0, by, owner
 <2>3. /\ drafts' \in [Slots -> DraftRow \cup {NoDraft}] /\ (\A r \in Slots : r # s0 => drafts'[r] = drafts[r])
       /\ drafts'[s0] \in DraftRow /\ drafts'[s0].same = by /\ drafts'[s0].text = text BY <1>1, <2>1, <2>2, StoredSlot
 <2> QED BY <2>3 DEF by
<1>7. form \in FormRow /\ form.slot \in {0, s0} /\ (form = NoForm \/ form.slot \in Slots)
      /\ (form.last # 0 => form.last = a /\ form.slot = s0)
 <2>1. CASE form = NoForm BY <2>1, NoFormIs
 <2>2. CASE form = Submits(forms[w], text)
   BY <1>1, <1>5, <2>2 DEF Sealed, Submits, FormRow
 <2> QED BY <2>1, <2>2
<1> HIDE DEF a, s0
<1>8. DraftsShape'
  BY <1>0, <1>1, NewEras, <1>7, <1>4, <1>6 DEF DraftsShape
<1>9. ASSUME NEW v \in Windows PROVE FormFits(forms[v])'
 <2>1. CASE v = w
  <3>1. forms'[v] = form BY <1>0, <1>1, <2>1
  <3> QED BY <1>3, <1>4, <1>5, <1>7, <3>1 DEF FormFits
 <2>2. CASE v # w
   BY <1>0, <1>1, <2>2, <1>4, <1>5 DEF DraftsInv, FormFits
 <2> QED BY <2>1, <2>2
<1>10. ASSUME NEW s \in Slots PROVE RepeatsLast(s, drafts[s])'
 <2>1. CASE s = s0 BY <1>3, <1>4, <1>5, <1>6, <2>1 DEF RepeatsLast
 <2>2. CASE s # s0
  <3>1. drafts'[s] = drafts[s] /\ RepeatsLast(s, drafts[s]) BY <1>6, <2>2 DEF DraftsInv
  <3>2. ASSUME NEW b \in drafts[s].same \ Windows
        PROVE  /\ b \in DOMAIN attempts' /\ attempts'[b].slot = s /\ attempts'[b].text = drafts[s].text
               /\ \A c \in DOMAIN attempts' : c > b => attempts'[c].slot # s
    BY <3>1, <1>3, <1>4, <1>5, <2>2 DEF RepeatsLast
  <3> QED BY <3>1, <3>2 DEF RepeatsLast
 <2> QED BY <2>1, <2>2
<1>11. ASSUME NEW s \in gone' PROVE StaysEmpty(s)'
 <2>1. s \in gone /\ s # s0 /\ s \in Slots /\ s # 0 BY <1>0, <1>1, DraftNumbers
 <2>2. drafts'[s] = NoDraft BY <1>6, <2>1, StillEmpty
 <2>3. \A v \in Windows : forms'[v].slot = s => AsSaved(forms'[v])
  <3> SUFFICES ASSUME NEW v \in Windows, forms'[v].slot = s PROVE AsSaved(forms'[v]) OBVIOUS
  <3>1. v # w /\ forms'[v] = forms[v] BY <1>0, <1>1, <1>7, <2>1
  <3> QED BY <2>1, <3>1, StillEmpty
 <2>4. \A f \in flushes' : f.slot = s => ~f.live BY <1>0, <2>1, StillEmpty, NewEras
 <2>5. (\A v \in Windows : forms[v].slot = s => AsSaved(forms[v]))' BY <2>3 DEF AsSaved
 <2> QED BY <2>2, <2>4, <2>5 DEF StaysEmpty
<1>12. UnansweredSaveIsOnDisk'
 <2> SUFFICES ASSUME NEW b \in DOMAIN attempts', attempts'[b].stage = "asked", attempts'[b].heard, ~attempts'[b].waived,
                     \A c \in DOMAIN attempts' : c > b => attempts'[c].slot # attempts'[b].slot
              PROVE  drafts'[attempts'[b].slot] # NoDraft BY DEF UnansweredSaveIsOnDisk
 <2>1. CASE b = a BY <1>3, <1>4, <1>6, <2>1, NotNothing
 <2>2. CASE b # a
  <3>1. b \in DOMAIN attempts /\ attempts'[b] = attempts[b] /\ a > b BY <1>4, <1>5, <2>2
  <3>2. attempts[b].slot # s0 BY <1>3, <1>4, <1>5, <3>1
  <3>3. \A c \in DOMAIN attempts : c > b => attempts[c].slot # attempts[b].slot BY <1>4, <1>5, <3>1
  <3>4. drafts[attempts[b].slot] # NoDraft BY <3>1, <3>3 DEF DraftsInv, UnansweredSaveIsOnDisk
  <3>5. attempts[b].slot \in Slots
   <4>1. attempts[b] \in SaveRow BY <1>2, <3>1
   <4> QED BY <4>1 DEF SaveRow
  <3> QED BY <1>6, <3>1, <3>2, <3>4, <3>5
 <2> QED BY <2>1, <2>2
<1>13. ~Answers BY <1>4 DEF Answers
<1> QED BY <1>8, <1>9, <1>10, <1>11, <1>12, <1>13 DEF DraftsInv

\* Save, and a box ticked.
LEMMA SaveKeeps ==
  ASSUME DraftsInv, NEW w \in Windows, Save(w) \/ (\E text \in DraftTexts : Tick(w, text))
  PROVE  DraftsInv' /\ ~Answers
<1>1. forms[w] \in FormRow /\ (forms[w].editing => forms[w] # NoForm) BY WindowTyped
<1>2. CASE Save(w)
 <2> DEFINE form == IF forms[w].new THEN NoForm ELSE Submits(forms[w], forms[w].text)
 <2>1. forms[w] # NoForm /\ Saving(w, forms[w].text, form) BY <1>1, <1>2 DEF Save
 <2>2. forms[w].text \in DraftTexts /\ (form = NoForm \/ form = Submits(forms[w], forms[w].text)) BY <1>1 DEF FormRow
 <2> HIDE DEF form
 <2> QED BY <2>1, <2>2, SavingKeeps
<1>3. ASSUME NEW text \in DraftTexts, Tick(w, text) PROVE DraftsInv' /\ ~Answers
 <2> DEFINE form == Submits(forms[w], text)
 <2>1. forms[w] # NoForm /\ Saving(w, text, form) BY <1>3 DEF Tick
 <2>2. form = NoForm \/ form = Submits(forms[w], text) OBVIOUS
 <2> HIDE DEF form
 <2> QED BY <2>1, <2>2, SavingKeeps
<1> QED BY <1>2, <1>3

\* What an answer leaves of a slot: it empties a slot that repeats its save, or the
\* slot repeats it no more.
SlotAfter(a, s, draft) ==
  \/ draft = drafts[s] /\ (a \in drafts[s].same => attempts[a].slot # s)
  \/ draft = NoDraft /\ attempts[a].slot = s /\ a \in drafts[s].same
  \/ draft \in DraftRow /\ drafts[s] \in DraftRow /\ draft.text = drafts[s].text
       /\ draft.same \subseteq (drafts[s].same \ {a}) \cup Windows

\* A save is answered.
LEMMA SettledKeeps ==
  ASSUME DraftsInv, NEW a \in DOMAIN attempts, attempts[a].stage = "asked", Settles(a), NEW form \in FormRow,
         forms' = forms \/ (Listening(a) /\ forms' = [forms EXCEPT ![attempts[a].window] = form]),
         Listening(a) => form.slot = forms[attempts[a].window].slot /\ form.last = forms[attempts[a].window].last,
         drafts' \in [Slots -> DraftRow \cup {NoDraft}], \A s \in Slots : SlotAfter(a, s, drafts'[s]),
         offers' \in [Windows -> [Slots -> DraftTexts \cup {NoText}]], UNCHANGED <<flushes, owners, cookie, slotsMinted>>
  PROVE  /\ DraftsInv'
         /\ \A s \in Slots : (drafts[s] # NoDraft /\ drafts'[s] = NoDraft) =>
              \E b \in DOMAIN attempts :
                /\ attempts[b].stage # attempts'[b].stage
                /\ attempts[b].slot = s /\ attempts[b].text = drafts[s].text
<1> DEFINE t == attempts[a]
<1> DEFINE entry == [t EXCEPT !.stage = "settled", !.text = 0, !.new = FALSE, !.heard = FALSE, !.waived = FALSE]
<1>1. /\ attempts \in Seq(SaveRow) /\ attempts \in [1 .. Len(attempts) -> SaveRow] /\ DOMAIN attempts = 1 .. Len(attempts)
      /\ Len(attempts) \in Nat /\ Len(attempts) <= MaxTries /\ MaxTries \in Nat
  BY LenProperties, DraftNumbers DEF DraftsInv, DraftsShape
<1>2. t \in SaveRow /\ a \in Nat \ {0} /\ a \notin Windows
  BY <1>1, DraftNumbers
<1>3. entry \in SaveRow /\ entry.slot = t.slot /\ entry.window = t.window /\ entry.stage = "settled"
  BY <1>2, DraftNumbers DEF SaveRow
<1>4. attempts' = [attempts EXCEPT ![a] = entry] BY <1>1 DEF Settles
<1> HIDE DEF entry
<1>5. /\ attempts' \in Seq(SaveRow) /\ Len(attempts') = Len(attempts) /\ DOMAIN attempts' = DOMAIN attempts
      /\ attempts'[a] = entry /\ \A b \in DOMAIN attempts : b # a => attempts'[b] = attempts[b]
  BY <1>1, <1>3, <1>4, SameLength
<1>6. \A b \in DOMAIN attempts : attempts'[b].slot = attempts[b].slot BY <1>3, <1>5
<1>7. t.window \in Windows /\ t.slot \in Slots BY <1>2 DEF SaveRow
<1>8. forms \in [Windows -> FormRow] /\ gone \subseteq Slots BY <1>7, WindowTyped
<1>9. Listening(a) => forms[t.window].slot = t.slot /\ form.slot = t.slot /\ form.last = a
  BY <1>7, <1>2 DEF DraftsInv, FormFits, Listening
<1>10. gone' = (IF Listening(a) THEN gone \ {t.slot} ELSE gone) BY DEF Settles
<1>11. DraftsShape'
 <2>1. forms' \in [Windows -> FormRow] /\ gone' \subseteq Slots BY <1>7, <1>8, <1>10
 <2> QED BY <1>1, <1>5, <2>1 DEF DraftsShape, DraftsInv
<1>12. ASSUME NEW v \in Windows PROVE FormFits(forms[v])'
 <2>1. FormFits(forms[v]) BY DEF DraftsInv
 <2>2. CASE forms'[v] = forms[v] BY <1>5, <1>6, <2>1, <2>2 DEF FormFits
 <2>3. CASE forms'[v] # forms[v]
   BY <1>7, <1>8, <2>3, <1>5, <1>6, <1>9 DEF FormFits
 <2> QED BY <2>2, <2>3
<1>13. ASSUME NEW s \in Slots PROVE RepeatsLast(s, drafts[s])'
 <2>1. RepeatsLast(s, drafts[s]) /\ SlotAfter(a, s, drafts'[s]) BY DEF DraftsInv
 <2>2. CASE drafts'[s] = NoDraft BY <2>2, DraftNumbers DEF RepeatsLast
 <2>3. ASSUME drafts'[s] # NoDraft, NEW b \in drafts'[s].same \ Windows
       PROVE  /\ b \in DOMAIN attempts' /\ attempts'[b].slot = s /\ attempts'[b].text = drafts'[s].text
              /\ \A c \in DOMAIN attempts' : c > b => attempts'[c].slot # s
   BY <2>1, <2>3, <1>5, <1>6 DEF SlotAfter, RepeatsLast
 <2> QED BY <2>2, <2>3 DEF RepeatsLast
<1>14. ASSUME NEW s \in gone' PROVE StaysEmpty(s)'
 <2>1. s \in gone /\ s \in Slots /\ (Listening(a) => s # t.slot) BY <1>8, <1>10
 <2>2. drafts[s] = NoDraft /\ drafts[s].same = {} BY <2>1, StillEmpty, DraftNumbers
 <2>3. drafts'[s] = NoDraft BY <2>1, <2>2, DraftNumbers DEF SlotAfter
 <2>4. ASSUME NEW v \in Windows, forms'[v].slot = s PROVE AsSaved(forms'[v])
   BY <1>7, <1>8, <1>9, <2>1, <2>4, StillEmpty
 <2>5. \A f \in flushes' : f.slot = s => ~f.live BY <2>1, StillEmpty
 <2>6. (\A v \in Windows : forms[v].slot = s => AsSaved(forms[v]))' BY <2>4 DEF AsSaved
 <2> QED BY <2>3, <2>5, <2>6 DEF StaysEmpty
<1>15. UnansweredSaveIsOnDisk'
 <2> SUFFICES ASSUME NEW b \in DOMAIN attempts', attempts'[b].stage = "asked", attempts'[b].heard, ~attempts'[b].waived,
                     \A c \in DOMAIN attempts' : c > b => attempts'[c].slot # attempts'[b].slot
              PROVE  drafts'[attempts'[b].slot] # NoDraft BY DEF UnansweredSaveIsOnDisk
 <2>1. b # a /\ b \in DOMAIN attempts /\ attempts'[b] = attempts[b] BY <1>3, <1>5
 <2>2. \A c \in DOMAIN attempts : c > b => attempts[c].slot # attempts[b].slot BY <1>5, <1>6, <2>1
 <2>3. drafts[attempts[b].slot] # NoDraft BY <2>1, <2>2 DEF DraftsInv, UnansweredSaveIsOnDisk
 <2>4. attempts[b].slot \in Slots
   BY <1>1, <2>1 DEF SaveRow
 <2>5. ~(t.slot = attempts[b].slot /\ a \in drafts[attempts[b].slot].same)
  <3> SUFFICES ASSUME t.slot = attempts[b].slot, a \in drafts[attempts[b].slot].same PROVE FALSE OBVIOUS
  <3>1. \A c \in DOMAIN attempts : c > a => attempts[c].slot # attempts[b].slot BY <1>2, <2>4 DEF DraftsInv, RepeatsLast
  <3>2. ~(b > a) /\ ~(a > b) BY <2>1, <2>2, <3>1
  <3> QED BY <1>1, <2>1, <3>2
 <2>6. SlotAfter(a, attempts[b].slot, drafts'[attempts[b].slot]) BY <2>4
 <2> QED BY <2>1, <2>3, <2>5, <2>6, NotNothing DEF SlotAfter
<1>16. ASSUME NEW s \in Slots, drafts[s] # NoDraft, drafts'[s] = NoDraft
       PROVE  \E b \in DOMAIN attempts :
                /\ attempts[b].stage # attempts'[b].stage
                /\ attempts[b].slot = s /\ attempts[b].text = drafts[s].text
  BY <1>16, NotNothing, <1>2, <1>3, <1>5 DEF SlotAfter, DraftsInv, RepeatsLast
<1> QED BY <1>11, <1>12, <1>13, <1>14, <1>15, <1>16 DEF DraftsInv

\* A slot that is remembered by others than before, after an answer.
LEMMA SlotForgets ==
  ASSUME DraftsInv, NEW a \in DOMAIN attempts, NEW S, S \subseteq (drafts[attempts[a].slot].same \ {a}) \cup Windows,
         drafts[attempts[a].slot] = NoDraft => S = {}, drafts' = [drafts EXCEPT ![attempts[a].slot].same = S]
  PROVE  drafts' \in [Slots -> DraftRow \cup {NoDraft}] /\ \A s \in Slots : SlotAfter(a, s, drafts'[s])
<1> DEFINE s0 == attempts[a].slot
<1>1. attempts[a] \in SaveRow /\ a \in Nat BY LenProperties DEF DraftsInv, DraftsShape
<1>2. s0 \in Slots /\ drafts \in [Slots -> DraftRow \cup {NoDraft}] BY <1>1 DEF SaveRow, DraftsInv, DraftsShape
<1> DEFINE draft == [drafts[s0] EXCEPT !.same = S]
<1>3. drafts' = [drafts EXCEPT ![s0] = draft] OBVIOUS
<1>4. ASSUME NEW s \in Slots, s # s0 PROVE SlotAfter(a, s, drafts[s]) BY <1>4 DEF SlotAfter
<1>5. CASE drafts[s0] = NoDraft
 <2>1. draft = NoDraft /\ drafts[s0].same = {} BY <1>5, DraftNumbers DEF NoDraft
 <2> HIDE DEF draft
 <2>2. SlotAfter(a, s0, draft) BY <1>5, <2>1 DEF SlotAfter
 <2> HIDE DEF s0
 <2> QED BY <1>2, <1>3, <1>4, <1>5, <2>1, <2>2
<1>6. CASE drafts[s0] # NoDraft
 <2>1. drafts[s0] \in DraftRow BY <1>2, <1>6
 <2>2. drafts[s0].same \subseteq Nat \cup Windows BY <2>1 DEF DraftRow
 <2>3. S \in SUBSET (Nat \cup Windows) BY <2>2
 <2>4. draft \in DraftRow /\ draft.same = S /\ draft.text = drafts[s0].text BY <2>1, <2>3 DEF DraftRow
 <2> HIDE DEF draft
 <2>5. SlotAfter(a, s0, draft) BY <2>1, <2>4 DEF SlotAfter
 <2> HIDE DEF s0
 <2> QED BY <1>2, <1>3, <1>4, <2>4, <2>5
<1> QED BY <1>5, <1>6

\* A slot that is emptied by the answer of the save it repeats.
LEMMA SlotCleared ==
  ASSUME DraftsInv, NEW a \in DOMAIN attempts, drafts' = ClearIfSame(drafts, attempts[a].slot, a)
  PROVE  drafts' \in [Slots -> DraftRow \cup {NoDraft}] /\ \A s \in Slots : SlotAfter(a, s, drafts'[s])
<1> DEFINE s0 == attempts[a].slot
<1>1. attempts[a] \in SaveRow BY LenProperties DEF DraftsInv, DraftsShape
<1>2. s0 \in Slots /\ drafts \in [Slots -> DraftRow \cup {NoDraft}] BY <1>1 DEF SaveRow, DraftsInv, DraftsShape
<1>3. drafts' = IF a \in drafts[s0].same THEN [drafts EXCEPT ![s0] = NoDraft] ELSE drafts BY DEF ClearIfSame
<1> QED BY <1>2, <1>3 DEF SlotAfter

\* The form that asked, as an answer leaves it, and the saves' types.
LEMMA AskerTyped ==
  ASSUME DraftsInv, NEW a \in DOMAIN attempts
  PROVE  /\ attempts[a] \in SaveRow /\ attempts[a].window \in Windows /\ attempts[a].slot \in Slots
         /\ attempts[a].text \in DraftTexts /\ forms[attempts[a].window] \in FormRow
<1>1. attempts[a] \in SaveRow BY LenProperties DEF DraftsInv, DraftsShape
<1>2. attempts[a].window \in Windows /\ attempts[a].slot \in Slots BY <1>1 DEF SaveRow
<1>3. forms[attempts[a].window] \in FormRow BY <1>2, WindowTyped
<1> QED BY <1>1, <1>2, <1>3 DEF SaveRow

\* An answer that a save was made.
LEMMA SucceedsKeeps ==
  ASSUME DraftsInv, NEW a \in DOMAIN attempts, Succeeds(a)
  PROVE  /\ DraftsInv'
         /\ \A s \in Slots : (drafts[s] # NoDraft /\ drafts'[s] = NoDraft) =>
              \E b \in DOMAIN attempts :
                /\ attempts[b].stage # attempts'[b].stage
                /\ attempts[b].slot = s /\ attempts[b].text = drafts[s].text
<1> DEFINE w == attempts[a].window
<1> DEFINE form == [forms[w] EXCEPT !.base = attempts[a].text]
<1>1. /\ attempts[a].text \in DraftTexts /\ forms[w] \in FormRow /\ w \in Windows BY AskerTyped
<1>2. form \in FormRow /\ form.slot = forms[w].slot /\ form.last = forms[w].last BY <1>1 DEF FormRow
<1>3. /\ attempts[a].stage = "asked" /\ Settles(a) /\ UNCHANGED <<flushes, offers, owners, cookie, slotsMinted>>
      /\ forms' = forms \/ (Listening(a) /\ forms' = [forms EXCEPT ![w] = form])
      /\ drafts' = ClearIfSame(drafts, attempts[a].slot, a) \/ drafts' = Forgot(a) BY DEF Succeeds, Turn
<1>4. drafts' \in [Slots -> DraftRow \cup {NoDraft}] /\ \A s \in Slots : SlotAfter(a, s, drafts'[s])
 <2>1. CASE drafts' = ClearIfSame(drafts, attempts[a].slot, a) BY <2>1, SlotCleared
 <2>2. CASE drafts' = Forgot(a)
  <3> DEFINE S == drafts[attempts[a].slot].same \ {a}
  <3>1. drafts' = [drafts EXCEPT ![attempts[a].slot].same = S] BY <2>2 DEF Forgot
  <3>2. S \subseteq (drafts[attempts[a].slot].same \ {a}) \cup Windows /\ (drafts[attempts[a].slot] = NoDraft => S = {})
    BY DraftNumbers
  <3> HIDE DEF S
  <3> QED BY <3>1, <3>2, SlotForgets
 <2> QED BY <1>3, <2>1, <2>2
<1>5. offers' \in [Windows -> [Slots -> DraftTexts \cup {NoText}]] BY <1>1, <1>3, WindowTyped
<1> HIDE DEF form
<1> QED BY <1>2, <1>3, <1>4, <1>5, SettledKeeps

\* An answer that a save failed.
LEMMA FailsKeeps ==
  ASSUME DraftsInv, NEW a \in DOMAIN attempts, Fails(a)
  PROVE  /\ DraftsInv'
         /\ \A s \in Slots : (drafts[s] # NoDraft /\ drafts'[s] = NoDraft) =>
              \E b \in DOMAIN attempts :
                /\ attempts[b].stage # attempts'[b].stage
                /\ attempts[b].slot = s /\ attempts[b].text = drafts[s].text
<1> DEFINE w == attempts[a].window
<1> DEFINE s0 == attempts[a].slot
<1> DEFINE form == Reopens(forms[w], attempts[a].text)
<1>1. attempts[a].text \in DraftTexts /\ forms[w] \in FormRow /\ w \in Windows /\ s0 \in Slots BY AskerTyped
<1>2. form \in FormRow /\ form.slot = forms[w].slot /\ form.last = forms[w].last BY <1>1 DEF FormRow, Reopens
<1>3. /\ attempts[a].stage = "asked" /\ Settles(a) /\ UNCHANGED <<flushes, owners, cookie, slotsMinted>>
      /\ forms' = forms \/ (Listening(a) /\ forms' = [forms EXCEPT ![w] = form])
      /\ offers' = offers \/ offers' = [offers EXCEPT ![w][s0] = attempts[a].text] BY DEF Fails, Turn
<1>4. \/ drafts' = [drafts EXCEPT ![s0].same = @ \ {a}]
      \/ a \in drafts[s0].same /\ drafts' = [drafts EXCEPT ![s0].same = (@ \ {a}) \cup {w}]
      \/ drafts' = [drafts EXCEPT ![s0].same = @ \ {a, w}] BY DEF Fails, Forgot
<1>5. \E S : /\ drafts' = [drafts EXCEPT ![s0].same = S]
             /\ S \subseteq (drafts[s0].same \ {a}) \cup Windows /\ (drafts[s0] = NoDraft => S = {})
 <2>1. CASE drafts' = [drafts EXCEPT ![s0].same = @ \ {a}]
   BY <2>1, DraftNumbers
 <2>2. CASE a \in drafts[s0].same /\ drafts' = [drafts EXCEPT ![s0].same = (@ \ {a}) \cup {w}]
  <3>1. drafts' = [drafts EXCEPT ![s0].same = (drafts[s0].same \ {a}) \cup {w}] BY <2>2
  <3>2. drafts[s0] # NoDraft /\ (drafts[s0].same \ {a}) \cup {w} \subseteq (drafts[s0].same \ {a}) \cup Windows
    BY <1>1, <2>2, DraftNumbers
  <3> QED BY <3>1, <3>2
 <2>3. CASE drafts' = [drafts EXCEPT ![s0].same = @ \ {a, w}]
   BY <2>3, DraftNumbers
 <2> QED BY <1>4, <2>1, <2>2, <2>3
<1>6. drafts' \in [Slots -> DraftRow \cup {NoDraft}] /\ \A s \in Slots : SlotAfter(a, s, drafts'[s]) BY <1>5, SlotForgets
<1>7. offers' \in [Windows -> [Slots -> DraftTexts \cup {NoText}]]
 <2>1. offers \in [Windows -> [Slots -> DraftTexts \cup {NoText}]] BY <1>1, WindowTyped
 <2>2. CASE offers' = [offers EXCEPT ![w][s0] = attempts[a].text]
   BY <1>1, <2>1, <2>2
 <2> QED BY <1>3, <2>1, <2>2
<1> HIDE DEF form
<1> QED BY <1>2, <1>3, <1>6, <1>7, SettledKeeps

\* What an answer may empty, said of a step.
DraftsStep ==
  Answers => \A s \in Slots : (drafts[s] # NoDraft /\ drafts'[s] = NoDraft) =>
    \E a \in DOMAIN attempts :
      /\ attempts[a].stage # attempts'[a].stage
      /\ attempts[a].slot = s /\ attempts[a].text = drafts[s].text

\* Every step keeps the drafts sound.
LEMMA DraftsStaySound == DraftsInv /\ [DraftsNext]_draftVars => DraftsInv' /\ DraftsStep
<1> SUFFICES ASSUME DraftsInv, [DraftsNext]_draftVars PROVE DraftsInv' /\ DraftsStep OBVIOUS
<1>1. ASSUME NEW w \in Windows, EditorStep(w) PROVE DraftsInv' /\ ~Answers
  BY <1>1, TypingKeeps, SaveKeeps, PauseKeeps, LeavingKeeps DEF EditorStep
<1>2. ASSUME NEW w \in Windows, ToastStep(w) PROVE DraftsInv' /\ ~Answers
  BY <1>2, LookKeeps, ContinueKeeps, DismissKeeps DEF ToastStep
<1>3. ASSUME NEW f \in flushes, Checkpointed(f) PROVE DraftsInv' /\ ~Answers BY <1>3, CheckpointedKeeps
<1>4. CASE AnswerStep BY <1>4, SucceedsKeeps, FailsKeeps DEF AnswerStep, DraftsStep
<1>5. CASE SessionStep
 <2>1. ASSUME NEW w \in Windows, SignOutHere(w) \/ HearSignOut(w) PROVE DraftsInv' /\ ~Answers BY <2>1, SignedOutKeeps
 <2>2. ASSUME NEW w \in Windows, LearnAccount(w) PROVE DraftsInv' /\ ~Answers BY <2>2, LearnKeeps
 <2>3. ASSUME NEW w \in Windows, Reload(w) PROVE DraftsInv' /\ ~Answers BY <2>3, ReloadKeeps
 <2>4. CASE SessionEnds BY <2>4, CookieKeeps DEF SessionEnds, DraftsStep
 <2>5. ASSUME NEW u \in Accounts, SignInHere(u) PROVE DraftsInv' /\ ~Answers BY <2>5, CookieKeeps DEF SignInHere
 <2> QED BY <1>5, <2>1, <2>2, <2>3, <2>4, <2>5 DEF SessionStep, DraftsStep
<1>6. CASE UNCHANGED draftVars
  BY <1>6, CookieKeeps DEF draftVars, DraftsInv, DraftsShape, DraftsStep
<1>7. (\E w \in Windows : EditorStep(w) \/ ToastStep(w)) => DraftsInv' /\ ~Answers BY <1>1, <1>2
<1>8. (\E f \in flushes : Checkpointed(f)) => DraftsInv' /\ ~Answers BY <1>3
<1> QED BY <1>4, <1>5, <1>6, <1>7, <1>8 DEF DraftsNext, DraftsStep

\* What the user typed is neither lost before it is saved nor brought back after it was
\* thrown away (draft.ts, useDraftRecovery.ts).
THEOREM DraftsAreKeptSafe == DraftsSpec => DraftsAreSafe
<1>1. DraftsInv => UnansweredSaveIsOnDisk /\ DiscardedStaysDiscarded BY DEF DraftsInv, StaysEmpty, DiscardedStaysDiscarded
<1>2. DraftsInv /\ [DraftsNext]_draftVars => DraftsInv' BY DraftsStaySound
<1>3. DraftsInv /\ [DraftsNext]_draftVars =>
        [Answers => \A s \in Slots : (drafts[s] # NoDraft /\ drafts'[s] = NoDraft) =>
          \E a \in DOMAIN attempts :
              /\ attempts[a].stage # attempts'[a].stage
              /\ attempts[a].slot = s /\ attempts[a].text = drafts[s].text]_draftVars BY DraftsStaySound DEF DraftsStep
<1> QED BY DraftsStartSound, <1>1, <1>2, <1>3, PTL DEF DraftsSpec, DraftsAreSafe, AnswersEraseOnlyWhatIsSaved
=============================================================================
