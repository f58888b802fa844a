----------------------------- MODULE NoteLife_proofs -----------------------------
(***************************************************************************)
(* What becomes of a note: one that destroys itself, for any pages, hours, *)
(* deeds and lost requests, and one that is promoted, for any tabs, files, *)
(* saves and versions.                                                     *)
(***************************************************************************)
EXTENDS NoteLists, SelfDestruct, NotePromotion, SequenceTheorems, FiniteSetTheorems, WellFoundedInduction, TLAPS

-----------------------------------------------------------------------------
(* A note that destroys itself *)

\* What the fields of a note, its pages and the last deed can be.
DestructTypes ==
    /\ noteRow \in [exp : Moments, burn : BOOLEAN, deleted : Hours \cup {Never}, gone : BOOLEAN]
    /\ hour \in Hours /\ sweep \in Hours \cup {Never}
    /\ cards \in [Readers -> Card] /\ trashed \in [Readers -> Card]
    /\ modals \in [Readers -> Modal]
    /\ pending \in [Readers -> Seq(MetaWrite)]
    /\ deed \in [what : {"none", "read", "keep", "burn", "timer", "delete", "undo"}, page : {deed.page},
                 exp : Moments, ok : BOOLEAN, firm : BOOLEAN]
    /\ deed.what # "none" => deed.page \in Readers
    /\ sealed \in BOOLEAN /\ deeds \in 0 .. MaxDeeds

\* Nobody looks for rows of an hour to come, and an arming is of an hour gone by.
Dated ==
    /\ sweep # Never => sweep <= hour
    /\ \A p \in Readers : \A i \in 1 .. Len(pending[p]) :
         pending[p][i].kind = "arm" => pending[p][i].burn /\ pending[p][i].exp <= hour

\* Before the user does anything, nothing is asked for, and every modal that was
\* to burn still is.
Untouched ==
    deed.what = "none" =>
      /\ \A p \in Readers : pending[p] = <<>> /\ (modals[p].initial => modals[p].burn)
      /\ noteRow.deleted = Never
      /\ noteRow.burn => noteRow.exp = Never /\ ~noteRow.gone

\* Once the timer has run out nobody but the sweep takes the note.
InTime(rw, h) == rw.gone => rw.exp + Grace < h

\* What the writes of a page, ws, make of the row of a note, rw, at hour h.
Burning(ws, rw, h) ==
    IF ws = <<>> THEN rw.gone \/ rw.deleted # Never \/ (rw.exp # Never /\ rw.exp <= h) ELSE ws[Len(ws)].kind = "arm"
Chosen(ws, rw, h, d) ==
    IF ws = <<>>
    THEN rw.exp = d.exp /\ (rw.burn <=> d.what = "burn") /\ (rw.deleted = Never => InTime(rw, h))
    ELSE /\ ws[Len(ws)].kind = "choose" /\ ws[Len(ws)].exp = d.exp
         /\ ws[Len(ws)].burn <=> d.what = "burn"
ArmsFrom(ws, k) == \A i \in 1 .. Len(ws) : i >= k => ws[i].kind = "arm"
BroughtBack(ws, rw, h) ==
    \/ rw.deleted = Never /\ InTime(rw, h) /\ ArmsFrom(ws, 1)
    \/ \E k \in 1 .. Len(ws) : ws[k].kind = "restore" /\ ArmsFrom(ws, k + 1)

\* A firm deed is the last word, on its way or written.
Decided ==
    deed.ok /\ deed.firm /\ deed.what # "none" =>
      /\ \A q \in Readers \ {deed.page} : pending[q] = <<>> /\ ~ArmsYet(modals[q])
      /\ deed.what = "read" => Burning(pending[deed.page], noteRow, hour)
      /\ deed.what \in {"keep", "burn", "timer"} => ~ArmsYet(modals[deed.page]) /\ Chosen(pending[deed.page], noteRow, hour, deed)
      /\ deed.what \in {"keep", "burn"} => deed.exp = Never
      /\ deed.what = "undo" => BroughtBack(pending[deed.page], noteRow, hour)

\* What a modal showed after n of the writes it asked for: what the last of them
\* says, or what the row says if none of them says anything.
FitsRow(was, rw, armed) == was[2] = rw.burn /\ (was[1] = rw.exp \/ (armed /\ was = <<Never, TRUE>>))
FitsWrite(was, w, armed) == IF w.kind = "arm" THEN armed /\ was = <<Never, TRUE>> ELSE was = <<w.exp, w.burn>>
Silent(ws, k, n) == \A j \in k .. n : ws[j].kind = "restore"
Tells(ws, n, was, rw, armed) ==
    /\ Silent(ws, 1, n) => FitsRow(was, rw, armed)
    /\ \A k \in 1 .. n : ws[k].kind # "restore" /\ Silent(ws, k + 1, n) => FitsWrite(was, ws[k], armed)
Kept(w, armed, mount) ==
    /\ w.kind \in {"choose", "arm", "restore"}
    /\ w.kind = "choose" => w.mount = mount
    /\ w.kind = "arm" => armed /\ w.was = <<Never, TRUE>>
Tale(ws, said, rw, armed, mount) ==
    /\ \A i \in 1 .. Len(ws) : Kept(ws[i], armed, mount) /\ Tells(ws, i - 1, ws[i].was, rw, armed)
    /\ Tells(ws, Len(ws), said, rw, armed)
Told(m, ws, rw) == Tale(ws, <<m.exp, m.burn>>, rw, m.armed, m.mount)

\* A modal nobody went behind: only its own page has writes of the note under
\* way, and they tell what it shows.
Honest ==
    \A p \in Readers :
      modals[p].open /\ modals[p].candid =>
        /\ \A q \in Readers \ {p} : pending[q] = <<>>
        /\ Told(modals[p], pending[p], noteRow)

DestructInv == DestructTypes /\ Dated /\ Untouched /\ Decided /\ Honest

\* The first of a sequence of writes taken away, and one put at its end.
LEMMA FirstGone ==
  ASSUME NEW S, NEW s \in Seq(S), s # <<>>
  PROVE  /\ RemoveAt(s, 1) \in Seq(S)
         /\ Len(RemoveAt(s, 1)) = Len(s) - 1
         /\ \A i \in 1 .. Len(s) - 1 : RemoveAt(s, 1)[i] = s[i + 1]
         /\ Len(s) = 1 <=> RemoveAt(s, 1) = <<>>
<1>1. Len(s) \in Nat /\ Len(s) > 0 BY EmptySeq
<1>2. RemoveAt(s, 1) = SubSeq(s, 1, 0) \o SubSeq(s, 2, Len(s)) BY DEF RemoveAt
<1>3. SubSeq(s, 1, 0) = <<>> BY SubSeqEmpty
<1>4. Tail(s) \in Seq(S) /\ Len(Tail(s)) = Len(s) - 1 /\ (\A i \in 1 .. Len(s) - 1 : Tail(s)[i] = s[i + 1])
      /\ Tail(s) = SubSeq(s, 2, Len(s)) BY <1>1, HeadTailProperties, TailIsSubSeq
<1>5. RemoveAt(s, 1) = Tail(s) BY <1>2, <1>3, <1>4, ConcatEmptySeq
<1>6. Len(s) = 1 <=> Tail(s) = <<>> BY <1>1, <1>4, EmptySeq
<1> QED BY <1>4, <1>5, <1>6

\* A write asked for is the last.
LEMMA LastAsked ==
  ASSUME NEW S, NEW s \in Seq(S), NEW e \in S
  PROVE  /\ Append(s, e) \in Seq(S) /\ Append(s, e) # <<>>
         /\ Len(Append(s, e)) = Len(s) + 1 /\ Len(s) \in Nat
         /\ \A i \in 1 .. Len(s) : Append(s, e)[i] = s[i]
         /\ Append(s, e)[Len(s) + 1] = e BY AppendProperties, LenProperties

\* What writes told before one is asked for they tell after.
LEMMA TellsOn ==
  ASSUME NEW S, NEW ws \in Seq(S), NEW w \in S, NEW n \in 0 .. Len(ws), NEW was, NEW rw,
         NEW armed \in BOOLEAN, NEW later \in BOOLEAN, armed => later, Tells(ws, n, was, rw, armed)
  PROVE  Tells(Append(ws, w), n, was, rw, later)
<1> DEFINE long == Append(ws, w)
<1>1. Len(ws) \in Nat /\ \A i \in 1 .. n : long[i] = ws[i] BY LastAsked
<1> HIDE DEF long
<1>2. \A k \in 1 .. n + 1 : Silent(long, k, n) <=> Silent(ws, k, n) BY <1>1 DEF Silent
<1>3. FitsRow(was, rw, armed) => FitsRow(was, rw, later) BY Zenon DEF FitsRow
<1>4. \A v : FitsWrite(was, v, armed) => FitsWrite(was, v, later) BY Zenon DEF FitsWrite
<1>5. Silent(long, 1, n) => FitsRow(was, rw, later) BY <1>2, <1>1, <1>3 DEF Tells
<1>6. \A k \in 1 .. n : long[k].kind # "restore" /\ Silent(long, k + 1, n) => FitsWrite(was, long[k], later)
  BY <1>2, <1>1, <1>4 DEF Tells
<1> QED BY <1>5, <1>6 DEF Tells, long

\* One more write asked for, of which the modal shows what it says.
LEMMA TaleGrows ==
  ASSUME NEW S, NEW ws \in Seq(S), NEW w \in S, NEW said, NEW next, NEW rw,
         NEW armed \in BOOLEAN, NEW later \in BOOLEAN, NEW mount,
         armed => later, Tale(ws, said, rw, armed, mount),
         w.was = said, Kept(w, later, mount),
         IF w.kind = "restore" THEN next = said ELSE FitsWrite(next, w, later)
  PROVE  Tale(Append(ws, w), next, rw, later, mount)
<1> DEFINE long == Append(ws, w)
<1>1. Len(ws) \in Nat /\ Len(long) = Len(ws) + 1 /\ (\A i \in 1 .. Len(ws) : long[i] = ws[i]) /\ long[Len(ws) + 1] = w
  BY LastAsked
<1>2. \A i \in 1 .. Len(ws) : Tells(long, i - 1, long[i].was, rw, later)
 <2> TAKE i \in 1 .. Len(ws)
 <2>1. i - 1 \in 0 .. Len(ws) /\ Tells(ws, i - 1, ws[i].was, rw, armed) BY <1>1 DEF Tale
 <2> QED BY <2>1, <1>1, TellsOn
<1>3. Tells(long, Len(ws), said, rw, later)
  BY <1>1, TellsOn DEF Tale
<1>4. \A i \in 1 .. Len(ws) : Kept(long[i], later, mount) BY <1>1 DEF Tale, Kept
<1> HIDE DEF long
<1>5. Tells(long, Len(ws) + 1, next, rw, later)
 <2>1. CASE w.kind = "restore"
   BY <1>1, <2>1, <1>3 DEF Silent, Tells
 <2>2. CASE w.kind # "restore"
   BY <1>1, <2>2 DEF Silent, Tells
 <2> QED BY <2>1, <2>2
<1>6. \A i \in 1 .. Len(long) : Kept(long[i], later, mount) /\ Tells(long, i - 1, long[i].was, rw, later)
 <2> TAKE i \in 1 .. Len(long)
 <2>1. CASE i \in 1 .. Len(ws) BY <2>1, <1>2, <1>4
 <2>2. CASE i = Len(ws) + 1
   BY <2>2, <1>1, <1>3
 <2> QED BY <2>1, <2>2, <1>1
<1> QED BY <1>1, <1>5, <1>6 DEF Tale, long

\* A modal opened from what the server has.
LEMMA TaleBegins ==
  ASSUME NEW said, NEW rw, NEW armed, NEW mount, FitsRow(said, rw, armed)
  PROVE  Tale(<<>>, said, rw, armed, mount) BY DEF Tale, Tells, Silent

\* The server takes the first of them.
LEMMA TaleShrinks ==
  ASSUME NEW ws \in Seq(MetaWrite), ws # <<>>, NEW said, NEW rw, NEW written,
         NEW armed \in BOOLEAN, NEW mount, Tale(ws, said, rw, armed, mount),
         ws[1].kind \in {"choose", "arm"} => written.exp = ws[1].exp /\ written.burn = ws[1].burn,
         ws[1].kind = "restore" => written.exp = rw.exp /\ written.burn = rw.burn,
         ws[1].kind = "arm" => ws[1].burn
  PROVE  Tale(RemoveAt(ws, 1), said, written, armed, mount)
<1> DEFINE rest == RemoveAt(ws, 1)
<1>1. Len(ws) \in Nat /\ Len(ws) > 0 /\ Len(rest) = Len(ws) - 1 /\ \A i \in 1 .. Len(ws) - 1 : rest[i] = ws[i + 1]
  BY FirstGone, EmptySeq
<1> HIDE DEF rest
<1>2. Kept(ws[1], armed, mount) /\ ws[1] \in MetaWrite BY <1>1 DEF Tale
<1>3. ASSUME NEW n \in 0 .. Len(ws) - 1, NEW was, Tells(ws, n + 1, was, rw, armed)
      PROVE  Tells(rest, n, was, written, armed)
 <2>1. \A k \in 1 .. n + 1 : Silent(rest, k, n) <=> Silent(ws, k + 1, n + 1)
  <3> TAKE k \in 1 .. n + 1
  <3>1. \A j \in k .. n : rest[j] = ws[j + 1] BY <1>1
  <3>2. Silent(ws, k + 1, n + 1) => Silent(rest, k, n) BY <3>1 DEF Silent
  <3>3. ASSUME Silent(rest, k, n) PROVE Silent(ws, k + 1, n + 1)
   <4> SUFFICES ASSUME NEW j \in k + 1 .. n + 1 PROVE ws[j].kind = "restore" BY DEF Silent
   <4>1. j - 1 \in k .. n /\ ws[j] = rest[j - 1] BY <3>1
   <4> QED BY <4>1, <3>3 DEF Silent
  <3> QED BY <3>2, <3>3
 <2>2. Silent(rest, 1, n) => FitsRow(was, written, armed)
  <3> HAVE Silent(rest, 1, n)
  <3>1. Silent(ws, 2, n + 1) BY <2>1
  <3>2. CASE ws[1].kind = "restore"
   <4>1. Silent(ws, 1, n + 1) BY <3>1, <3>2 DEF Silent
   <4> QED BY <4>1, <1>3, <3>2 DEF Tells, FitsRow
  <3>3. CASE ws[1].kind # "restore"
   <4>1. FitsWrite(was, ws[1], armed) BY <3>1, <3>3, <1>3 DEF Tells
   <4>2. CASE ws[1].kind = "arm"
    <5>1. was = <<Never, TRUE>> /\ armed BY <4>1, <4>2 DEF FitsWrite
    <5>2. written.burn = TRUE BY <4>2, <1>2 DEF MetaWrite
    <5>3. was[2] = TRUE BY <5>1
    <5> QED BY <5>1, <5>2, <5>3 DEF FitsRow
   <4>3. CASE ws[1].kind = "choose"
    <5>1. was = <<ws[1].exp, ws[1].burn>> BY <4>1, <4>3 DEF FitsWrite
    <5>2. written.exp = ws[1].exp /\ written.burn = ws[1].burn BY <4>3
    <5>3. was[1] = ws[1].exp /\ was[2] = ws[1].burn BY <5>1
    <5> QED BY <5>2, <5>3 DEF FitsRow
   <4> QED BY <4>2, <4>3, <3>3, <1>2 DEF Kept
  <3> QED BY <3>2, <3>3
 <2>3. \A k \in 1 .. n : rest[k].kind # "restore" /\ Silent(rest, k + 1, n) => FitsWrite(was, rest[k], armed)
  <3> TAKE k \in 1 .. n
  <3>1. rest[k] = ws[k + 1] /\ k + 1 \in 1 .. n + 1 BY <1>1
  <3>2. Silent(rest, k + 1, n) => Silent(ws, (k + 1) + 1, n + 1) BY <2>1, <3>1
  <3> QED BY <3>1, <3>2, <1>3 DEF Tells
 <2> QED BY <2>2, <2>3 DEF Tells
<1>4. \A i \in 1 .. Len(rest) : Kept(rest[i], armed, mount) /\ Tells(rest, i - 1, rest[i].was, written, armed)
 <2> TAKE i \in 1 .. Len(rest)
 <2>1. rest[i] = ws[i + 1] /\ i + 1 \in 1 .. Len(ws) /\ i - 1 \in 0 .. Len(ws) - 1 /\ (i - 1) + 1 = (i + 1) - 1 BY <1>1
 <2>2. Kept(ws[i + 1], armed, mount) /\ Tells(ws, (i - 1) + 1, ws[i + 1].was, rw, armed) BY <2>1 DEF Tale
 <2> QED BY <2>1, <2>2, <1>3
<1>5. Tells(rest, Len(rest), said, written, armed)
  BY <1>1, <1>3 DEF Tale
<1> QED BY <1>4, <1>5 DEF Tale, rest

\* The only one of them is lost, and taken back: what the modal shows is what the row says.
LEMMA TaleTakenBack ==
  ASSUME NEW ws \in Seq(MetaWrite), Len(ws) = 1, NEW exp, NEW burn, NEW rw,
         NEW armed \in BOOLEAN, NEW mount, Tale(ws, <<exp, burn>>, rw, armed, mount)
  PROVE  /\ ws[1].kind = "choose" => ws[1].mount = mount /\ exp = ws[1].exp /\ burn = ws[1].burn /\ FitsRow(ws[1].was, rw, armed)
         /\ ws[1].kind # "choose" => FitsRow(<<exp, burn>>, rw, armed)
<1>1. ws[1] \in MetaWrite /\ Kept(ws[1], armed, mount) /\ Tells(ws, 0, ws[1].was, rw, armed) /\ Tells(ws, 1, <<exp, burn>>, rw, armed)
 <2>1. 1 \in 1 .. Len(ws) /\ 1 - 1 = 0 OBVIOUS
 <2>2. Kept(ws[1], armed, mount) /\ Tells(ws, 1 - 1, ws[1].was, rw, armed) BY <2>1 DEF Tale
 <2>3. Tells(ws, Len(ws), <<exp, burn>>, rw, armed) BY DEF Tale
 <2>4. ws[1] \in MetaWrite BY <2>1, ElementOfSeq
 <2> QED BY <2>1, <2>2, <2>3, <2>4
<1>2. Silent(ws, 1, 0) /\ Silent(ws, 2, 1) BY DEF Silent
<1>3. FitsRow(ws[1].was, rw, armed) BY <1>1, <1>2 DEF Tells
<1>4. ws[1].kind # "restore" => FitsWrite(<<exp, burn>>, ws[1], armed) BY <1>1, <1>2 DEF Tells
<1>5. CASE ws[1].kind = "choose" BY <1>5, <1>1, <1>3, <1>4 DEF Kept, FitsWrite
<1>6. CASE ws[1].kind = "arm" BY <1>6, <1>1, <1>3, <1>4 DEF Kept, FitsWrite, FitsRow
<1>7. CASE ws[1].kind = "restore"
  BY <1>7, <1>1 DEF Silent, Tells
<1> QED BY <1>5, <1>6, <1>7, <1>1 DEF Kept

\* The arming a page asks for.
Arming(p, m, c) == Asks(p, "arm", hour, TRUE, m, c)

\* What a page asks for has its fields.
LEMMA AsksTyped ==
  ASSUME NEW p, NEW kind \in {"choose", "arm", "delete", "restore"}, NEW exp \in Moments, NEW burn \in BOOLEAN,
         NEW m \in Modal, NEW c \in Card
  PROVE  /\ Asks(p, kind, exp, burn, m, c) \in MetaWrite
         /\ Asks(p, kind, exp, burn, m, c).kind = kind /\ Asks(p, kind, exp, burn, m, c).exp = exp
         /\ Asks(p, kind, exp, burn, m, c).burn = burn /\ Asks(p, kind, exp, burn, m, c).was = <<m.exp, m.burn>>
         /\ Asks(p, kind, exp, burn, m, c).mount = m.mount /\ Asks(p, kind, exp, burn, m, c).before = c
<1>1. m.exp \in Moments /\ m.burn \in BOOLEAN /\ m.mount \in 0 .. MaxDeeds BY DEF Modal
<1> QED BY <1>1 DEF Asks, MetaWrite

\* An hour is a moment, and no hour is Never.
LEMMA HoursPass ==
  /\ MaxHours \in Nat /\ MaxDeeds \in Nat /\ Never \in Nat
  /\ Hours \subseteq Moments /\ Hours \subseteq Nat /\ Moments \subseteq Nat /\ Never \in Moments
  /\ Grace = 1 /\ Life = 1
  /\ \A h \in Hours : h < Never /\ h + Life < Never
  /\ \A t \in Moments : t < Never => t \in 0 .. MaxHours + Life
<1>1. MaxHours \in Nat /\ MaxDeeds \in Nat BY DestructAssumption
<1> QED BY <1>1 DEF Hours, Moments, Never, Grace, Life

\* A card of a timer and a flag.
LEMMA CardTyped ==
  ASSUME NEW exp \in Moments, NEW burn \in BOOLEAN
  PROVE  CardOf(exp, burn) \in Card /\ NoCard \in Card BY HoursPass DEF CardOf, Card, NoCard

\* A modal that is shut.
LEMMA ShutTyped == Shut \in Modal /\ ~Shut.open /\ ~Shut.candid /\ ~ArmsYet(Shut) /\ ~Shut.initial /\ ~MustArm(Shut)
  BY HoursPass, CardTyped DEF Shut, Modal, ArmsYet, NoCard, Card, MustArm, DueWhenShown, DueWhenOpen

\* The arming it asks for, if it does.
LEMMA ArmAsked ==
  ASSUME DestructTypes, NEW p, NEW m \in Modal, NEW c \in Card
  PROVE  /\ Arming(p, m, c) \in MetaWrite /\ Arming(p, m, c).kind = "arm" /\ Arming(p, m, c).exp = hour
         /\ Arming(p, m, c).burn /\ Arming(p, m, c).was = <<m.exp, m.burn>>
<1>1. hour \in Moments BY HoursPass DEF DestructTypes
<1>2. m.exp \in Moments /\ m.burn \in BOOLEAN /\ m.mount \in 0 .. MaxDeeds BY DEF Modal
<1> QED BY <1>1, <1>2 DEF Arming, Asks, MetaWrite

\* What becomes of the pages when the modal of one of them becomes m, with the
\* writes ws: it arms the note, or it does not, and nobody else's writes change.
LEMMA Coming ==
  ASSUME DestructTypes, NEW p \in Readers, NEW m \in Modal, NEW ws \in Seq(MetaWrite), NEW c \in Card,
         Comes(p, m, ws, c)
  PROVE  /\ modals' \in [Readers -> Modal] /\ pending' \in [Readers -> Seq(MetaWrite)] /\ cards' \in [Readers -> Card]
         /\ modals'[p].open = m.open /\ modals'[p].initial = m.initial /\ modals'[p].exp = m.exp
         /\ modals'[p].burn = m.burn /\ modals'[p].mount = m.mount
         /\ modals'[p].armed = (m.armed \/ MustArm(m))
         /\ modals'[p].candid = (m.candid /\ (MustArm(m) => m.burn))
         /\ ~MustArm(m) => pending'[p] = ws
         /\ MustArm(m) => pending'[p] = Append(ws, Arming(p, m, c))
         /\ \A q \in Readers \ {p} :
              /\ pending'[q] = pending[q]
              /\ modals'[q].initial = modals[q].initial /\ modals'[q].burn = modals[q].burn
              /\ modals'[q].armed = modals[q].armed /\ modals'[q].open = modals[q].open
              /\ modals'[q].candid => modals'[q] = modals[q] /\ ws = pending[p] /\ ~MustArm(m)
<1> DEFINE one == [m EXCEPT !.armed = @ \/ MustArm(m), !.candid = @ /\ (MustArm(m) => m.burn)]
           oth(q) == IF MustArm(m) \/ ws # pending[p] THEN [modals[q] EXCEPT !.candid = FALSE] ELSE modals[q]
           by == Arming(p, m, c)
           held == IF MustArm(m) THEN Append(ws, by) ELSE ws
           card == IF MustArm(m) /\ c.there THEN CardOf(hour, TRUE) ELSE c
<1>1. hour \in Moments /\ hour \in Hours /\ modals \in [Readers -> Modal] /\ pending \in [Readers -> Seq(MetaWrite)]
      /\ cards \in [Readers -> Card] BY HoursPass DEF DestructTypes
<1>2. modals' = [q \in Readers |-> IF q = p THEN one ELSE oth(q)] /\ pending' = [pending EXCEPT ![p] = held]
      /\ cards' = [cards EXCEPT ![p] = card] BY DEF Comes, Arming
<1>3. by \in MetaWrite BY ArmAsked
<1>4. MustArm(m) \in BOOLEAN BY DEF MustArm, DueWhenShown, DueWhenOpen
<1>5. one \in Modal /\ one.open = m.open /\ one.initial = m.initial /\ one.exp = m.exp /\ one.burn = m.burn
      /\ one.mount = m.mount /\ one.armed = (m.armed \/ MustArm(m)) /\ one.candid = (m.candid /\ (MustArm(m) => m.burn))
  BY <1>4 DEF Modal
<1>6. \A q \in Readers : oth(q) \in Modal BY <1>1 DEF Modal
<1>7. held \in Seq(MetaWrite) BY <1>3, LastAsked
<1>8. card \in Card BY <1>1, CardTyped
<1>9. ASSUME NEW q \in Readers
      PROVE  /\ oth(q).initial = modals[q].initial /\ oth(q).burn = modals[q].burn
             /\ oth(q).armed = modals[q].armed /\ oth(q).open = modals[q].open
             /\ oth(q).candid => oth(q) = modals[q] /\ ~MustArm(m) /\ ws = pending[p]
 <2>1. modals[q] \in Modal BY <1>1
 <2>2. CASE MustArm(m) \/ ws # pending[p] BY <2>1, <2>2 DEF Modal
 <2>3. CASE ~MustArm(m) /\ ws = pending[p] BY <2>3
 <2> QED BY <2>2, <2>3
<1> HIDE DEF one, oth, card, by
<1>10. modals' \in [Readers -> Modal] /\ modals'[p] = one /\ \A q \in Readers \ {p} : modals'[q] = oth(q) BY <1>2, <1>5, <1>6
<1>11. pending' \in [Readers -> Seq(MetaWrite)] /\ pending'[p] = held /\ \A q \in Readers \ {p} : pending'[q] = pending[q]
  BY <1>1, <1>2, <1>7
<1>12. cards' \in [Readers -> Card] BY <1>1, <1>2, <1>8
<1>13. \A q \in Readers \ {p} : modals'[q].candid => modals'[q] = modals[q] /\ ws = pending[p] /\ ~MustArm(m) BY <1>9, <1>10
<1> QED BY <1>5, <1>9, <1>10, <1>11, <1>12, <1>13 DEF by

\* Armings asked for now are of this hour.
LEMMA DatedComes ==
  ASSUME DestructTypes, Dated, NEW p \in Readers, NEW m \in Modal, NEW ws \in Seq(MetaWrite), NEW c \in Card,
         Comes(p, m, ws, c), hour' = hour, sweep' = sweep,
         \A i \in 1 .. Len(ws) : ws[i].kind = "arm" => ws[i].burn /\ ws[i].exp <= hour
  PROVE  Dated'
<1>1. /\ ~MustArm(m) => pending'[p] = ws
      /\ MustArm(m) => pending'[p] = Append(ws, Arming(p, m, c))
      /\ \A q \in Readers \ {p} : pending'[q] = pending[q] BY Coming
<1> DEFINE by == Arming(p, m, c)
<1>2. by \in MetaWrite /\ by.kind = "arm" /\ by.exp = hour /\ by.burn /\ hour \in Nat
 <2>1. hour \in Nat BY HoursPass DEF DestructTypes
 <2> QED BY <2>1, ArmAsked
<1>3. Len(Append(ws, by)) = Len(ws) + 1 /\ Len(ws) \in Nat
      /\ (\A i \in 1 .. Len(ws) : Append(ws, by)[i] = ws[i]) /\ Append(ws, by)[Len(ws) + 1] = by BY <1>2, LastAsked
<1> HIDE DEF by
<1>4. \A i \in 1 .. Len(pending'[p]) : pending'[p][i].kind = "arm" => pending'[p][i].burn /\ pending'[p][i].exp <= hour
 <2>1. CASE ~MustArm(m) BY <2>1, <1>1
 <2>2. CASE MustArm(m)
  <3>1. pending'[p] = Append(ws, by) BY <2>2, <1>1 DEF by
  <3> SUFFICES ASSUME NEW i \in 1 .. Len(ws) + 1, pending'[p][i].kind = "arm"
               PROVE  pending'[p][i].burn /\ pending'[p][i].exp <= hour BY <3>1, <1>3
  <3>2. CASE i \in 1 .. Len(ws) BY <3>1, <3>2, <1>3
  <3>3. CASE i = Len(ws) + 1 BY <3>1, <3>3, <1>2, <1>3
  <3> QED BY <3>2, <3>3, <1>3
 <2> QED BY <2>1, <2>2
<1> QED BY <1>1, <1>4 DEF Dated

\* The modals are as honest as before, when the one that changed is.
LEMMA HonestComes ==
  ASSUME DestructTypes, Honest, NEW p \in Readers, NEW m \in Modal, NEW ws \in Seq(MetaWrite), NEW c \in Card,
         Comes(p, m, ws, c),
         ws = pending[p] => noteRow' = noteRow,
         m.open /\ m.candid => /\ \A q \in Readers \ {p} : pending[q] = <<>>
                              /\ Told(m, ws, noteRow')
  PROVE  Honest'
<1>1. /\ modals'[p].open = m.open /\ modals'[p].exp = m.exp /\ modals'[p].burn = m.burn /\ modals'[p].mount = m.mount
      /\ modals'[p].armed = (m.armed \/ MustArm(m))
      /\ modals'[p].candid = (m.candid /\ (MustArm(m) => m.burn))
      /\ ~MustArm(m) => pending'[p] = ws
      /\ MustArm(m) => pending'[p] = Append(ws, Arming(p, m, c))
      /\ \A q \in Readers \ {p} :
           /\ pending'[q] = pending[q]
           /\ modals'[q].candid => modals'[q] = modals[q] /\ ws = pending[p] /\ ~MustArm(m) BY Coming
<1>2. ASSUME modals'[p].open, modals'[p].candid
      PROVE  /\ \A q \in Readers \ {p} : pending'[q] = <<>>
             /\ Told(modals'[p], pending'[p], noteRow')
 <2>1. m.open /\ m.candid /\ (MustArm(m) => m.burn) BY <1>1, <1>2
 <2>2. Told(m, ws, noteRow') /\ \A q \in Readers \ {p} : pending'[q] = <<>> BY <2>1, <1>1
 <2>3. m.armed \in BOOLEAN /\ m.burn \in BOOLEAN BY DEF Modal
 <2>4. CASE ~MustArm(m)
   BY <2>4, <2>3, <1>1, <2>2 DEF Told
 <2>5. CASE MustArm(m)
  <3> DEFINE by == Arming(p, m, c)
  <3>1. by \in MetaWrite /\ by.kind = "arm" /\ by.was = <<m.exp, m.burn>> BY ArmAsked
  <3>2. m.exp = Never /\ m.burn = TRUE /\ modals'[p].armed = TRUE
    BY <2>1, <2>3, <2>5, <1>1 DEF MustArm, DueWhenShown, DueWhenOpen
  <3>3. pending'[p] = Append(ws, by) BY <2>5, <1>1
  <3> HIDE DEF by
  <3>4. by.was = <<Never, TRUE>> /\ Kept(by, TRUE, m.mount) /\ FitsWrite(<<Never, TRUE>>, by, TRUE)
    BY <3>1, <3>2 DEF Kept, FitsWrite
  <3>5. Tale(ws, <<Never, TRUE>>, noteRow', m.armed, m.mount) BY <2>2, <3>2 DEF Told
  <3>6. Tale(Append(ws, by), <<Never, TRUE>>, noteRow', TRUE, m.mount) BY <2>3, <3>1, <3>4, <3>5, TaleGrows
  <3> QED BY <2>2, <3>2, <3>3, <3>6, <1>1 DEF Told
 <2> QED BY <2>4, <2>5
<1>3. ASSUME NEW q \in Readers \ {p}, modals'[q].open, modals'[q].candid
      PROVE  /\ \A r \in Readers \ {q} : pending'[r] = <<>>
             /\ Told(modals'[q], pending'[q], noteRow')
  BY <1>1, <1>3 DEF Honest
<1> QED BY <1>2, <1>3 DEF Honest

\* A deed stands while nothing is written or asked for, and nobody is to arm.
LEMMA DecidedStands ==
  ASSUME DestructTypes, Decided, deed' = deed, noteRow' = noteRow, hour' = hour,
         \A q \in Readers : pending'[q] = pending[q] /\ (ArmsYet(modals'[q]) => ArmsYet(modals[q]))
  PROVE  Decided'
BY DEF Decided, DestructTypes

\* What a row says is its timer and its flag.
LEMMA SaidAlike ==
  ASSUME NEW m, NEW ws, NEW rw, NEW other, rw.exp = other.exp, rw.burn = other.burn, Told(m, ws, rw)
  PROVE  Told(m, ws, other)
<1>1. \A was, armed : FitsRow(was, rw, armed) => FitsRow(was, other, armed) BY DEF FitsRow
<1>2. \A n, was : Tells(ws, n, was, rw, m.armed) => Tells(ws, n, was, other, m.armed) BY <1>1 DEF Tells
<1> QED BY <1>2 DEF Told, Tale

\* The modals are as honest as before, when none of them changed and no write was asked for.
LEMMA HonestStays ==
  ASSUME Honest, modals' = modals, pending' = pending, noteRow'.exp = noteRow.exp, noteRow'.burn = noteRow.burn
  PROVE  Honest'
<1> SUFFICES ASSUME NEW p \in Readers, modals[p].open, modals[p].candid
             PROVE  (\A q \in Readers \ {p} : pending[q] = <<>>) /\ Told(modals[p], pending[p], noteRow') BY DEF Honest
<1>1. (\A q \in Readers \ {p} : pending[q] = <<>>) /\ Told(modals[p], pending[p], noteRow) BY DEF Honest
<1> QED BY <1>1, SaidAlike

\* At the start nothing has been asked for.
LEMMA DestructStarts == DestructInit => DestructInv
<1> SUFFICES ASSUME DestructInit PROVE DestructInv OBVIOUS
<1> PICK exp \in {1, Never}, burn \in BOOLEAN :
        /\ exp = Never \/ ~burn
        /\ noteRow = [exp |-> exp, burn |-> burn, deleted |-> Never, gone |-> FALSE]
        /\ cards = [p \in Readers |-> CardOf(exp, burn)] BY DEF DestructInit
<1>1. exp \in Moments /\ Never \in Moments /\ 0 \in Hours BY HoursPass DEF Moments, Life, Hours
<1>2. CardOf(exp, burn) \in Card /\ NoCard \in Card /\ Shut \in Modal BY <1>1, CardTyped, ShutTyped
<1>3. noteRow \in [exp : Moments, burn : BOOLEAN, deleted : Hours \cup {Never}, gone : BOOLEAN] BY <1>1
<1>4. cards \in [Readers -> Card] /\ trashed \in [Readers -> Card] /\ modals \in [Readers -> Modal] BY <1>2 DEF DestructInit
<1>5. <<>> \in Seq(MetaWrite) /\ Len(<<>>) = 0 BY EmptySeq
<1>6. pending \in [Readers -> Seq(MetaWrite)] /\ \A p \in Readers : pending[p] = <<>> BY <1>5 DEF DestructInit
<1>7. deed \in [what : {"none", "read", "keep", "burn", "timer", "delete", "undo"}, page : {deed.page},
                exp : Moments, ok : BOOLEAN, firm : BOOLEAN] /\ deed.what = "none" BY <1>1 DEF DestructInit
<1>8. hour \in Hours /\ sweep = Never /\ sealed \in BOOLEAN /\ deeds \in 0 .. MaxDeeds BY <1>1, HoursPass DEF DestructInit
<1>9. DestructTypes BY <1>3, <1>4, <1>6, <1>7, <1>8 DEF DestructTypes
<1>10. \A p \in Readers : modals[p] = Shut BY DEF DestructInit
<1>11. Dated /\ Decided BY <1>5, <1>6, <1>7, <1>8 DEF Dated, Decided
<1>12. Untouched BY <1>6, <1>10, ShutTyped DEF Untouched
<1>13. Honest BY <1>10, ShutTyped DEF Honest
<1> QED BY <1>9, <1>11, <1>12, <1>13 DEF DestructInv

\* The sweep looks for the row.
LEMMA ScanRowsKeeps == DestructInv /\ ScanRows => DestructInv'
<1> SUFFICES ASSUME DestructInv, ScanRows PROVE DestructInv' OBVIOUS
<1>1. DestructTypes' BY DEF DestructInv, DestructTypes, ScanRows
<1>2. Dated' BY HoursPass DEF DestructInv, Dated, ScanRows, DestructTypes
<1>3. Untouched' BY DEF DestructInv, Untouched, ScanRows
<1>4. Decided' BY DecidedStands DEF DestructInv, ScanRows
<1>5. Honest' BY HonestStays DEF DestructInv, ScanRows
<1> QED BY <1>1, <1>2, <1>3, <1>4, <1>5 DEF DestructInv

\* The sweep takes the row, if it is overdue.
LEMMA TakeRowsKeeps == DestructInv /\ TakeRows => DestructInv'
<1> SUFFICES ASSUME DestructInv, TakeRows PROVE DestructInv' OBVIOUS
<1>1. DestructTypes /\ Dated /\ Untouched /\ Decided /\ Honest BY DEF DestructInv
<1>2. /\ sweep \in Hours /\ sweep <= hour /\ hour \in Hours /\ Hours \subseteq Nat /\ Moments \subseteq Nat
      /\ noteRow \in [exp : Moments, burn : BOOLEAN, deleted : Hours \cup {Never}, gone : BOOLEAN]
      /\ Never \in Nat /\ Grace = 1 BY <1>1, HoursPass DEF TakeRows, DestructTypes, Dated
<1>3. /\ noteRow'.exp = noteRow.exp /\ noteRow'.burn = noteRow.burn /\ noteRow'.deleted = noteRow.deleted
      /\ noteRow.gone => noteRow'.gone
      /\ noteRow' \in [exp : Moments, burn : BOOLEAN, deleted : Hours \cup {Never}, gone : BOOLEAN]
      /\ noteRow'.gone => noteRow.gone \/ Overdue(sweep) BY <1>2 DEF TakeRows, TakesRow, AsItIs
<1>4. sweep' = Never /\ UNCHANGED <<sealed, hour, cards, modals, pending, trashed, deed, deeds, lost>> BY DEF TakeRows
<1>5. noteRow'.gone /\ noteRow.deleted = Never /\ ~noteRow.gone => noteRow.exp # Never /\ noteRow.exp + Grace < hour
 <2>1. noteRow.exp \in Nat /\ sweep \in Nat /\ hour \in Nat /\ sweep <= hour BY <1>2
 <2>2. noteRow'.gone /\ noteRow.deleted = Never /\ ~noteRow.gone => noteRow.exp # Never /\ noteRow.exp < sweep - Grace
   BY <1>2, <1>3 DEF Overdue
 <2>3. noteRow.exp < sweep - Grace => noteRow.exp + Grace < hour BY <2>1, <1>2
 <2> QED BY <2>2, <2>3
<1>6. DestructTypes' BY <1>1, <1>3, <1>4 DEF DestructTypes
<1>7. Dated' BY <1>1, <1>4 DEF Dated
<1>8. Untouched' BY <1>1, <1>3, <1>4, <1>5 DEF Untouched
<1>9. noteRow.deleted = Never /\ InTime(noteRow, hour) => noteRow'.deleted = Never /\ InTime(noteRow', hour)
  BY <1>3, <1>5 DEF InTime
<1>10. \A ws : Burning(ws, noteRow, hour) => Burning(ws, noteRow', hour) BY <1>3 DEF Burning
<1>11. \A ws : Chosen(ws, noteRow, hour, deed) => Chosen(ws, noteRow', hour, deed) BY <1>3, <1>9 DEF Chosen
<1>12. \A ws : BroughtBack(ws, noteRow, hour) => BroughtBack(ws, noteRow', hour) BY <1>9 DEF BroughtBack
<1>13. Decided' BY <1>1, <1>4, <1>10, <1>11, <1>12 DEF Decided
<1>14. Honest' BY <1>1, <1>3, <1>4, HonestStays
<1> QED BY <1>6, <1>7, <1>8, <1>13, <1>14 DEF DestructInv

\* Time passes.
LEMMA HourPassesKeeps == DestructInv /\ HourPasses => DestructInv'
<1> SUFFICES ASSUME DestructInv, HourPasses PROVE DestructInv' OBVIOUS
<1>1. DestructTypes /\ Dated /\ Untouched /\ Decided /\ Honest BY DEF DestructInv
<1>2. hour' = hour + 1 /\ UNCHANGED <<sealed, noteRow, sweep, cards, modals, pending, trashed, deed, deeds, lost>>
  BY DEF HourPasses
<1>3. hour \in Nat /\ hour' \in Hours /\ (sweep # Never => sweep \in Nat) /\ noteRow.exp \in Nat /\ Grace = 1
  BY <1>1, <1>2, HoursPass DEF DestructTypes, HourPasses, Hours
<1>4. DestructTypes' BY <1>1, <1>2, <1>3 DEF DestructTypes
<1>5. Dated'
 <2>1. ASSUME NEW p \in Readers, NEW i \in 1 .. Len(pending[p]), pending[p][i].kind = "arm"
       PROVE  pending[p][i].burn /\ pending[p][i].exp <= hour + 1
  <3>1. pending[p][i] \in MetaWrite BY <1>1, ElementOfSeq DEF DestructTypes
  <3>2. pending[p][i].exp \in Nat BY <3>1, HoursPass DEF MetaWrite
  <3>3. pending[p][i].burn /\ pending[p][i].exp <= hour BY <1>1, <2>1 DEF Dated
  <3> QED BY <3>2, <3>3, <1>3
 <2>2. sweep # Never => sweep <= hour + 1 BY <1>1, <1>3 DEF Dated
 <2> QED BY <1>2, <2>1, <2>2 DEF Dated
<1>6. Untouched' BY <1>1, <1>2 DEF Untouched
<1>7. InTime(noteRow, hour) => InTime(noteRow, hour + 1) BY <1>3 DEF InTime
<1>8. \A ws : Burning(ws, noteRow, hour) => Burning(ws, noteRow, hour + 1) BY <1>3 DEF Burning
<1>9. \A ws : Chosen(ws, noteRow, hour, deed) => Chosen(ws, noteRow, hour + 1, deed) BY <1>7 DEF Chosen
<1>10. \A ws : BroughtBack(ws, noteRow, hour) => BroughtBack(ws, noteRow, hour + 1) BY <1>7 DEF BroughtBack
<1>11. Decided' BY <1>1, <1>2, <1>8, <1>9, <1>10 DEF Decided
<1>12. Honest' BY <1>1, <1>2, HonestStays
<1> QED BY <1>4, <1>5, <1>6, <1>11, <1>12 DEF DestructInv

\* A modal shut, or sealed again, without anything else.
LEMMA ShutKeeps ==
  ASSUME DestructInv, NEW p \in Readers, NEW m \in Modal, m.open => m = [modals[p] EXCEPT !.shown = FALSE],
         ~m.open => m = Shut, modals' = [modals EXCEPT ![p] = m],
         UNCHANGED <<sealed, noteRow, hour, sweep, cards, pending, trashed, deed, deeds, lost>>
  PROVE  DestructInv'
<1>1. DestructTypes /\ Dated /\ Untouched /\ Decided /\ Honest BY DEF DestructInv
<1>2. modals \in [Readers -> Modal] /\ modals' \in [Readers -> Modal] /\ modals'[p] = m
      /\ \A q \in Readers \ {p} : modals'[q] = modals[q] BY <1>1 DEF DestructTypes
<1>3. m.open => /\ m.initial = modals[p].initial /\ m.burn = modals[p].burn /\ m.armed = modals[p].armed
                /\ m.open = modals[p].open /\ m.candid = modals[p].candid /\ m.exp = modals[p].exp /\ m.mount = modals[p].mount
 <2>1. modals[p] \in Modal BY <1>2
 <2>2. ASSUME m = [modals[p] EXCEPT !.shown = FALSE]
       PROVE  /\ m.initial = modals[p].initial /\ m.burn = modals[p].burn /\ m.armed = modals[p].armed
              /\ m.open = modals[p].open /\ m.candid = modals[p].candid /\ m.exp = modals[p].exp /\ m.mount = modals[p].mount
   BY <2>1, <2>2 DEF Modal
 <2> QED BY <2>2
<1>4. ~m.open => ~m.initial /\ ~ArmsYet(m) BY ShutTyped
<1>5. \A q \in Readers : (modals'[q].initial => modals'[q].burn) \/ ~(modals[q].initial => modals[q].burn) BY <1>2, <1>3, <1>4
<1>6. \A q \in Readers : ArmsYet(modals'[q]) => ArmsYet(modals[q]) BY <1>2, <1>3, <1>4 DEF ArmsYet
<1>7. DestructTypes' BY <1>1, <1>2 DEF DestructTypes
<1>8. Dated' /\ Untouched' BY <1>1, <1>5 DEF Dated, Untouched
<1>9. Decided' BY <1>1, <1>6, DecidedStands
<1>10. Honest'
 <2> SUFFICES ASSUME NEW q \in Readers, modals'[q].open, modals'[q].candid
              PROVE  (\A r \in Readers \ {q} : pending[r] = <<>>) /\ Told(modals'[q], pending[q], noteRow) BY DEF Honest
 <2>1. modals[q].open /\ modals[q].candid BY <1>2, <1>3
 <2>2. (\A r \in Readers \ {q} : pending[r] = <<>>) /\ Told(modals[q], pending[q], noteRow) BY <1>1, <2>1 DEF Honest
 <2>3. Told(modals'[q], pending[q], noteRow) <=> Told(modals[q], pending[q], noteRow)
  <3>1. CASE q = p BY <3>1, <1>2, <1>3 DEF Told
  <3>2. CASE q # p BY <3>2, <1>2
  <3> QED BY <3>1, <3>2
 <2> QED BY <2>2, <2>3
<1> QED BY <1>7, <1>8, <1>9, <1>10 DEF DestructInv

\* The countdown, the button, or a soft lock.
LEMMA SealAgainKeeps == ASSUME NEW p \in Readers, DestructInv, SealAgain(p) PROVE DestructInv'
<1> DEFINE m == [modals[p] EXCEPT !.shown = FALSE]
<1>1. modals[p] \in Modal BY DEF DestructInv, DestructTypes
<1>2. m \in Modal /\ m.open = modals[p].open BY <1>1 DEF Modal
<1>3. modals[p].open /\ modals' = [modals EXCEPT ![p] = m]
      /\ UNCHANGED <<sealed, noteRow, hour, sweep, cards, pending, trashed, deed, deeds, lost>> BY DEF SealAgain
<1>4. (m.open => m = [modals[p] EXCEPT !.shown = FALSE]) /\ (~m.open => m = Shut) BY <1>2, <1>3
<1> HIDE DEF m
<1> QED BY <1>2, <1>3, <1>4, ShutKeeps

\* A modal closes.
LEMMA ShutNoteKeeps == ASSUME NEW p \in Readers, DestructInv, ShutNote(p) PROVE DestructInv'
<1>1. Shut \in Modal /\ ~Shut.open BY ShutTyped
<1>2. modals' = [modals EXCEPT ![p] = Shut]
      /\ UNCHANGED <<sealed, noteRow, hour, sweep, cards, pending, trashed, deed, deeds, lost>> BY DEF ShutNote
<1> QED BY <1>1, <1>2, ShutKeeps

\* A page asks for its lists.
LEMMA FetchCardsKeeps == ASSUME NEW p \in Readers, DestructInv, FetchCards(p) PROVE DestructInv'
<1>1. DestructTypes /\ Dated /\ Untouched /\ Decided /\ Honest BY DEF DestructInv
<1>2. noteRow.exp \in Moments /\ noteRow.burn \in BOOLEAN BY <1>1 DEF DestructTypes
<1>3. OnList \in Card BY <1>2, CardTyped DEF OnList
<1>4. cards' = [cards EXCEPT ![p] = OnList] /\ UNCHANGED <<sealed, noteRow, hour, sweep, modals, pending, trashed, deed, deeds, lost>>
  BY DEF FetchCards
<1>5. DestructTypes' BY <1>1, <1>3, <1>4 DEF DestructTypes
<1>6. Dated' /\ Untouched' BY <1>1, <1>4 DEF Dated, Untouched
<1>7. Decided' BY <1>1, <1>4, DecidedStands
<1>8. Honest' BY <1>1, <1>4, HonestStays
<1> QED BY <1>5, <1>6, <1>7, <1>8 DEF DestructInv

\* What the user does is the last deed, and firm where nothing else is under way.
LEMMA DeedDone ==
  ASSUME DestructTypes, NEW p \in Readers, NEW m \in Modal, NEW ws \in Seq(MetaWrite), NEW c \in Card, Comes(p, m, ws, c),
         NEW what \in {"read", "keep", "burn", "timer", "delete", "undo"}, NEW exp \in Moments, NEW firm \in BOOLEAN,
         Does(p, what, exp, firm)
  PROVE  /\ deed' \in [what : {"none", "read", "keep", "burn", "timer", "delete", "undo"}, page : {deed'.page},
                       exp : Moments, ok : BOOLEAN, firm : BOOLEAN]
         /\ deed'.what = what /\ deed'.page = p /\ deed'.exp = exp
         /\ deed'.firm => firm /\ \A q \in Readers \ {p} : pending'[q] = <<>> /\ ~ArmsYet(modals'[q])
<1> DEFINE quiet == \A q \in Readers \ {p} : pending[q] = <<>> /\ ~ArmsYet(modals[q])
<1>1. deed' = [what |-> what, page |-> p, exp |-> exp, ok |-> TRUE, firm |-> firm /\ quiet] BY DEF Does
<1>2. quiet \in BOOLEAN OBVIOUS
<1>3. \A q \in Readers \ {p} : pending'[q] = pending[q] /\ modals'[q].initial = modals[q].initial
                               /\ modals'[q].burn = modals[q].burn /\ modals'[q].armed = modals[q].armed BY Coming
<1>4. quiet => \A q \in Readers \ {p} : pending'[q] = <<>> /\ ~ArmsYet(modals'[q]) BY <1>3 DEF ArmsYet
<1> HIDE DEF quiet
<1>5. (firm /\ quiet) \in BOOLEAN OBVIOUS
<1>6. deed'.firm = (firm /\ quiet) BY <1>1
<1>7. deed' \in [what : {"none", "read", "keep", "burn", "timer", "delete", "undo"}, page : {deed'.page},
                 exp : Moments, ok : BOOLEAN, firm : BOOLEAN] BY <1>1, <1>5
<1> QED BY <1>1, <1>4, <1>6, <1>7

\* A deletion undone stays so, whatever the page arms after it.
LEMMA RestoredStays ==
  ASSUME NEW ws \in Seq(MetaWrite), NEW w \in MetaWrite, w.kind = "arm", NEW rw, NEW h, BroughtBack(ws, rw, h)
  PROVE  BroughtBack(Append(ws, w), rw, h)
<1> DEFINE long == Append(ws, w)
<1>1. Len(long) = Len(ws) + 1 /\ Len(ws) \in Nat /\ (\A i \in 1 .. Len(ws) : long[i] = ws[i]) /\ long[Len(ws) + 1] = w
  BY LastAsked
<1> HIDE DEF long
<1>2. ASSUME NEW k \in Nat, ArmsFrom(ws, k) PROVE ArmsFrom(long, k) BY <1>1, <1>2 DEF ArmsFrom
<1>3. CASE rw.deleted = Never /\ InTime(rw, h) /\ ArmsFrom(ws, 1) BY <1>2, <1>3 DEF BroughtBack, long
<1>4. ASSUME NEW k \in 1 .. Len(ws), ws[k].kind = "restore", ArmsFrom(ws, k + 1) PROVE BroughtBack(long, rw, h)
  BY <1>1, <1>2, <1>4 DEF BroughtBack
<1> QED BY <1>3, <1>4 DEF BroughtBack, long

\* A page opens the note, and arms it if it was to burn and its text shows.
LEMMA OpenNoteKeeps == ASSUME NEW p \in Readers, DestructInv, OpenNote(p) PROVE DestructInv'
<1> DEFINE c == cards[p]
           m == [open |-> TRUE, prop |-> c, initial |-> c.burn, exp |-> c.exp, burn |-> c.burn, armed |-> FALSE,
                 shown |-> ~sealed, mount |-> deeds + 1,
                 candid |-> c = CardOf(noteRow.exp, noteRow.burn) /\ \A q \in Readers : pending[q] = <<>>]
<1>1. DestructTypes /\ Dated /\ Untouched /\ Decided /\ Honest BY DEF DestructInv
<1>2. /\ c \in Card /\ pending[p] \in Seq(MetaWrite) /\ sealed \in BOOLEAN /\ deeds \in 0 .. MaxDeeds /\ MaxDeeds \in Nat
      /\ pending \in [Readers -> Seq(MetaWrite)] BY <1>1, HoursPass DEF DestructTypes
<1>3. /\ deeds < MaxDeeds /\ deeds' = deeds + 1 /\ Comes(p, m, pending[p], c) /\ Reads(p, m)
      /\ UNCHANGED <<sealed, noteRow, hour, sweep, trashed, lost>> BY DEF OpenNote, MayDo
<1>4. c.exp \in Moments /\ c.burn \in BOOLEAN BY <1>2 DEF Card
<1>5. deeds + 1 \in 0 .. MaxDeeds BY <1>2, <1>3
<1>6. m \in Modal BY <1>2, <1>4, <1>5 DEF Modal
<1>7. m.open /\ m.initial = m.burn /\ ~m.armed /\ m.burn = c.burn /\ m.exp = c.exp /\ m.burn \in BOOLEAN /\ m.armed = FALSE
      /\ (m.candid => c = CardOf(noteRow.exp, noteRow.burn) /\ \A q \in Readers : pending[q] = <<>>) BY <1>4
<1> HIDE DEF c, m
<1>8. /\ modals' \in [Readers -> Modal] /\ pending' \in [Readers -> Seq(MetaWrite)] /\ cards' \in [Readers -> Card]
      /\ modals'[p].initial = m.initial /\ modals'[p].burn = m.burn
      /\ ~MustArm(m) => pending'[p] = pending[p]
      /\ MustArm(m) => pending'[p] = Append(pending[p], Arming(p, m, c))
      /\ \A q \in Readers \ {p} :
           /\ pending'[q] = pending[q] /\ modals'[q].initial = modals[q].initial /\ modals'[q].burn = modals[q].burn
           /\ modals'[q].armed = modals[q].armed BY <1>1, <1>2, <1>3, <1>6, Coming
<1>9. ~ArmsYet(modals'[p]) BY <1>7, <1>8 DEF ArmsYet
<1>10. Dated'
  BY <1>1, <1>3, <1>2, <1>6, DatedComes DEF Dated
<1>11. Honest'
 <2>1. ASSUME m.open /\ m.candid
       PROVE  (\A q \in Readers \ {p} : pending[q] = <<>>) /\ Told(m, pending[p], noteRow')
  <3>1. c = CardOf(noteRow.exp, noteRow.burn) /\ \A q \in Readers : pending[q] = <<>> BY <1>7, <2>1
  <3>2. m.exp = noteRow.exp /\ m.burn = noteRow.burn BY <3>1, <1>7 DEF CardOf
  <3>3. FitsRow(<<m.exp, m.burn>>, noteRow, m.armed) BY <3>2 DEF FitsRow
  <3>4. Told(m, <<>>, noteRow) BY <3>3, TaleBegins DEF Told
  <3>5. noteRow' = noteRow /\ pending[p] = <<>> BY <1>3, <3>1
  <3> QED BY <3>1, <3>4, <3>5
 <2>2. noteRow' = noteRow BY <1>3
 <2> QED BY <1>1, <1>2, <1>3, <1>6, <2>1, <2>2, HonestComes
<1>12. CASE MustArm(m)
 <2>1. Does(p, "read", Never, TRUE) BY <1>3, <1>7, <1>12 DEF Reads, MustArm, DueWhenShown, DueWhenOpen
 <2>2. /\ deed' \in [what : {"none", "read", "keep", "burn", "timer", "delete", "undo"}, page : {deed'.page},
                     exp : Moments, ok : BOOLEAN, firm : BOOLEAN]
       /\ deed'.what = "read" /\ deed'.page = p
       /\ deed'.firm => \A q \in Readers \ {p} : pending'[q] = <<>> /\ ~ArmsYet(modals'[q])
   BY <1>1, <1>2, <1>3, <1>6, <2>1, DeedDone, HoursPass
 <2>3. Burning(pending'[p], noteRow', hour')
  <3>1. Arming(p, m, c) \in MetaWrite /\ Arming(p, m, c).kind = "arm" BY <1>1, <1>2, <1>6, ArmAsked
  <3>2. pending'[p] # <<>> /\ pending'[p][Len(pending'[p])].kind = "arm" BY <1>2, <1>8, <1>12, <3>1, LastAsked
  <3> QED BY <3>2 DEF Burning
 <2>4. DestructTypes' BY <1>1, <1>3, <1>5, <1>8, <2>2 DEF DestructTypes
 <2>5. Untouched' /\ Decided' BY <2>2, <2>3 DEF Untouched, Decided
 <2> QED BY <1>10, <1>11, <2>4, <2>5 DEF DestructInv
<1>13. CASE ~MustArm(m)
 <2>1. deed' = deed BY <1>3, <1>7, <1>13 DEF Reads, MustArm, DueWhenShown, DueWhenOpen
 <2>2. \A q \in Readers : pending'[q] = pending[q] BY <1>8, <1>13
 <2>3. DestructTypes' BY <1>1, <1>3, <1>5, <1>8, <2>1 DEF DestructTypes
 <2>4. \A q \in Readers : modals'[q].initial => modals'[q].burn \/ ~(modals[q].initial => modals[q].burn) BY <1>7, <1>8
 <2>5. Untouched' BY <1>1, <1>3, <2>1, <2>2, <2>4 DEF Untouched
 <2>6. \A q \in Readers : ArmsYet(modals'[q]) => ArmsYet(modals[q]) BY <1>8, <1>9 DEF ArmsYet
 <2>7. Decided' BY <1>1, <1>3, <2>1, <2>2, <2>6, DecidedStands
 <2> QED BY <1>10, <1>11, <2>3, <2>5, <2>7 DEF DestructInv
<1> QED BY <1>12, <1>13

\* The text of a Seal shows.
LEMMA DecryptNoteKeeps == ASSUME NEW p \in Readers, DestructInv, DecryptNote(p) PROVE DestructInv'
<1> DEFINE c == cards[p]
           m == [modals[p] EXCEPT !.shown = TRUE]
<1>1. DestructTypes /\ Dated /\ Untouched /\ Decided /\ Honest BY DEF DestructInv
<1>2. /\ c \in Card /\ pending[p] \in Seq(MetaWrite) /\ deeds \in 0 .. MaxDeeds /\ MaxDeeds \in Nat
      /\ pending \in [Readers -> Seq(MetaWrite)] /\ modals[p] \in Modal BY <1>1, HoursPass DEF DestructTypes
<1>3. /\ deeds < MaxDeeds /\ deeds' = deeds + 1 /\ modals[p].open /\ Comes(p, m, pending[p], c) /\ Reads(p, m)
      /\ UNCHANGED <<sealed, noteRow, hour, sweep, trashed, lost>> BY DEF DecryptNote, MayDo
<1>4. deeds + 1 \in 0 .. MaxDeeds BY <1>2, <1>3
<1>5. m \in Modal /\ m.open = modals[p].open /\ m.initial = modals[p].initial /\ m.exp = modals[p].exp /\ m.burn = modals[p].burn
      /\ m.armed = modals[p].armed /\ m.candid = modals[p].candid /\ m.mount = modals[p].mount /\ m.shown BY <1>2 DEF Modal
<1> HIDE DEF c, m
<1>6. /\ modals' \in [Readers -> Modal] /\ pending' \in [Readers -> Seq(MetaWrite)] /\ cards' \in [Readers -> Card]
      /\ modals'[p].initial = m.initial /\ modals'[p].burn = m.burn /\ modals'[p].armed = (m.armed \/ MustArm(m))
      /\ ~MustArm(m) => pending'[p] = pending[p]
      /\ MustArm(m) => pending'[p] = Append(pending[p], Arming(p, m, c))
      /\ \A q \in Readers \ {p} :
           /\ pending'[q] = pending[q] /\ modals'[q].initial = modals[q].initial /\ modals'[q].burn = modals[q].burn
           /\ modals'[q].armed = modals[q].armed BY <1>1, <1>2, <1>3, <1>5, Coming
<1>7. Arming(p, m, c) \in MetaWrite /\ Arming(p, m, c).kind = "arm" BY <1>1, <1>2, <1>5, ArmAsked
<1>8. Dated'
  BY <1>1, <1>3, <1>2, <1>5, DatedComes DEF Dated
<1>9. Honest'
 <2>1. ASSUME m.open /\ m.candid
       PROVE  (\A q \in Readers \ {p} : pending[q] = <<>>) /\ Told(m, pending[p], noteRow')
   BY <1>1, <1>5, <2>1, <1>3 DEF Honest, Told
 <2>2. noteRow' = noteRow BY <1>3
 <2> QED BY <1>1, <1>2, <1>3, <1>5, <2>1, <2>2, HonestComes
<1>10. \A q \in Readers : ArmsYet(modals'[q]) => ArmsYet(modals[q])
  BY <1>5, <1>6 DEF ArmsYet
<1>11. \A q \in Readers : (modals'[q].initial => modals'[q].burn) \/ ~(modals[q].initial => modals[q].burn) BY <1>5, <1>6
<1>12. CASE MustArm(m) /\ m.burn
 <2>1. Does(p, "read", Never, TRUE) BY <1>3, <1>12 DEF Reads, MustArm, DueWhenShown, DueWhenOpen
 <2>2. /\ deed' \in [what : {"none", "read", "keep", "burn", "timer", "delete", "undo"}, page : {deed'.page},
                     exp : Moments, ok : BOOLEAN, firm : BOOLEAN]
       /\ deed'.what = "read" /\ deed'.page = p
       /\ deed'.firm => \A q \in Readers \ {p} : pending'[q] = <<>> /\ ~ArmsYet(modals'[q])
   BY <1>1, <1>2, <1>3, <1>5, <2>1, DeedDone, HoursPass
 <2>3. Burning(pending'[p], noteRow', hour')
   BY <1>2, <1>6, <1>7, <1>12, LastAsked DEF Burning
 <2>4. DestructTypes' BY <1>1, <1>3, <1>4, <1>6, <2>2 DEF DestructTypes
 <2>5. Untouched' /\ Decided' BY <2>2, <2>3 DEF Untouched, Decided
 <2> QED BY <1>8, <1>9, <2>4, <2>5 DEF DestructInv
<1>13. CASE ~MustArm(m)
 <2>1. deed' = deed BY <1>3, <1>5, <1>13 DEF Reads, MustArm, DueWhenShown, DueWhenOpen
 <2>2. \A q \in Readers : pending'[q] = pending[q] BY <1>6, <1>13
 <2>3. DestructTypes' BY <1>1, <1>3, <1>4, <1>6, <2>1 DEF DestructTypes
 <2>4. Untouched' BY <1>1, <1>3, <1>11, <2>1, <2>2 DEF Untouched
 <2>5. Decided' BY <1>1, <1>3, <1>10, <2>1, <2>2, DecidedStands
 <2> QED BY <1>8, <1>9, <2>3, <2>4, <2>5 DEF DestructInv
<1>14. CASE MustArm(m) /\ ~m.burn
 <2>1. deed' = deed BY <1>3, <1>14 DEF Reads
 <2>2. ArmsYet(modals[p]) BY <1>5, <1>14 DEF ArmsYet, MustArm, DueWhenShown, DueWhenOpen
 <2>3. DestructTypes' BY <1>1, <1>3, <1>4, <1>6, <2>1 DEF DestructTypes
 <2>4. Untouched' BY <1>1, <2>1, <2>2 DEF Untouched, ArmsYet
 <2>5. Decided'
  <3> SUFFICES ASSUME deed.ok, deed.firm, deed.what # "none" PROVE Decided' BY <2>1 DEF Decided
  <3>1. deed.page = p /\ deed.what \notin {"keep", "burn", "timer"} BY <1>1, <2>2 DEF Decided, DestructTypes
  <3>2. pending'[p] # <<>> /\ pending'[p][Len(pending'[p])].kind = "arm" BY <1>2, <1>6, <1>7, <1>14, LastAsked
  <3>3. deed.what = "read" => Burning(pending'[p], noteRow', hour') BY <3>2 DEF Burning
  <3>4. deed.what = "undo" => BroughtBack(pending'[p], noteRow', hour')
   <4>1. deed.what = "undo" => BroughtBack(pending[p], noteRow, hour) BY <1>1, <3>1 DEF Decided
   <4>2. pending'[p] = Append(pending[p], Arming(p, m, c)) /\ noteRow' = noteRow /\ hour' = hour BY <1>3, <1>6, <1>14
   <4> QED BY <4>1, <4>2, <1>2, <1>7, RestoredStays
  <3>5. \A q \in Readers \ {p} : pending'[q] = <<>> /\ ~ArmsYet(modals'[q]) BY <1>1, <1>6, <1>10, <3>1 DEF Decided
  <3> QED BY <2>1, <3>1, <3>3, <3>4, <3>5 DEF Decided
 <2> QED BY <1>8, <1>9, <2>3, <2>4, <2>5 DEF DestructInv
<1> QED BY <1>12, <1>13, <1>14

\* What the picker offers is a timer and a flag, and the user means one of three things by it.
LEMMA PickerTyped ==
  ASSUME DestructTypes, NEW m \in Modal, NEW choice \in PickerOffers(m)
  PROVE  /\ choice[1] \in Moments /\ choice[2] \in BOOLEAN /\ choice = <<choice[1], choice[2]>>
         /\ Intent(choice) \in {"keep", "burn", "timer"}
         /\ Intent(choice) \in {"keep", "burn"} => choice[1] = Never
         /\ choice[2] <=> Intent(choice) = "burn"
<1>1. hour \in 0 .. MaxHours /\ MaxHours \in Nat /\ Life = 1 /\ Never \in Moments BY HoursPass DEF DestructTypes, Hours
<1>2. Timers \subseteq Moments BY <1>1 DEF Timers, Moments
<1>3. choice \in {<<Never, FALSE>>, <<Never, TRUE>>} \cup {<<t, FALSE>> : t \in Timers} BY DEF PickerOffers
<1>4. CASE choice = <<Never, FALSE>> BY <1>1, <1>4 DEF Intent
<1>5. CASE choice = <<Never, TRUE>> BY <1>1, <1>5 DEF Intent
<1>6. ASSUME NEW t \in Timers, choice = <<t, FALSE>>
      PROVE  /\ choice[1] \in Moments /\ choice[2] \in BOOLEAN /\ choice = <<choice[1], choice[2]>>
             /\ Intent(choice) \in {"keep", "burn", "timer"}
             /\ Intent(choice) \in {"keep", "burn"} => choice[1] = Never
             /\ choice[2] <=> Intent(choice) = "burn" BY <1>2, <1>6 DEF Intent
<1> QED BY <1>3, <1>4, <1>5, <1>6

\* The user chooses what becomes of the note.
LEMMA ChooseKeeps == ASSUME NEW p \in Readers, DestructInv, Choose(p) PROVE DestructInv'
<1> DEFINE old == modals[p]
<1>1. DestructTypes /\ Dated /\ Untouched /\ Decided /\ Honest BY DEF DestructInv
<1>2. /\ cards[p] \in Card /\ pending[p] \in Seq(MetaWrite) /\ deeds \in 0 .. MaxDeeds /\ MaxDeeds \in Nat
      /\ pending \in [Readers -> Seq(MetaWrite)] /\ old \in Modal BY <1>1, HoursPass DEF DestructTypes
<1>3. old.open /\ deeds < MaxDeeds /\ deeds' = deeds + 1 /\ UNCHANGED <<sealed, noteRow, hour, sweep, trashed, lost>>
  BY DEF Choose, MayDo
<1> PICK choice \in PickerOffers(old) :
      LET c == IF cards[p].there THEN CardOf(choice[1], choice[2]) ELSE cards[p] IN
      /\ Comes(p, [old EXCEPT !.exp = choice[1], !.burn = choice[2]],
               Append(pending[p], Asks(p, "choose", choice[1], choice[2], old, cards[p])), c)
      /\ Does(p, Intent(choice), choice[1], old.initial => old.armed) BY DEF Choose
<1> DEFINE exp == choice[1]  burn == choice[2]  what == Intent(choice)
           c == IF cards[p].there THEN CardOf(exp, burn) ELSE cards[p]
           m == [old EXCEPT !.exp = exp, !.burn = burn]
           w == Asks(p, "choose", exp, burn, old, cards[p])
           ws == Append(pending[p], w)
           firm == old.initial => old.armed
<1>4. exp \in Moments /\ burn \in BOOLEAN /\ what \in {"keep", "burn", "timer"}
      /\ (what \in {"keep", "burn"} => exp = Never) /\ (burn <=> what = "burn") BY <1>1, <1>2, PickerTyped
<1>5. Comes(p, m, ws, c) /\ Does(p, what, exp, firm) OBVIOUS
<1>6. c \in Card BY <1>2, <1>4, CardTyped
<1>7. m \in Modal /\ m.open = old.open /\ m.initial = old.initial /\ m.exp = exp /\ m.burn = burn
      /\ m.armed = old.armed /\ m.candid = old.candid /\ m.mount = old.mount BY <1>2, <1>4 DEF Modal
<1>8. w \in MetaWrite /\ w.kind = "choose" /\ w.exp = exp /\ w.burn = burn /\ w.was = <<old.exp, old.burn>>
      /\ w.mount = old.mount
 <2>1. "choose" \in {"choose", "arm", "delete", "restore"} /\ cards[p] \in Card BY <1>2
 <2>2. old.exp \in Moments /\ old.burn \in BOOLEAN /\ old.mount \in 0 .. MaxDeeds BY <1>2 DEF Modal
 <2> HIDE DEF exp, burn, old
 <2> QED BY <1>4, <2>1, <2>2 DEF Asks, MetaWrite
<1> HIDE DEF exp, burn, what, c, m, w
<1>9. ws \in Seq(MetaWrite) /\ ws # <<>> /\ Len(ws) = Len(pending[p]) + 1 /\ Len(pending[p]) \in Nat
      /\ (\A i \in 1 .. Len(pending[p]) : ws[i] = pending[p][i]) /\ ws[Len(pending[p]) + 1] = w BY <1>2, <1>8, LastAsked
<1>10. firm \in BOOLEAN OBVIOUS
<1> HIDE DEF old, ws, firm
<1>11. deeds + 1 \in 0 .. MaxDeeds BY <1>2, <1>3
<1>12. /\ modals' \in [Readers -> Modal] /\ pending' \in [Readers -> Seq(MetaWrite)] /\ cards' \in [Readers -> Card]
       /\ modals'[p].initial = m.initial /\ modals'[p].burn = m.burn /\ modals'[p].armed = (m.armed \/ MustArm(m))
       /\ ~MustArm(m) => pending'[p] = ws BY <1>1, <1>5, <1>6, <1>7, <1>9, Coming
<1>13. Dated'
 <2>1. \A i \in 1 .. Len(ws) : ws[i].kind = "arm" => ws[i].burn /\ ws[i].exp <= hour
  <3> SUFFICES ASSUME NEW i \in 1 .. Len(ws), ws[i].kind = "arm" PROVE ws[i].burn /\ ws[i].exp <= hour OBVIOUS
  <3>1. i \in 1 .. Len(pending[p]) /\ ws[i] = pending[p][i] BY <1>8, <1>9
  <3> QED BY <1>1, <3>1 DEF Dated
 <2>2. hour' = hour /\ sweep' = sweep BY <1>3
 <2> QED BY <1>1, <1>5, <1>6, <1>7, <1>9, <2>1, <2>2, DatedComes
<1>14. Honest'
 <2>1. ASSUME m.open /\ m.candid
       PROVE  (\A q \in Readers \ {p} : pending[q] = <<>>) /\ Told(m, ws, noteRow')
  <3>1. (\A q \in Readers \ {p} : pending[q] = <<>>) /\ Told(old, pending[p], noteRow) BY <1>1, <1>7, <2>1 DEF Honest, old
  <3>2. noteRow' = noteRow /\ old.armed \in BOOLEAN BY <1>2, <1>3 DEF Modal, old
  <3>3. Kept(w, old.armed, old.mount) /\ FitsWrite(<<exp, burn>>, w, old.armed) /\ w.kind # "restore"
    BY <1>8 DEF Kept, FitsWrite
  <3>4. Tale(pending[p], <<old.exp, old.burn>>, noteRow, old.armed, old.mount) BY <3>1 DEF Told
  <3>5. Tale(Append(pending[p], w), <<exp, burn>>, noteRow, old.armed, old.mount) BY <1>2, <1>8, <3>2, <3>3, <3>4, TaleGrows
  <3> QED BY <1>7, <3>1, <3>2, <3>5 DEF Told, ws
 <2>2. noteRow' = noteRow BY <1>3
 <2> QED BY <1>1, <1>5, <1>6, <1>7, <1>9, <2>1, <2>2, HonestComes
<1>15. /\ deed' \in [what : {"none", "read", "keep", "burn", "timer", "delete", "undo"}, page : {deed'.page},
                     exp : Moments, ok : BOOLEAN, firm : BOOLEAN]
       /\ deed'.what = what /\ deed'.page = p /\ deed'.exp = exp
       /\ deed'.firm => firm /\ \A q \in Readers \ {p} : pending'[q] = <<>> /\ ~ArmsYet(modals'[q])
  BY <1>1, <1>4, <1>5, <1>6, <1>7, <1>9, <1>10, DeedDone
<1>16. DestructTypes' BY <1>1, <1>3, <1>4, <1>11, <1>12, <1>15 DEF DestructTypes
<1>17. Untouched' BY <1>4, <1>15 DEF Untouched
<1>18. Decided'
 <2> SUFFICES ASSUME deed'.firm PROVE Decided' BY DEF Decided
 <2>1. m.initial => m.armed BY <1>7, <1>15 DEF firm
 <2>2. ~MustArm(m) /\ ~ArmsYet(modals'[p]) BY <1>12, <2>1 DEF MustArm, DueWhenShown, DueWhenOpen, ArmsYet
 <2>3. pending'[p] = ws BY <1>12, <2>2
 <2>4. ws # <<>> /\ ws[Len(ws)] = w BY <1>9
 <2>5. Chosen(pending'[p], noteRow', hour', deed') BY <1>4, <1>8, <1>15, <2>3, <2>4 DEF Chosen
 <2> QED BY <1>4, <1>15, <2>2, <2>5 DEF Decided
<1> QED BY <1>13, <1>14, <1>16, <1>17, <1>18 DEF DestructInv

\* The user deletes the note.
LEMMA DeleteNoteKeeps == ASSUME NEW p \in Readers, DestructInv, DeleteNote(p) PROVE DestructInv'
<1> DEFINE old == modals[p]
           w == Asks(p, "delete", Never, FALSE, old, cards[p])
           ws == Append(pending[p], w)
<1>1. DestructTypes /\ Dated /\ Untouched /\ Decided /\ Honest BY DEF DestructInv
<1>2. /\ cards[p] \in Card /\ pending[p] \in Seq(MetaWrite) /\ deeds \in 0 .. MaxDeeds /\ MaxDeeds \in Nat
      /\ pending \in [Readers -> Seq(MetaWrite)] /\ old \in Modal /\ trashed \in [Readers -> Card]
  BY <1>1, HoursPass DEF DestructTypes
<1>3. deeds < MaxDeeds /\ deeds' = deeds + 1 /\ UNCHANGED <<sealed, noteRow, hour, sweep, lost>>
      /\ trashed' = [trashed EXCEPT ![p] = old.prop] /\ Comes(p, Shut, ws, NoCard) /\ Does(p, "delete", Never, TRUE)
  BY DEF DeleteNote, MayDo
<1>4. Shut \in Modal /\ NoCard \in Card /\ ~Shut.open /\ old.prop \in Card /\ Never \in Moments
  BY <1>2, ShutTyped, CardTyped, HoursPass DEF Modal
<1>5. w \in MetaWrite /\ w.kind = "delete"
  BY <1>2, <1>4 DEF Modal, Asks, MetaWrite
<1> HIDE DEF w
<1>6. ws \in Seq(MetaWrite) /\ Len(ws) = Len(pending[p]) + 1 /\ Len(pending[p]) \in Nat
      /\ (\A i \in 1 .. Len(pending[p]) : ws[i] = pending[p][i]) /\ ws[Len(pending[p]) + 1] = w BY <1>2, <1>5, LastAsked
<1> HIDE DEF old, ws
<1>7. deeds + 1 \in 0 .. MaxDeeds BY <1>2, <1>3
<1>8. modals' \in [Readers -> Modal] /\ pending' \in [Readers -> Seq(MetaWrite)] /\ cards' \in [Readers -> Card]
  BY <1>1, <1>3, <1>4, <1>6, Coming
<1>9. Dated'
 <2>1. \A i \in 1 .. Len(ws) : ws[i].kind = "arm" => ws[i].burn /\ ws[i].exp <= hour
  <3> SUFFICES ASSUME NEW i \in 1 .. Len(ws), ws[i].kind = "arm" PROVE ws[i].burn /\ ws[i].exp <= hour OBVIOUS
  <3>1. i \in 1 .. Len(pending[p]) /\ ws[i] = pending[p][i] BY <1>5, <1>6
  <3> QED BY <1>1, <3>1 DEF Dated
 <2>2. hour' = hour /\ sweep' = sweep BY <1>3
 <2> QED BY <1>1, <1>3, <1>4, <1>6, <2>1, <2>2, DatedComes
<1>10. Honest'
  BY <1>3, <1>1, <1>4, <1>6, HonestComes
<1>11. /\ deed' \in [what : {"none", "read", "keep", "burn", "timer", "delete", "undo"}, page : {deed'.page},
                     exp : Moments, ok : BOOLEAN, firm : BOOLEAN]
       /\ deed'.what = "delete" /\ deed'.page = p
       /\ deed'.firm => \A q \in Readers \ {p} : pending'[q] = <<>> /\ ~ArmsYet(modals'[q]) BY <1>1, <1>3, <1>4, <1>6, DeedDone
<1>12. DestructTypes' BY <1>1, <1>2, <1>3, <1>4, <1>7, <1>8, <1>11 DEF DestructTypes
<1>13. Untouched' /\ Decided' BY <1>11 DEF Untouched, Decided
<1> QED BY <1>9, <1>10, <1>12, <1>13 DEF DestructInv

\* The user takes the deletion back.
LEMMA UndoDeleteKeeps == ASSUME NEW p \in Readers, DestructInv, UndoDelete(p) PROVE DestructInv'
<1> DEFINE m == modals[p]
           w == Asks(p, "restore", Never, FALSE, m, cards[p])
           ws == Append(pending[p], w)
           c == trashed[p]
<1>1. DestructTypes /\ Dated /\ Untouched /\ Decided /\ Honest BY DEF DestructInv
<1>2. /\ cards[p] \in Card /\ pending[p] \in Seq(MetaWrite) /\ deeds \in 0 .. MaxDeeds /\ MaxDeeds \in Nat
      /\ pending \in [Readers -> Seq(MetaWrite)] /\ m \in Modal /\ trashed \in [Readers -> Card] /\ c \in Card
  BY <1>1, HoursPass DEF DestructTypes
<1>3. deeds < MaxDeeds /\ deeds' = deeds + 1 /\ UNCHANGED <<sealed, noteRow, hour, sweep, lost>>
      /\ trashed' = [trashed EXCEPT ![p] = NoCard] /\ Comes(p, m, ws, c) /\ Does(p, "undo", Never, TRUE)
  BY DEF UndoDelete, MayDo
<1>4. NoCard \in Card /\ Never \in Moments BY CardTyped, HoursPass
<1>5. w \in MetaWrite /\ w.kind = "restore" /\ w.was = <<m.exp, m.burn>>
  BY <1>2, <1>4 DEF Modal, Asks, MetaWrite
<1> HIDE DEF w
<1>6. ws \in Seq(MetaWrite) /\ Len(ws) = Len(pending[p]) + 1 /\ Len(pending[p]) \in Nat
      /\ (\A i \in 1 .. Len(pending[p]) : ws[i] = pending[p][i]) /\ ws[Len(pending[p]) + 1] = w BY <1>2, <1>5, LastAsked
<1> HIDE DEF m, ws, c
<1>7. deeds + 1 \in 0 .. MaxDeeds BY <1>2, <1>3
<1>8. /\ modals' \in [Readers -> Modal] /\ pending' \in [Readers -> Seq(MetaWrite)] /\ cards' \in [Readers -> Card]
      /\ ~MustArm(m) => pending'[p] = ws
      /\ MustArm(m) => pending'[p] = Append(ws, Arming(p, m, c)) BY <1>1, <1>2, <1>3, <1>6, Coming
<1>9. Dated'
 <2>1. \A i \in 1 .. Len(ws) : ws[i].kind = "arm" => ws[i].burn /\ ws[i].exp <= hour
  <3> SUFFICES ASSUME NEW i \in 1 .. Len(ws), ws[i].kind = "arm" PROVE ws[i].burn /\ ws[i].exp <= hour OBVIOUS
  <3>1. i \in 1 .. Len(pending[p]) /\ ws[i] = pending[p][i] BY <1>5, <1>6
  <3> QED BY <1>1, <3>1 DEF Dated
 <2>2. hour' = hour /\ sweep' = sweep BY <1>3
 <2> QED BY <1>1, <1>2, <1>3, <1>6, <2>1, <2>2, DatedComes
<1>10. Honest'
 <2>1. ASSUME m.open /\ m.candid
       PROVE  (\A q \in Readers \ {p} : pending[q] = <<>>) /\ Told(m, ws, noteRow')
  <3>1. (\A q \in Readers \ {p} : pending[q] = <<>>) /\ Told(m, pending[p], noteRow) BY <1>1, <2>1 DEF Honest, m
  <3>2. noteRow' = noteRow /\ m.armed \in BOOLEAN BY <1>2, <1>3 DEF Modal
  <3>3. Kept(w, m.armed, m.mount) BY <1>5 DEF Kept
  <3>4. Tale(pending[p], <<m.exp, m.burn>>, noteRow, m.armed, m.mount) BY <3>1 DEF Told
  <3>5. Tale(Append(pending[p], w), <<m.exp, m.burn>>, noteRow, m.armed, m.mount) BY <1>2, <1>5, <3>2, <3>3, <3>4, TaleGrows
  <3> QED BY <3>1, <3>2, <3>5 DEF Told, ws
 <2>2. noteRow' = noteRow BY <1>3
 <2> QED BY <1>1, <1>2, <1>3, <1>6, <2>1, <2>2, HonestComes
<1>11. /\ deed' \in [what : {"none", "read", "keep", "burn", "timer", "delete", "undo"}, page : {deed'.page},
                     exp : Moments, ok : BOOLEAN, firm : BOOLEAN]
       /\ deed'.what = "undo" /\ deed'.page = p
       /\ deed'.firm => \A q \in Readers \ {p} : pending'[q] = <<>> /\ ~ArmsYet(modals'[q])
  BY <1>1, <1>2, <1>3, <1>4, <1>6, DeedDone
<1>12. DestructTypes' BY <1>1, <1>2, <1>3, <1>4, <1>7, <1>8, <1>11 DEF DestructTypes
<1>13. Untouched' BY <1>11 DEF Untouched
<1>14. BroughtBack(pending'[p], noteRow', hour')
 <2>1. BroughtBack(ws, noteRow', hour')
   BY <1>5, <1>6 DEF ArmsFrom, BroughtBack
 <2>2. Arming(p, m, c) \in MetaWrite /\ Arming(p, m, c).kind = "arm" BY <1>1, <1>2, ArmAsked
 <2>3. BroughtBack(Append(ws, Arming(p, m, c)), noteRow', hour') BY <1>6, <2>1, <2>2, RestoredStays
 <2> QED BY <1>8, <2>1, <2>3
<1>15. Decided' BY <1>11, <1>14 DEF Decided
<1> QED BY <1>9, <1>10, <1>12, <1>13, <1>15 DEF DestructInv

\* A deletion taken back stays so while its writes are taken one by one.
LEMMA RestoredTaken ==
  ASSUME NEW ws \in Seq(MetaWrite), ws # <<>>, NEW rw, NEW written, NEW h, BroughtBack(ws, rw, h),
         ~written.gone, ws[1].kind = "arm" => written.deleted = rw.deleted, ws[1].kind = "restore" => written.deleted = Never
  PROVE  BroughtBack(RemoveAt(ws, 1), written, h)
<1> DEFINE rest == RemoveAt(ws, 1)
<1>1. Len(ws) \in Nat /\ Len(ws) > 0 /\ Len(rest) = Len(ws) - 1 /\ \A i \in 1 .. Len(ws) - 1 : rest[i] = ws[i + 1]
  BY FirstGone, EmptySeq
<1> HIDE DEF rest
<1>2. ASSUME NEW k \in 1 .. Len(ws), ArmsFrom(ws, k + 1) PROVE ArmsFrom(rest, k)
 <2> SUFFICES ASSUME NEW i \in 1 .. Len(rest), i >= k PROVE rest[i].kind = "arm" BY DEF ArmsFrom
 <2>1. rest[i] = ws[i + 1] /\ i + 1 \in 1 .. Len(ws) /\ i + 1 >= k + 1 BY <1>1
 <2> QED BY <1>2, <2>1 DEF ArmsFrom
<1>3. InTime(written, h) BY DEF InTime
<1>4. CASE rw.deleted = Never /\ ArmsFrom(ws, 1)
  BY <1>1, <1>4, <1>2, <1>3 DEF ArmsFrom, BroughtBack, rest
<1>5. ASSUME NEW k \in 1 .. Len(ws), ws[k].kind = "restore", ArmsFrom(ws, k + 1) PROVE BroughtBack(rest, written, h)
 <2>1. ArmsFrom(rest, k) BY <1>2, <1>5
 <2>2. CASE k = 1 BY <1>3, <1>5, <2>1, <2>2 DEF BroughtBack
 <2>3. CASE k > 1
  <3>1. k - 1 \in 1 .. Len(rest) /\ rest[k - 1] = ws[k] /\ (k - 1) + 1 = k BY <1>1, <2>3
  <3> QED BY <1>5, <2>1, <3>1 DEF BroughtBack
 <2> QED BY <2>2, <2>3
<1> QED BY <1>4, <1>5 DEF BroughtBack, rest

\* The server takes the first write of a page.
LEMMA TakesWriteKeeps ==
  ASSUME NEW p \in Readers, DestructInv, pending[p] # <<>>, TakesWrite(p, 1), UNCHANGED <<sealed, hour, sweep, trashed, deeds>>
  PROVE  DestructInv'
<1> DEFINE ws == pending[p]
           rest == RemoveAt(ws, 1)
           w == ws[1]
<1>1. DestructTypes /\ Dated /\ Untouched /\ Decided /\ Honest BY DEF DestructInv
<1>2. /\ ws \in Seq(MetaWrite) /\ pending \in [Readers -> Seq(MetaWrite)] /\ modals \in [Readers -> Modal]
      /\ noteRow \in [exp : Moments, burn : BOOLEAN, deleted : Hours \cup {Never}, gone : BOOLEAN] /\ hour \in Hours
  BY <1>1 DEF DestructTypes
<1>3. StillOpen /\ noteRow' = Rewritten(w) /\ pending' = [pending EXCEPT ![p] = rest]
      /\ UNCHANGED <<cards, modals, deed, lost, sealed, hour, sweep, trashed, deeds>> /\ ~noteRow.gone
  BY DEF TakesWrite, StillOpen
<1>4. rest \in Seq(MetaWrite) /\ Len(rest) = Len(ws) - 1 /\ (\A i \in 1 .. Len(ws) - 1 : rest[i] = ws[i + 1])
      /\ (Len(ws) = 1 <=> rest = <<>>) /\ Len(ws) \in Nat /\ Len(ws) > 0 BY <1>2, FirstGone, EmptySeq
<1>5. w \in MetaWrite BY <1>2, <1>4, ElementOfSeq
<1>6. /\ noteRow' \in [exp : Moments, burn : BOOLEAN, deleted : Hours \cup {Never}, gone : BOOLEAN]
      /\ ~noteRow'.gone
      /\ w.kind \in {"choose", "arm"} => noteRow'.exp = w.exp /\ noteRow'.burn = w.burn /\ noteRow'.deleted = noteRow.deleted
      /\ w.kind \in {"delete", "restore"} => noteRow'.exp = noteRow.exp /\ noteRow'.burn = noteRow.burn
      /\ w.kind = "restore" => noteRow'.deleted = Never
 <2>1. w.kind \in {"choose", "arm", "delete", "restore"} /\ w.exp \in Moments /\ w.burn \in BOOLEAN BY <1>5 DEF MetaWrite
 <2>2. CASE w.kind \in {"choose", "arm"}
  <3>1. noteRow' = [noteRow EXCEPT !.exp = w.exp, !.burn = w.burn] BY <1>3, <2>2 DEF Rewritten, MetaOf
  <3> HIDE DEF w
  <3> QED BY <1>2, <1>3, <2>1, <2>2, <3>1
 <2>3. CASE w.kind = "delete"
  <3>1. noteRow' = [noteRow EXCEPT !.deleted = hour] BY <1>3, <2>3 DEF Rewritten
  <3> HIDE DEF w
  <3> QED BY <1>2, <1>3, <2>3, <3>1
 <2>4. CASE w.kind = "restore"
  <3>1. noteRow' = [noteRow EXCEPT !.deleted = Never] BY <1>3, <2>4 DEF Rewritten
  <3> HIDE DEF w
  <3> QED BY <1>2, <1>3, <2>4, <3>1
 <2> QED BY <2>1, <2>2, <2>3, <2>4
<1>7. pending' \in [Readers -> Seq(MetaWrite)] /\ pending'[p] = rest /\ \A q \in Readers \ {p} : pending'[q] = pending[q]
  BY <1>2, <1>3, <1>4
<1>8. w.kind = "arm" => w.burn /\ w.exp <= hour BY <1>1, <1>4 DEF Dated
<1> HIDE DEF rest
<1>9. DestructTypes' BY <1>1, <1>3, <1>6, <1>7 DEF DestructTypes
<1>10. Dated'
 <2>1. \A i \in 1 .. Len(rest) : rest[i].kind = "arm" => rest[i].burn /\ rest[i].exp <= hour
  <3> SUFFICES ASSUME NEW i \in 1 .. Len(rest), rest[i].kind = "arm" PROVE rest[i].burn /\ rest[i].exp <= hour OBVIOUS
  <3>1. i + 1 \in 1 .. Len(ws) /\ rest[i] = ws[i + 1] BY <1>4
  <3> QED BY <1>1, <3>1 DEF Dated
 <2> QED BY <1>1, <1>3, <1>7, <2>1 DEF Dated
<1>11. Untouched' BY <1>1, <1>3 DEF Untouched
<1>12. Honest'
 <2> SUFFICES ASSUME NEW q \in Readers, modals[q].open, modals[q].candid
              PROVE  (\A r \in Readers \ {q} : pending'[r] = <<>>) /\ Told(modals[q], pending'[q], noteRow') BY <1>3 DEF Honest
 <2>1. (\A r \in Readers \ {q} : pending[r] = <<>>) /\ Told(modals[q], pending[q], noteRow) BY <1>1 DEF Honest
 <2>2. q = p BY <2>1
 <2>3. \A r \in Readers \ {q} : pending'[r] = <<>> BY <1>7, <2>1, <2>2
 <2>4. modals[p].armed \in BOOLEAN BY <1>2 DEF Modal
 <2>5. Tale(ws, <<modals[p].exp, modals[p].burn>>, noteRow, modals[p].armed, modals[p].mount) BY <2>1, <2>2 DEF Told
 <2>6. Tale(RemoveAt(ws, 1), <<modals[p].exp, modals[p].burn>>, noteRow', modals[p].armed, modals[p].mount)
  <3>1. /\ ws[1].kind \in {"choose", "arm"} => noteRow'.exp = ws[1].exp /\ noteRow'.burn = ws[1].burn
        /\ ws[1].kind = "restore" => noteRow'.exp = noteRow.exp /\ noteRow'.burn = noteRow.burn
        /\ ws[1].kind = "arm" => ws[1].burn BY <1>6, <1>8
  <3>2. ws # <<>> /\ ws \in Seq(MetaWrite) BY <1>2
  <3> HIDE DEF ws
  <3> QED BY <2>4, <2>5, <3>1, <3>2, TaleShrinks
 <2> QED BY <1>7, <2>2, <2>3, <2>6 DEF Told, rest
<1>13. Decided'
 <2> SUFFICES ASSUME deed.ok, deed.firm, deed.what # "none" PROVE Decided' BY <1>3 DEF Decided
 <2>1. deed.page = p /\ deed' = deed /\ hour' = hour /\ modals' = modals BY <1>1, <1>3 DEF Decided, DestructTypes
 <2>2. \A q \in Readers \ {p} : pending'[q] = <<>> /\ ~ArmsYet(modals[q]) BY <1>1, <1>7, <2>1 DEF Decided
 <2>3. ws[Len(ws)] = w \/ (rest # <<>> /\ rest[Len(rest)] = ws[Len(ws)]) BY <1>4
 <2>4. rest = <<>> => ws[Len(ws)] = w BY <1>4
 <2>5. rest # <<>> => rest[Len(rest)] = ws[Len(ws)] BY <1>4
 <2>6. deed.what = "read" => Burning(rest, noteRow', hour)
  <3> HAVE deed.what = "read"
  <3>1. ws[Len(ws)].kind = "arm" BY <1>1, <2>1 DEF Decided, Burning
  <3>2. CASE rest = <<>>
   <4>1. w.kind = "arm" /\ noteRow'.exp = w.exp /\ w.exp <= hour BY <1>6, <1>8, <2>4, <3>1, <3>2
   <4>2. \A h \in Hours : h < Never /\ h \in Nat /\ Never \in Nat BY HoursPass
   <4>3. noteRow'.exp \in Nat BY <1>6, HoursPass
   <4>4. noteRow'.exp # Never BY <1>2, <4>1, <4>2, <4>3
   <4> QED BY <3>2, <4>1, <4>4 DEF Burning
  <3>3. CASE rest # <<>> BY <2>5, <3>1, <3>3 DEF Burning
  <3> QED BY <3>2, <3>3
 <2>7. deed.what \in {"keep", "burn", "timer"} => ~ArmsYet(modals[p]) /\ Chosen(rest, noteRow', hour, deed)
  <3> HAVE deed.what \in {"keep", "burn", "timer"}
  <3>1. ~ArmsYet(modals[p]) /\ ws[Len(ws)].kind = "choose" /\ ws[Len(ws)].exp = deed.exp
        /\ (ws[Len(ws)].burn <=> deed.what = "burn") BY <1>1, <2>1 DEF Decided, Chosen
  <3>2. CASE rest = <<>>
    BY <1>6, <2>4, <3>1, <3>2 DEF Chosen, InTime
  <3>3. CASE rest # <<>> BY <2>5, <3>1, <3>3 DEF Chosen
  <3> QED BY <3>2, <3>3
 <2>8. deed.what = "undo" => BroughtBack(rest, noteRow', hour)
  <3> HAVE deed.what = "undo"
  <3>1. BroughtBack(ws, noteRow, hour) BY <1>1, <2>1 DEF Decided
  <3> QED BY <1>2, <1>6, <3>1, RestoredTaken DEF rest
 <2>9. deed.what \in {"keep", "burn"} => deed.exp = Never BY <1>1 DEF Decided
 <2> QED BY <1>7, <2>1, <2>2, <2>6, <2>7, <2>8, <2>9 DEF Decided
<1> QED BY <1>9, <1>10, <1>11, <1>12, <1>13 DEF DestructInv

\* The first write of a page fails: its page takes it back where it still shows it.
LEMMA FailsToSaveKeeps ==
  ASSUME NEW p \in Readers, DestructInv, pending[p] # <<>>, FailsToSave(p, 1), UNCHANGED <<sealed, hour, sweep, trashed, deeds>>
  PROVE  DestructInv'
<1> DEFINE ws == pending[p]
           rest == RemoveAt(ws, 1)
           w == ws[1]
           old == modals[p]
           back == TakesBack(w, old)
           m == [back EXCEPT !.candid = @ /\ rest = <<>> /\ noteRow' = noteRow /\ StillOpen]
           c == CardTakenBack(w, cards[p])
<1>1. DestructTypes /\ Dated /\ Untouched /\ Decided /\ Honest BY DEF DestructInv
<1>2. /\ ws \in Seq(MetaWrite) /\ pending \in [Readers -> Seq(MetaWrite)] /\ old \in Modal /\ cards[p] \in Card
      /\ noteRow \in [exp : Moments, burn : BOOLEAN, deleted : Hours \cup {Never}, gone : BOOLEAN] /\ hour \in Hours
  BY <1>1 DEF DestructTypes
<1>3. /\ Comes(p, m, rest, c)
      /\ noteRow' \in {noteRow, Rewritten(w)}
      /\ deed' = IF deed.page = p THEN [deed EXCEPT !.ok = FALSE] ELSE deed
      /\ UNCHANGED <<sealed, hour, sweep, trashed, deeds>> BY DEF FailsToSave, AfterFailure
<1>4. rest \in Seq(MetaWrite) /\ Len(rest) = Len(ws) - 1 /\ (\A i \in 1 .. Len(ws) - 1 : rest[i] = ws[i + 1])
      /\ (Len(ws) = 1 <=> rest = <<>>) /\ Len(ws) \in Nat /\ Len(ws) > 0 BY <1>2, FirstGone, EmptySeq
<1>5. w \in MetaWrite /\ w.exp \in Moments /\ w.burn \in BOOLEAN /\ w.was \in Moments \X BOOLEAN /\ w.before \in Card
      /\ w.kind \in {"choose", "arm", "delete", "restore"}
 <2>1. w \in MetaWrite BY <1>2, <1>4, ElementOfSeq
 <2> HIDE DEF w
 <2> QED BY <2>1 DEF MetaWrite
<1>6. noteRow' \in [exp : Moments, burn : BOOLEAN, deleted : Hours \cup {Never}, gone : BOOLEAN]
 <2> HIDE DEF w
 <2> QED BY <1>2, <1>3, <1>5 DEF Rewritten, MetaOf
<1> HIDE DEF rest, w
<1>7. back \in Modal /\ back.open = old.open /\ back.armed = old.armed /\ back.mount = old.mount /\ back.candid = old.candid
      /\ back.initial = old.initial BY <1>2, <1>5 DEF TakesBack, Modal
<1> HIDE DEF back
<1>8. m \in Modal /\ m.open = old.open /\ m.armed = old.armed /\ m.mount = old.mount /\ m.exp = back.exp /\ m.burn = back.burn
      /\ (m.candid => old.candid /\ rest = <<>> /\ noteRow' = noteRow) BY <1>7 DEF Modal
<1>9. c \in Card BY <1>2, <1>5, CardTyped DEF CardTakenBack, Card
<1> HIDE DEF c, m
<1>10. modals' \in [Readers -> Modal] /\ pending' \in [Readers -> Seq(MetaWrite)] /\ cards' \in [Readers -> Card]
  BY <1>1, <1>3, <1>4, <1>8, <1>9, Coming
<1>11. rest # pending[p] BY <1>4
<1>12. Dated'
 <2>1. \A i \in 1 .. Len(rest) : rest[i].kind = "arm" => rest[i].burn /\ rest[i].exp <= hour
  <3> SUFFICES ASSUME NEW i \in 1 .. Len(rest), rest[i].kind = "arm" PROVE rest[i].burn /\ rest[i].exp <= hour OBVIOUS
  <3>1. i + 1 \in 1 .. Len(ws) /\ rest[i] = ws[i + 1] BY <1>4
  <3> QED BY <1>1, <3>1 DEF Dated
 <2>2. hour' = hour /\ sweep' = sweep BY <1>3
 <2> QED BY <1>1, <1>3, <1>4, <1>8, <1>9, <2>1, <2>2, DatedComes
<1>13. Honest'
 <2>1. ASSUME m.open /\ m.candid
       PROVE  (\A q \in Readers \ {p} : pending[q] = <<>>) /\ Told(m, rest, noteRow')
  <3>1. (\A q \in Readers \ {p} : pending[q] = <<>>) /\ Told(old, ws, noteRow) BY <1>1, <1>8, <2>1 DEF Honest
  <3>2. rest = <<>> /\ noteRow' = noteRow /\ Len(ws) = 1 BY <1>4, <1>8, <2>1
  <3>3. old.armed \in BOOLEAN /\ Tale(ws, <<old.exp, old.burn>>, noteRow, old.armed, old.mount) BY <1>2, <3>1 DEF Told, Modal
  <3>4. /\ w.kind = "choose" => w.mount = old.mount /\ old.exp = w.exp /\ old.burn = w.burn /\ FitsRow(w.was, noteRow, old.armed)
        /\ w.kind # "choose" => FitsRow(<<old.exp, old.burn>>, noteRow, old.armed)
   <4>1. ws \in Seq(MetaWrite) BY <1>2
   <4> HIDE DEF ws, old
   <4> QED BY <4>1, <3>2, <3>3, TaleTakenBack DEF w
  <3>5. FitsRow(<<back.exp, back.burn>>, noteRow, old.armed)
   <4>1. CASE w.kind = "choose"
    <5>1. back = [old EXCEPT !.exp = w.was[1], !.burn = w.was[2]] BY <1>8, <2>1, <3>4, <4>1 DEF TakesBack, back
    <5>2. w.was = <<w.was[1], w.was[2]>> BY <1>5
    <5>3. <<back.exp, back.burn>> = w.was BY <1>2, <5>1, <5>2 DEF Modal
    <5> QED BY <3>4, <4>1, <5>3
   <4>2. CASE w.kind # "choose"
     BY <4>2, <3>4 DEF TakesBack, back
   <4> QED BY <4>1, <4>2
  <3>6. Told(m, <<>>, noteRow) BY <1>8, <3>5, TaleBegins DEF Told
  <3> QED BY <3>1, <3>2, <3>6
 <2> QED BY <1>1, <1>3, <1>4, <1>8, <1>9, <1>11, <2>1, HonestComes
<1>14. DestructTypes'
  BY <1>1, <1>3, <1>6, <1>10 DEF DestructTypes
<1>15. deed'.what # "none"
  BY <1>1, <1>3 DEF Untouched, DestructTypes
<1>16. ~(deed'.ok /\ deed'.firm)
 <2> SUFFICES ASSUME deed'.ok, deed'.firm PROVE FALSE OBVIOUS
 <2>1. deed.page # p /\ deed' = deed BY <1>1, <1>3 DEF DestructTypes
 <2> QED BY <1>1, <1>15, <2>1 DEF Decided
<1>17. Untouched' /\ Decided' BY <1>15, <1>16 DEF Untouched, Decided
<1> QED BY <1>12, <1>13, <1>14, <1>17 DEF DestructInv

\* Every step keeps it.
LEMMA DestructKept == DestructInv /\ [DestructNext]_destructVars => DestructInv'
<1> SUFFICES ASSUME DestructInv, [DestructNext]_destructVars PROVE DestructInv' OBVIOUS
<1>1. CASE UNCHANGED destructVars
  BY <1>1, DecidedStands, HonestStays DEF destructVars, DestructInv, DestructTypes, Dated, Untouched
<1>2. CASE ScanRows \/ TakeRows \/ HourPasses BY <1>2, ScanRowsKeeps, TakeRowsKeeps, HourPassesKeeps
<1>3. ASSUME NEW p \in Readers,
             OpenNote(p) \/ DecryptNote(p) \/ SealAgain(p) \/ ShutNote(p) \/ Choose(p) \/ DeleteNote(p) \/ UndoDelete(p) \/ FetchCards(p)
      PROVE  DestructInv'
  BY <1>3, OpenNoteKeeps, DecryptNoteKeeps, SealAgainKeeps, ShutNoteKeeps, ChooseKeeps, DeleteNoteKeeps, UndoDeleteKeeps, FetchCardsKeeps
<1>4. ASSUME NEW p \in Readers, AnswerComes(p)
      PROVE  DestructInv'
  BY <1>4, TakesWriteKeeps, FailsToSaveKeeps DEF AnswerComes, Sendable, InTurn
<1> QED BY <1>1, <1>2, <1>3, <1>4 DEF DestructNext

\* What burns is what was read, or chosen to burn, and the page says so.
LEMMA DestructDecides == DestructInv => ReadersDecide
<1> SUFFICES ASSUME DestructInv PROVE ReadersDecide OBVIOUS
<1>1. DestructTypes /\ Dated /\ Untouched /\ Decided /\ Honest BY DEF DestructInv
<1>2. hour \in Nat /\ noteRow.exp \in Nat /\ Never \in Nat /\ Grace = 1 /\ hour < Never /\ noteRow.burn \in BOOLEAN
  BY <1>1, HoursPass DEF DestructTypes
<1>3. ReadIsBurnt
 <2> SUFFICES ASSUME AllAnswered, deed.what = "read" PROVE Expired BY DEF ReadIsBurnt
 <2>1. Burning(pending[deed.page], noteRow, hour) /\ pending[deed.page] = <<>> BY <1>1 DEF AllAnswered, Decided
 <2> QED BY <2>1 DEF Burning, Expired
<1>4. UnreadStands BY <1>1 DEF Untouched, UnreadStands
<1>5. ChoicesAreKept
 <2> SUFFICES ASSUME AllAnswered, noteRow.deleted = Never \/ deed.what = "undo"
              PROVE  CASE deed.what = "keep"  -> ~noteRow.gone /\ noteRow.exp = Never /\ ~noteRow.burn
                       [] deed.what = "burn"  -> ~noteRow.gone /\ noteRow.exp = Never /\ noteRow.burn
                       [] deed.what = "timer" -> noteRow.exp = deed.exp /\ ~noteRow.burn
                                                   /\ (noteRow.gone => deed.exp + Grace < hour)
                       [] deed.what = "undo"  -> noteRow.deleted = Never /\ (noteRow.gone => noteRow.exp + Grace < hour)
                       [] OTHER               -> TRUE BY DEF ChoicesAreKept
 <2>1. deed.ok /\ deed.firm /\ pending[deed.page] = <<>> BY DEF AllAnswered
 <2>2. CASE deed.what = "undo"
   BY <1>1, <2>1, <2>2 DEF Decided, BroughtBack, InTime
 <2>3. CASE deed.what \in {"keep", "burn", "timer"}
   BY <1>1, <2>1, <2>3, <1>2 DEF Decided, Chosen, InTime
 <2>4. CASE deed.what \notin {"undo", "keep", "burn", "timer"} BY <2>4
 <2> QED BY <2>2, <2>3, <2>4
<1>6. ModalShowsTheRow
 <2> SUFFICES ASSUME NEW p \in Readers, modals[p].open, modals[p].candid, pending[p] = <<>>
              PROVE  /\ modals[p].burn = noteRow.burn
                     /\ modals[p].exp = noteRow.exp \/ (modals[p].armed /\ modals[p].exp = Never /\ modals[p].burn)
   BY DEF ModalShowsTheRow
 <2>1. Tells(<<>>, 0, <<modals[p].exp, modals[p].burn>>, noteRow, modals[p].armed) BY <1>1 DEF Honest, Told, Tale
 <2>2. FitsRow(<<modals[p].exp, modals[p].burn>>, noteRow, modals[p].armed) BY <2>1 DEF Tells, Silent
 <2> QED BY <2>2 DEF FitsRow
<1> QED BY <1>3, <1>4, <1>5, <1>6 DEF ReadersDecide

\* What burns is what was read or chosen to burn, and the page says so: for any
\* pages, hours, deeds and lost requests.
THEOREM ReadersAlwaysDecide == DestructSpec => []ReadersDecide
<1> QED BY DestructStarts, DestructKept, DestructDecides, PTL DEF DestructSpec

-----------------------------------------------------------------------------
(* Promotion: rows, files and tasks keep their types *)

\* What a capped history keeps is of the history, and no longer than the cap.
LEMMA HistoryShape == ASSUME NEW h \in Seq(Bodies) PROVE
    /\ Capped(h) \in Seq(Bodies) /\ Len(Capped(h)) <= MaxHistory
    /\ \A i \in 1..Len(Capped(h)) : \E j \in 1..Len(h) : Capped(h)[i] = h[j]
<1>1. CASE Len(h) <= MaxHistory BY <1>1, PromotionAssumption DEF Capped
<1>2. CASE Len(h) > MaxHistory
 <2> DEFINE m == Len(h) - MaxHistory + 1
 <2>1. m \in 1..(Len(h) + 1) /\ Len(h) \in Nat /\ MaxHistory \in Nat \ {0} BY <1>2, PromotionAssumption
 <2>2. /\ SubSeq(h, m, Len(h)) \in Seq(Bodies)
       /\ Len(SubSeq(h, m, Len(h))) = Len(h) - m + 1
       /\ \A i \in 1..(Len(h) - m + 1) : SubSeq(h, m, Len(h))[i] = h[m + i - 1] BY <2>1, SubSeqProperties
 <2>3. Capped(h) = SubSeq(h, m, Len(h)) BY <1>2 DEF Capped
 <2>4. Len(Capped(h)) = MaxHistory BY <2>1, <2>2, <2>3
 <2>5. \A i \in 1..Len(Capped(h)) : m + i - 1 \in 1..Len(h) /\ Capped(h)[i] = h[m + i - 1] BY <2>1, <2>2, <2>3, <2>4
 <2> QED BY <2>1, <2>2, <2>3, <2>4, <2>5
<1> QED BY <1>1, <1>2, PromotionAssumption

\* A history without one of its versions.
Cut(h, k) == SubSeq(h, 1, k - 1) \o SubSeq(h, k + 1, Len(h))

\* Dropping a version leaves versions there were.
LEMMA HistoryCut == ASSUME NEW h \in Seq(Bodies), NEW k \in 1..Len(h) PROVE
    /\ Cut(h, k) \in Seq(Bodies) /\ Len(Cut(h, k)) <= Len(h)
    /\ \A i \in 1..Len(Cut(h, k)) : \E j \in 1..Len(h) : Cut(h, k)[i] = h[j]
<1> DEFINE n == Len(h)
           g == Cut(h, k)
<1>0. n \in Nat /\ n = Len(h) /\ k \in 1..n /\ g = SubSeq(h, 1, k - 1) \o SubSeq(h, k + 1, n) BY LenProperties DEF Cut
<1> HIDE DEF n, g
<1>1. n \in Nat /\ k \in 1..n /\ k \in Int /\ \A i \in 1..n : h[i] \in Bodies BY <1>0, LenProperties
<1>3. /\ SubSeq(h, 1, k - 1) \in Seq(Bodies) /\ Len(SubSeq(h, 1, k - 1)) = k - 1
      /\ \A i \in 1..(k - 1) : SubSeq(h, 1, k - 1)[i] = h[i]
  BY <1>1, SubSeqProperties
<1>4. /\ SubSeq(h, k + 1, n) \in Seq(Bodies) /\ Len(SubSeq(h, k + 1, n)) = n - k
      /\ \A i \in 1..(n - k) : SubSeq(h, k + 1, n)[i] = h[k + i]
  BY <1>1, SubSeqProperties
<1>5. /\ g \in Seq(Bodies) /\ Len(g) = (k - 1) + (n - k)
      /\ \A i \in 1..((k - 1) + (n - k)) :
           g[i] = IF i <= k - 1 THEN SubSeq(h, 1, k - 1)[i] ELSE SubSeq(h, k + 1, n)[i - (k - 1)]
 <2> DEFINE p == SubSeq(h, 1, k - 1)
            q == SubSeq(h, k + 1, n)
 <2>1. p \in Seq(Bodies) /\ q \in Seq(Bodies) /\ Len(p) = k - 1 /\ Len(q) = n - k BY <1>3, <1>4
 <2>2. g = p \o q BY <1>0
 <2> HIDE DEF p, q
 <2>3. /\ p \o q \in Seq(Bodies) /\ Len(p \o q) = Len(p) + Len(q)
       /\ \A i \in 1..(Len(p) + Len(q)) : (p \o q)[i] = IF i <= Len(p) THEN p[i] ELSE q[i - Len(p)] BY <2>1, ConcatProperties
 <2>4. /\ g \in Seq(Bodies) /\ Len(g) = (k - 1) + (n - k)
       /\ \A i \in 1..((k - 1) + (n - k)) : g[i] = IF i <= k - 1 THEN p[i] ELSE q[i - (k - 1)] BY ONLY <2>1, <2>2, <2>3
 <2> QED BY <2>4 DEF p, q
<1>6. (k - 1) + (n - k) = n - 1 BY <1>1
<1>7. ASSUME NEW i \in 1..(n - 1) PROVE \E j \in 1..n : g[i] = h[j]
 <2>1. CASE i <= k - 1
   BY <1>1, <2>1, <1>3, <1>5, <1>6
 <2>2. CASE ~(i <= k - 1)
   BY <1>1, <2>2, <1>4, <1>5, <1>6
 <2> QED BY <2>1, <2>2
<1> QED
 <2>1. n - 1 <= n BY <1>1
 <2>2. Len(g) = n - 1 BY <1>5, <1>6
 <2>3. g \in Seq(Bodies) BY <1>5
 <2>4. Len(g) <= n BY <2>1, <2>2
 <2>5. \A i \in 1..Len(g) : \E j \in 1..n : g[i] = h[j] BY ONLY <2>2, <1>7
 <2> QED BY <2>3, <2>4, <2>5 DEF n, g

\* A row, its history within the cap.
GoodRow == {r \in TierRow : Len(r.history) <= MaxHistory}

\* The type invariant, row by row.
LEMMA GoodRows == PromotionTypeOK <=>
    /\ tierRows \in [Notes -> [Tiers -> GoodRow]]
    /\ files \in [FileIds -> File] /\ objects \subseteq FileIds
    /\ tabs \in [Tabs -> Tab] /\ saves \in 0..MaxSaves /\ removed \subseteq FileIds
<1>1. ASSUME PromotionTypeOK, NEW n \in Notes, NEW t \in Tiers PROVE tierRows[n][t] \in GoodRow
  BY <1>1 DEF PromotionTypeOK, GoodRow
<1>2. ASSUME PromotionTypeOK PROVE tierRows \in [Notes -> [Tiers -> GoodRow]]
  BY <1>2, <1>1 DEF PromotionTypeOK
<1>3. ASSUME tierRows \in [Notes -> [Tiers -> GoodRow]] PROVE
    tierRows \in [Notes -> [Tiers -> TierRow]] /\ \A n \in Notes, t \in Tiers : Len(tierRows[n][t].history) <= MaxHistory
 <2>1. GoodRow \subseteq TierRow /\ \A r \in GoodRow : Len(r.history) <= MaxHistory BY DEF GoodRow
 <2> HIDE DEF GoodRow
 <2> QED BY <1>3, <2>1
<1> QED BY <1>2, <1>3 DEF PromotionTypeOK

\* The same of the state after a step.
LEMMA GoodRowsNext == ASSUME
    tierRows' \in [Notes -> [Tiers -> GoodRow]], files' \in [FileIds -> File], objects' \subseteq FileIds,
    tabs' \in [Tabs -> Tab], saves' \in 0..MaxSaves, removed' \subseteq FileIds PROVE PromotionTypeOK'
<1>1. GoodRow \subseteq TierRow /\ \A r \in GoodRow : Len(r.history) <= MaxHistory BY DEF GoodRow
<1>2. tierRows' \in [Notes -> [Tiers -> TierRow]] /\ \A n \in Notes, t \in Tiers : Len(tierRows'[n][t].history) <= MaxHistory
 <2> HIDE DEF GoodRow
 <2> QED BY <1>1
<1> QED BY <1>2 DEF PromotionTypeOK

\* Writing one row leaves the others.
LEMMA RowIsSet == ASSUME tierRows \in [Notes -> [Tiers -> GoodRow]], NEW n \in Notes, NEW t \in Tiers,
    NEW row \in GoodRow, SetRow(n, t, row) PROVE
    /\ tierRows' \in [Notes -> [Tiers -> GoodRow]]
    /\ tierRows'[n][t] = row
    /\ \A m \in Notes, u \in Tiers : m # n \/ u # t => tierRows'[m][u] = tierRows[m][u]
<1> QED BY DEF SetRow

\* The blank values are of their types.
LEMMA PlainTypes == /\ Blank \in Bodies /\ NoTierRow \in GoodRow /\ NoFile \in File /\ NoTask \in Tab
                    /\ First \in Notes /\ {"note", "secret", "seal"} = Tiers
<1>1. Blank \in Bodies BY PromotionAssumption DEF Blank, Bodies
<1>2. <<>> \in Seq(Bodies) /\ Len(<<>>) = 0 BY EmptySeq
<1>3. NoTierRow \in GoodRow BY <1>1, <1>2, PromotionAssumption DEF NoTierRow, GoodRow, TierRow
<1>4. NoFile \in File BY DEF NoFile, File
<1>5. NoTask \in Tab BY <1>1, <1>2, PromotionAssumption DEF NoTask, Tab
<1> QED BY <1>1, <1>3, <1>4, <1>5, PromotionAssumption DEF Tiers

\* The type invariant holds at first.
LEMMA PromotionInitTypes == PromotionInit => PromotionTypeOK
<1> SUFFICES ASSUME PromotionInit PROVE PromotionTypeOK OBVIOUS
<1>1. PICK occupied \in BOOLEAN :
          /\ tierRows = [n \in Notes |-> [t \in Tiers |->
            IF n # First \/ t = "seal" \/ (t = "secret" /\ ~occupied) THEN NoTierRow
            ELSE [NoTierRow EXCEPT !.state = "live", !.body.shows = IF t = "note" THEN {1} ELSE {}]]] BY DEF PromotionInit
<1>2. \A S \in {{1}, {}} : [NoTierRow EXCEPT !.state = "live", !.body.shows = S] \in GoodRow
 <2>1. 1 \in FileIds BY PromotionAssumption DEF FileIds
 <2>2. <<>> \in Seq(Bodies) /\ Len(<<>>) = 0 BY EmptySeq
 <2>3. \A S \in {{1}, {}} : [Blank EXCEPT !.shows = S] \in Bodies BY <2>1, PlainTypes DEF Bodies
 <2> QED BY <2>2, <2>3, PlainTypes, PromotionAssumption DEF NoTierRow, GoodRow, TierRow
<1>3. tierRows \in [Notes -> [Tiers -> GoodRow]]
  BY <1>2, PlainTypes, <1>1
<1>4. files \in [FileIds -> File]
  BY PromotionAssumption, PlainTypes DEF NoFile, File, Tiers, PromotionInit
<1>5. objects \subseteq FileIds
 <2>1. objects = {1} BY DEF PromotionInit
 <2>2. 1 \in FileIds BY PromotionAssumption DEF FileIds
 <2> QED BY <2>1, <2>2
<1>6. tabs \in [Tabs -> Tab] /\ saves \in 0..MaxSaves /\ removed \subseteq FileIds
 <2>1. tabs \in [Tabs -> Tab] BY PlainTypes DEF PromotionInit
 <2>2. saves \in 0..MaxSaves
  <3>1. saves = 0 /\ MaxSaves \in Nat BY PromotionAssumption DEF PromotionInit
  <3> QED BY <3>1
 <2>3. removed \subseteq FileIds BY DEF PromotionInit
 <2> QED BY <2>1, <2>2, <2>3
<1> QED BY <1>3, <1>4, <1>5, <1>6, GoodRows

\* A capped history with one more body shows that body and what there was.
LEMMA HistoryGrown == ASSUME NEW h \in Seq(Bodies), NEW b \in Bodies PROVE
    /\ Capped(Append(h, b)) \in Seq(Bodies) /\ Len(Capped(Append(h, b))) <= MaxHistory
    /\ \A i \in 1..Len(Capped(Append(h, b))) : Capped(Append(h, b))[i] = b \/ \E j \in 1..Len(h) : Capped(Append(h, b))[i] = h[j]
<1> DEFINE g == Append(h, b)
<1>1. g \in Seq(Bodies) /\ Len(g) = Len(h) + 1 /\ Len(h) \in Nat BY AppendProperties, LenProperties
<1>2. \A j \in 1..Len(g) : g[j] = b \/ \E k \in 1..Len(h) : g[j] = h[k]
 <2> TAKE j \in 1..Len(g)
 <2>1. CASE j = Len(h) + 1 BY <2>1, AppendProperties
 <2>2. CASE j # Len(h) + 1
   BY <1>1, <2>2, AppendProperties
 <2> QED BY <2>1, <2>2
<1> HIDE DEF g
<1>3. /\ Capped(g) \in Seq(Bodies) /\ Len(Capped(g)) <= MaxHistory
      /\ \A i \in 1..Len(Capped(g)) : \E j \in 1..Len(g) : Capped(g)[i] = g[j] BY <1>1, HistoryShape
<1>4. \A i \in 1..Len(Capped(g)) : Capped(g)[i] = b \/ \E j \in 1..Len(h) : Capped(g)[i] = h[j] BY <1>2, <1>3
<1> QED BY <1>3, <1>4 DEF g

\* Linking files leaves files.
LEMMA RelinkedType == ASSUME files \in [FileIds -> File], NEW S, NEW n \in Notes, NEW t \in Tiers PROVE
    Relinked(S, n, t) \in [FileIds -> File]
<1>1. \A f \in FileIds : [files[f] EXCEPT !.note = n, !.tier = t] \in File BY DEF File
<1> QED BY <1>1 DEF Relinked

\* So does setting their states.
LEMMA SetFilesType == ASSUME files \in [FileIds -> File], NEW S, NEW state \in {"deleted", "late", "live"} PROVE
    SetFiles(S, state) \in [FileIds -> File]
<1>1. \A f \in FileIds : [files[f] EXCEPT !.state = state] \in File BY DEF File
<1> QED BY <1>1 DEF SetFiles

\* The new uploads an editor of the row knows.
UploadsFor(n, t) ==
  {f \in FileIds : /\ LiveFile(f) /\ Unlinked(f) /\ ~files[f].copy
                   /\ files[f].key \in IF t = "note" THEN {"plain"} ELSE {"vault", n}}

\* All that a row shows, in its body and in its versions.
Shown(row) == row.body.shows \cup UNION {row.history[i].shows : i \in 1..Len(row.history)}

\* What an editor knows is what its row shows, and its new uploads.
LEMMA KnownAre == ASSUME NEW n, NEW t PROVE KnownFiles(n, t) = Shown(tierRows[n][t]) \cup UploadsFor(n, t)
BY DEF KnownFiles, Shown, UploadsFor

\* A save keeps the types.
LEMMA SaveTypes == ASSUME PromotionTypeOK, NEW n \in Notes, NEW t \in Tiers, SaveNote(n, t) PROVE PromotionTypeOK'
<1>1. PICK shows \in SUBSET KnownFiles(n, t), window \in BOOLEAN :
       /\ SetRow(n, t, [tierRows[n][t] EXCEPT
            !.body = [edit |-> saves + 1, shows |-> shows], !.updatedAt = saves + 1,
            !.history = IF @ = <<>> \/ window THEN Capped(Append(@, tierRows[n][t].body)) ELSE @])
       /\ files' = Relinked(shows, n, t) BY DEF SaveNote
<1> DEFINE old == tierRows[n][t]
           history == IF old.history = <<>> \/ window THEN Capped(Append(old.history, old.body)) ELSE old.history
           row == [old EXCEPT !.body = [edit |-> saves + 1, shows |-> shows], !.updatedAt = saves + 1, !.history = history]
<1>2. old \in GoodRow BY GoodRows
<1>3. shows \subseteq FileIds
 <2>1. old.body.shows \subseteq FileIds BY <1>2 DEF GoodRow, TierRow, Bodies
 <2>2. \A i \in 1..Len(old.history) : old.history[i] \in Bodies BY <1>2, LenProperties DEF GoodRow, TierRow
 <2>3. \A i \in 1..Len(old.history) : old.history[i].shows \subseteq FileIds BY <2>2 DEF Bodies
 <2>4. UNION {old.history[i].shows : i \in 1..Len(old.history)} \subseteq FileIds BY <2>3
 <2>5. KnownFiles(n, t) \subseteq FileIds BY <2>1, <2>4, KnownAre DEF Shown, UploadsFor
 <2> QED BY <2>5
<1>4. saves + 1 \in 0..MaxSaves BY PromotionAssumption DEF SaveNote, MaySave, PromotionTypeOK
<1>5. history \in Seq(Bodies) /\ Len(history) <= MaxHistory BY <1>2, HistoryGrown DEF GoodRow, TierRow
<1>6. row \in GoodRow
 <2>1. [edit |-> saves + 1, shows |-> shows] \in Bodies BY <1>3, <1>4 DEF Bodies
 <2> HIDE DEF history
 <2> QED BY <2>1, <1>2, <1>4, <1>5 DEF GoodRow, TierRow
<1>7. SetRow(n, t, row) BY <1>1
<1> HIDE DEF row
<1>8. tierRows' \in [Notes -> [Tiers -> GoodRow]] BY <1>6, <1>7, RowIsSet, GoodRows
<1>9. files' \in [FileIds -> File] BY <1>1, RelinkedType, GoodRows
<1>10. saves' \in 0..MaxSaves BY <1>4 DEF SaveNote
<1> QED BY <1>8, <1>9, <1>10, GoodRows, GoodRowsNext DEF SaveNote

\* A restore of a version keeps the types.
LEMMA RestoreTypes == ASSUME PromotionTypeOK, NEW n \in Notes, NEW t \in Tiers, RestoreVersion(n, t) PROVE PromotionTypeOK'
<1> DEFINE old == tierRows[n][t]
<1>1. PICK i \in 1..Len(old.history) :
       /\ SetRow(n, t, [tierRows[n][t] EXCEPT
            !.body = tierRows[n][t].history[i], !.updatedAt = saves + 1,
            !.history = Capped(Append(@, tierRows[n][t].body))])
       /\ files' = IF t = "note" THEN Relinked(tierRows[n][t].history[i].shows, n, t) ELSE files BY DEF RestoreVersion
<1> DEFINE history == Capped(Append(old.history, old.body))
           row == [old EXCEPT !.body = old.history[i], !.updatedAt = saves + 1, !.history = history]
<1>2. old \in GoodRow BY GoodRows
<1>3. old.history \in Seq(Bodies) /\ old.body \in Bodies /\ old.history[i] \in Bodies
  BY <1>2, LenProperties DEF GoodRow, TierRow
<1>4. saves + 1 \in 0..MaxSaves BY PromotionAssumption DEF RestoreVersion, MaySave, PromotionTypeOK
<1>5. history \in Seq(Bodies) /\ Len(history) <= MaxHistory BY <1>3, HistoryGrown
<1>6. row \in GoodRow
 <2> HIDE DEF history
 <2> QED BY <1>2, <1>3, <1>4, <1>5 DEF GoodRow, TierRow
<1>7. SetRow(n, t, row) BY <1>1
<1> HIDE DEF row
<1>8. tierRows' \in [Notes -> [Tiers -> GoodRow]] BY <1>6, <1>7, RowIsSet, GoodRows
<1>9. files' \in [FileIds -> File] BY <1>1, RelinkedType, GoodRows
<1>10. saves' \in 0..MaxSaves BY <1>4 DEF RestoreVersion
<1> QED BY <1>8, <1>9, <1>10, GoodRows, GoodRowsNext DEF RestoreVersion

\* A dropped version keeps the types.
LEMMA DropTypes == ASSUME PromotionTypeOK, NEW n \in Notes, NEW t \in Tiers, DropVersion(n, t) PROVE PromotionTypeOK'
<1> DEFINE old == tierRows[n][t]
<1>1. PICK i \in 1..Len(old.history) :
       SetRow(n, t, [tierRows[n][t] EXCEPT !.history = SubSeq(@, 1, i - 1) \o SubSeq(@, i + 1, Len(@))]) BY DEF DropVersion
<1> DEFINE history == SubSeq(old.history, 1, i - 1) \o SubSeq(old.history, i + 1, Len(old.history))
           row == [old EXCEPT !.history = history]
<1>2. old \in GoodRow BY GoodRows
<1>3. history \in Seq(Bodies) /\ Len(history) <= Len(old.history) BY <1>2, HistoryCut DEF GoodRow, TierRow, Cut
<1>4. Len(history) <= MaxHistory
 <2> HIDE DEF history
 <2> QED BY <1>2, <1>3, PromotionAssumption, LenProperties DEF GoodRow, TierRow
<1>5. row \in GoodRow
 <2> HIDE DEF history
 <2> QED BY <1>2, <1>3, <1>4 DEF GoodRow, TierRow
<1>6. SetRow(n, t, row) BY <1>1
<1> HIDE DEF row
<1>7. tierRows' \in [Notes -> [Tiers -> GoodRow]] BY <1>5, <1>6, RowIsSet, GoodRows
<1> QED BY <1>7, GoodRows, GoodRowsNext DEF DropVersion

\* A row stays one when its state or its arming changes.
LEMMA SmallRows == ASSUME NEW row \in GoodRow PROVE
    /\ \A state \in {"gone", "live", "expired", "over", "trash", "old"} : [row EXCEPT !.state = state] \in GoodRow
    /\ [row EXCEPT !.armed = TRUE] \in GoodRow
    /\ [row EXCEPT !.state = "live", !.armed = FALSE] \in GoodRow
BY DEF GoodRow, TierRow

\* The steps that change a state, or a file of the row, keep the types.
LEMMA RowTypes == ASSUME PromotionTypeOK, NEW n \in Notes, NEW t \in Tiers,
    Trash(n, t) \/ UndoTrash(n, t) \/ Arm(n, t) \/ ExpireNote(n, t) \/ CancelTimer(n, t) \/ ReapRow(n, t) \/ AttachFiles(n, t)
      \/ RemoveFile(n, t)
    PROVE PromotionTypeOK'
<1>0. tierRows[n][t] \in GoodRow /\ files \in [FileIds -> File] /\ tierRows \in [Notes -> [Tiers -> GoodRow]] BY GoodRows
<1>1. ASSUME NEW row \in GoodRow, SetRow(n, t, row), files' \in [FileIds -> File], UNCHANGED <<objects, tabs, saves, removed>>
      PROVE PromotionTypeOK' BY <1>1, <1>0, RowIsSet, GoodRows, GoodRowsNext
<1>2. \A S \in SUBSET FileIds : \A state \in {"deleted", "late", "live"} : SetFiles(S, state) \in [FileIds -> File]
  BY <1>0, SetFilesType
<1>3. CASE Trash(n, t)
  BY <1>2, <1>3, <1>0, SmallRows, <1>1 DEF Trash
<1>4. CASE UndoTrash(n, t)
  BY <1>2, <1>4, <1>0, SmallRows, <1>1 DEF UndoTrash
<1>5. CASE Arm(n, t)
  BY <1>0, SmallRows, <1>1, <1>5 DEF Arm
<1>6. CASE ExpireNote(n, t)
  BY <1>0, SmallRows, <1>1, <1>6 DEF ExpireNote
<1>7. CASE CancelTimer(n, t)
  BY <1>0, SmallRows, <1>1, <1>7 DEF CancelTimer
<1>8. CASE ReapRow(n, t)
  BY PlainTypes, SmallRows, <1>0, <1>1, <1>8 DEF ReapRow
<1>9. CASE AttachFiles(n, t)
 <2>1. PICK f \in NextFile :
      /\ files' = [files EXCEPT ![f] = [NoFile EXCEPT !.state = "live",
           !.key = IF t = "note" THEN "plain" ELSE IF t = "secret" THEN "vault" ELSE n]]
      /\ objects' = objects \cup {f} BY <1>9 DEF AttachFiles
 <2>2. f \in FileIds BY DEF NextFile
 <2>3. [NoFile EXCEPT !.state = "live", !.key = IF t = "note" THEN "plain" ELSE IF t = "secret" THEN "vault" ELSE n] \in File
   BY DEF NoFile, File
 <2>4. files' \in [FileIds -> File] BY <2>1, <2>2, <2>3, <1>0
 <2> QED BY <2>1, <2>2, <2>4, <1>9, GoodRows, GoodRowsNext DEF AttachFiles
<1>10. CASE RemoveFile(n, t)
 <2>1. PICK f \in tierRows[n][t].body.shows :
      /\ LiveFile(f)
      /\ files' = SetFiles({f}, "deleted")
      /\ removed' = removed \cup {f} BY <1>10 DEF RemoveFile
 <2>2. f \in FileIds BY <1>0 DEF GoodRow, TierRow, Bodies
 <2>3. files' \in [FileIds -> File] BY <2>1, <2>2, <1>2
 <2> QED BY <2>1, <2>2, <2>3, <1>10, GoodRows, GoodRowsNext DEF RemoveFile
<1> QED BY <1>3, <1>4, <1>5, <1>6, <1>7, <1>8, <1>9, <1>10

\* A duplicate keeps the types.
LEMMA DuplicateTypes == ASSUME PromotionTypeOK, NEW n \in Notes, NEW t \in Tiers, NEW m \in Notes, Duplicate(n, t, m)
    PROVE PromotionTypeOK'
<1>0. tierRows[n][t] \in GoodRow /\ files \in [FileIds -> File] /\ tierRows \in [Notes -> [Tiers -> GoodRow]] BY GoodRows
<1>1. PICK body \in {tierRows[n][t].body} \cup {tierRows[n][t].history[i] : i \in 1..Len(tierRows[n][t].history)} :
       /\ SetRow(m, t, [NoTierRow EXCEPT !.state = "live", !.keyed = (t = "seal"),
            !.body = IF t = "seal" THEN [body EXCEPT !.shows = {f \in @ : files[f].key \notin Notes}]
                     ELSE body])
       /\ files' = IF t = "note" THEN Relinked(body.shows, m, t) ELSE files BY DEF Duplicate
<1>2. body \in Bodies
  BY <1>0, LenProperties DEF GoodRow, TierRow
<1> DEFINE new == IF t = "seal" THEN [body EXCEPT !.shows = {f \in @ : files[f].key \notin Notes}] ELSE body
           row == [NoTierRow EXCEPT !.state = "live", !.keyed = (t = "seal"), !.body = new]
<1>3. new \in Bodies BY <1>2 DEF Bodies
<1>4. row \in GoodRow
 <2>1. <<>> \in Seq(Bodies) /\ Len(<<>>) = 0 BY EmptySeq
 <2> HIDE DEF new
 <2> QED BY <1>3, <2>1, PlainTypes, PromotionAssumption DEF NoTierRow, GoodRow, TierRow
<1>5. SetRow(m, t, row) BY <1>1
<1> HIDE DEF row
<1>6. tierRows' \in [Notes -> [Tiers -> GoodRow]] BY <1>0, <1>4, <1>5, RowIsSet
<1>7. files' \in [FileIds -> File] BY <1>0, <1>1, RelinkedType
<1> QED BY <1>6, <1>7, GoodRows, GoodRowsNext DEF Duplicate

\* The cron keeps the types.
LEMMA CronTypes == ASSUME PromotionTypeOK,
    Hour \/ SweepOrphans \/ (\E f \in FileIds : Purge(f) \/ PurgeLost(f) \/ ReapFile(f)) PROVE PromotionTypeOK'
<1>0. files \in [FileIds -> File] /\ tierRows \in [Notes -> [Tiers -> GoodRow]] BY GoodRows
<1>2. \A S \in SUBSET FileIds : \A state \in {"deleted", "late", "live"} : SetFiles(S, state) \in [FileIds -> File]
  BY <1>0, SetFilesType
<1>3. CASE Hour
 <2>1. files' \in [FileIds -> File] BY <1>2, <1>3 DEF Hour
 <2>2. ASSUME NEW n \in Notes, NEW t \in Tiers
       PROVE [tierRows[n][t] EXCEPT !.state = IF @ = "trash" THEN "old" ELSE IF @ = "expired" THEN "over" ELSE @] \in GoodRow
  <3>1. tierRows[n][t] \in GoodRow BY <1>0
  <3> QED BY <3>1 DEF GoodRow, TierRow
 <2>3. tierRows' = [n \in Notes |-> [t \in Tiers |->
               [tierRows[n][t] EXCEPT !.state = IF @ = "trash" THEN "old" ELSE IF @ = "expired" THEN "over" ELSE @]]]
   BY <1>3 DEF Hour
 <2>4. tierRows' \in [Notes -> [Tiers -> GoodRow]] BY <2>2, <2>3
 <2> QED BY <2>1, <2>4, <1>3, GoodRows, GoodRowsNext DEF Hour
<1>4. CASE SweepOrphans
  BY <1>2, <1>4, GoodRows, GoodRowsNext DEF Scanned, SweepOrphans
<1>5. ASSUME NEW f \in FileIds, Purge(f) \/ PurgeLost(f) \/ ReapFile(f) PROVE PromotionTypeOK'
 <2>1. [files[f] EXCEPT !.purged = TRUE] \in File /\ [NoFile EXCEPT !.state = "reaped"] \in File BY <1>0, PlainTypes DEF File
 <2>2. files' \in [FileIds -> File] BY <2>1, <1>5, <1>0 DEF Purge, PurgeLost, ReapFile
 <2>3. objects' \subseteq FileIds /\ removed' \subseteq FileIds /\ UNCHANGED <<tierRows, tabs, saves>>
   BY <1>5 DEF Purge, PurgeLost, ReapFile, PromotionTypeOK
 <2> QED BY <2>2, <2>3, GoodRows, GoodRowsNext
<1> QED BY <1>3, <1>4, <1>5

\* A task is of its type, and so is what is left of it when it ends badly.
LEMMA TabTypes == ASSUME PromotionTypeOK, NEW b \in Tabs PROVE
    /\ Task(b) \in Tab
    /\ \A phase \in {"failed", "cleaning"} : Ending(b, phase) \in Tab
    /\ Uploaded(b) \subseteq FileIds
<1>1. Task(b) \in Tab BY DEF PromotionTypeOK, Task
<1>2. Task(b).done \subseteq (0..MaxFiles) \X FileIds BY <1>1 DEF Tab
<1>3. Uploaded(b) \subseteq FileIds BY <1>2 DEF Uploaded
<1>4. {<<0, p[2]>> : p \in tabs[b].done} \subseteq (0..MaxFiles) \X FileIds BY <1>2, PromotionAssumption DEF Task
<1>5. \A phase \in {"failed", "cleaning"} : Ending(b, phase) \in Tab
  BY <1>1, <1>4, PlainTypes DEF Task, Tab, Ending
<1> QED BY <1>1, <1>3, <1>5

\* A step of a tab leaves the other tabs.
LEMMA TabIsSet == ASSUME PromotionTypeOK, NEW b \in Tabs, NEW tab \in Tab, SetTab(b, tab) PROVE
    tabs' \in [Tabs -> Tab] /\ tabs'[b] = tab /\ \A c \in Tabs : c # b => tabs'[c] = tabs[c]
BY DEF SetTab, PromotionTypeOK

\* The steps of a promotion keep the types.
LEMMA PromotionTypes == ASSUME PromotionTypeOK, NEW b \in Tabs, PromotionStep(b) PROVE PromotionTypeOK'
<1>0. /\ Task(b) \in Tab /\ (\A phase \in {"failed", "cleaning"} : Ending(b, phase) \in Tab) /\ Uploaded(b) \subseteq FileIds
      /\ files \in [FileIds -> File] /\ tierRows \in [Notes -> [Tiers -> GoodRow]] /\ NoTask \in Tab
  BY GoodRows, TabTypes, PlainTypes
<1>1. ASSUME NEW tab \in Tab, SetTab(b, tab), UNCHANGED <<tierRows, objects, saves, removed>>, files' \in [FileIds -> File] PROVE PromotionTypeOK'
  BY <1>1, TabIsSet, GoodRows, GoodRowsNext
<1>2. \A S \in SUBSET FileIds : SetFiles(S, "deleted") \in [FileIds -> File] BY <1>0, SetFilesType
<1>3. ASSUME NEW n \in Notes, NEW t \in {"note", "secret"}, NEW S \in SUBSET FileIds PROVE Prepared(n, t, S) \in Tab
 <2>1. tierRows[n][t] \in TierRow BY <1>0 DEF GoodRow, Tiers
 <2>2. <<>> \in Seq(Bodies) BY EmptySeq
 <2> QED BY <2>1, <2>2, PlainTypes DEF Prepared, Tab, TierRow, NoTask
<1>4. ASSUME NEW n \in Notes, PrepareNote(b, n) \/ PrepareSecret(b, n) PROVE PromotionTypeOK'
  BY <1>3, <1>0, <1>1, <1>4 DEF Plaintext, FilesHere, PrepareNote, PrepareSecret, ServerStays
<1>5. CASE Download(b)
 <2>1. PICK f \in Uncopied(b) : SetTab(b, [Task(b) EXCEPT !.phase = "uploading", !.reading = f]) BY <1>5 DEF Download
 <2>2. f \in FileIds BY <1>0 DEF Uncopied, Tab
 <2>3. [Task(b) EXCEPT !.phase = "uploading", !.reading = f] \in Tab BY <1>0, <2>2 DEF Tab
 <2> QED BY <2>1, <2>3, <1>0, <1>1, <1>5 DEF Download, ServerStays
<1>6. CASE Upload(b)
 <2>1. PICK f \in NextFile :
      /\ files' = [files EXCEPT ![f] = [NoFile EXCEPT !.state = "live", !.copy = TRUE, !.key = KeyInTarget(b)]]
      /\ objects' = objects \cup {f}
      /\ \/ SetTab(b, [Task(b) EXCEPT !.phase = "encrypting", !.reading = 0,
                         !.done = @ \cup {<<Task(b).reading, f>>}])
         \/ SetTab(b, Ending(b, "failed")) BY <1>6 DEF Upload
 <2>2. f \in FileIds BY DEF NextFile
 <2>3. Task(b).reading \in 0..MaxFiles BY <1>0, PromotionAssumption DEF Tab, FileIds
 <2>4. Task(b).done \cup {<<Task(b).reading, f>>} \subseteq (0..MaxFiles) \X FileIds BY <2>2, <2>3, <1>0 DEF Tab
 <2>5. [Task(b) EXCEPT !.phase = "encrypting", !.reading = 0, !.done = @ \cup {<<Task(b).reading, f>>}] \in Tab
   BY <2>4, <1>0 DEF Tab
 <2>6. tabs' \in [Tabs -> Tab] BY <2>1, <2>5, <1>0, TabIsSet
 <2>7. [NoFile EXCEPT !.state = "live", !.copy = TRUE, !.key = KeyInTarget(b)] \in File
   BY <1>0 DEF NoFile, File, KeyInTarget, Tab
 <2>8. files' \in [FileIds -> File] /\ objects' \subseteq FileIds BY <2>1, <2>2, <2>7, <1>0 DEF PromotionTypeOK
 <2> QED BY <2>6, <2>8, <1>6, GoodRows, GoodRowsNext DEF Upload
<1>7. CASE Encrypted(b)
  BY <1>0, <1>1, <1>7 DEF Tab, Encrypted, ServerStays
<1>8. ASSUME NEW keyed \in BOOLEAN, CommitPromotion(b, keyed), Task(b).tier \in {"note", "secret"} PROVE PromotionTypeOK'
 <2> DEFINE n == Task(b).note
            t == Task(b).tier
            u == Above(t)
 <2>1. n \in Notes /\ t \in Tiers /\ u \in Tiers /\ u # t BY <1>0, <1>8 DEF Tab, Above, Tiers
 <2>2. \A body \in Bodies : Pointed(b, body) \in Bodies
   BY <1>0 DEF Uploaded, Pointed, Bodies
 <2>3. Task(b).history \in Seq(Bodies) /\ tierRows[n][t] \in GoodRow /\ tierRows[n][t].history = Task(b).history
       /\ Task(b).body \in Bodies BY <2>1, <1>0, <1>8 DEF Tab, CommitPromotion, MayCommit, SameVersions
 <2>4. /\ [i \in 1..Len(Task(b).history) |-> Pointed(b, Task(b).history[i])] \in Seq(Bodies)
       /\ Len([i \in 1..Len(Task(b).history) |-> Pointed(b, Task(b).history[i])]) = Len(Task(b).history)
   BY <2>3, LenProperties, <2>2
 <2>5. Promoted(b, keyed) \in GoodRow
  <3> DEFINE old == tierRows[n][t]
             body == Pointed(b, Task(b).body)
             history == [i \in 1..Len(Task(b).history) |-> Pointed(b, Task(b).history[i])]
  <3>1. Promoted(b, keyed) = [old EXCEPT !.body = body, !.keyed = keyed, !.history = history] BY DEF Promoted
  <3>2. old \in GoodRow /\ body \in Bodies /\ history \in Seq(Bodies) /\ Len(history) = Len(old.history) BY <2>2, <2>3, <2>4
  <3> HIDE DEF old, body, history
  <3> QED BY <3>1, <3>2 DEF GoodRow, TierRow
 <2>6. tierRows' \in [Notes -> [Tiers -> GoodRow]]
   BY <1>8, <2>1, <2>5, <1>0, PlainTypes DEF CommitPromotion
 <2>7. files' \in [FileIds -> File]
  <3>1. \A f \in FileIds : /\ [files[f] EXCEPT !.note = n, !.tier = u] \in File
                           /\ [files[f] EXCEPT !.state = "deleted"] \in File
                           /\ [files[f] EXCEPT !.tier = u] \in File /\ files[f] \in File BY <2>1, <1>0 DEF File
  <3> QED BY <3>1, <1>8 DEF CommitPromotion, Moved
 <2>8. tabs' \in [Tabs -> Tab] BY <1>0, <1>8, TabIsSet DEF CommitPromotion
 <2> QED BY <2>6, <2>7, <2>8, <1>8, GoodRows, GoodRowsNext DEF CommitPromotion
<1>9. CASE NoteToSecret(b) BY <1>8, <1>9 DEF NoteToSecret
<1>10. CASE SecretToSeal(b)
  BY <1>8, <1>10 DEF NeedsKey, SecretToSeal
<1>11. CASE CommitFails(b) BY <1>0, <1>1, <1>11 DEF CommitFails, ServerStays
<1>12. CASE CleanUp(b)
  BY <1>0, <1>2, <1>12, <1>1 DEF Strays, CleanUp
<1>13. CASE GiveUp(b)
  BY <1>0, <1>2, <1>13, <1>1 DEF GiveUp
<1>14. CASE CloseTab(b) BY <1>0, <1>1, <1>14 DEF CloseTab, ServerStays
<1> QED BY <1>4, <1>5, <1>6, <1>7, <1>9, <1>10, <1>11, <1>12, <1>13, <1>14 DEF PromotionStep

\* Every step keeps the types.
LEMMA TypesStep == PromotionTypeOK /\ [PromotionNext]_promotionVars => PromotionTypeOK'
<1> SUFFICES ASSUME PromotionTypeOK, [PromotionNext]_promotionVars PROVE PromotionTypeOK' OBVIOUS
<1>1. CASE UNCHANGED promotionVars BY <1>1, GoodRows, GoodRowsNext DEF promotionVars
<1>2. ASSUME NEW n \in Notes, NEW t \in Tiers, RowStep(n, t) PROVE PromotionTypeOK'
  BY <1>2, SaveTypes, RestoreTypes, DropTypes, RowTypes, DuplicateTypes DEF RowStep
<1> QED BY <1>1, <1>2, PromotionTypes, CronTypes DEF PromotionNext

\* For any notes: rows, files and tasks keep their types, and a history its cap.
THEOREM PromotionStaysTyped == PromotionSpec => []PromotionTypeOK
<1> QED BY PromotionInitTypes, TypesStep, PTL DEF PromotionSpec

-----------------------------------------------------------------------------
(* Promotion: one note: its rows and its files *)

\* There is one note id, so nothing is duplicated.
Alone == Notes = {First}

\* The note's row in a tier.
NoteRow(t) == tierRows[First][t]

\* The tiers above.
Higher(t) == IF t = "note" THEN {"secret", "seal"} ELSE IF t = "secret" THEN {"seal"} ELSE {}

\* The row is there for whoever undoes, cancels or reads.
Lasts(t) == NoteRow(t).state \in {"live", "expired", "over", "trash"}

\* The attachment is deleted for good, or was.
Past(f) == f \in removed \/ files[f].state = "reaped"

\* The note is in one tier, and a row that is gone shows nothing.
OneRow ==
  /\ \A t, u \in Tiers : t # u /\ NoteRow(t).state # "none" => NoteRow(u).state = "none"
  /\ \A t \in Tiers : NoSuchNote(First, t) => Shown(NoteRow(t)) = {}

\* No file is linked to the note in a tier above the one it is in.
NothingAbove ==
  \A t \in Tiers, u \in Tiers, f \in FileIds :
    NoteRow(t).state # "none" /\ u \in Higher(t) => ~Linked(f, First, u)

\* A file row that is not there is blank; one that is live and unlinked has its
\* object, and nobody deleted it.
FilesOrdered ==
  \A f \in FileIds :
    /\ files[f].state \in {"none", "reaped"} => files[f] = [NoFile EXCEPT !.state = files[f].state]
    /\ f \in removed => files[f].state \notin {"none", "reaped"}
    /\ files[f].note = "nowhere" <=> files[f].tier = "nowhere"
    /\ LiveFile(f) /\ Unlinked(f) => f \in objects /\ ~files[f].purged /\ f \notin removed

\* A file under the note's own key belongs to its Seal, which has that key.
KeyFits(f, t) == files[f].key = First => t = "seal" /\ NoteRow(t).keyed

\* A file linked to a row that lasts is live, or in the trash with it, its object
\* is in storage and the row has its key.
FilesKept ==
  \A t \in Tiers, f \in FileIds :
    Lasts(t) /\ Linked(f, First, t) /\ f \notin removed =>
      /\ LiveFile(f) \/ (NoteRow(t).state = "trash" /\ files[f].state = "deleted")
      /\ f \in objects /\ ~files[f].purged /\ KeyFits(f, t)

\* What a row shows is linked to it, unless it is past, or under a Seal's key that
\* the row may not link; it is never the loose copy of a promotion.
ShownAreHere ==
  \A t \in Tiers : \A f \in Shown(NoteRow(t)) :
    Past(f) \/ Linked(f, First, t) \/ (Unlinked(f) /\ ~files[f].copy /\ files[f].key = First)

\* What a Secret or a Seal shows in plaintext is past.
ShownAreSecret ==
  \A t \in Tiers : t # "note" => \A f \in Shown(NoteRow(t)) : files[f].key = "plain" => Past(f)

\* No row is saved at an instant to come.
RowsAreOld == \A t \in Tiers : NoteRow(t).updatedAt <= saves

\* What always holds of the rows and files of one note.
Store == OneRow /\ NothingAbove /\ FilesOrdered /\ FilesKept /\ ShownAreHere /\ ShownAreSecret /\ RowsAreOld

\* A write of the row: what it shows it has shown, or is a new upload of an editor,
\* and the files of S are linked to it.
EditStep(t, S) ==
  /\ \A u \in Tiers : u # t => NoteRow(u)' = NoteRow(u)
  /\ ~NoSuchNote(First, t) /\ NoteRow(t)'.state \notin {"none", "gone"}
  /\ NoteRow(t)'.state \in {"live", "expired", "over", "trash"} => Lasts(t)
  /\ Lasts(t) /\ NoteRow(t).state = "trash" => NoteRow(t)'.state = "trash"
  /\ NoteRow(t)'.keyed = NoteRow(t).keyed
  /\ Shown(NoteRow(t)') \subseteq Shown(NoteRow(t)) \cup S
  /\ S \subseteq Shown(NoteRow(t)) \cup UploadsFor(First, t)
  /\ files' = Relinked(S, First, t)
  /\ UNCHANGED <<objects, tabs, removed>>
  /\ saves' \in Nat /\ saves' >= saves /\ NoteRow(t)'.updatedAt <= saves'
  /\ \/ NoteRow(t)'.updatedAt = NoteRow(t).updatedAt /\ NoteRow(t)'.body = NoteRow(t).body
     \/ NoteRow(t)'.updatedAt > saves

\* The types of one note's rows, files and tasks.
LEMMA AloneTypes == ASSUME PromotionTypeOK, Alone PROVE
    /\ \A t \in Tiers : NoteRow(t) \in GoodRow /\ Shown(NoteRow(t)) \subseteq FileIds
    /\ \A f \in FileIds : files[f] \in File /\ files[f].note \in {First, "nowhere"} /\ files[f].key \in {"plain", "vault", First}
    /\ \A b \in Tabs : Task(b) \in Tab /\ Task(b).note = First
    /\ saves \in Nat /\ First \notin {"nowhere", "plain", "vault"}
    /\ \A t \in Tiers : NoteRow(t).updatedAt \in Nat
<1>1. \A t \in Tiers : NoteRow(t) \in GoodRow BY GoodRows, PlainTypes DEF NoteRow
<1>2. \A row \in GoodRow : Shown(row) \subseteq FileIds
 <2> TAKE row \in GoodRow
 <2>1. row.body.shows \subseteq FileIds BY DEF GoodRow, TierRow, Bodies
 <2>2. \A i \in 1..Len(row.history) : row.history[i] \in Bodies BY LenProperties DEF GoodRow, TierRow
 <2>3. \A i \in 1..Len(row.history) : row.history[i].shows \subseteq FileIds BY <2>2 DEF Bodies
 <2> QED BY <2>1, <2>3 DEF Shown
<1>3. \A f \in FileIds : files[f] \in File BY DEF PromotionTypeOK
<1>4. \A f \in FileIds : files[f].note \in {First, "nowhere"} /\ files[f].key \in {"plain", "vault", First}
  BY <1>3 DEF File, Alone
<1>5. \A b \in Tabs : Task(b) \in Tab /\ Task(b).note = First BY TabTypes DEF Tab, Alone
<1>6. saves \in Nat /\ First \notin {"nowhere", "plain", "vault"} BY PromotionAssumption, PlainTypes DEF PromotionTypeOK
<1>7. \A t \in Tiers : NoteRow(t).updatedAt \in Nat BY <1>1, PromotionAssumption DEF GoodRow, TierRow
<1> QED BY <1>1, <1>2, <1>3, <1>4, <1>5, <1>6, <1>7

\* A write of the row keeps the store.
LEMMA EditKeepsStore == ASSUME PromotionTypeOK, Alone, Store, NEW t \in Tiers, NEW S, EditStep(t, S) PROVE Store'
<1>0. /\ \A f \in FileIds : files[f] \in File /\ files[f].note \in {First, "nowhere"} /\ files[f].key \in {"plain", "vault", First}
      /\ First \notin {"nowhere", "plain", "vault"} /\ saves \in Nat
      /\ \A u \in Tiers : NoteRow(u).updatedAt \in Nat
      /\ \A u \in Tiers : Shown(NoteRow(u)) \subseteq FileIds BY AloneTypes
<1>1. \A f \in FileIds : files'[f] = IF f \in S /\ LiveFile(f) /\ KeyAllowed(f, First, t)
                     THEN [files[f] EXCEPT !.note = First, !.tier = t] ELSE files[f] BY DEF EditStep, Relinked
<1>2. ASSUME NEW f \in FileIds PROVE
      /\ files'[f].state = files[f].state /\ files'[f].purged = files[f].purged /\ files'[f].key = files[f].key
      /\ files'[f].copy = files[f].copy
      /\ \/ files'[f] = files[f] /\ ~(f \in S /\ LiveFile(f) /\ KeyAllowed(f, First, t))
         \/ /\ f \in S /\ LiveFile(f) /\ KeyAllowed(f, First, t) /\ files'[f].note = First /\ files'[f].tier = t
  BY <1>0, <1>1 DEF File
<1>3. /\ \A u \in Tiers : u # t => NoteRow(u)' = NoteRow(u) /\ NoteRow(u).state = "none" /\ Shown(NoteRow(u)) = {}
      /\ NoteRow(t).state # "none" BY DEF EditStep, Store, OneRow, NoSuchNote, NoteRow
<1>4. OneRow' BY <1>3 DEF OneRow, EditStep, NoSuchNote, NoteRow
<1>5. NothingAbove' BY <1>2, <1>3 DEF NothingAbove, Store, EditStep, NoteRow, Linked, Higher, Tiers
<1>6. FilesOrdered'
 <2> SUFFICES ASSUME NEW f \in FileIds PROVE
       /\ files'[f].state \in {"none", "reaped"} => files'[f] = [NoFile EXCEPT !.state = files'[f].state]
       /\ f \in removed => files'[f].state \notin {"none", "reaped"}
       /\ files'[f].note = "nowhere" <=> files'[f].tier = "nowhere"
       /\ LiveFile(f)' /\ Unlinked(f)' => f \in objects /\ ~files'[f].purged /\ f \notin removed BY DEF FilesOrdered, EditStep
 <2>1. CASE files'[f] = files[f] BY <2>1 DEF FilesOrdered, Store, LiveFile, Unlinked
 <2>2. CASE f \in S /\ LiveFile(f) /\ files'[f].note = First /\ files'[f].tier = t
   BY <2>2, <1>0, <1>2 DEF FilesOrdered, Store, LiveFile, Unlinked, Tiers
 <2> QED BY <2>1, <2>2, <1>2
<1>7. FilesKept'
 <2> SUFFICES ASSUME NEW u \in Tiers, NEW f \in FileIds, Lasts(u)', Linked(f, First, u)', f \notin removed PROVE
       /\ LiveFile(f)' \/ (NoteRow(u)'.state = "trash" /\ files'[f].state = "deleted")
       /\ f \in objects /\ ~files'[f].purged /\ KeyFits(f, u)' BY DEF FilesKept, EditStep
 <2>1. u = t /\ Lasts(t) BY <1>3 DEF Lasts, EditStep, NoteRow
 <2>2. CASE files'[f] = files[f]
   BY <2>1, <2>2 DEF Linked, FilesKept, Store, LiveFile, KeyFits, EditStep, NoteRow
 <2>3. CASE f \in S /\ LiveFile(f) /\ KeyAllowed(f, First, t)
  <3>1. f \in objects /\ ~files[f].purged
   <4>1. CASE Unlinked(f) BY <2>3, <4>1 DEF FilesOrdered, Store
   <4>2. CASE ~Unlinked(f)
     BY <2>3, <4>2, <2>1 DEF EditStep, UploadsFor, ShownAreHere, Store, Past, LiveFile, FilesKept
   <4> QED BY <4>1, <4>2
  <3>2. KeyFits(f, t)' BY <2>3, <1>0, <1>2 DEF KeyAllowed, KeyFits, EditStep, NoteRow
  <3> QED BY <2>1, <2>3, <3>1, <3>2, <1>2 DEF LiveFile
 <2> QED BY <2>2, <2>3, <1>2
<1>8. ASSUME NEW f \in Shown(NoteRow(t))' PROVE f \in FileIds /\ (f \in Shown(NoteRow(t)) \/ (f \in S /\ f \in UploadsFor(First, t)))
  BY <1>0, <1>8 DEF EditStep, UploadsFor
<1>9. ShownAreHere'
 <2> SUFFICES ASSUME NEW u \in Tiers, NEW f \in Shown(NoteRow(u))' PROVE
       Past(f)' \/ Linked(f, First, u)' \/ (Unlinked(f)' /\ ~files'[f].copy /\ files'[f].key = First) BY DEF ShownAreHere
 <2>1. u = t BY <1>3
 <2>2. CASE f \in Shown(NoteRow(t))
   BY <2>2, <1>8, <2>1, <1>2 DEF ShownAreHere, Store, Past, Linked, Unlinked, EditStep
 <2>3. CASE f \in S /\ f \in UploadsFor(First, t)
  <3>1. f \in FileIds /\ LiveFile(f) /\ Unlinked(f) /\ ~files[f].copy BY <2>3 DEF UploadsFor
  <3>2. CASE KeyAllowed(f, First, t) BY <2>1, <2>3, <3>1, <3>2, <1>2 DEF Linked
  <3>3. CASE ~KeyAllowed(f, First, t)
    BY <3>1, <3>3, <1>0, <1>2 DEF KeyAllowed, Unlinked
  <3> QED BY <3>2, <3>3
 <2> QED BY <2>1, <2>2, <2>3, <1>8
<1>10. ShownAreSecret'
 <2> SUFFICES ASSUME NEW u \in Tiers, u # "note", NEW f \in Shown(NoteRow(u))', files'[f].key = "plain" PROVE Past(f)'
   BY DEF ShownAreSecret
 <2>1. u = t /\ f \in FileIds /\ (f \in Shown(NoteRow(t)) \/ (f \in S /\ f \in UploadsFor(First, t))) BY <1>3, <1>8
 <2>2. files[f].key = "plain" BY <2>1, <1>2
 <2>3. f \in Shown(NoteRow(t)) BY <2>1, <2>2, <1>0 DEF UploadsFor
 <2> QED BY <2>1, <2>2, <2>3, <1>2 DEF ShownAreSecret, Store, Past, EditStep
<1>11. RowsAreOld'
 <2> SUFFICES ASSUME NEW u \in Tiers PROVE NoteRow(u)'.updatedAt <= saves' BY DEF RowsAreOld
 <2>1. CASE u = t BY <2>1 DEF EditStep
 <2>2. CASE u # t
   BY <2>2, <1>3, <1>0 DEF Store, RowsAreOld, EditStep
 <2> QED BY <2>1, <2>2
<1> QED BY <1>4, <1>5, <1>6, <1>7, <1>9, <1>10, <1>11 DEF Store

-----------------------------------------------------------------------------
(* Promotion: the writes of a row *)

\* A step that sets the row of a tier leaves those of the other tiers.
LEMMA RowChanges == ASSUME PromotionTypeOK, NEW t \in Tiers, NEW row \in GoodRow, SetRow(First, t, row) PROVE
    NoteRow(t)' = row /\ \A u \in Tiers : u # t => NoteRow(u)' = NoteRow(u)
BY PlainTypes, GoodRows, RowIsSet DEF NoteRow

\* To link no file changes none.
LEMMA NothingLinked == ASSUME PromotionTypeOK, NEW t PROVE Relinked({}, First, t) = files
BY DEF Relinked, PromotionTypeOK

\* A save is such a write.
LEMMA SaveEdits == ASSUME PromotionTypeOK, Alone, Store, NEW t \in Tiers, SaveNote(First, t) PROVE \E S : EditStep(t, S)
<1> DEFINE old == NoteRow(t)
<1>1. PICK shows \in SUBSET KnownFiles(First, t), window \in BOOLEAN :
       /\ SetRow(First, t, [old EXCEPT
            !.body = [edit |-> saves + 1, shows |-> shows], !.updatedAt = saves + 1,
            !.history = IF @ = <<>> \/ window THEN Capped(Append(@, old.body)) ELSE @])
       /\ files' = Relinked(shows, First, t) BY DEF SaveNote, NoteRow
<1> DEFINE history == IF old.history = <<>> \/ window THEN Capped(Append(old.history, old.body)) ELSE old.history
           row == [old EXCEPT !.body = [edit |-> saves + 1, shows |-> shows], !.updatedAt = saves + 1, !.history = history]
<1>2. old \in GoodRow /\ saves \in Nat BY AloneTypes
<1>3. /\ old.history \in Seq(Bodies) /\ old.body \in Bodies
      /\ old.history[1] = old.history[1] BY <1>2 DEF GoodRow, TierRow
<1>4. /\ history \in Seq(Bodies) /\ Len(history) <= MaxHistory
      /\ \A i \in 1..Len(history) : history[i] = old.body \/ \E j \in 1..Len(old.history) : history[i] = old.history[j]
 <2>1. CASE old.history = <<>> \/ window BY <2>1, <1>3, HistoryGrown
 <2>2. CASE ~(old.history = <<>> \/ window) BY <2>2, <1>2, <1>3 DEF GoodRow, TierRow
 <2> QED BY <2>1, <2>2
<1> HIDE DEF history
<1>5. row \in GoodRow
 <2>1. PromotionTypeOK' BY PlainTypes, SaveTypes
 <2>2. tierRows'[First][t] = row BY <1>1, PlainTypes DEF SetRow, NoteRow, PromotionTypeOK, history
 <2>3. tierRows'[First][t] \in GoodRow BY <2>1, PlainTypes DEF PromotionTypeOK, GoodRow
 <2> QED BY <2>2, <2>3
<1>6. SetRow(First, t, row) BY <1>1 DEF history
<1>7. NoteRow(t)' = row /\ \A u \in Tiers : u # t => NoteRow(u)' = NoteRow(u) BY <1>5, <1>6, RowChanges
<1>8. /\ row.body.shows = shows /\ row.updatedAt = saves + 1 /\ row.history = history /\ row.state = old.state
      /\ row.keyed = old.keyed BY <1>2 DEF GoodRow, TierRow
<1> HIDE DEF row
<1>9. Shown(row) \subseteq Shown(old) \cup shows
 <2> SUFFICES ASSUME NEW f \in Shown(row), f \notin shows PROVE f \in Shown(old) OBVIOUS
 <2>1. PICK i \in 1..Len(history) : f \in history[i].shows BY <1>8 DEF Shown
 <2> QED BY <2>1, <1>4 DEF Shown
<1>10. shows \subseteq Shown(old) \cup UploadsFor(First, t) BY KnownAre DEF NoteRow
<1>11. EditStep(t, shows)
  BY <1>1, <1>2, <1>7, <1>8, <1>9, <1>10 DEF SaveNote, Active, NoteRow, EditStep, NoSuchNote, Lasts
<1> QED BY <1>11

\* So is the restore of a version.
LEMMA RestoreEdits == ASSUME PromotionTypeOK, Alone, Store, NEW t \in Tiers, RestoreVersion(First, t) PROVE \E S : EditStep(t, S)
<1> DEFINE old == NoteRow(t)
<1>1. PICK k \in 1..Len(old.history) :
       /\ SetRow(First, t, [old EXCEPT
            !.body = old.history[k], !.updatedAt = saves + 1, !.history = Capped(Append(@, old.body))])
       /\ files' = IF t = "note" THEN Relinked(old.history[k].shows, First, t) ELSE files BY DEF RestoreVersion, NoteRow
<1> DEFINE history == Capped(Append(old.history, old.body))
           row == [old EXCEPT !.body = old.history[k], !.updatedAt = saves + 1, !.history = history]
           S == IF t = "note" THEN old.history[k].shows ELSE {}
<1>2. old \in GoodRow /\ saves \in Nat BY AloneTypes
<1>3. old.history \in Seq(Bodies) /\ old.body \in Bodies BY <1>2 DEF GoodRow, TierRow
<1>4. /\ history \in Seq(Bodies) /\ Len(history) <= MaxHistory
      /\ \A i \in 1..Len(history) : history[i] = old.body \/ \E j \in 1..Len(old.history) : history[i] = old.history[j]
  BY <1>3, HistoryGrown
<1> HIDE DEF history
<1>5. row \in GoodRow
 <2>1. PromotionTypeOK' BY PlainTypes, RestoreTypes
 <2>2. tierRows'[First][t] = row BY <1>1, PlainTypes DEF SetRow, NoteRow, PromotionTypeOK, history
 <2>3. tierRows'[First][t] \in GoodRow BY <2>1, PlainTypes DEF PromotionTypeOK, GoodRow
 <2> QED BY <2>2, <2>3
<1>6. SetRow(First, t, row) BY <1>1 DEF history
<1>7. NoteRow(t)' = row /\ \A u \in Tiers : u # t => NoteRow(u)' = NoteRow(u) BY <1>5, <1>6, RowChanges
<1>8. /\ row.body = old.history[k] /\ row.updatedAt = saves + 1 /\ row.history = history /\ row.state = old.state
      /\ row.keyed = old.keyed BY <1>2 DEF GoodRow, TierRow
<1> HIDE DEF row
<1>9. Shown(row) \subseteq Shown(old)
 <2> SUFFICES ASSUME NEW f \in Shown(row) PROVE f \in Shown(old) OBVIOUS
 <2>1. CASE f \in row.body.shows BY <1>8, <2>1 DEF Shown
 <2>2. CASE f \notin row.body.shows
  <3>1. PICK i \in 1..Len(history) : f \in history[i].shows BY <1>8, <2>2 DEF Shown
  <3> QED BY <3>1, <1>4 DEF Shown
 <2> QED BY <2>1, <2>2
<1>10. S \subseteq Shown(old) BY DEF Shown
<1>11. files' = Relinked(S, First, t) BY <1>1, NothingLinked
<1> HIDE DEF S
<1>12. EditStep(t, S)
  BY <1>2, <1>7, <1>8, <1>9, <1>10, <1>11 DEF RestoreVersion, Active, NoteRow, EditStep, NoSuchNote, Lasts
<1> QED BY <1>12

\* So is the deletion of a version.
LEMMA DropEdits == ASSUME PromotionTypeOK, Alone, Store, NEW t \in Tiers, DropVersion(First, t) PROVE \E S : EditStep(t, S)
<1> DEFINE old == NoteRow(t)
<1>1. PICK k \in 1..Len(old.history) :
       SetRow(First, t, [old EXCEPT !.history = SubSeq(@, 1, k - 1) \o SubSeq(@, k + 1, Len(@))]) BY DEF DropVersion, NoteRow
<1> DEFINE history == SubSeq(old.history, 1, k - 1) \o SubSeq(old.history, k + 1, Len(old.history))
           row == [old EXCEPT !.history = history]
<1>2. old \in GoodRow /\ saves \in Nat /\ old.updatedAt <= saves BY AloneTypes DEF Store, RowsAreOld
<1>3. old.history \in Seq(Bodies) /\ old.body \in Bodies BY <1>2 DEF GoodRow, TierRow
<1>4. \A i \in 1..Len(history) : \E j \in 1..Len(old.history) : history[i] = old.history[j] BY <1>3, HistoryCut DEF Cut
<1>5. SetRow(First, t, row) BY <1>1
<1> HIDE DEF history
<1>6. row \in GoodRow
 <2>1. PromotionTypeOK' BY PlainTypes, DropTypes
 <2>2. tierRows'[First][t] = row BY <1>5, PlainTypes DEF SetRow, NoteRow, PromotionTypeOK
 <2>3. tierRows'[First][t] \in GoodRow BY <2>1, PlainTypes DEF PromotionTypeOK, GoodRow
 <2> QED BY <2>2, <2>3
<1>7. NoteRow(t)' = row /\ \A u \in Tiers : u # t => NoteRow(u)' = NoteRow(u) BY <1>5, <1>6, RowChanges
<1>8. /\ row.body = old.body /\ row.updatedAt = old.updatedAt /\ row.history = history /\ row.state = old.state
      /\ row.keyed = old.keyed BY <1>2 DEF GoodRow, TierRow
<1> HIDE DEF row
<1>9. Shown(row) \subseteq Shown(old)
 <2> SUFFICES ASSUME NEW f \in Shown(row) PROVE f \in Shown(old) OBVIOUS
 <2>1. CASE f \in row.body.shows BY <1>8, <2>1 DEF Shown
 <2>2. CASE f \notin row.body.shows
  <3>1. PICK i \in 1..Len(history) : f \in history[i].shows BY <1>8, <2>2 DEF Shown
  <3> QED BY <3>1, <1>4 DEF Shown
 <2> QED BY <2>1, <2>2
<1>10. EditStep(t, {})
 <2>1. UNCHANGED <<files, objects, tabs, saves, removed>> /\ old.state \in {"live", "expired", "trash", "old"}
   BY DEF DropVersion, Active, NoteRow
 <2> QED BY <1>2, <1>7, <1>8, <1>9, <2>1, NothingLinked DEF EditStep, NoSuchNote, NoteRow, Lasts
<1> QED BY <1>10

\* So are the arming of a burn, and a timer that runs out or is cancelled.
LEMMA SmallEdits == ASSUME PromotionTypeOK, Alone, Store, NEW t \in Tiers,
    Arm(First, t) \/ ExpireNote(First, t) \/ CancelTimer(First, t) PROVE \E S : EditStep(t, S)
<1> DEFINE old == NoteRow(t)
<1>1. old \in GoodRow /\ saves \in Nat /\ old.updatedAt <= saves BY AloneTypes DEF Store, RowsAreOld
<1>2. PICK row :
        /\ SetRow(First, t, row) /\ row \in GoodRow
        /\ row.body = old.body /\ row.history = old.history /\ row.updatedAt = old.updatedAt /\ row.keyed = old.keyed
        /\ row.state \in {"live", "expired"}
 <2>1. CASE Arm(First, t)
  <3>1. [old EXCEPT !.armed = TRUE] \in GoodRow BY <1>1, SmallRows
  <3> QED BY <3>1, <2>1, <1>1 DEF Arm, NoteRow, GoodRow, TierRow
 <2>2. CASE ExpireNote(First, t)
  <3>1. [old EXCEPT !.state = "expired"] \in GoodRow BY <1>1, SmallRows
  <3> QED BY <3>1, <2>2, <1>1 DEF ExpireNote, NoteRow, GoodRow, TierRow
 <2>3. CASE CancelTimer(First, t)
  <3>1. [old EXCEPT !.state = "live", !.armed = FALSE] \in GoodRow BY <1>1, SmallRows
  <3> QED BY <3>1, <2>3, <1>1 DEF CancelTimer, NoteRow, GoodRow, TierRow
 <2> QED BY <2>1, <2>2, <2>3
<1>3. NoteRow(t)' = row /\ \A u \in Tiers : u # t => NoteRow(u)' = NoteRow(u) BY <1>2, RowChanges
<1>4. Shown(row) = Shown(old) BY <1>2 DEF Shown
<1>5. UNCHANGED <<files, objects, tabs, saves, removed>> /\ old.state \in {"live", "expired"}
  BY DEF Arm, ExpireNote, CancelTimer, NoteRow
<1>6. EditStep(t, {}) BY <1>1, <1>2, <1>3, <1>4, <1>5, NothingLinked DEF EditStep, NoSuchNote, NoteRow, Lasts
<1> QED BY <1>6

-----------------------------------------------------------------------------
(* Promotion: files that die, begin and are purged *)

\* Some files die, and none of them is one a row needs.
FilesDie(S) ==
  /\ UNCHANGED <<tierRows, objects, saves>> /\ files' = SetFiles(S, "deleted") /\ S \subseteq FileIds
  /\ removed \subseteq removed'
  /\ \A f \in removed' \ removed : f \in S
  /\ \A f \in S : LiveFile(f)
  /\ \A f \in S : f \in removed' \/ (Unlinked(f) /\ f \notin removed) \/ (f \notin removed /\ NoSuchNote(First, files[f].tier))

\* What setting the state of some files does.
LEMMA SetFilesIs == ASSUME PromotionTypeOK, Alone, NEW S, NEW state, files' = SetFiles(S, state) PROVE
    \A f \in FileIds :
      /\ f \in S => files'[f].state = state
      /\ f \notin S => files'[f].state = files[f].state /\ files'[f] = files[f]
      /\ files'[f].note = files[f].note /\ files'[f].tier = files[f].tier /\ files'[f].key = files[f].key
      /\ files'[f].copy = files[f].copy /\ files'[f].purged = files[f].purged
<1> TAKE f \in FileIds
<1>1. files[f] \in File BY AloneTypes
<1> QED BY <1>1 DEF SetFiles, File

\* Files that no row needs may die.
LEMMA DyingKeepsStore == ASSUME PromotionTypeOK, Alone, Store, NEW S, FilesDie(S) PROVE Store'
<1>0. /\ \A f \in FileIds : files[f] \in File /\ files[f].note \in {First, "nowhere"}
      /\ First \notin {"nowhere", "plain", "vault"}
      /\ \A u \in Tiers : Shown(NoteRow(u)) \subseteq FileIds BY AloneTypes
<1>1. \A f \in FileIds :
      /\ f \in S => files'[f].state = "deleted"
      /\ f \notin S => files'[f].state = files[f].state /\ files'[f] = files[f]
      /\ files'[f].note = files[f].note /\ files'[f].tier = files[f].tier /\ files'[f].key = files[f].key
      /\ files'[f].copy = files[f].copy /\ files'[f].purged = files[f].purged BY SetFilesIs DEF FilesDie
<1>2. \A t \in Tiers : NoteRow(t)' = NoteRow(t) /\ Shown(NoteRow(t))' = Shown(NoteRow(t)) /\ (Lasts(t)' <=> Lasts(t))
  BY DEF FilesDie, NoteRow, Shown, Lasts
<1>3. OneRow' BY <1>2 DEF OneRow, Store, NoSuchNote, NoteRow, FilesDie
<1>4. NothingAbove' BY <1>1, <1>2 DEF NothingAbove, Store, Linked
<1>5. FilesOrdered'
 <2> SUFFICES ASSUME NEW f \in FileIds PROVE
       /\ files'[f].state \in {"none", "reaped"} => files'[f] = [NoFile EXCEPT !.state = files'[f].state]
       /\ f \in removed' => files'[f].state \notin {"none", "reaped"}
       /\ files'[f].note = "nowhere" <=> files'[f].tier = "nowhere"
       /\ LiveFile(f)' /\ Unlinked(f)' => f \in objects' /\ ~files'[f].purged /\ f \notin removed' BY DEF FilesOrdered
 <2>1. CASE f \in S
   BY <2>1, <1>1 DEF FilesOrdered, Store, LiveFile
 <2>2. CASE f \notin S BY <2>2, <1>1 DEF FilesOrdered, Store, LiveFile, FilesDie, Unlinked
 <2> QED BY <2>1, <2>2
<1>6. FilesKept'
 <2> SUFFICES ASSUME NEW t \in Tiers, NEW f \in FileIds, Lasts(t), Linked(f, First, t), f \notin removed' PROVE
       /\ LiveFile(f)' \/ (NoteRow(t).state = "trash" /\ files'[f].state = "deleted")
       /\ f \in objects' /\ ~files'[f].purged /\ KeyFits(f, t)' BY <1>1, <1>2 DEF FilesKept, Linked
 <2>1. f \notin S
   BY <1>0 DEF Linked, Unlinked, Lasts, NoSuchNote, NoteRow, FilesDie
 <2>2. f \notin removed BY DEF FilesDie
 <2> QED BY <2>1, <2>2, <1>1, <1>2 DEF FilesKept, Store, LiveFile, KeyFits, FilesDie
<1>7. \A f \in FileIds : Past(f) => Past(f)' BY <1>1 DEF Past, FilesDie, LiveFile
<1>8. ShownAreHere' BY <1>0, <1>1, <1>2, <1>7 DEF ShownAreHere, Store, Linked, Unlinked
<1>9. ShownAreSecret' BY <1>0, <1>1, <1>2, <1>7 DEF ShownAreSecret, Store
<1>10. RowsAreOld' BY <1>2 DEF RowsAreOld, Store, FilesDie
<1> QED BY <1>3, <1>4, <1>5, <1>6, <1>8, <1>9, <1>10 DEF Store

\* A fresh upload, by an editor or by a promotion.
FileBegins(f) ==
  /\ UNCHANGED <<tierRows, saves, removed>> /\ f \in FileIds /\ files[f].state = "none" /\ objects' = objects \cup {f}
  /\ \E new \in File :
       /\ files' = [files EXCEPT ![f] = new]
       /\ new.state = "live" /\ ~new.purged /\ new.note = "nowhere" /\ new.tier = "nowhere"

\* A fresh upload is in no row yet.
LEMMA BeginningKeepsStore == ASSUME PromotionTypeOK, Alone, Store, NEW f, FileBegins(f) PROVE Store'
<1>0. /\ \A g \in FileIds : files[g] \in File /\ files[g].note \in {First, "nowhere"}
      /\ First \notin {"nowhere", "plain", "vault"}
      /\ \A u \in Tiers : Shown(NoteRow(u)) \subseteq FileIds BY AloneTypes
<1>1. /\ files'[f].state = "live" /\ Unlinked(f)' /\ files'[f].tier = "nowhere" /\ ~files'[f].purged
      /\ \A g \in FileIds : g # f => files'[g] = files[g] BY <1>0 DEF FileBegins, NoFile, Unlinked, PromotionTypeOK
<1>2. \A t \in Tiers : NoteRow(t)' = NoteRow(t) /\ Shown(NoteRow(t))' = Shown(NoteRow(t)) /\ (Lasts(t)' <=> Lasts(t))
  BY DEF FileBegins, NoteRow, Shown, Lasts
<1>3. f \in FileIds /\ f \notin removed /\ Unlinked(f) /\ \A t \in Tiers : f \notin Shown(NoteRow(t))
 <2>1. f \notin removed /\ files[f] = [NoFile EXCEPT !.state = "none"] /\ f \in FileIds BY DEF FileBegins, FilesOrdered, Store
 <2>2. files[f].note = "nowhere" /\ files[f].key = "plain" /\ files[f].state = "none" BY <2>1 DEF NoFile
 <2> QED BY <2>1, <2>2, <1>0 DEF ShownAreHere, Store, Past, Linked, Unlinked
<1>4. OneRow' BY <1>2 DEF OneRow, Store, NoSuchNote, NoteRow, FileBegins
<1>5. NothingAbove' BY <1>0, <1>1, <1>2 DEF NothingAbove, Store, Linked, Unlinked
<1>6. FilesOrdered' BY <1>1, <1>3 DEF FilesOrdered, Store, LiveFile, Unlinked, FileBegins
<1>7. FilesKept' BY <1>0, <1>1, <1>2 DEF FilesKept, Store, LiveFile, Linked, Unlinked, KeyFits, FileBegins
<1>8. ShownAreHere' BY <1>0, <1>1, <1>2, <1>3 DEF ShownAreHere, Store, Linked, Unlinked, Past, FileBegins
<1>9. ShownAreSecret' BY <1>0, <1>1, <1>2, <1>3 DEF ShownAreSecret, Store, Past, FileBegins
<1>10. RowsAreOld' BY <1>2 DEF RowsAreOld, Store, FileBegins
<1> QED BY <1>4, <1>5, <1>6, <1>7, <1>8, <1>9, <1>10 DEF Store

\* The purge only takes files that are late, and no row that lasts has one.
LEMMA PurgingKeepsStore == ASSUME PromotionTypeOK, Alone, Store, NEW f \in FileIds, Purge(f) \/ PurgeLost(f) \/ ReapFile(f) PROVE Store'
<1>0. /\ \A g \in FileIds : files[g] \in File /\ files[g].note \in {First, "nowhere"}
      /\ First \notin {"nowhere", "plain", "vault"}
      /\ \A u \in Tiers : Shown(NoteRow(u)) \subseteq FileIds BY AloneTypes
<1>2. \A t \in Tiers : NoteRow(t)' = NoteRow(t) /\ Shown(NoteRow(t))' = Shown(NoteRow(t)) /\ (Lasts(t)' <=> Lasts(t))
  BY DEF Purge, PurgeLost, ReapFile, NoteRow, Shown, Lasts
<1>3. OneRow' /\ RowsAreOld' BY <1>2 DEF OneRow, RowsAreOld, Store, NoSuchNote, NoteRow, Purge, PurgeLost, ReapFile
<1>4. CASE Purge(f) \/ PurgeLost(f)
 <2>1. /\ files'[f].state = files[f].state /\ files[f].state = "late"
       /\ files'[f].note = files[f].note /\ files'[f].tier = files[f].tier /\ files'[f].key = files[f].key
       /\ files'[f].copy = files[f].copy
       /\ \A g \in FileIds : g # f => files'[g] = files[g]
       /\ removed' = removed /\ objects' = objects \ {f} BY <1>0, <1>4 DEF Purge, PurgeLost, Purgeable, File, PromotionTypeOK
 <2>2. \A t \in Tiers : Lasts(t) /\ Linked(f, First, t) => f \in removed BY <2>1 DEF FilesKept, Store, LiveFile
 <2>3. NothingAbove' BY <2>1, <1>2 DEF NothingAbove, Store, Linked
 <2>4. FilesOrdered' BY <2>1 DEF FilesOrdered, Store, LiveFile, Unlinked
 <2>5. FilesKept' BY <2>1, <2>2, <1>2 DEF FilesKept, Store, LiveFile, Linked, KeyFits
 <2>6. \A g \in FileIds : Past(g) => Past(g)' BY <2>1 DEF Past
 <2>7. ShownAreHere' BY <1>0, <2>1, <1>2, <2>6 DEF ShownAreHere, Store, Linked, Unlinked
 <2>8. ShownAreSecret' BY <1>0, <2>1, <1>2, <2>6 DEF ShownAreSecret, Store
 <2> QED BY <1>3, <2>3, <2>4, <2>5, <2>7, <2>8 DEF Store
<1>5. CASE ReapFile(f)
 <2>1. /\ files'[f] = [NoFile EXCEPT !.state = "reaped"] /\ files[f].purged
       /\ \A g \in FileIds : g # f => files'[g] = files[g]
       /\ removed' = removed \ {f} /\ objects' = objects BY <1>5 DEF ReapFile, PromotionTypeOK
 <2>2. files'[f].state = "reaped" /\ files'[f].note = "nowhere" /\ files'[f].tier = "nowhere" BY <2>1 DEF NoFile
 <2>10. \A g \in FileIds, t \in Tiers : Linked(g, First, t)' => g # f /\ Linked(g, First, t) BY <1>0, <2>1, <2>2 DEF Linked
 <2>3. NothingAbove' BY <2>10, <1>2 DEF NothingAbove, Store
 <2>4. FilesOrdered'
  <3> SUFFICES ASSUME NEW g \in FileIds PROVE
      /\ files'[g].state \in {"none", "reaped"} => files'[g] = [NoFile EXCEPT !.state = files'[g].state]
      /\ g \in removed' => files'[g].state \notin {"none", "reaped"}
      /\ files'[g].note = "nowhere" <=> files'[g].tier = "nowhere"
      /\ LiveFile(g)' /\ Unlinked(g)' => g \in objects' /\ ~files'[g].purged /\ g \notin removed' BY DEF FilesOrdered
  <3>1. CASE g = f BY <3>1, <2>1, <2>2 DEF LiveFile
  <3>2. CASE g # f BY <3>2, <2>1 DEF FilesOrdered, Store, LiveFile, Unlinked
  <3> QED BY <3>1, <3>2
 <2>5. FilesKept'
  <3> SUFFICES ASSUME NEW t \in Tiers, NEW g \in FileIds, Lasts(t), Linked(g, First, t), g # f, g \notin removed PROVE
      /\ LiveFile(g)' \/ (NoteRow(t)'.state = "trash" /\ files'[g].state = "deleted")
      /\ g \in objects' /\ ~files'[g].purged /\ KeyFits(g, t)' BY <2>10, <2>1, <1>2 DEF FilesKept
  <3> QED BY <2>1, <1>2 DEF FilesKept, Store, LiveFile, KeyFits
 <2>6. \A g \in FileIds : Past(g) => Past(g)' BY <2>1, <2>2 DEF Past
 <2>7. Past(f)' BY <2>2 DEF Past
 <2>8. ShownAreHere' BY <1>0, <2>1, <1>2, <2>6, <2>7 DEF ShownAreHere, Store, Linked, Unlinked
 <2>9. ShownAreSecret' BY <1>0, <2>1, <1>2, <2>6, <2>7 DEF ShownAreSecret, Store
 <2> QED BY <1>3, <2>3, <2>4, <2>5, <2>8, <2>9 DEF Store
<1> QED BY <1>4, <1>5

-----------------------------------------------------------------------------
(* Promotion: steps that leave the bodies alone *)

\* The rows keep what they show and which of them there is; files keep all but their state.
RestStep(S, state) ==
  /\ files' = SetFiles(S, state) /\ S \subseteq FileIds /\ UNCHANGED <<objects, tabs, saves, removed>>
  /\ state \in {"live", "deleted", "late"} /\ \A f \in S : files[f].state \notin {"none", "reaped"}
  /\ state = "live" => \A f \in S : files[f].note = First
  /\ \A u \in Tiers :
       /\ NoteRow(u)'.state = "none" <=> NoteRow(u).state = "none"
       /\ Shown(NoteRow(u)') \subseteq Shown(NoteRow(u))
       /\ NoSuchNote(First, u) => NoSuchNote(First, u)'
       /\ NoSuchNote(First, u)' => Shown(NoteRow(u)') = {}
       /\ ~NoSuchNote(First, u)' => NoteRow(u)'.keyed = NoteRow(u).keyed
       /\ NoteRow(u)'.updatedAt <= saves
       /\ NoteRow(u)'.body = NoteRow(u).body \/ NoSuchNote(First, u)'
       /\ NoteRow(u)'.updatedAt = NoteRow(u).updatedAt \/ NoSuchNote(First, u)'
       /\ NoteRow(u)'.state \in {"live", "expired", "over", "trash"} =>
            /\ Lasts(u)
            /\ \A f \in FileIds : Linked(f, First, u) /\ f \notin removed =>
                 \/ files'[f].state = "live"
                 \/ NoteRow(u)'.state = "trash" /\ files'[f].state = "deleted"

\* Such a step keeps the store.
LEMMA RestingKeepsStore == ASSUME PromotionTypeOK, Alone, Store, NEW S, NEW state, RestStep(S, state) PROVE Store'
<1>0. /\ \A f \in FileIds : files[f] \in File /\ files[f].note \in {First, "nowhere"}
      /\ First \notin {"nowhere", "plain", "vault"}
      /\ \A u \in Tiers : Shown(NoteRow(u)) \subseteq FileIds BY AloneTypes
<1>1. \A f \in FileIds :
      /\ f \in S => files'[f].state = state
      /\ f \notin S => files'[f].state = files[f].state /\ files'[f] = files[f]
      /\ files'[f].note = files[f].note /\ files'[f].tier = files[f].tier /\ files'[f].key = files[f].key
      /\ files'[f].copy = files[f].copy /\ files'[f].purged = files[f].purged BY SetFilesIs DEF RestStep
<1>2. UNCHANGED <<objects, saves, removed>> BY DEF RestStep
<1>3. OneRow'
  BY DEF OneRow, Store, RestStep, Shown, NoteRow
<1>4. NothingAbove'
  BY <1>1 DEF Linked, RestStep, NothingAbove, Store
<1>5. FilesOrdered'
 <2> SUFFICES ASSUME NEW f \in FileIds PROVE
       /\ files'[f].state \in {"none", "reaped"} => files'[f] = [NoFile EXCEPT !.state = files'[f].state]
       /\ f \in removed => files'[f].state \notin {"none", "reaped"}
       /\ files'[f].note = "nowhere" <=> files'[f].tier = "nowhere"
       /\ LiveFile(f)' /\ Unlinked(f)' => f \in objects /\ ~files'[f].purged /\ f \notin removed BY <1>2 DEF FilesOrdered
 <2>1. CASE f \in S
  <3>1. files'[f].state = state /\ files'[f].note = files[f].note /\ files'[f].tier = files[f].tier BY <2>1, <1>1
  <3>2. files[f].note = "nowhere" <=> files[f].tier = "nowhere" BY DEF FilesOrdered, Store
  <3>3. state \in {"live", "deleted", "late"} /\ (state = "live" => files[f].note = First) BY <2>1 DEF RestStep
  <3> QED BY <3>1, <3>2, <3>3, <1>0 DEF LiveFile, Unlinked
 <2>2. CASE f \notin S BY <2>2, <1>1 DEF FilesOrdered, Store, LiveFile, Unlinked
 <2> QED BY <2>1, <2>2
<1>6. FilesKept'
 <2> SUFFICES ASSUME NEW t \in Tiers, NEW f \in FileIds, Lasts(t)', Linked(f, First, t)', f \notin removed PROVE
       /\ LiveFile(f)' \/ (NoteRow(t)'.state = "trash" /\ files'[f].state = "deleted")
       /\ f \in objects /\ ~files'[f].purged /\ KeyFits(f, t)' BY <1>2 DEF FilesKept
 <2>1. Linked(f, First, t) /\ NoteRow(t)'.state \in {"live", "expired", "over", "trash"} BY <1>1 DEF Linked, Lasts, NoteRow
 <2>2. Lasts(t) /\ (files'[f].state = "live" \/ (NoteRow(t)'.state = "trash" /\ files'[f].state = "deleted"))
   BY <2>1 DEF RestStep
 <2>3. f \in objects /\ ~files[f].purged /\ KeyFits(f, t) BY <2>1, <2>2 DEF FilesKept, Store
 <2>4. NoteRow(t)'.keyed = NoteRow(t).keyed BY <2>1 DEF RestStep, NoSuchNote, NoteRow
 <2> QED BY <2>2, <2>3, <2>4, <1>1 DEF LiveFile, KeyFits
<1>7. \A f \in FileIds : Past(f) => Past(f)'
 <2> TAKE f \in FileIds
 <2>1. files[f].state = "reaped" => f \notin S BY DEF RestStep
 <2> QED BY <2>1, <1>1, <1>2 DEF Past
<1>8. \A t \in Tiers : \A f \in Shown(NoteRow(t))' : f \in Shown(NoteRow(t)) /\ f \in FileIds
  BY <1>0 DEF RestStep
<1>9. ShownAreHere'
 <2> SUFFICES ASSUME NEW t \in Tiers, NEW f \in Shown(NoteRow(t))' PROVE
       Past(f)' \/ Linked(f, First, t)' \/ (Unlinked(f)' /\ ~files'[f].copy /\ files'[f].key = First) BY DEF ShownAreHere
 <2>1. Past(f) \/ Linked(f, First, t) \/ (Unlinked(f) /\ ~files[f].copy /\ files[f].key = First) BY <1>8 DEF ShownAreHere, Store
 <2> QED BY <2>1, <1>1, <1>7, <1>8 DEF Linked, Unlinked
<1>10. ShownAreSecret' BY <1>1, <1>7, <1>8 DEF ShownAreSecret, Store
<1>11. RowsAreOld'
  BY <1>2 DEF RestStep, RowsAreOld
<1> QED BY <1>3, <1>4, <1>5, <1>6, <1>9, <1>10, <1>11 DEF Store

\* The trash, its undo and the sweep of a row are such steps.
LEMMA RowRests == ASSUME PromotionTypeOK, Alone, Store, NEW t \in Tiers, Trash(First, t) \/ UndoTrash(First, t) \/ ReapRow(First, t)
    PROVE \E S, state : RestStep(S, state)
<1>0. /\ NoteRow(t) \in GoodRow /\ NoteRow(t).updatedAt <= saves /\ saves \in Nat
      /\ \A u \in Tiers : NoteRow(u).updatedAt <= saves BY AloneTypes DEF Store, RowsAreOld
<1>1. \A u \in Tiers : u # t => NoteRow(u).state = "none" /\ Shown(NoteRow(u)) = {}
  BY DEF Trash, UndoTrash, ReapRow, NoteRow, Store, OneRow, NoSuchNote
<1>2. CASE Trash(First, t) \/ UndoTrash(First, t)
 <2> DEFINE to == IF Trash(First, t) THEN "trash" ELSE "live"
            row == [NoteRow(t) EXCEPT !.state = to]
            S == IF Trash(First, t) THEN {f \in FileIds : LiveFile(f) /\ files[f].note = First}
                 ELSE {f \in FileIds : files[f].note = First /\ files[f].state \notin {"none", "reaped"}}
            state == IF Trash(First, t) THEN "deleted" ELSE "live"
 <2>1. row \in GoodRow BY <1>0, SmallRows
 <2>2. SetRow(First, t, row) BY <1>2 DEF Trash, UndoTrash, NoteRow
 <2>3. NoteRow(t)' = row /\ \A u \in Tiers : u # t => NoteRow(u)' = NoteRow(u) BY <2>1, <2>2, RowChanges
 <2>4. /\ row.state = to /\ row.body = NoteRow(t).body /\ row.history = NoteRow(t).history /\ row.keyed = NoteRow(t).keyed
       /\ row.updatedAt = NoteRow(t).updatedAt BY <1>0 DEF GoodRow, TierRow
 <2>5. Shown(row) = Shown(NoteRow(t)) BY <2>4 DEF Shown
 <2>6. files' = SetFiles(S, state) /\ UNCHANGED <<objects, tabs, saves, removed>> BY <1>2 DEF Trash, UndoTrash
 <2>7. \A f \in S : files[f].state \notin {"none", "reaped"} /\ files[f].note = First BY DEF LiveFile
 <2>8. \A f \in FileIds : f \in S => files'[f].state = state
  <3> HIDE DEF S, state
  <3> QED BY <2>6, SetFilesIs
 <2>9. Lasts(t) /\ to \in {"trash", "live"} /\ (to = "trash" => state = "deleted" /\ NoteRow(t).state = "live") /\ (to = "live" => state = "live")
   BY <1>2 DEF Trash, UndoTrash, Lasts, NoteRow
 <2>10. \A f \in FileIds : Linked(f, First, t) /\ f \notin removed => files'[f].state = state
  <3> SUFFICES ASSUME NEW f \in FileIds, Linked(f, First, t), f \notin removed PROVE f \in S BY <2>8
  <3>1. files[f].note = First BY DEF Linked
  <3>2. LiveFile(f) \/ (NoteRow(t).state = "trash" /\ files[f].state = "deleted") BY <2>9 DEF FilesKept, Store
  <3> QED BY <3>1, <3>2 DEF LiveFile, Trash, NoteRow
 <2> HIDE DEF to, row, S, state
 <2>11. S \subseteq FileIds BY DEF S
 <2>12. RestStep(S, state)
  <3>1. \A u \in Tiers : u # t =>
          /\ NoteRow(u)' = NoteRow(u) /\ NoteRow(u).state = "none" /\ Shown(NoteRow(u)) = {} BY <1>1, <2>3
  <3>2. ASSUME NEW u \in Tiers PROVE
     /\ NoteRow(u)'.state = "none" <=> NoteRow(u).state = "none"
     /\ Shown(NoteRow(u)') \subseteq Shown(NoteRow(u))
     /\ NoSuchNote(First, u) => NoSuchNote(First, u)'
     /\ NoSuchNote(First, u)' => Shown(NoteRow(u)') = {}
     /\ ~NoSuchNote(First, u)' => NoteRow(u)'.keyed = NoteRow(u).keyed
     /\ NoteRow(u)'.updatedAt <= saves
     /\ NoteRow(u)'.body = NoteRow(u).body
     /\ NoteRow(u)'.updatedAt = NoteRow(u).updatedAt
     /\ NoteRow(u)'.state \in {"live", "expired", "over", "trash"} =>
          /\ Lasts(u)
          /\ \A f \in FileIds : Linked(f, First, u) /\ f \notin removed =>
               \/ files'[f].state = "live"
               \/ NoteRow(u)'.state = "trash" /\ files'[f].state = "deleted"
   <4>1. CASE u = t BY <4>1, <1>0, <2>3, <2>4, <2>5, <2>9, <2>10 DEF NoSuchNote, NoteRow, Lasts
   <4>2. CASE u # t BY <4>2, <3>1, <1>0 DEF NoSuchNote, NoteRow
   <4> QED BY <4>1, <4>2
  <3>3. state \in {"live", "deleted", "late"} BY <2>9
  <3> QED BY <2>6, <2>7, <2>11, <3>2, <3>3 DEF RestStep
 <2> QED BY <2>12
<1>3. CASE ReapRow(First, t)
 <2> DEFINE row == [NoTierRow EXCEPT !.state = "gone"]
 <2>1. row \in GoodRow BY PlainTypes, SmallRows
 <2>2. SetRow(First, t, row) /\ UNCHANGED <<files, objects, tabs, saves, removed>> BY <1>3 DEF ReapRow
 <2>3. NoteRow(t)' = row /\ \A u \in Tiers : u # t => NoteRow(u)' = NoteRow(u) BY <2>1, <2>2, RowChanges
 <2>4. row.state = "gone" /\ row.updatedAt = 0 /\ row.body.shows = {} /\ row.history = <<>> BY DEF NoTierRow, Blank
 <2>5. Shown(row) = {}
   BY <2>4, EmptySeq DEF Shown
 <2>6. files' = SetFiles({}, "late") BY <2>2 DEF SetFiles, PromotionTypeOK
 <2>7. NoteRow(t).state # "none" BY <1>3 DEF ReapRow, NoteRow
 <2> HIDE DEF row
 <2>8. ASSUME NEW u \in Tiers PROVE
      /\ NoteRow(u)'.state = "none" <=> NoteRow(u).state = "none"
      /\ Shown(NoteRow(u)') = {}
      /\ NoSuchNote(First, u)'
      /\ NoteRow(u)'.updatedAt <= saves
      /\ NoteRow(u)'.state \notin {"live", "expired", "over", "trash"}
  <3>1. CASE u = t BY <3>1, <1>0, <2>3, <2>4, <2>5, <2>7 DEF NoSuchNote, NoteRow
  <3>2. CASE u # t BY <3>2, <1>0, <1>1, <2>3 DEF NoSuchNote, NoteRow
  <3> QED BY <3>1, <3>2
 <2>9. RestStep({}, "late") BY <2>2, <2>6, <2>8 DEF RestStep
 <2> QED BY <2>9
<1> QED BY <1>2, <1>3

\* So is an hour that passes.
LEMMA HourRests == ASSUME PromotionTypeOK, Alone, Store, Hour PROVE \E S, state : RestStep(S, state)
<1> DEFINE S == {f \in FileIds : files[f].state = "deleted"}
           to(u) == IF NoteRow(u).state = "trash" THEN "old" ELSE IF NoteRow(u).state = "expired" THEN "over" ELSE NoteRow(u).state
<1>0. \A u \in Tiers : NoteRow(u) \in GoodRow /\ NoteRow(u).updatedAt <= saves BY AloneTypes DEF Store, RowsAreOld
<1>1. \A u \in Tiers : NoteRow(u)' = [NoteRow(u) EXCEPT !.state = to(u)] BY PlainTypes DEF Hour, NoteRow
<1>2. \A u \in Tiers :
        /\ NoteRow(u)'.state = to(u) /\ NoteRow(u)'.body = NoteRow(u).body /\ NoteRow(u)'.history = NoteRow(u).history
        /\ NoteRow(u)'.keyed = NoteRow(u).keyed /\ NoteRow(u)'.updatedAt = NoteRow(u).updatedAt
  BY <1>0, <1>1 DEF GoodRow, TierRow
<1>3. \A u \in Tiers : Shown(NoteRow(u)') = Shown(NoteRow(u)) BY <1>2 DEF Shown
<1>4. files' = SetFiles(S, "late") /\ UNCHANGED <<objects, tabs, saves, removed>> BY DEF Hour
<1>5. \A f \in FileIds : f \notin S => files'[f].state = files[f].state BY <1>4, SetFilesIs
<1>6. ASSUME NEW u \in Tiers PROVE
       /\ NoteRow(u)'.state = "none" <=> NoteRow(u).state = "none"
       /\ Shown(NoteRow(u)') \subseteq Shown(NoteRow(u))
       /\ NoSuchNote(First, u) => NoSuchNote(First, u)'
       /\ NoSuchNote(First, u)' => Shown(NoteRow(u)') = {}
       /\ NoteRow(u)'.updatedAt <= saves
       /\ NoteRow(u)'.state \in {"live", "expired", "over", "trash"} =>
            /\ Lasts(u)
            /\ \A f \in FileIds : Linked(f, First, u) /\ f \notin removed => files'[f].state = "live"
 <2>1. to(u) = "none" <=> NoteRow(u).state = "none" BY <1>0 DEF GoodRow, TierRow
 <2>2. NoSuchNote(First, u)' <=> NoSuchNote(First, u) BY <1>2, <2>1 DEF NoSuchNote, NoteRow
 <2>3. ASSUME to(u) \in {"live", "expired", "over", "trash"}, NEW f \in FileIds, Linked(f, First, u), f \notin removed
       PROVE files'[f].state = "live"
   BY <2>3, <1>5 DEF Lasts, FilesKept, Store, LiveFile
 <2>4. to(u) \in {"live", "expired", "over", "trash"} => Lasts(u) BY DEF Lasts
 <2>5. NoSuchNote(First, u) => Shown(NoteRow(u)) = {} BY DEF Store, OneRow
 <2> QED BY <1>0, <1>2, <1>3, <2>1, <2>2, <2>3, <2>4, <2>5
<1>7. S \subseteq FileIds /\ \A f \in S : files[f].state \notin {"none", "reaped"} OBVIOUS
<1>8. RestStep(S, "late")
 <2> HIDE DEF S, to
 <2> QED BY <1>2, <1>4, <1>6, <1>7 DEF RestStep
<1> QED BY <1>8

-----------------------------------------------------------------------------
(* Promotion: the promotions under way *)

\* The phases of a task that can still commit.
Walking == {"encrypting", "uploading", "ready"}

\* The uploads of a task: copies, unlinked until it has committed, one for each source.
CopiesOf(b) ==
  /\ \A f \in Uploaded(b) :
       /\ files[f].state # "none"
       /\ files[f].state = "reaped" \/ files[f].copy
       /\ Task(b).phase # "cleaning" => Unlinked(f)
  /\ Task(b).phase = "idle" => Uploaded(b) = {}
  /\ Task(b).phase \in Walking =>
       /\ \A p \in Task(b).done : p[1] \in Task(b).sources
       /\ \A p, q \in Task(b).done : p[1] = q[1] <=> p[2] = q[2]
  /\ Task(b).phase = "uploading" => Task(b).reading \in Uncopied(b)

\* A task whose instant is that of the row has the body of the row; the row of its
\* tier is there, or the note has gone on to a tier above.
SeesTheRow(b) ==
  Task(b).phase \in Walking =>
    /\ Task(b).updatedAt <= saves
    /\ \E u \in {Task(b).tier} \cup Higher(Task(b).tier) : NoteRow(u).state # "none"
    /\ ~NoSuchNote(First, Task(b).tier) /\ NoteRow(Task(b).tier).updatedAt = Task(b).updatedAt =>
         NoteRow(Task(b).tier).body = Task(b).body

\* So it is for every tab.
CopiesApart == \A b \in Tabs : CopiesOf(b)

\* No file is the upload of two tabs.
TasksApart == \A b, c \in Tabs : b # c => Uploaded(b) \cap Uploaded(c) = {}

\* And every task sees the row so.
TasksSeeTheRow == \A b \in Tabs : SeesTheRow(b)

\* What always holds of the promotions under way.
Tasks == CopiesApart /\ TasksApart /\ TasksSeeTheRow

\* The tiers, in their order.
LEMMA TierWords == /\ Tiers = {"note", "secret", "seal"}
                   /\ \A t \in {"note", "secret"} : Above(t) \in Tiers /\ Above(t) # t /\ Above(t) # "note" /\ Above(t) \in Higher(t)
                        /\ Higher(Above(t)) \subseteq Higher(t) /\ Above(t) \notin Higher(Above(t)) /\ t \notin Higher(Above(t))
BY DEF Tiers, Above, Higher

\* What a task remembers is pairs of a source and its copy.
LEMMA PairsAre == ASSUME PromotionTypeOK, NEW b \in Tabs PROVE
    \A p \in Task(b).done : p[1] \in 0..MaxFiles /\ p[2] \in FileIds /\ p = <<p[1], p[2]>> /\ p[2] \in Uploaded(b)
<1>1. Task(b).done \subseteq (0..MaxFiles) \X FileIds BY TabTypes DEF Tab
<1> QED BY <1>1 DEF Uploaded

\* What a promotion installs shows its uploads for their sources, and what it kept.
LEMMA PromotedShows == ASSUME PromotionTypeOK, Alone, Store, Tasks, NEW b \in Tabs, NEW keyed,
    Task(b).phase = "ready", MayCommit(b), Task(b).tier \in {"note", "secret"} PROVE
    /\ NoteRow(Task(b).tier).body = Task(b).body /\ NoteRow(Task(b).tier).history = Task(b).history
    /\ Promoted(b, keyed).body = Pointed(b, NoteRow(Task(b).tier).body)
    /\ Promoted(b, keyed).history = [i \in 1..Len(Task(b).history) |-> Pointed(b, Task(b).history[i])]
    /\ Promoted(b, keyed).keyed = keyed /\ Promoted(b, keyed).state = NoteRow(Task(b).tier).state
    /\ Promoted(b, keyed).updatedAt = NoteRow(Task(b).tier).updatedAt
    /\ \A f \in Shown(Promoted(b, keyed)) :
         f \in Uploaded(b) \/ (f \in Shown(NoteRow(Task(b).tier)) /\ f \notin SourceFiles(b))
<1> DEFINE t == Task(b).tier
           old == NoteRow(t)
<1>1. t \in Tiers /\ Task(b).note = First /\ old \in GoodRow BY AloneTypes, TierWords
<1>2. old.body = Task(b).body
  BY <1>1 DEF Tasks, TasksSeeTheRow, SeesTheRow, Walking, MayCommit, SameInstant, Present, NoSuchNote, NoteRow
<1>3. old.history = Task(b).history BY <1>1 DEF MayCommit, SameVersions, NoteRow
<1>4. SourceFiles(b) = {p[1] : p \in Task(b).done} BY DEF MayCommit, SameFiles
<1>5. ASSUME NEW body \in Bodies PROVE \A f \in Pointed(b, body).shows : f \in Uploaded(b) \/ (f \in body.shows /\ f \notin SourceFiles(b))
  BY <1>4, PairsAre DEF Pointed, Bodies
<1>6. old.history \in Seq(Bodies) /\ old.body \in Bodies /\ \A i \in 1..Len(old.history) : old.history[i] \in Bodies
  BY <1>1, LenProperties DEF GoodRow, TierRow
<1>7. /\ Promoted(b, keyed).body = Pointed(b, old.body)
      /\ Promoted(b, keyed).history = [i \in 1..Len(old.history) |-> Pointed(b, old.history[i])]
      /\ Promoted(b, keyed).keyed = keyed /\ Promoted(b, keyed).state = old.state /\ Promoted(b, keyed).updatedAt = old.updatedAt
 <2>1. Promoted(b, keyed) = [old EXCEPT !.body = Pointed(b, old.body), !.keyed = keyed,
         !.history = [i \in 1..Len(old.history) |-> Pointed(b, old.history[i])]] BY <1>1, <1>2, <1>3 DEF Promoted, NoteRow
 <2> DEFINE body == Pointed(b, old.body)
            history == [i \in 1..Len(old.history) |-> Pointed(b, old.history[i])]
 <2> HIDE DEF body, history
 <2>2. Promoted(b, keyed) = [old EXCEPT !.body = body, !.keyed = keyed, !.history = history] BY <2>1 DEF body, history
 <2>3. Promoted(b, keyed).body = body /\ Promoted(b, keyed).history = history
       /\ Promoted(b, keyed).keyed = keyed /\ Promoted(b, keyed).state = old.state /\ Promoted(b, keyed).updatedAt = old.updatedAt
   BY <2>2, <1>1 DEF GoodRow, TierRow
 <2> QED BY <2>3 DEF body, history
<1>8. ASSUME NEW f \in Shown(Promoted(b, keyed)) PROVE f \in Uploaded(b) \/ (f \in Shown(old) /\ f \notin SourceFiles(b))
 <2>1. CASE f \in Pointed(b, old.body).shows BY <2>1, <1>5, <1>6 DEF Shown
 <2>2. CASE f \notin Pointed(b, old.body).shows
  <3> DEFINE history == Promoted(b, keyed).history
  <3>1. PICK i \in 1..Len(history) : f \in history[i].shows BY <1>7, <2>2 DEF Shown
  <3>2. Len(history) = Len(old.history) BY <1>7, <1>6, LenProperties
  <3>3. i \in 1..Len(old.history) /\ history[i] = Pointed(b, old.history[i]) BY <1>7, <3>1, <3>2
  <3>4. f \in Uploaded(b) \/ (f \in old.history[i].shows /\ f \notin SourceFiles(b)) BY <3>1, <3>3, <1>5, <1>6
  <3> QED BY <3>3, <3>4 DEF Shown
 <2> QED BY <2>1, <2>2
<1> QED BY <1>2, <1>3, <1>7, <1>8

-----------------------------------------------------------------------------
(* Promotion: the commit and the store *)

\* The files after a commit: linked copies, retired sources, moved along, or as before.
LEMMA MovedFiles == ASSUME PromotionTypeOK, Alone, NEW b \in Tabs, files' = Moved(b), FreshUploads(b),
    Task(b).tier \in {"note", "secret"}, NEW f \in FileIds PROVE
    /\ files'[f].key = files[f].key /\ files'[f].copy = files[f].copy /\ files'[f].purged = files[f].purged
    /\ f \in Uploaded(b) => files'[f].state = "live" /\ files'[f].note = First /\ files'[f].tier = Above(Task(b).tier)
    /\ f \notin Uploaded(b) /\ f \in SourceFiles(b) =>
         files'[f].state = "deleted" /\ files'[f].note = files[f].note /\ files'[f].tier = files[f].tier
    /\ f \notin Uploaded(b) /\ f \notin SourceFiles(b) /\ f \in FilesHere(First, Task(b).tier) =>
         files'[f].state = files[f].state /\ files'[f].note = First /\ files'[f].tier = Above(Task(b).tier)
    /\ f \notin Uploaded(b) /\ f \notin SourceFiles(b) /\ f \notin FilesHere(First, Task(b).tier) => files'[f] = files[f]
<1>1. files[f] \in File /\ Task(b).note = First /\ Above(Task(b).tier) \in Tiers BY AloneTypes, TierWords
<1>2. f \in FilesHere(First, Task(b).tier) => files[f].note = First BY DEF FilesHere, Linked
<1>3. f \in Uploaded(b) => files[f].state = "live" BY DEF FreshUploads, LiveFile
<1> QED BY <1>1, <1>2, <1>3 DEF Moved, File

\* What a promotion retires is live and linked to its row.
LEMMA SourcesAre == ASSUME Alone, PromotionTypeOK, NEW b \in Tabs, NEW f \in SourceFiles(b), Task(b).tier \in {"note", "secret"} PROVE
    f \in FilesHere(First, Task(b).tier)
BY AloneTypes DEF SourceFiles, Plaintext

\* The rows after a commit.
LEMMA CommitRows == ASSUME PromotionTypeOK, Alone, NEW b \in Tabs, NEW keyed \in BOOLEAN, CommitPromotion(b, keyed),
    NEW t \in {"note", "secret"}, Task(b).tier = t, NEW u, u = Above(t) PROVE
    /\ NoteRow(t)' = NoTierRow /\ NoteRow(u)' = Promoted(b, keyed)
    /\ \A v \in Tiers : v \notin {t, u} => NoteRow(v)' = NoteRow(v)
<1>1. Task(b).note = First /\ First \in Notes BY AloneTypes, PlainTypes
<1>2. t \in Tiers /\ u \in Tiers /\ t # u BY TierWords
<1>3. tierRows' = [tierRows EXCEPT ![First][u] = Promoted(b, keyed), ![First][t] = NoTierRow] BY <1>1 DEF CommitPromotion
<1>4. tierRows \in [Notes -> [Tiers -> TierRow]] BY DEF PromotionTypeOK
<1> QED BY <1>1, <1>2, <1>3, <1>4 DEF NoteRow

\* A commit keeps the store: its copies are linked with the row, under its key, and
\* what it retires the row shows no more.
LEMMA CommitKeepsStore == ASSUME PromotionTypeOK, Alone, Store, Tasks, NEW b \in Tabs, NEW keyed \in BOOLEAN, CommitPromotion(b, keyed),
    NEW t \in {"note", "secret"}, Task(b).tier = t, NEW u, u = Above(t), t = "secret" => keyed = NeedsKey(b) PROVE Store'
<1>0. /\ \A f \in FileIds : files[f] \in File /\ files[f].note \in {First, "nowhere"}
      /\ First \notin {"nowhere", "plain", "vault"} /\ Task(b).note = First /\ NoteRow(t) \in GoodRow
      /\ \A v \in Tiers : Shown(NoteRow(v)) \subseteq FileIds
      /\ Uploaded(b) \subseteq FileIds BY AloneTypes, TierWords, TabTypes
<1>1. /\ t \in Tiers /\ u \in Tiers /\ u # t /\ u # "note" /\ u \in Higher(t) /\ Higher(u) \subseteq Higher(t)
      /\ u \notin Higher(u) /\ t \notin Higher(u) BY TierWords
<1>2. /\ Task(b).phase = "ready" /\ MayCommit(b) /\ FreshUploads(b) /\ files' = Moved(b) /\ UNCHANGED <<objects, saves, removed>>
      /\ NoteRow(t).state \in {"live", "expired", "over"} /\ NoSuchNote(First, u)
  BY <1>0 DEF CommitPromotion, MayCommit, Present, NoteRow
<1>3. /\ NoteRow(t)' = NoTierRow /\ NoteRow(u)' = Promoted(b, keyed)
      /\ \A v \in Tiers : v \notin {t, u} => NoteRow(v)' = NoteRow(v) BY CommitRows
<1>4. /\ \A f \in Shown(NoteRow(u))' : f \in FileIds /\ (f \in Uploaded(b) \/ (f \in Shown(NoteRow(t)) /\ f \notin SourceFiles(b)))
      /\ NoteRow(u)'.keyed = keyed /\ NoteRow(u)'.state = NoteRow(t).state /\ NoteRow(u)'.updatedAt = NoteRow(t).updatedAt
 <2>1. Shown(NoteRow(u))' = Shown(Promoted(b, keyed)) BY <1>3 DEF Shown, NoteRow
 <2>2. Task(b).phase = "ready" /\ MayCommit(b) /\ Task(b).tier \in {"note", "secret"} BY <1>2
 <2>3. /\ Promoted(b, keyed).keyed = keyed /\ Promoted(b, keyed).state = NoteRow(t).state
       /\ Promoted(b, keyed).updatedAt = NoteRow(t).updatedAt
       /\ \A f \in Shown(Promoted(b, keyed)) : f \in Uploaded(b) \/ (f \in Shown(NoteRow(t)) /\ f \notin SourceFiles(b))
   BY <2>2, PromotedShows
 <2>4. \A f \in Shown(Promoted(b, keyed)) : f \in FileIds BY <2>3, <1>0, <1>1
 <2>5. /\ NoteRow(u)'.keyed = keyed /\ NoteRow(u)'.state = NoteRow(t).state /\ NoteRow(u)'.updatedAt = NoteRow(t).updatedAt
   BY <2>3, <1>3
 <2> QED BY <2>1, <2>3, <2>4, <2>5
<1>5. NoTierRow.state = "none" /\ NoTierRow.updatedAt = 0 /\ Shown(NoTierRow) = {}
  BY EmptySeq DEF NoTierRow, Blank, Shown
<1>6. \A v \in Tiers : v # t => NoteRow(v).state = "none" /\ Shown(NoteRow(v)) = {}
  BY <1>1, <1>2 DEF Store, OneRow, NoSuchNote, NoteRow
<1>7. \A v \in Tiers : v # u => NoteRow(v)'.state = "none" /\ Shown(NoteRow(v))' = {}
 <2> SUFFICES ASSUME NEW v \in Tiers, v # u PROVE NoteRow(v)'.state = "none" /\ Shown(NoteRow(v))' = {} OBVIOUS
 <2>1. CASE v = t BY <2>1, <1>3, <1>5 DEF Shown, NoteRow
 <2>2. CASE v # t
   BY <2>2, <1>3, <1>6 DEF Shown
 <2> QED BY <2>1, <2>2
<1>8. \A f \in FileIds :
    /\ files'[f].key = files[f].key /\ files'[f].copy = files[f].copy /\ files'[f].purged = files[f].purged
    /\ f \in Uploaded(b) => files'[f].state = "live" /\ files'[f].note = First /\ files'[f].tier = u
    /\ f \notin Uploaded(b) /\ f \in SourceFiles(b) =>
         files'[f].state = "deleted" /\ files'[f].note = files[f].note /\ files'[f].tier = files[f].tier
    /\ f \notin Uploaded(b) /\ f \notin SourceFiles(b) /\ f \in FilesHere(First, t) =>
         files'[f].state = files[f].state /\ files'[f].note = First /\ files'[f].tier = u
    /\ f \notin Uploaded(b) /\ f \notin SourceFiles(b) /\ f \notin FilesHere(First, t) => files'[f] = files[f]
  BY <1>2, MovedFiles
<1>9. \A f \in Uploaded(b) : LiveFile(f) /\ Unlinked(f) /\ f \in objects /\ ~files[f].purged /\ f \notin removed /\ files[f].key = KeyInTarget(b)
  BY <1>0, <1>2 DEF FreshUploads, Store, FilesOrdered
<1>10. \A f \in SourceFiles(b) : f \in FilesHere(First, t) BY SourcesAre
<1>11. \A f \in FilesHere(First, t) : f \in FileIds /\ LiveFile(f) /\ Linked(f, First, t) BY DEF FilesHere
<1>12. \A f \in FileIds : Linked(f, First, t) /\ f \notin removed =>
         /\ LiveFile(f) /\ f \in objects /\ ~files[f].purged /\ KeyFits(f, t) /\ f \in FilesHere(First, t)
 <2> SUFFICES ASSUME NEW f \in FileIds, Linked(f, First, t), f \notin removed PROVE
        /\ LiveFile(f) /\ f \in objects /\ ~files[f].purged /\ KeyFits(f, t) BY DEF FilesHere
 <2>1. Lasts(t) /\ NoteRow(t).state # "trash" BY <1>2 DEF Lasts
 <2> QED BY <2>1, <1>1 DEF FilesKept, Store
<1>13. OneRow'
 <2>1. \A v, w \in Tiers : v # w /\ NoteRow(v)'.state # "none" => NoteRow(w)'.state = "none" BY <1>7
 <2>2. NoteRow(u)'.state \notin {"none", "gone"} BY <1>2, <1>4
 <2>3. ASSUME NEW v \in Tiers, NoSuchNote(First, v)' PROVE Shown(NoteRow(v))' = {}
   BY <2>2, <2>3, <1>7 DEF NoSuchNote, NoteRow
 <2> QED BY <2>1, <2>3 DEF OneRow
<1>14. NothingAbove'
 <2> SUFFICES ASSUME NEW v \in Tiers, NEW w \in Tiers, NEW f \in FileIds, NoteRow(v)'.state # "none", w \in Higher(v), Linked(f, First, w)'
              PROVE FALSE BY DEF NothingAbove
 <2>1. v = u /\ w # u /\ w # t /\ w \in Higher(t) BY <1>1, <1>7
 <2>2. files'[f].note = First /\ files'[f].tier = w BY DEF Linked
 <2>3. files[f].note = First /\ files[f].tier = w BY <2>1, <2>2, <1>8
 <2> QED BY <2>1, <2>3, <1>1, <1>2 DEF NothingAbove, Store, Linked
<1>15. FilesOrdered'
 <2> SUFFICES ASSUME NEW f \in FileIds PROVE
       /\ files'[f].state \in {"none", "reaped"} => files'[f] = [NoFile EXCEPT !.state = files'[f].state]
       /\ f \in removed => files'[f].state \notin {"none", "reaped"}
       /\ files'[f].note = "nowhere" <=> files'[f].tier = "nowhere"
       /\ LiveFile(f)' /\ Unlinked(f)' => f \in objects /\ ~files'[f].purged /\ f \notin removed BY <1>2 DEF FilesOrdered
 <2>0. u # "nowhere" /\ t # "nowhere" BY <1>1 DEF Tiers
 <2>1. CASE f \in Uploaded(b) BY <2>0, <2>1, <1>0, <1>8 DEF LiveFile, Unlinked
 <2>2. CASE f \notin Uploaded(b) /\ f \in SourceFiles(b)
   BY <2>2, <1>10, <1>11, <2>0, <1>0, <1>8 DEF Linked, LiveFile, Unlinked
 <2>3. CASE f \notin Uploaded(b) /\ f \notin SourceFiles(b) /\ f \in FilesHere(First, t)
   BY <2>3, <1>11, <2>0, <1>0, <1>8 DEF LiveFile, Unlinked
 <2>4. CASE f \notin Uploaded(b) /\ f \notin SourceFiles(b) /\ f \notin FilesHere(First, t)
   BY <2>4, <1>8 DEF FilesOrdered, Store, LiveFile, Unlinked
 <2> QED BY <2>1, <2>2, <2>3, <2>4
<1>16. FilesKept'
 <2> SUFFICES ASSUME NEW v \in Tiers, NEW f \in FileIds, Lasts(v)', Linked(f, First, v)', f \notin removed PROVE
       LiveFile(f)' /\ f \in objects /\ ~files'[f].purged /\ KeyFits(f, v)' BY <1>2 DEF FilesKept
 <2>1. v = u BY <1>7 DEF Lasts, NoteRow
 <2>2. files'[f].note = First /\ files'[f].tier = u BY <2>1 DEF Linked
 <2>3. CASE f \in Uploaded(b)
  <3>1. f \in objects /\ ~files[f].purged /\ files[f].key = KeyInTarget(b) BY <2>3, <1>9
  <3>2. KeyFits(f, u)'
   <4>1. CASE t = "note"
     BY <4>1, <3>1, <1>0, <1>8 DEF KeyInTarget, KeyFits
   <4>2. CASE t = "secret"
    <5>1. u = "seal" BY <4>2 DEF Above
    <5>2. keyed
      BY <2>3, <1>2, <4>2 DEF Uploaded, Tasks, CopiesApart, CopiesOf, Walking, NeedsKey
    <5> QED BY <5>1, <5>2, <1>4 DEF KeyFits, NoteRow
   <4> QED BY <4>1, <4>2
  <3> QED BY <2>1, <2>3, <3>1, <3>2, <1>8 DEF LiveFile
 <2>4. CASE f \notin Uploaded(b)
  <3>1. f \notin SourceFiles(b)
   <4> SUFFICES ASSUME f \in SourceFiles(b) PROVE FALSE OBVIOUS
   <4>1. files'[f].tier = files[f].tier /\ files[f].tier = t BY <2>4, <1>8, <1>10, <1>11 DEF Linked
   <4> QED BY <4>1, <2>2, <1>1
  <3>2. f \in FilesHere(First, t)
   <4> SUFFICES ASSUME f \notin FilesHere(First, t) PROVE FALSE OBVIOUS
   <4>1. files'[f] = files[f] BY <2>4, <3>1, <1>8
   <4>2. Linked(f, First, u) BY <4>1, <2>2 DEF Linked
   <4> QED BY <4>2, <1>1, <1>2 DEF NothingAbove, Store
  <3>3. LiveFile(f) /\ f \in objects /\ ~files[f].purged /\ KeyFits(f, t) BY <3>2, <1>11, <1>12
  <3>4. files[f].key # First
   <4>1. CASE t = "note" BY <4>1, <3>3 DEF KeyFits
   <4>2. CASE t = "secret"
     BY <4>2, <3>2, <1>0, <3>1 DEF SourceFiles
   <4> QED BY <4>1, <4>2
  <3> QED BY <2>1, <2>4, <3>1, <3>2, <3>3, <3>4, <1>8 DEF LiveFile, KeyFits
 <2> QED BY <2>3, <2>4
<1>17. \A f \in FileIds : Past(f) => Past(f)' /\ (f \in Uploaded(b) => FALSE)
 <2> SUFFICES ASSUME NEW f \in FileIds, Past(f) PROVE Past(f)' /\ f \notin Uploaded(b) OBVIOUS
 <2>1. CASE f \in removed BY <2>1, <1>2, <1>9 DEF Past
 <2>2. CASE files[f].state = "reaped"
   BY <2>2, <1>9, <1>10, <1>11, <1>8 DEF LiveFile, Past
 <2> QED BY <2>1, <2>2 DEF Past
<1>18. ShownAreHere'
 <2> SUFFICES ASSUME NEW v \in Tiers, NEW f \in Shown(NoteRow(v))' PROVE
       Past(f)' \/ Linked(f, First, v)' \/ (Unlinked(f)' /\ ~files'[f].copy /\ files'[f].key = First) BY DEF ShownAreHere
 <2>1. v = u /\ f \in FileIds BY <1>4, <1>7
 <2>2. CASE f \in Uploaded(b) BY <2>1, <2>2, <1>8 DEF Linked
 <2>3. CASE f \in Shown(NoteRow(t)) /\ f \notin SourceFiles(b) /\ f \notin Uploaded(b)
  <3>1. Past(f) \/ Linked(f, First, t) \/ (Unlinked(f) /\ ~files[f].copy /\ files[f].key = First)
    BY <2>3, <1>1 DEF ShownAreHere, Store
  <3>2. CASE Past(f) BY <3>2, <2>1, <1>17
  <3>3. CASE Linked(f, First, t) /\ f \notin removed
    BY <3>3, <2>1, <1>12, <2>3, <1>8 DEF Linked
  <3>4. CASE Unlinked(f) /\ ~files[f].copy /\ files[f].key = First
    BY <3>4, <1>0, <1>11, <2>1, <2>3, <1>8 DEF Linked, Unlinked
  <3> QED BY <3>1, <3>2, <3>3, <3>4 DEF Past
 <2> QED BY <2>1, <2>2, <2>3, <1>4
<1>19. ShownAreSecret'
 <2> SUFFICES ASSUME NEW v \in Tiers, v # "note", NEW f \in Shown(NoteRow(v))', files'[f].key = "plain" PROVE Past(f)'
   BY DEF ShownAreSecret
 <2>1. v = u /\ f \in FileIds /\ files[f].key = "plain" BY <1>4, <1>7, <1>8
 <2>2. f \notin Uploaded(b) BY <2>1, <1>0, <1>9 DEF KeyInTarget
 <2>3. f \in Shown(NoteRow(t)) /\ f \notin SourceFiles(b) BY <2>1, <2>2, <1>4
 <2>4. Past(f)
  <3>1. CASE t # "note" BY <3>1, <2>1, <2>3, <1>1 DEF ShownAreSecret, Store
  <3>2. CASE t = "note"
   <4>1. Past(f) \/ Linked(f, First, t) BY <2>1, <2>3, <1>0, <1>1 DEF ShownAreHere, Store
   <4>2. ASSUME Linked(f, First, t), f \notin removed PROVE FALSE
     BY <4>2, <2>1, <1>12, <3>2, <1>0, <2>3 DEF SourceFiles, Plaintext
   <4> QED BY <4>1, <4>2 DEF Past
  <3> QED BY <3>1, <3>2
 <2> QED BY <2>1, <2>4, <1>17
<1>20. RowsAreOld'
 <2> SUFFICES ASSUME NEW v \in Tiers PROVE NoteRow(v)'.updatedAt <= saves BY <1>2 DEF RowsAreOld
 <2>0. saves \in Nat /\ \A w \in Tiers : NoteRow(w).updatedAt <= saves BY AloneTypes DEF Store, RowsAreOld
 <2>1. CASE v = u BY <2>0, <2>1, <1>1, <1>4
 <2>2. CASE v = t BY <2>0, <2>2, <1>3, <1>5
 <2>3. CASE v # u /\ v # t BY <2>0, <2>3, <1>3
 <2> QED BY <2>1, <2>2, <2>3
<1> QED BY <1>13, <1>14, <1>15, <1>16, <1>18, <1>19, <1>20 DEF Store

-----------------------------------------------------------------------------
(* Promotion: the tasks and the steps of others *)

\* What a promotion's uploads may go through in a step of somebody else.
CopiesStay(b) ==
  \A f \in Uploaded(b) :
    /\ files'[f].state # "none" /\ (files'[f].state = "reaped" \/ files'[f].copy)
    /\ Unlinked(f) => Unlinked(f)'
\* What the row may go through: a body that changes has a later instant, and a row
\* that comes up comes up where no task of its tier can be.
RowsMoveOn ==
  /\ saves' \in Nat /\ saves' >= saves
  /\ \A t \in Tiers : NoteRow(t).state # "none" => \E u \in {t} \cup Higher(t) : NoteRow(u)'.state # "none"
  /\ \A t \in Tiers : ~NoSuchNote(First, t)' =>
       \/ ~NoSuchNote(First, t) /\ NoteRow(t)'.body = NoteRow(t).body /\ NoteRow(t)'.updatedAt = NoteRow(t).updatedAt
       \/ NoteRow(t)'.updatedAt > saves
       \/ \A u \in {t} \cup Higher(t) : NoteRow(u).state = "none"

\* Rows that stand still move on.
LEMMA RowsStand == ASSUME PromotionTypeOK, UNCHANGED <<tierRows, saves>> PROVE RowsMoveOn
<1>1. saves \in Nat BY PromotionAssumption DEF PromotionTypeOK
<1> QED BY <1>1 DEF RowsMoveOn, NoteRow, NoSuchNote

\* A step of somebody else leaves a task what it was.
LEMMA TaskStays == ASSUME PromotionTypeOK, Alone, Tasks, NEW b \in Tabs, CopiesStay(b), RowsMoveOn, tabs'[b] = tabs[b]
    PROVE CopiesOf(b)' /\ SeesTheRow(b)'
<1>0. Task(b)' = Task(b) /\ Uploaded(b)' = Uploaded(b) /\ Uncopied(b)' = Uncopied(b) BY DEF Task, Uploaded, Uncopied
<1>1. CopiesOf(b) /\ SeesTheRow(b) BY DEF Tasks, CopiesApart, TasksSeeTheRow
<1>2. CopiesOf(b)' BY <1>0, <1>1 DEF CopiesOf, CopiesStay
<1>3. SeesTheRow(b)'
 <2> SUFFICES ASSUME Task(b).phase \in Walking PROVE
       /\ Task(b).updatedAt <= saves'
       /\ \E u \in {Task(b).tier} \cup Higher(Task(b).tier) : NoteRow(u)'.state # "none"
       /\ ~NoSuchNote(First, Task(b).tier)' /\ NoteRow(Task(b).tier)'.updatedAt = Task(b).updatedAt =>
            NoteRow(Task(b).tier)'.body = Task(b).body
  <3>1. Task(b).tier' = Task(b).tier BY <1>0
  <3> DEFINE t == Task(b).tier
  <3>2. PICK v : v = t OBVIOUS
  <3>3. NoteRow(t)' = NoteRow(v)' /\ (NoSuchNote(First, t)' <=> NoSuchNote(First, v)') BY <1>0, <3>2 DEF NoteRow, NoSuchNote
  <3>4. Task(b)'.phase \in Walking =>
          /\ Task(b)'.updatedAt <= saves'
          /\ \E u \in {Task(b)'.tier} \cup Higher(Task(b)'.tier) : NoteRow(u)'.state # "none"
          /\ ~NoSuchNote(First, v)' /\ NoteRow(v)'.updatedAt = Task(b)'.updatedAt => NoteRow(v)'.body = Task(b)'.body
    BY <1>0, <3>2 DEF NoteRow, NoSuchNote
  <3> QED BY <1>0, <3>2, <3>4 DEF SeesTheRow, NoteRow, NoSuchNote, Higher
 <2> DEFINE t == Task(b).tier
 <2>0. /\ t \in {"note", "secret"} /\ t \in Tiers /\ saves \in Nat /\ Task(b).updatedAt \in Nat
       /\ Task(b).updatedAt <= saves /\ \E u \in {t} \cup Higher(t) : NoteRow(u).state # "none"
       /\ ~NoSuchNote(First, t) /\ NoteRow(t).updatedAt = Task(b).updatedAt => NoteRow(t).body = Task(b).body
   BY AloneTypes, PromotionAssumption, <1>1 DEF PromotionTypeOK, Tab, Tiers, SeesTheRow
 <2> HIDE DEF t
 <2>1. Task(b).updatedAt <= saves' BY <2>0 DEF RowsMoveOn
 <2>2. \E u \in {t} \cup Higher(t) : NoteRow(u)'.state # "none"
  <3>1. PICK u \in {t} \cup Higher(t) : NoteRow(u).state # "none" BY <2>0
  <3>2. u \in Tiers /\ {u} \cup Higher(u) \subseteq {t} \cup Higher(t) BY <2>0 DEF Higher, Tiers
  <3>3. PICK w \in {u} \cup Higher(u) : NoteRow(w)'.state # "none" BY <3>1, <3>2 DEF RowsMoveOn
  <3> QED BY <3>2, <3>3
 <2>3. ASSUME NEW v, v = t, ~NoSuchNote(First, v)', NoteRow(v)'.updatedAt = Task(b).updatedAt PROVE NoteRow(v)'.body = Task(b).body
  <3>1. CASE ~NoSuchNote(First, v) /\ NoteRow(v)'.body = NoteRow(v).body /\ NoteRow(v)'.updatedAt = NoteRow(v).updatedAt
    BY <3>1, <2>0, <2>3
  <3>2. ~(NoteRow(v)'.updatedAt > saves) BY <2>0, <2>3
  <3>3. ~\A u \in {v} \cup Higher(v) : NoteRow(u).state = "none" BY <2>0, <2>3
  <3> QED BY <3>1, <3>2, <3>3, <2>0, <2>3 DEF RowsMoveOn
 <2> QED BY <1>0, <2>1, <2>2, <2>3 DEF t, NoteRow, NoSuchNote
<1> QED BY <1>2, <1>3

\* And so for all of them, when no tab takes a step.
LEMMA TasksStay == ASSUME PromotionTypeOK, Alone, Tasks, UNCHANGED tabs, RowsMoveOn, \A b \in Tabs : CopiesStay(b) PROVE Tasks'
<1>1. \A b \in Tabs : CopiesOf(b)' /\ SeesTheRow(b)' BY TaskStays
<1>2. TasksApart' BY DEF Tasks, TasksApart, Uploaded, Task
<1> QED BY <1>1, <1>2 DEF Tasks, CopiesApart, TasksSeeTheRow

\* And for the others, when one does.
LEMMA OthersStay == ASSUME PromotionTypeOK, Alone, Tasks, RowsMoveOn, NEW b \in Tabs,
    \A c \in Tabs : c # b => tabs'[c] = tabs[c] /\ CopiesStay(c), CopiesOf(b)', SeesTheRow(b)',
    \A c \in Tabs : c # b => \A f \in Uploaded(b)' : f \in Uploaded(b) \/ f \notin Uploaded(c) PROVE Tasks'
<1>1. \A c \in Tabs : CopiesOf(c)' /\ SeesTheRow(c)' BY TaskStays
<1>2. \A c \in Tabs : c # b => Uploaded(c)' = Uploaded(c) BY DEF Uploaded, Task
<1>3. TasksApart' BY <1>2 DEF Tasks, TasksApart
<1> QED BY <1>1, <1>3 DEF Tasks, CopiesApart, TasksSeeTheRow

\* A write of the row links no loose copy, and dates the body it changes.
LEMMA EditingMovesOn == ASSUME PromotionTypeOK, Alone, Store, Tasks, NEW t \in Tiers, NEW S, EditStep(t, S) PROVE Tasks'
<1>1. RowsMoveOn
  BY DEF EditStep, Store, OneRow, NoSuchNote, NoteRow, RowsMoveOn
<1>2. ASSUME NEW b \in Tabs PROVE CopiesStay(b)
 <2> SUFFICES ASSUME NEW f \in Uploaded(b) PROVE
     /\ files'[f].state # "none" /\ (files'[f].state = "reaped" \/ files'[f].copy)
     /\ Unlinked(f) => Unlinked(f)' BY DEF CopiesStay
 <2>1. /\ files[f].state # "none" /\ (files[f].state = "reaped" \/ files[f].copy) /\ f \in FileIds /\ files[f] \in File
       /\ First # "nowhere" BY TabTypes, AloneTypes DEF Tasks, CopiesApart, CopiesOf
 <2>2. files'[f] = IF f \in S /\ LiveFile(f) /\ KeyAllowed(f, First, t)
                    THEN [files[f] EXCEPT !.note = First, !.tier = t] ELSE files[f] BY <2>1 DEF EditStep, Relinked
 <2>3. files'[f].state = files[f].state /\ files'[f].copy = files[f].copy BY <2>1, <2>2 DEF File
 <2>4. ASSUME Unlinked(f) PROVE Unlinked(f)'
  <3> SUFFICES ASSUME f \in S, LiveFile(f) PROVE FALSE BY <2>2, <2>4 DEF Unlinked
  <3>1. files[f].copy /\ files[f].state = "live" BY <2>1 DEF LiveFile
  <3>2. f \in Shown(NoteRow(t)) BY <3>1 DEF EditStep, UploadsFor
  <3>3. ~Past(f) BY <2>1, <2>4, <3>1 DEF Store, FilesOrdered, Past
  <3> QED BY <2>1, <2>4, <3>1, <3>2, <3>3 DEF Store, ShownAreHere, Linked, Unlinked
 <2> QED BY <2>1, <2>3, <2>4
<1>3. UNCHANGED tabs BY DEF EditStep
<1> QED BY <1>1, <1>2, <1>3, TasksStay

\* A step that leaves the bodies leaves the tasks.
LEMMA RestingMovesOn == ASSUME PromotionTypeOK, Alone, Store, Tasks, NEW S, NEW state, RestStep(S, state) PROVE Tasks'
<1>1. RowsMoveOn
  BY AloneTypes DEF RowsMoveOn, RestStep
<1>2. ASSUME NEW b \in Tabs PROVE CopiesStay(b)
  BY TabTypes, SetFilesIs DEF Tasks, CopiesApart, CopiesOf, RestStep, CopiesStay, Unlinked
<1>3. UNCHANGED tabs BY DEF RestStep
<1> QED BY <1>1, <1>2, <1>3, TasksStay

\* A copy that dies is still a copy.
LEMMA DyingCopies == ASSUME PromotionTypeOK, Alone, Store, Tasks, NEW S, FilesDie(S) PROVE
    RowsMoveOn /\ \A b \in Tabs : CopiesStay(b)
<1>1. RowsMoveOn BY RowsStand DEF FilesDie
<1>2. ASSUME NEW b \in Tabs PROVE CopiesStay(b)
  BY TabTypes, SetFilesIs DEF Tasks, CopiesApart, CopiesOf, FilesDie, CopiesStay, Unlinked, LiveFile
<1> QED BY <1>1, <1>2

\* A fresh upload was no tab's.
LEMMA BeginningCopies == ASSUME PromotionTypeOK, Alone, Store, Tasks, NEW f, FileBegins(f) PROVE
    RowsMoveOn /\ \A b \in Tabs : CopiesStay(b) /\ f \notin Uploaded(b)
<1>1. RowsMoveOn BY RowsStand DEF FileBegins
<1>2. ASSUME NEW b \in Tabs PROVE CopiesStay(b) /\ f \notin Uploaded(b)
  BY TabTypes DEF Tasks, CopiesApart, CopiesOf, FileBegins, PromotionTypeOK, CopiesStay, Unlinked
<1> QED BY <1>1, <1>2

\* A purged copy is still a copy, or reaped.
LEMMA PurgingMovesOn == ASSUME PromotionTypeOK, Alone, Store, Tasks, NEW f \in FileIds, Purge(f) \/ PurgeLost(f) \/ ReapFile(f) PROVE Tasks'
<1>1. RowsMoveOn BY RowsStand DEF Purge, PurgeLost, ReapFile
<1>2. ASSUME NEW b \in Tabs PROVE CopiesStay(b)
 <2>1. \A g \in Uploaded(b) : g \in FileIds /\ files[g].state # "none" /\ (files[g].state = "reaped" \/ files[g].copy)
   BY TabTypes DEF Tasks, CopiesApart, CopiesOf
 <2>2. files[f] \in File BY AloneTypes
 <2>3. \A g \in FileIds : g # f => files'[g] = files[g] BY DEF Purge, PurgeLost, ReapFile, PromotionTypeOK
 <2>4. \/ files'[f].state = files[f].state /\ files'[f].copy = files[f].copy /\ files'[f].note = files[f].note
       \/ files'[f] = [NoFile EXCEPT !.state = "reaped"] BY <2>2 DEF Purge, PurgeLost, ReapFile, PromotionTypeOK, File
 <2>5. [NoFile EXCEPT !.state = "reaped"].state = "reaped" /\ [NoFile EXCEPT !.state = "reaped"].note = "nowhere" BY DEF NoFile
 <2> QED BY <2>1, <2>3, <2>4, <2>5 DEF CopiesStay, Unlinked
<1>3. UNCHANGED tabs BY DEF Purge, PurgeLost, ReapFile
<1> QED BY <1>1, <1>2, <1>3, TasksStay

-----------------------------------------------------------------------------
(* Promotion: the steps that end *)

\* When no file dies, none changes.
LEMMA NoneDie == ASSUME PromotionTypeOK PROVE SetFiles({}, "deleted") = files
BY DEF SetFiles, PromotionTypeOK

\* An editor attaches a fresh file.
LEMMA AttachBegins == ASSUME PromotionTypeOK, Alone, NEW t \in Tiers, AttachFiles(First, t) PROVE
    \E f : FileBegins(f) /\ UNCHANGED tabs
<1> DEFINE key == IF t = "note" THEN "plain" ELSE IF t = "secret" THEN "vault" ELSE First
           new == [NoFile EXCEPT !.state = "live", !.key = key]
<1>1. PICK f \in NextFile : files' = [files EXCEPT ![f] = new] /\ objects' = objects \cup {f} BY DEF AttachFiles
<1>2. key \in {"plain", "vault"} \cup Notes BY PlainTypes
<1>3. f \in FileIds /\ files[f].state = "none" /\ UNCHANGED <<tierRows, tabs, saves, removed>> BY DEF NextFile, AttachFiles
<1> HIDE DEF key
<1>4. new \in File /\ new.state = "live" /\ ~new.purged /\ new.note = "nowhere" /\ new.tier = "nowhere" BY <1>2 DEF NoFile, File
<1> HIDE DEF new
<1> QED BY <1>1, <1>3, <1>4 DEF FileBegins

\* The delete button removes one file that the row shows.
LEMMA RemovalDies == ASSUME PromotionTypeOK, Alone, Store, NEW t \in Tiers, RemoveFile(First, t) PROVE
    \E S : FilesDie(S) /\ UNCHANGED tabs
<1>1. PICK f \in NoteRow(t).body.shows : LiveFile(f) /\ files' = SetFiles({f}, "deleted") /\ removed' = removed \cup {f}
  BY DEF RemoveFile, NoteRow
<1>2. f \in FileIds BY AloneTypes DEF Shown
<1>3. FilesDie({f}) BY <1>1, <1>2 DEF FilesDie, RemoveFile
<1> QED BY <1>3 DEF RemoveFile

\* The sweep takes files whose row is not there.
LEMMA SweepDies == ASSUME PromotionTypeOK, Alone, SweepOrphans PROVE \E S : FilesDie(S) /\ UNCHANGED tabs
<1> DEFINE S == {f \in Scanned : Orphan(f)}
<1>1. files' = SetFiles(S, "deleted") /\ UNCHANGED <<tierRows, objects, tabs, saves, removed>> BY DEF SweepOrphans
<1>2. S \subseteq FileIds BY DEF Scanned
<1>3. \A f \in S : LiveFile(f) /\ NoSuchNote(First, files[f].tier)
 <2> TAKE f \in S
 <2>1. Orphan(f) /\ files[f].note \in {First, "nowhere"} BY <1>2, AloneTypes
 <2> QED BY <2>1 DEF Orphan, Unlinked
<1> HIDE DEF S
<1>4. FilesDie(S) BY <1>1, <1>2, <1>3 DEF FilesDie
<1> QED BY <1>1, <1>4

\* A promotion that ends badly deletes unlinked files alone.
LEMMA EndingsDie == ASSUME PromotionTypeOK, Alone, Store, Tasks, NEW b \in Tabs, CleanUp(b) \/ GiveUp(b) PROVE
    /\ \E S : FilesDie(S)
    /\ SetTab(b, NoTask)
<1>0. SetTab(b, NoTask) /\ UNCHANGED <<tierRows, objects, saves, removed>> /\ Uploaded(b) \subseteq FileIds
  BY TabTypes DEF CleanUp, GiveUp
<1>1. PICK S \in SUBSET FileIds : files' = SetFiles(S, "deleted") /\ \A f \in S : LiveFile(f) /\ Unlinked(f)
 <2>1. CASE CleanUp(b)
   BY <1>0, <2>1, NoneDie DEF Strays, CleanUp
 <2>2. CASE GiveUp(b)
  <3>1. PICK missed \in SUBSET Uploaded(b) : files' = SetFiles({f \in Uploaded(b) \ missed : LiveFile(f)}, "deleted")
    BY <2>2 DEF GiveUp
  <3>2. \A f \in Uploaded(b) : Unlinked(f) BY <2>2 DEF GiveUp, Tasks, CopiesApart, CopiesOf
  <3>3. {f \in Uploaded(b) \ missed : LiveFile(f)} \in SUBSET FileIds BY <1>0
  <3> QED BY <3>1, <3>2, <3>3
 <2> QED BY <2>1, <2>2
<1>2. \A f \in S : f \notin removed BY <1>1 DEF Store, FilesOrdered
<1>3. FilesDie(S) BY <1>0, <1>1, <1>2 DEF FilesDie
<1> QED BY <1>0, <1>3

\* A tab that has ended, or that only remembers what it uploaded.
LEMMA EndedTask == ASSUME PromotionTypeOK, Alone, Tasks, RowsMoveOn, NEW b \in Tabs, \A c \in Tabs : c # b => CopiesStay(c),
    SetTab(b, NoTask) PROVE Tasks'
<1>1. tabs'[b] = NoTask /\ \A c \in Tabs : c # b => tabs'[c] = tabs[c] BY PlainTypes, TabIsSet
<1>2. Task(b)' = NoTask /\ NoTask.phase = "idle" /\ NoTask.done = {} BY <1>1 DEF Task, NoTask
<1>3. Uploaded(b)' = {} BY <1>2 DEF Uploaded
<1>4. CopiesOf(b)' /\ SeesTheRow(b)' BY <1>2, <1>3 DEF CopiesOf, SeesTheRow, Walking
<1> QED BY <1>1, <1>3, <1>4, OthersStay

\* A tab that has failed, or that has to clean up.
LEMMA EndingTask == ASSUME PromotionTypeOK, Alone, Tasks, RowsMoveOn, NEW b \in Tabs, NEW phase \in {"failed", "cleaning"},
    \A c \in Tabs : c # b => CopiesStay(c), SetTab(b, Ending(b, phase)),
    \A f \in Uploaded(b) : files'[f].state # "none" /\ (files'[f].state = "reaped" \/ files'[f].copy),
    phase = "failed" => \A f \in Uploaded(b) : Unlinked(f)' PROVE Tasks'
<1>1. tabs'[b] = Ending(b, phase) /\ \A c \in Tabs : c # b => tabs'[c] = tabs[c] BY TabTypes, TabIsSet
<1>2. Task(b)'.phase = phase /\ Task(b)'.done = {<<0, p[2]>> : p \in Task(b).done} BY <1>1 DEF Task, Ending, NoTask
<1>3. Uploaded(b)' = Uploaded(b)
 <2>1. Uploaded(b)' = {p[2] : p \in {<<0, q[2]>> : q \in Task(b).done}} BY <1>2 DEF Uploaded
 <2>2. ASSUME NEW done PROVE {p[2] : p \in {<<0, q[2]>> : q \in done}} = {q[2] : q \in done}
  <3>1. \A q \in done : <<0, q[2]>>[2] = q[2] OBVIOUS
  <3>2. \A x : (x \in {p[2] : p \in {<<0, q[2]>> : q \in done}}) <=> \E q \in done : x = <<0, q[2]>>[2] BY Zenon
  <3>3. \A x : (x \in {q[2] : q \in done}) <=> \E q \in done : x = q[2] BY Zenon
  <3> QED BY <3>1, <3>2, <3>3
 <2> QED BY <2>1, <2>2 DEF Uploaded
<1>4. CopiesOf(b)' /\ SeesTheRow(b)' BY <1>2, <1>3 DEF CopiesOf, SeesTheRow, Walking
<1> QED BY <1>1, <1>3, <1>4, OthersStay

\* A commit leaves the tasks of the other tabs what they were.
LEMMA CommitMovesOn == ASSUME PromotionTypeOK, Alone, Store, Tasks, NEW b \in Tabs, NEW keyed \in BOOLEAN, CommitPromotion(b, keyed),
    NEW t \in {"note", "secret"}, Task(b).tier = t, NEW u, u = Above(t) PROVE Tasks'
<1>0. /\ \A f \in FileIds : files[f] \in File
      /\ First \notin {"nowhere", "plain", "vault"} /\ Task(b).note = First
      /\ saves \in Nat /\ \A c \in Tabs : Uploaded(c) \subseteq FileIds BY AloneTypes, TabTypes
<1>1. t \in Tiers /\ u \in Tiers /\ u # t /\ u \in Higher(t) /\ Higher(u) \subseteq Higher(t) /\ t \notin Higher(u)
      /\ \A v \in Tiers : Higher(v) \subseteq Tiers BY TierWords DEF Higher
<1>2. /\ MayCommit(b) /\ FreshUploads(b) /\ files' = Moved(b) /\ UNCHANGED <<objects, saves, removed>>
      /\ NoteRow(t).state \in {"live", "expired", "over"} /\ NoSuchNote(First, u)
  BY <1>0 DEF CommitPromotion, MayCommit, Present, NoteRow
<1>3. /\ NoteRow(t)' = NoTierRow /\ NoteRow(u)' = Promoted(b, keyed)
      /\ \A v \in Tiers : v \notin {t, u} => NoteRow(v)' = NoteRow(v) BY CommitRows
<1>4. NoteRow(u)'.state = NoteRow(t).state
 <2>1. Task(b).phase = "ready" /\ MayCommit(b) /\ Task(b).tier \in {"note", "secret"} BY <1>2 DEF CommitPromotion
 <2>2. Promoted(b, keyed).state = NoteRow(t).state BY <2>1, PromotedShows
 <2> QED BY <2>2, <1>3
<1>5. \A v \in Tiers : v # t => NoteRow(v).state = "none" BY <1>1, <1>2 DEF Store, OneRow
<1>6. RowsMoveOn
  BY <1>2, <1>4, <1>3, <1>5, <1>1, <1>0 DEF NoTierRow, NoSuchNote, NoteRow, RowsMoveOn
<1>7. \A f \in FileIds :
    /\ files'[f].key = files[f].key /\ files'[f].copy = files[f].copy /\ files'[f].purged = files[f].purged
    /\ f \in Uploaded(b) => files'[f].state = "live" /\ files'[f].note = First /\ files'[f].tier = u
    /\ f \notin Uploaded(b) /\ f \in SourceFiles(b) =>
         files'[f].state = "deleted" /\ files'[f].note = files[f].note /\ files'[f].tier = files[f].tier
    /\ f \notin Uploaded(b) /\ f \notin SourceFiles(b) /\ f \in FilesHere(First, t) =>
         files'[f].state = files[f].state /\ files'[f].note = First /\ files'[f].tier = u
    /\ f \notin Uploaded(b) /\ f \notin SourceFiles(b) /\ f \notin FilesHere(First, t) => files'[f] = files[f]
  BY <1>2, MovedFiles
<1>8. \A f \in SourceFiles(b) : f \in FilesHere(First, t) BY SourcesAre
<1>9. \A f \in FilesHere(First, t) : f \in FileIds /\ LiveFile(f) /\ files[f].note = First BY DEF FilesHere, Linked
<1>10. \A c \in Tabs : \A f \in Uploaded(c) : files[f].state # "none" /\ (files[f].state = "reaped" \/ files[f].copy)
  BY DEF Tasks, CopiesApart, CopiesOf
<1>11. ASSUME NEW c \in Tabs, c # b PROVE CopiesStay(c)
 <2> SUFFICES ASSUME NEW f \in Uploaded(c) PROVE
     /\ files'[f].state # "none" /\ (files'[f].state = "reaped" \/ files'[f].copy)
     /\ Unlinked(f) => Unlinked(f)' BY DEF CopiesStay
 <2>1. f \notin Uploaded(b) /\ f \in FileIds /\ files[f].state # "none" /\ (files[f].state = "reaped" \/ files[f].copy)
   BY <1>0, <1>10, <1>11 DEF Tasks, TasksApart
 <2>2. CASE f \in FilesHere(First, t)
   BY <2>2, <1>9, <1>0, <2>1, <1>7 DEF Unlinked, LiveFile
 <2>3. CASE f \notin FilesHere(First, t)
   BY <2>1, <2>3, <1>7, <1>8 DEF Unlinked
 <2> QED BY <2>2, <2>3
<1>12. \A f \in Uploaded(b) : files'[f].state # "none" /\ (files'[f].state = "reaped" \/ files'[f].copy)
 <2> TAKE f \in Uploaded(b)
 <2>1. f \in FileIds /\ files[f].state = "live" BY <1>0, <1>2 DEF FreshUploads, LiveFile
 <2>2. files[f].copy BY <2>1, <1>10
 <2> QED BY <2>1, <2>2, <1>7
<1>13. CASE SetTab(b, NoTask) BY <1>6, <1>11, <1>13, EndedTask
<1>14. CASE SetTab(b, Ending(b, "cleaning"))
 <2> DEFINE phase == "cleaning"
 <2>1. phase \in {"failed", "cleaning"} /\ SetTab(b, Ending(b, phase)) /\ phase # "failed" BY <1>14
 <2> HIDE DEF phase
 <2> QED BY <2>1, <1>6, <1>11, <1>12, EndingTask
<1> QED BY <1>13, <1>14 DEF CommitPromotion

-----------------------------------------------------------------------------
(* Promotion: the steps that go on *)

\* What changes no row and no file keeps the store.
LEMMA ServerKeepsStore == ASSUME Store, ServerStays PROVE Store'
BY DEF Store, ServerStays, OneRow, NothingAbove, FilesOrdered, FilesKept, ShownAreHere, ShownAreSecret, RowsAreOld,
  NoteRow, Shown, NoSuchNote, Linked, LiveFile, Unlinked, Lasts, KeyFits, Past

\* And it leaves every task what it was.
LEMMA ServerCopies == ASSUME PromotionTypeOK, Alone, Tasks, ServerStays PROVE RowsMoveOn /\ \A b \in Tabs : CopiesStay(b)
<1>1. RowsMoveOn BY RowsStand DEF ServerStays
<1>2. \A b \in Tabs : CopiesStay(b) BY DEF ServerStays, CopiesStay, Tasks, CopiesApart, CopiesOf, Unlinked
<1> QED BY <1>1, <1>2

\* A task that begins sees the row as it is.
LEMMA PreparedTask == ASSUME PromotionTypeOK, Alone, Store, Tasks, NEW b \in Tabs, NEW t \in {"note", "secret"},
    NEW sources \in SUBSET FileIds, Present(First, t), SetTab(b, Prepared(First, t, sources)), ServerStays PROVE Tasks'
<1> DEFINE tab == Prepared(First, t, sources)
<1>0. NoteRow(t) \in GoodRow /\ NoteRow(t).updatedAt <= saves /\ t \in Tiers BY AloneTypes, TierWords DEF Store, RowsAreOld
<1>1. /\ tab.phase = "encrypting" /\ tab.tier = t /\ tab.body = NoteRow(t).body /\ tab.updatedAt = NoteRow(t).updatedAt
      /\ tab.done = {} /\ tab \in Tab
  BY <1>0, PlainTypes, PromotionAssumption DEF Prepared, NoTask, NoteRow, Tab, GoodRow, TierRow
<1>2. tabs'[b] = tab /\ \A c \in Tabs : c # b => tabs'[c] = tabs[c] BY <1>1, TabIsSet
<1>3. Task(b)' = tab BY <1>2 DEF Task
<1> HIDE DEF tab
<1>4. Uploaded(b)' = {} BY <1>1, <1>3 DEF Uploaded
<1>5. CopiesOf(b)' BY <1>1, <1>3, <1>4 DEF CopiesOf
<1>6. SeesTheRow(b)'
  BY <1>1, <1>3, <1>0 DEF Present, NoteRow, ServerStays, SeesTheRow
<1> QED BY <1>2, <1>4, <1>5, <1>6, ServerCopies, OthersStay

\* A tab that goes on with its task, with what it has uploaded.
LEMMA TaskGoesOn == ASSUME PromotionTypeOK, Alone, Store, Tasks, NEW b \in Tabs, ServerStays,
    NEW phase \in {"uploading", "ready"}, NEW reading \in {0} \cup FileIds, Task(b).phase = "encrypting",
    phase = "uploading" => reading \in Uncopied(b),
    SetTab(b, [Task(b) EXCEPT !.phase = phase, !.reading = reading]) PROVE Tasks'
<1> DEFINE tab == [Task(b) EXCEPT !.phase = phase, !.reading = reading]
<1>1. /\ tab.phase = phase /\ tab.reading = reading /\ tab.tier = Task(b).tier /\ tab.body = Task(b).body
      /\ tab.updatedAt = Task(b).updatedAt /\ tab.done = Task(b).done /\ tab.sources = Task(b).sources /\ tab \in Tab
  BY TabTypes DEF Tab
<1>2. tabs'[b] = tab /\ \A c \in Tabs : c # b => tabs'[c] = tabs[c] BY <1>1, TabIsSet
<1>3. Task(b)' = tab BY <1>2 DEF Task
<1> HIDE DEF tab
<1>4. Uploaded(b)' = Uploaded(b) /\ Uncopied(b)' = Uncopied(b) BY <1>1, <1>3 DEF Uploaded, Uncopied
<1>5. CopiesOf(b) /\ SeesTheRow(b) BY DEF Tasks, CopiesApart, TasksSeeTheRow
<1>6. CopiesOf(b)' BY <1>1, <1>3, <1>4, <1>5 DEF CopiesOf, ServerStays, Unlinked, Walking
<1>7. SeesTheRow(b)'
  BY <1>1, <1>3, <1>5 DEF NoteRow, ServerStays, NoSuchNote, SeesTheRow, Walking
<1> QED BY <1>2, <1>4, <1>6, <1>7, ServerCopies, OthersStay

\* A copy is uploaded, and is the one copy of its source.
LEMMA UploadBegins == ASSUME PromotionTypeOK, Alone, Store, Tasks, NEW b \in Tabs, Upload(b) PROVE
    Tasks' /\ \E f : FileBegins(f)
<1> DEFINE new == [NoFile EXCEPT !.state = "live", !.copy = TRUE, !.key = KeyInTarget(b)]
<1>0. Task(b) \in Tab /\ Task(b).phase = "uploading" /\ Task(b).note = First /\ UNCHANGED <<tierRows, saves, removed>> BY AloneTypes DEF Upload
<1>1. PICK f \in NextFile :
       /\ files' = [files EXCEPT ![f] = new] /\ objects' = objects \cup {f}
       /\ \/ SetTab(b, [Task(b) EXCEPT !.phase = "encrypting", !.reading = 0,
                          !.done = @ \cup {<<Task(b).reading, f>>}])
          \/ SetTab(b, Ending(b, "failed")) BY DEF Upload
<1>2. new \in File /\ new.state = "live" /\ ~new.purged /\ new.note = "nowhere" /\ new.tier = "nowhere" /\ new.copy
  BY <1>0, PlainTypes DEF KeyInTarget, NoFile, File
<1> HIDE DEF new
<1>3. f \in FileIds /\ files[f].state = "none" BY DEF NextFile
<1>4. FileBegins(f) BY <1>0, <1>1, <1>2, <1>3 DEF FileBegins
<1>5. RowsMoveOn /\ \A c \in Tabs : CopiesStay(c) /\ f \notin Uploaded(c) BY <1>4, BeginningCopies
<1>6. files'[f] = new BY <1>1, <1>3 DEF PromotionTypeOK
<1>7. CopiesOf(b) /\ SeesTheRow(b) BY DEF Tasks, CopiesApart, TasksSeeTheRow
<1>8. CASE SetTab(b, Ending(b, "failed"))
 <2> DEFINE phase == "failed"
 <2>1. \A g \in Uploaded(b) : files'[g].state # "none" /\ (files'[g].state = "reaped" \/ files'[g].copy) BY <1>5 DEF CopiesStay
 <2>2. \A g \in Uploaded(b) : Unlinked(g)' BY <1>0, <1>5, <1>7 DEF CopiesStay, CopiesOf
 <2>3. phase \in {"failed", "cleaning"} /\ SetTab(b, Ending(b, phase)) BY <1>8
 <2> HIDE DEF phase
 <2>4. Tasks' BY <1>5, <2>1, <2>2, <2>3, EndingTask
 <2> QED BY <1>4, <2>4
<1>9. CASE SetTab(b, [Task(b) EXCEPT !.phase = "encrypting", !.reading = 0, !.done = @ \cup {<<Task(b).reading, f>>}])
 <2> DEFINE done == Task(b).done \cup {<<Task(b).reading, f>>}
            tab == [Task(b) EXCEPT !.phase = "encrypting", !.reading = 0, !.done = done]
 <2>0. Task(b).reading \in 0..MaxFiles /\ FileIds \subseteq 0..MaxFiles BY <1>0, PromotionAssumption DEF Tab, FileIds
 <2>1. done \subseteq (0..MaxFiles) \X FileIds BY <2>0, <1>0, <1>3 DEF Tab
 <2> HIDE DEF done
 <2>2. /\ tab.phase = "encrypting" /\ tab.reading = 0 /\ tab.tier = Task(b).tier /\ tab.body = Task(b).body
       /\ tab.updatedAt = Task(b).updatedAt /\ tab.done = done /\ tab.sources = Task(b).sources /\ tab \in Tab
   BY <1>0, <2>1 DEF Tab
 <2>3. SetTab(b, tab) BY <1>9 DEF done
 <2> HIDE DEF tab
 <2>4. tabs'[b] = tab /\ \A c \in Tabs : c # b => tabs'[c] = tabs[c] BY <2>2, <2>3, TabIsSet
 <2>5. Task(b)' = tab BY <2>4 DEF Task
 <2>6. \A p \in done : p \in Task(b).done \/ p = <<Task(b).reading, f>> BY DEF done
 <2>7. Uploaded(b)' \subseteq Uploaded(b) \cup {f}
   BY <2>2, <2>5, <2>6 DEF Uploaded
 <2>8. Task(b).reading \in Task(b).sources /\ \A p \in Task(b).done : p[1] # Task(b).reading /\ p[2] # f
   BY <1>0, <1>5, <1>7 DEF CopiesOf, Uncopied, Uploaded
 <2>9. CopiesOf(b)'
  <3>1. \A g \in Uploaded(b) :
          /\ files'[g].state # "none" /\ (files'[g].state = "reaped" \/ files'[g].copy) /\ Unlinked(g)'
    BY <1>0, <1>5, <1>7 DEF CopiesStay, CopiesOf
  <3>2. files'[f].state # "none" /\ files'[f].copy /\ Unlinked(f)' BY <1>2, <1>6 DEF Unlinked
  <3>3. \A g \in Uploaded(b)' : files'[g].state # "none" /\ (files'[g].state = "reaped" \/ files'[g].copy) /\ Unlinked(g)'
    BY <2>7, <3>1, <3>2
  <3>4. \A p \in done : p[1] \in Task(b).sources BY <1>0, <1>7, <2>6, <2>8 DEF CopiesOf, Walking
  <3>5. \A p, q \in Task(b).done : p[1] = q[1] <=> p[2] = q[2] BY <1>0, <1>7 DEF CopiesOf, Walking
  <3>6. \A p, q \in done : p[1] = q[1] <=> p[2] = q[2] BY <2>6, <2>8, <3>5
  <3>7. Task(b)'.phase = "encrypting" /\ Task(b)'.done = done /\ Task(b)'.sources = Task(b).sources BY <2>2, <2>5
  <3> QED BY <3>3, <3>4, <3>6, <3>7 DEF CopiesOf
 <2>10. SeesTheRow(b)'
   BY <1>0, <2>2, <2>5, <1>7 DEF NoteRow, NoSuchNote, SeesTheRow, Walking
 <2>11. \A c \in Tabs : c # b => \A g \in Uploaded(b)' : g \in Uploaded(b) \/ g \notin Uploaded(c) BY <1>5, <2>7
 <2>12. Tasks' BY <1>5, <2>4, <2>9, <2>10, <2>11, OthersStay
 <2> QED BY <1>4, <2>12
<1> QED BY <1>1, <1>8, <1>9

-----------------------------------------------------------------------------
(* Promotion: the invariant *)

\* The steps of a promotion that do not reach the server.
LEMMA TaskWalks == ASSUME PromotionTypeOK, Alone, Store, Tasks, NEW b \in Tabs,
    (\E n \in Notes : PrepareNote(b, n) \/ PrepareSecret(b, n)) \/ Download(b) \/ Encrypted(b) \/ CommitFails(b) \/ CloseTab(b)
    PROVE ServerStays /\ Tasks'
<1>0. ServerStays BY DEF PrepareNote, PrepareSecret, Download, Encrypted, CommitFails, CloseTab
<1>1. RowsMoveOn /\ \A c \in Tabs : CopiesStay(c) BY <1>0, ServerCopies
<1>2. CASE \E n \in Notes : PrepareNote(b, n) \/ PrepareSecret(b, n)
  BY <1>2, <1>0, PreparedTask DEF Alone, Plaintext, FilesHere, PrepareNote, PrepareSecret
<1>3. CASE Download(b)
 <2>1. PICK f \in Uncopied(b) : SetTab(b, [Task(b) EXCEPT !.phase = "uploading", !.reading = f]) BY <1>3 DEF Download
 <2>2. f \in {0} \cup FileIds BY TabTypes DEF Uncopied, Tab
 <2>3. Task(b).phase = "encrypting" BY <1>3 DEF Download
 <2> DEFINE phase == "uploading"
 <2>4. phase \in {"uploading", "ready"} /\ SetTab(b, [Task(b) EXCEPT !.phase = phase, !.reading = f]) BY <2>1
 <2> HIDE DEF phase
 <2>5. Tasks' BY <1>0, <2>1, <2>2, <2>3, <2>4, TaskGoesOn
 <2> QED BY <1>0, <2>5
<1>4. CASE Encrypted(b)
 <2> DEFINE phase == "ready"
            reading == Task(b).reading
 <2>1. Task(b).phase = "encrypting" /\ SetTab(b, [Task(b) EXCEPT !.phase = phase]) /\ Task(b) \in Tab BY <1>4, TabTypes DEF Encrypted
 <2>2. [Task(b) EXCEPT !.phase = phase] = [Task(b) EXCEPT !.phase = phase, !.reading = reading] BY <2>1 DEF Tab
 <2>3. reading \in {0} \cup FileIds /\ phase \in {"uploading", "ready"} /\ phase # "uploading" BY <2>1 DEF Tab
 <2> HIDE DEF phase, reading
 <2>4. SetTab(b, [Task(b) EXCEPT !.phase = phase, !.reading = reading]) BY <2>1, <2>2
 <2>5. Tasks' BY <1>0, <2>1, <2>3, <2>4, TaskGoesOn
 <2> QED BY <1>0, <2>5
<1>5. CASE CommitFails(b)
 <2> DEFINE phase == "cleaning"
 <2>1. phase \in {"failed", "cleaning"} /\ SetTab(b, Ending(b, phase)) /\ phase # "failed" BY <1>5 DEF CommitFails
 <2>2. \A f \in Uploaded(b) : files'[f].state # "none" /\ (files'[f].state = "reaped" \/ files'[f].copy) BY <1>1 DEF CopiesStay
 <2> HIDE DEF phase
 <2>3. Tasks' BY <1>1, <2>1, <2>2, EndingTask
 <2> QED BY <1>0, <2>3
<1>6. CASE CloseTab(b)
  BY <1>6, <1>0, <1>1, EndedTask DEF CloseTab
<1> QED BY <1>2, <1>3, <1>4, <1>5, <1>6

\* The steps of a promotion keep the invariant.
LEMMA PromotionKeeps == ASSUME PromotionTypeOK, Alone, Store, Tasks, NEW b \in Tabs, PromotionStep(b) PROVE Store' /\ Tasks'
<1>1. CASE (\E n \in Notes : PrepareNote(b, n) \/ PrepareSecret(b, n)) \/ Download(b) \/ Encrypted(b) \/ CommitFails(b) \/ CloseTab(b)
  BY <1>1, TaskWalks, ServerKeepsStore
<1>2. CASE Upload(b) BY <1>2, UploadBegins, BeginningKeepsStore
<1>3. CASE NoteToSecret(b) \/ SecretToSeal(b)
 <2>1. PICK keyed \in BOOLEAN : CommitPromotion(b, keyed) /\ (Task(b).tier = "secret" => keyed = NeedsKey(b))
   BY <1>3 DEF NeedsKey, NoteToSecret, SecretToSeal
 <2>2. PICK t \in {"note", "secret"} : Task(b).tier = t BY <1>3 DEF NoteToSecret, SecretToSeal
 <2>3. PICK u : u = Above(t) OBVIOUS
 <2>4. Store' BY <2>1, <2>2, <2>3, CommitKeepsStore
 <2>5. Tasks' BY <2>1, <2>2, <2>3, CommitMovesOn
 <2> QED BY <2>4, <2>5
<1>4. CASE CleanUp(b) \/ GiveUp(b)
 <2>1. PICK S : FilesDie(S) BY <1>4, EndingsDie
 <2>2. SetTab(b, NoTask) BY <1>4, EndingsDie
 <2>3. Store' BY <2>1, DyingKeepsStore
 <2>4. RowsMoveOn /\ \A c \in Tabs : CopiesStay(c) BY <2>1, DyingCopies
 <2>5. Tasks' BY <2>2, <2>4, EndedTask
 <2> QED BY <2>3, <2>5
<1> QED BY <1>1, <1>2, <1>3, <1>4 DEF PromotionStep

\* So do the steps of a row.
LEMMA RowKeeps == ASSUME PromotionTypeOK, Alone, Store, Tasks, NEW t \in Tiers, RowStep(First, t) PROVE Store' /\ Tasks'
<1>1. CASE \E S : EditStep(t, S) BY <1>1, EditKeepsStore, EditingMovesOn
<1>2. CASE \E S, state : RestStep(S, state) BY <1>2, RestingKeepsStore, RestingMovesOn
<1>3. CASE \E S : FilesDie(S) /\ UNCHANGED tabs
 <2>1. PICK S : FilesDie(S) /\ UNCHANGED tabs BY <1>3
 <2> QED BY <2>1, DyingKeepsStore, DyingCopies, TasksStay
<1>4. CASE \E f : FileBegins(f) /\ UNCHANGED tabs
 <2>1. PICK f : FileBegins(f) /\ UNCHANGED tabs BY <1>4
 <2> QED BY <2>1, BeginningKeepsStore, BeginningCopies, TasksStay
<1>5. ~\E m \in Notes : Duplicate(First, t, m)
  BY DEF Alone, Duplicate
<1>6. CASE SaveNote(First, t) \/ RestoreVersion(First, t) \/ DropVersion(First, t)
  BY <1>6, <1>1, SaveEdits, RestoreEdits, DropEdits
<1>7. CASE Arm(First, t) \/ ExpireNote(First, t) \/ CancelTimer(First, t) BY <1>7, <1>1, SmallEdits
<1>8. CASE Trash(First, t) \/ UndoTrash(First, t) \/ ReapRow(First, t) BY <1>8, <1>2, RowRests
<1>9. CASE AttachFiles(First, t) BY <1>9, <1>4, AttachBegins
<1>10. CASE RemoveFile(First, t) BY <1>10, <1>3, RemovalDies
<1> QED BY <1>5, <1>6, <1>7, <1>8, <1>9, <1>10 DEF RowStep

\* So does the cron.
LEMMA CronKeeps == ASSUME PromotionTypeOK, Alone, Store, Tasks,
    Hour \/ SweepOrphans \/ (\E f \in FileIds : Purge(f) \/ PurgeLost(f) \/ ReapFile(f)) PROVE Store' /\ Tasks'
<1>1. CASE Hour BY <1>1, HourRests, RestingKeepsStore, RestingMovesOn
<1>2. CASE SweepOrphans
 <2>1. PICK S : FilesDie(S) /\ UNCHANGED tabs BY <1>2, SweepDies
 <2> QED BY <2>1, DyingKeepsStore, DyingCopies, TasksStay
<1>3. CASE \E f \in FileIds : Purge(f) \/ PurgeLost(f) \/ ReapFile(f) BY <1>3, PurgingKeepsStore, PurgingMovesOn
<1> QED BY <1>1, <1>2, <1>3

\* The inductive invariant.
PromotionInv == PromotionTypeOK /\ Store /\ Tasks

\* Every step keeps it.
LEMMA PromotionInvStep == ASSUME Alone PROVE PromotionInv /\ [PromotionNext]_promotionVars => PromotionInv'
<1> SUFFICES ASSUME PromotionTypeOK, Store, Tasks, [PromotionNext]_promotionVars PROVE PromotionInv' BY DEF PromotionInv
<1>0. PromotionTypeOK' BY TypesStep
<1>1. CASE UNCHANGED promotionVars
  BY <1>1, <1>0, ServerKeepsStore, ServerCopies, TasksStay DEF promotionVars, ServerStays, PromotionInv
<1>2. CASE \E n \in Notes, t \in Tiers : RowStep(n, t) BY <1>0, <1>2, RowKeeps DEF Alone, PromotionInv
<1>3. CASE \E b \in Tabs : PromotionStep(b) BY <1>0, <1>3, PromotionKeeps DEF PromotionInv
<1>4. CASE Hour \/ SweepOrphans \/ (\E f \in FileIds : Purge(f) \/ PurgeLost(f) \/ ReapFile(f))
  BY <1>0, <1>4, CronKeeps DEF PromotionInv
<1> QED BY <1>1, <1>2, <1>3, <1>4 DEF PromotionNext

\* It holds at first.
LEMMA PromotionInitInv == ASSUME Alone, ~Restored PROVE PromotionInit => PromotionInv
<1> SUFFICES ASSUME PromotionInit PROVE PromotionInv OBVIOUS
<1>0. PromotionTypeOK BY PromotionInitTypes
<1>1. tierRows = [n \in Notes |-> [t \in Tiers |->
            IF n # First \/ t = "seal" \/ t = "secret" THEN NoTierRow
            ELSE [NoTierRow EXCEPT !.state = "live", !.body.shows = IF t = "note" THEN {1} ELSE {}]]]
 <2>1. PICK occupied \in BOOLEAN :
         /\ occupied => Restored
         /\ tierRows = [n \in Notes |-> [t \in Tiers |->
           IF n # First \/ t = "seal" \/ (t = "secret" /\ ~occupied) THEN NoTierRow
           ELSE [NoTierRow EXCEPT !.state = "live", !.body.shows = IF t = "note" THEN {1} ELSE {}]]] BY DEF PromotionInit
 <2>2. ~occupied BY <2>1
 <2> QED BY <2>1, <2>2
<1>2. NoteRow("note") = [NoTierRow EXCEPT !.state = "live", !.body.shows = {1}]
      /\ \A t \in Tiers : t # "note" => NoteRow(t) = NoTierRow BY <1>1, PlainTypes DEF NoteRow, Tiers
<1>3. NoTierRow.state = "none" /\ NoTierRow.updatedAt = 0 /\ Shown(NoTierRow) = {}
  BY EmptySeq DEF NoTierRow, Blank, Shown
<1>4. NoteRow("note").state = "live" /\ NoteRow("note").updatedAt = 0 /\ Shown(NoteRow("note")) = {1}
 <2>1. NoteRow("note").history = <<>> /\ NoteRow("note").body.shows = {1} BY <1>2 DEF NoTierRow, Blank
 <2>2. 1..Len(NoteRow("note").history) = {} BY <2>1, EmptySeq
 <2>3. NoteRow("note").state = "live" /\ NoteRow("note").updatedAt = 0 BY <1>2 DEF NoTierRow
 <2> QED BY <2>1, <2>2, <2>3 DEF Shown
<1>5. /\ 1 \in FileIds /\ files[1] = [NoFile EXCEPT !.state = "live", !.note = First, !.tier = "note"]
      /\ \A f \in FileIds : f # 1 => files[f] = NoFile
      /\ objects = {1} /\ saves = 0 /\ removed = {}
 <2>1. 1 \in FileIds BY PromotionAssumption DEF FileIds
 <2>2. files = [f \in FileIds |-> IF f = 1
      THEN [NoFile EXCEPT !.state = "live", !.note = First, !.tier = "note"] ELSE NoFile] BY DEF PromotionInit
 <2>3. objects = {1} /\ saves = 0 /\ removed = {} BY DEF PromotionInit
 <2> QED BY <2>1, <2>2, <2>3
<1>6. files[1].state = "live" /\ files[1].note = First /\ files[1].tier = "note" /\ ~files[1].purged /\ files[1].key = "plain"
  BY <1>5 DEF NoFile
<1>7. NoFile.state = "none" /\ NoFile.note = "nowhere" /\ NoFile.tier = "nowhere" /\ [NoFile EXCEPT !.state = "none"] = NoFile
  BY DEF NoFile
<1>8. First \notin {"nowhere", "plain", "vault"} BY <1>0, AloneTypes
<1>9. OneRow BY <1>2, <1>3, <1>4 DEF OneRow, NoSuchNote, NoteRow
<1>10. NothingAbove BY <1>2, <1>3, <1>5, <1>6, <1>7, <1>8 DEF NothingAbove, Higher, Linked
<1>11. FilesOrdered BY <1>5, <1>6, <1>7, <1>8 DEF FilesOrdered, LiveFile, Unlinked
<1>12. FilesKept
 <2> SUFFICES ASSUME NEW t \in Tiers, NEW f \in FileIds, Lasts(t), Linked(f, First, t) PROVE
       LiveFile(f) /\ f \in objects /\ ~files[f].purged /\ KeyFits(f, t) BY DEF FilesKept
 <2>1. files[f].note = First BY DEF Linked
 <2>2. f = 1 BY <2>1, <1>5, <1>7, <1>8
 <2> QED BY <2>2, <1>5, <1>6, <1>8 DEF LiveFile, KeyFits
<1>13. ShownAreHere BY <1>2, <1>3, <1>4, <1>6 DEF ShownAreHere, Linked
<1>14. ShownAreSecret BY <1>2, <1>3 DEF ShownAreSecret
<1>15. RowsAreOld BY <1>2, <1>3, <1>4, <1>5 DEF RowsAreOld
<1>16. \A b \in Tabs : Task(b).phase = "idle" /\ Uploaded(b) = {} BY DEF PromotionInit, Task, NoTask, Uploaded
<1>17. Tasks BY <1>16 DEF Tasks, CopiesApart, CopiesOf, TasksApart, TasksSeeTheRow, SeesTheRow, Walking
<1> QED BY <1>0, <1>9, <1>10, <1>11, <1>12, <1>13, <1>14, <1>15, <1>17 DEF PromotionInv, Store

\* It is enough for the files to open and for the secrets to be encrypted.
LEMMA InvOpens == ASSUME Alone, PromotionInv PROVE ShownFilesOpen /\ SecretsAreEncrypted
<1>0. /\ \A f \in FileIds : files[f].key \in {"plain", "vault", First}
      /\ First \notin {"nowhere", "plain", "vault"} /\ \A t \in Tiers : Shown(NoteRow(t)) \subseteq FileIds
  BY AloneTypes DEF PromotionInv
<1>1. \A t \in Tiers : NoteRow(t).body.shows \subseteq Shown(NoteRow(t)) BY DEF Shown
<1>2. ShownFilesOpen
 <2> SUFFICES ASSUME NEW t \in Tiers, NoteRow(t).state = "live", NEW f \in NoteRow(t).body.shows, Linked(f, First, t), f \notin removed
              PROVE Opens(f, First, t) BY DEF ShownFilesOpen, Alone, NoteRow
 <2>1. Lasts(t) /\ f \in FileIds BY <1>0, <1>1 DEF Lasts
 <2>2. LiveFile(f) /\ f \in objects /\ KeyFits(f, t) BY <2>1 DEF PromotionInv, Store, FilesKept
 <2> QED BY <2>1, <2>2, <1>0 DEF Opens, KeyFits, Alone, NoteRow
<1>3. SecretsAreEncrypted
 <2> SUFFICES ASSUME NEW t \in {"secret", "seal"}, NEW f \in NoteRow(t).body.shows, f \notin removed, LiveFile(f) PROVE files[f].key # "plain"
   BY DEF SecretsAreEncrypted, Alone, NoteRow
 <2>1. t \in Tiers /\ t # "note" /\ f \in Shown(NoteRow(t)) BY <1>1 DEF Tiers
 <2> QED BY <2>1 DEF PromotionInv, Store, ShownAreSecret, Past, LiveFile
<1> QED BY <1>2, <1>3

-----------------------------------------------------------------------------
(* Promotion: what a commit carries *)

\* A body points at the copies one for one: two attachments stay two.
LEMMA PointedCounts == ASSUME NEW b, NEW body \in Bodies,
    \A p, q \in Task(b).done : p[1] = q[1] <=> p[2] = q[2],
    \A f \in body.shows : f \notin Uploaded(b) PROVE
    Pointed(b, body).edit = body.edit /\ Cardinality(Pointed(b, body).shows) = Cardinality(body.shows)
<1> DEFINE done == Task(b).done
           S == body.shows
           T == {f \in S : f \notin {p[1] : p \in done}} \cup {p[2] : p \in {q \in done : q[1] \in S}}
<1>1. Pointed(b, body).edit = body.edit /\ Pointed(b, body).shows = T BY DEF Pointed, Bodies
<1>2. IsFiniteSet(S)
 <2>1. S \in SUBSET (1..MaxFiles) BY DEF Bodies, FileIds
 <2>2. IsFiniteSet(1..MaxFiles) BY PromotionAssumption, FS_Interval
 <2> HIDE DEF S
 <2> QED BY <2>1, <2>2, FS_Subset
<1>3. \A f \in S : \A p \in done : f # p[2] BY DEF Uploaded
<1> DEFINE F == [f \in S |-> IF \E p \in done : p[1] = f THEN (CHOOSE p \in done : p[1] = f)[2] ELSE f]
<1>4. \A f \in S : \A p \in done : p[1] = f => F[f] = p[2]
 <2> SUFFICES ASSUME NEW f \in S, NEW p \in done, p[1] = f PROVE F[f] = p[2] OBVIOUS
 <2> DEFINE q == CHOOSE r \in done : r[1] = f
 <2>1. q \in done /\ q[1] = f OBVIOUS
 <2>2. F[f] = q[2] OBVIOUS
 <2> QED BY <2>1, <2>2
<1>5. \A f \in S : (\A p \in done : p[1] # f) => F[f] = f OBVIOUS
<1> HIDE DEF F
<1>6. \A f \in S : F[f] \in T
 <2> SUFFICES ASSUME NEW f \in S PROVE F[f] \in T OBVIOUS
 <2>1. CASE \E p \in done : p[1] = f BY <2>1, <1>4
 <2>2. CASE ~\E p \in done : p[1] = f BY <2>2, <1>5
 <2> QED BY <2>1, <2>2
<1>7. \A f, g \in S : F[f] = F[g] => f = g
 <2> SUFFICES ASSUME NEW f \in S, NEW g \in S, F[f] = F[g] PROVE f = g OBVIOUS
 <2>1. (\E p \in done : p[1] = f) \/ F[f] = f BY <1>5
 <2>2. (\E p \in done : p[1] = g) \/ F[g] = g BY <1>5
 <2> QED BY <2>1, <2>2, <1>3, <1>4
<1>8. \A x \in T : \E f \in S : F[f] = x
 <2> SUFFICES ASSUME NEW x \in T PROVE \E f \in S : F[f] = x OBVIOUS
 <2>1. CASE x \in S /\ \A p \in done : p[1] # x BY <2>1, <1>5
 <2>2. CASE \E p \in done : p[1] \in S /\ p[2] = x BY <2>2, <1>4
 <2> QED BY <2>1, <2>2
<1>9. F \in [S -> T] BY <1>6 DEF F
<1> HIDE DEF S, T
<1>10. ExistsBijection(S, T)
  BY <1>7, <1>8, <1>9 DEF Bijection, Injection, Surjection, IsInjective, ExistsBijection
<1>11. Cardinality(T) = Cardinality(S) BY <1>2, <1>10, FS_Bijection
<1> QED BY <1>1, <1>11 DEF S

\* The commit carries the note as it stands.
LEMMA CommitCarries == ASSUME PromotionInv, Alone, NEW b \in Tabs, NEW keyed \in BOOLEAN, CommitPromotion(b, keyed),
    NEW t \in {"note", "secret"}, Task(b).tier = t, NEW u, u = Above(t) PROVE CarriesEverything(First, t)
<1> DEFINE from == NoteRow(t)
           to == NoteRow(u)'
<1>0. /\ PromotionTypeOK /\ Store /\ Tasks /\ Task(b).note = First /\ from \in GoodRow
      /\ First \notin {"nowhere", "plain", "vault"} /\ Uploaded(b) \subseteq FileIds /\ Shown(from) \subseteq FileIds
      /\ t \in Tiers /\ u \in Tiers BY AloneTypes, TierWords, TabTypes DEF PromotionInv
<1>1. Task(b).phase = "ready" /\ MayCommit(b) /\ FreshUploads(b) /\ files' = Moved(b) BY DEF CommitPromotion, MayCommit
<1>2. to = Promoted(b, keyed) BY <1>0, CommitRows
<1>3. /\ from.body = Task(b).body /\ from.history = Task(b).history
      /\ to.body = Pointed(b, from.body) /\ to.state = from.state
      /\ to.history = [i \in 1..Len(Task(b).history) |-> Pointed(b, Task(b).history[i])]
  BY <1>0, <1>1, PromotedShows, <1>2
<1>4. /\ from.body \in Bodies /\ from.history \in Seq(Bodies) /\ Len(from.history) \in Nat
      /\ \A i \in 1..Len(from.history) : from.history[i] \in Bodies BY <1>0, LenProperties DEF GoodRow, TierRow
<1>5. from.body.shows \subseteq Shown(from) BY DEF Shown
<1>6. \A f \in Uploaded(b) : f \notin Shown(from)
 <2> SUFFICES ASSUME NEW f \in Uploaded(b), f \in Shown(from) PROVE FALSE OBVIOUS
 <2>1. LiveFile(f) /\ Unlinked(f) /\ f \in FileIds BY <1>0, <1>1 DEF FreshUploads
 <2>2. files[f].copy BY <1>0, <2>1 DEF Tasks, CopiesApart, CopiesOf, LiveFile
 <2>3. ~Past(f) BY <1>0, <2>1 DEF Past, LiveFile, Store, FilesOrdered
 <2> QED BY <1>0, <2>1, <2>2, <2>3 DEF Store, ShownAreHere, Linked, Unlinked
<1>7. \A p, q \in Task(b).done : p[1] = q[1] <=> p[2] = q[2] BY <1>0, <1>1 DEF Tasks, CopiesApart, CopiesOf, Walking
<1>8. to.body.edit = from.body.edit /\ Cardinality(to.body.shows) = Cardinality(from.body.shows)
  BY <1>5, <1>6, <1>3, <1>4, <1>7, PointedCounts
<1>9. Edits(to.history) = Edits(from.history)
 <2>1. to.history = [i \in 1..Len(from.history) |-> Pointed(b, from.history[i])] BY <1>3
 <2>2. Len(to.history) = Len(from.history) BY <2>1, <1>4
 <2>3. \A i \in 1..Len(from.history) : to.history[i].edit = from.history[i].edit BY <2>1, <1>4 DEF Pointed, Bodies
 <2> HIDE DEF from, to
 <2>4. /\ Edits(to.history) = [i \in 1..Len(to.history) |-> to.history[i].edit]
       /\ Edits(from.history) = [i \in 1..Len(from.history) |-> from.history[i].edit] BY DEF Edits
 <2> QED BY <2>2, <2>3, <2>4
<1>10. SourceFiles(b) = {p[1] : p \in Task(b).done} BY <1>1 DEF MayCommit, SameFiles
<1>11. to.body.shows = {f \in from.body.shows : f \notin {p[1] : p \in Task(b).done}}
                           \cup {p[2] : p \in {q \in Task(b).done : q[1] \in from.body.shows}} BY <1>3, <1>4 DEF Pointed, Bodies
<1>12. \A f \in FileIds :
    /\ f \in Uploaded(b) => files'[f].state = "live" /\ files'[f].note = First /\ files'[f].tier = u
    /\ f \notin Uploaded(b) /\ f \notin SourceFiles(b) /\ f \in FilesHere(First, t) =>
         files'[f].state = files[f].state /\ files'[f].note = First /\ files'[f].tier = u BY <1>0, <1>1, MovedFiles
<1>13. ASSUME NEW f \in from.body.shows \cap FilesHere(First, t) PROVE
    \E g \in to.body.shows :
             /\ files'[g].state = "live" /\ files'[g].note = First /\ files'[g].tier = u
             /\ f = g \/ g \notin from.body.shows
 <2>1. CASE f \in SourceFiles(b)
  <3>1. PICK p \in Task(b).done : p[1] = f BY <2>1, <1>10
  <3>2. p[2] \in to.body.shows /\ p[2] \in Uploaded(b) BY <3>1, <1>11 DEF Uploaded
  <3>3. p[2] \in FileIds /\ p[2] \notin from.body.shows BY <3>2, <1>0, <1>5, <1>6
  <3> QED BY <3>2, <3>3, <1>12
 <2>2. CASE f \notin SourceFiles(b)
   BY <2>2, <1>10, <1>11, <1>5, <1>6, <1>12 DEF FilesHere, LiveFile
 <2> QED BY <2>1, <2>2
<1> QED BY <1>3, <1>8, <1>9, <1>13 DEF CarriesEverything, NoteRow

\* A row leaves its tier for the next by a commit and by nothing else.
LEMMA OnlyCommitsMove == ASSUME PromotionInv, Alone, [PromotionNext]_promotionVars, NEW t \in {"note", "secret"},
    NoteRow(t).state \in {"live", "expired", "over"}, NoteRow(t)'.state = "none" PROVE
    \E b \in Tabs, keyed \in BOOLEAN : CommitPromotion(b, keyed) /\ Task(b).tier = t
<1>0. PromotionTypeOK /\ Store /\ Tasks /\ t \in Tiers BY TierWords DEF PromotionInv
<1>1. tierRows' # tierRows BY DEF NoteRow
<1>2. ~\E v \in Tiers : \E S : EditStep(v, S) BY <1>0 DEF EditStep
<1>3. ~\E S, state : RestStep(S, state) BY <1>0 DEF RestStep
<1>4. ASSUME NEW v \in Tiers, RowStep(First, v) PROVE FALSE
 <2>1. ~\E m \in Notes : Duplicate(First, v, m)
   BY DEF Alone, Duplicate
 <2>2. ~(SaveNote(First, v) \/ RestoreVersion(First, v) \/ DropVersion(First, v)) BY <1>0, <1>2, SaveEdits, RestoreEdits, DropEdits
 <2>3. ~(Arm(First, v) \/ ExpireNote(First, v) \/ CancelTimer(First, v)) BY <1>0, <1>2, SmallEdits
 <2>4. ~(Trash(First, v) \/ UndoTrash(First, v) \/ ReapRow(First, v)) BY <1>0, <1>3, RowRests
 <2>5. ~AttachFiles(First, v) /\ ~RemoveFile(First, v) BY <1>1 DEF AttachFiles, RemoveFile
 <2> QED BY <1>4, <2>1, <2>2, <2>3, <2>4, <2>5 DEF RowStep
<1>5. ~(\E n \in Notes, v \in Tiers : RowStep(n, v)) BY <1>4 DEF Alone
<1>6. ~Hour BY <1>0, <1>3, HourRests
<1>7. ~SweepOrphans /\ ~(\E f \in FileIds : Purge(f) \/ PurgeLost(f) \/ ReapFile(f)) /\ ~UNCHANGED promotionVars
  BY <1>1 DEF SweepOrphans, Purge, PurgeLost, ReapFile, promotionVars
<1>8. PICK b \in Tabs : PromotionStep(b) BY <1>5, <1>6, <1>7 DEF PromotionNext
<1>9. NoteToSecret(b) \/ SecretToSeal(b)
  BY <1>1, <1>8 DEF PromotionStep, PrepareNote, PrepareSecret, Download, Upload, Encrypted, CommitFails, CleanUp, GiveUp, CloseTab, ServerStays
<1>10. PICK keyed \in BOOLEAN : CommitPromotion(b, keyed)
  BY <1>9 DEF NeedsKey, NoteToSecret, SecretToSeal
<1>11. Task(b).tier \in {"note", "secret"} /\ Task(b).note = First BY <1>0, <1>9, AloneTypes DEF NoteToSecret, SecretToSeal
<1>12. NoteRow(Task(b).tier).state \in {"live", "expired", "over"}
  BY <1>10, <1>11 DEF CommitPromotion, MayCommit, Present, NoteRow
<1>13. Task(b).tier = t BY <1>0, <1>11, <1>12 DEF Store, OneRow, Tiers
<1> QED BY <1>10, <1>13

\* Of one note, whatever its tabs, files, saves and versions are, the attachments stay
\* readable, its content stays secret once it was made so, and a promotion takes all of it.
THEOREM PromotionLosesNothingAlone == ASSUME Notes = {First}, ~Restored PROVE PromotionSpec => PromotionLosesNothing
<1>0. Alone BY DEF Alone
<1>1. PromotionInit => PromotionInv BY <1>0, PromotionInitInv
<1>2. PromotionInv /\ [PromotionNext]_promotionVars => PromotionInv' BY <1>0, PromotionInvStep
<1>3. PromotionInv => ShownFilesOpen /\ SecretsAreEncrypted BY <1>0, InvOpens
<1>4. PromotionInv /\ [PromotionNext]_promotionVars =>
        [\A n \in Notes, t \in {"note", "secret"} :
           tierRows[n][t].state \in {"live", "expired", "over"} /\ tierRows'[n][t].state = "none" => CarriesEverything(n, t)]_promotionVars
 <2> SUFFICES ASSUME PromotionInv, [PromotionNext]_promotionVars, NEW t \in {"note", "secret"},
                     NoteRow(t).state \in {"live", "expired", "over"}, NoteRow(t)'.state = "none"
              PROVE CarriesEverything(First, t) BY <1>0 DEF Alone, NoteRow
 <2>1. PICK b \in Tabs, keyed \in BOOLEAN : CommitPromotion(b, keyed) /\ Task(b).tier = t BY <1>0, OnlyCommitsMove
 <2>2. PICK u : u = Above(t) OBVIOUS
 <2> QED BY <1>0, <2>1, <2>2, CommitCarries
<1> QED BY <1>1, <1>2, <1>3, <1>4, PTL DEF PromotionSpec, PromotionLosesNothing, PromotionsCarryEverything

-----------------------------------------------------------------------------
-----------------------------------------------------------------------------
(* The lists of a page *)

AnyRow == CardRow \cup {NoCardRow}

\* What a click makes of the row of its note, and what taking it back does.
Clicked(r, v, w) ==
    CASE w.kind = "color" -> IF r # NoCardRow THEN [r EXCEPT !.color = w.value] ELSE r
      [] w.kind = "move" -> IF r # NoCardRow THEN [r EXCEPT !.position = w.value] ELSE r
      [] w.kind = "archive" -> IF Belongs(v, w.row) THEN w.row ELSE NoCardRow
      [] w.kind = "delete" -> NoCardRow
      [] w.kind \in {"restore", "create"} -> IF Belongs(v, w.row) THEN w.row ELSE r
Before(w, v) == w.before[v].rows[w.note]
Unclicked(r, w, v) ==
    IF ~w.before[v].loaded \/ (w.kind = "create" /\ ~r.temp) THEN r
    ELSE IF Before(w, v) = NoCardRow THEN NoCardRow
    ELSE IF r = NoCardRow THEN IF w.kind = "color" THEN r ELSE Before(w, v)
    ELSE CASE w.kind = "color" -> IF r.color = w.value THEN [r EXCEPT !.color = Before(w, v).color] ELSE r
           [] w.kind = "archive" -> IF r.archived = w.row.archived THEN [r EXCEPT !.archived = Before(w, v).archived] ELSE r
           [] w.kind \in {"move", "delete", "restore", "create"} -> Before(w, v)

\* Rows chosen by the first k clicks.
Dyed(rows, k) == \A n \in Cards : rows[n].color <= k

\* The fields have their types; a list that was never fetched is empty.
ListsShape ==
    /\ server \in [Cards -> HeadRow] /\ lists \in [Views -> List] /\ fetches \in [Views -> Fetch]
    /\ shown \in Views /\ trash \in Rows /\ last \in [Cards -> Values] /\ views \in 0 .. MaxViews
    /\ writes \in Seq(ListWrite) /\ Len(writes) <= MaxWrites
    /\ \A v \in Views : ~lists[v].loaded => lists[v].rows = Empty

\* Values are the numbers of clicks, and no row has that of a click to come.
Numbered ==
    /\ \A n \in Cards : server[n].row.color <= Len(writes)
    /\ Dyed(trash, Len(writes))
    /\ \A v \in Views :
         /\ Dyed(lists[v].rows, Len(writes)) /\ Dyed(fetches[v].rows, Len(writes))
         /\ \A i \in 1 .. Len(writes) : writes[i].value = i /\ Dyed(writes[i].before[v].rows, i - 1)

\* A write that was sent is behind the earlier ones of its note, and the last one
\* the server took has been sent.
InOrder ==
    /\ \A j \in 1 .. Len(writes) : writes[j].stage # "queued" =>
         \A i \in 1 .. j - 1 : writes[i].note = writes[j].note => writes[i].stage \notin {"queued", "sent"}
    /\ \A n \in Cards : last[n] # 0 =>
         last[n] <= Len(writes) /\ writes[last[n]].note = n /\ writes[last[n]].stage \notin {"queued", "sent"}

\* A write that is alone shares its note with none under way; its lists show it.
ByItself(i) == \A j \in Open \ {i} : writes[j].note # writes[i].note
Showing ==
    /\ \A v \in Views : fetches[v].stage # "none" /\ fetches[v].cause = "settle" => Open = {}
    /\ \A i \in Open : writes[i].alone =>
         /\ ByItself(i)
         /\ \A v \in Views : writes[i].before[v].loaded =>
              lists[v].rows[writes[i].note] = Clicked(lists[v].rows[writes[i].note], v, writes[i])

\* Both lists were fetched before anything was clicked, and once nothing is under
\* way what is fetched, or is not to be, is what the server has.
Mirrors ==
    ~OpensLate =>
      /\ \A v \in Views : lists[v].there /\ lists[v].loaded
      /\ \A i \in Open, v \in Views : writes[i].before[v].there /\ writes[i].before[v].loaded
      /\ Open = {} => \A v \in Views :
           /\ fetches[v].stage = "served" => fetches[v].rows = ListAnswer(v)
           /\ ~lists[v].stale => lists[v].rows = ListAnswer(v)

ListsInv == ListsShape /\ Numbered /\ InOrder /\ Showing /\ Mirrors

-----------------------------------------------------------------------------
\* The rows and lists that stand for nothing are of their types.
LEMMA BlankRows ==
  /\ NoCardRow.color = 0 /\ NoCardRow.temp /\ ~NoCardRow.archived
  /\ NewRow \in CardRow /\ NewRow.color = 0 /\ ~NewRow.archived /\ ~NewRow.temp
  /\ Empty \in Rows /\ NoList \in List /\ NoLists \in [Views -> List] /\ NoFetch \in Fetch
  /\ \A v \in Views : NoLists[v].rows = Empty /\ ~NoLists[v].loaded /\ ~NoLists[v].there
  /\ \A k \in Nat : Dyed(Empty, k)
<1>1. MaxWrites \in Nat /\ 0 \in Values BY ListsAssumption DEF Values
<1>2. NoCardRow.color = 0 /\ NoCardRow.temp /\ ~NoCardRow.archived BY DEF NoCardRow
<1>3. NewRow \in CardRow /\ NewRow.color = 0 /\ ~NewRow.archived /\ ~NewRow.temp BY <1>1 DEF NewRow, CardRow
<1>4. Empty \in Rows BY DEF Empty, Rows
<1>5. NoList \in List BY <1>4 DEF NoList, List
<1>6. NoFetch \in Fetch BY <1>4 DEF NoFetch, Fetch
<1>7. NoLists \in [Views -> List] BY <1>5 DEF NoLists
<1>8. \A v \in Views : NoLists[v].rows = Empty /\ ~NoLists[v].loaded /\ ~NoLists[v].there BY DEF NoLists, NoList
<1>10. \A k \in Nat : Dyed(Empty, k) BY <1>2 DEF Dyed, Empty
<1> QED BY <1>2, <1>3, <1>4, <1>5, <1>6, <1>7, <1>8, <1>10

\* Taking a write back changes the row of its note.
LEMMA OneRowTakenBack ==
  ASSUME NEW rows \in Rows, NEW w \in ListWrite, NEW v \in Views
  PROVE  /\ TakenBack(rows, w, v) = [rows EXCEPT ![w.note] = Unclicked(rows[w.note], w, v)]
         /\ TakenBack(rows, w, v) \in Rows
         /\ Unclicked(rows[w.note], w, v) \in AnyRow
         /\ Unclicked(rows[w.note], w, v).color \in {0, rows[w.note].color, Before(w, v).color}
<1> DEFINE n == w.note
           r == rows[n]
           b == Before(w, v)
<1>1. n \in Cards /\ r \in AnyRow /\ b \in AnyRow /\ rows \in [Cards -> AnyRow] BY DEF ListWrite, List, Rows, AnyRow, Before
<1>2. w.kind \in {"color", "move", "archive", "delete", "restore", "create"} /\ w.value \in Values BY DEF ListWrite
<1>3. [rows EXCEPT ![n] = r] = rows BY <1>1
<1>4. TakenBack(rows, w, v) = [rows EXCEPT ![n] = Unclicked(r, w, v)] BY <1>1, <1>2, <1>3 DEF TakenBack, Unclicked, Before
<1>5. Unclicked(r, w, v) \in AnyRow BY <1>1, <1>2 DEF Unclicked, AnyRow, CardRow
<1>6. Unclicked(r, w, v).color \in {0, r.color, b.color} BY <1>1, <1>2, BlankRows DEF Unclicked, AnyRow, CardRow
<1> QED BY <1>1, <1>4, <1>5, <1>6 DEF Rows, AnyRow

\* So does a click, which says the same twice.
LEMMA OneRowClicked ==
  ASSUME lists \in [Views -> List], NEW w \in ListWrite, NEW v \in Views
  PROVE  /\ Changed(v, w) = [lists[v].rows EXCEPT ![w.note] = Clicked(lists[v].rows[w.note], v, w)]
         /\ Changed(v, w) \in Rows
<1> DEFINE n == w.note
           rows == lists[v].rows
           r == rows[n]
<1>1. n \in Cards /\ r \in AnyRow /\ rows \in [Cards -> AnyRow] /\ w.row \in AnyRow BY DEF ListWrite, List, Rows, AnyRow
<1>2. w.kind \in {"color", "move", "archive", "delete", "restore", "create"} /\ w.value \in Values BY DEF ListWrite
<1>3. [rows EXCEPT ![n] = r] = rows BY <1>1
<1>4. Changed(v, w) = [rows EXCEPT ![n] = Clicked(r, v, w)] BY <1>1, <1>2, <1>3 DEF Changed, Clicked, In, Toggled, Rehomed
<1>5. Clicked(r, v, w) \in AnyRow BY <1>1, <1>2 DEF Clicked, AnyRow, CardRow
<1> QED BY <1>1, <1>4, <1>5 DEF Rows, AnyRow

\* What a click makes of a row.
LEMMA ClickedTwice ==
  ASSUME NEW r \in AnyRow, NEW w \in ListWrite, NEW v \in Views
  PROVE  /\ Clicked(Clicked(r, v, w), v, w) = Clicked(r, v, w) /\ Clicked(r, v, w) \in AnyRow
         /\ Clicked(r, v, w).color \in {0, r.color, w.value, w.row.color}
<1>1. w.kind \in {"color", "move", "archive", "delete", "restore", "create"} /\ w.value \in Values /\ w.row \in AnyRow
  BY DEF ListWrite, AnyRow
<1>2. Clicked(Clicked(r, v, w), v, w) = Clicked(r, v, w) BY <1>1 DEF Clicked, AnyRow, CardRow
<1>3. Clicked(r, v, w) \in AnyRow BY <1>1 DEF Clicked, AnyRow, CardRow
<1>4. Clicked(r, v, w).color \in {0, r.color, w.value, w.row.color} BY <1>1, BlankRows DEF Clicked, AnyRow, CardRow
<1> QED BY <1>2, <1>3, <1>4

\* One write of the sequence changed.
LEMMA OneWrite ==
  ASSUME writes \in Seq(ListWrite), NEW i \in 1 .. Len(writes), NEW w \in ListWrite, writes' = [writes EXCEPT ![i] = w]
  PROVE  /\ writes' \in Seq(ListWrite) /\ Len(writes') = Len(writes) /\ Len(writes) \in Nat
         /\ writes'[i] = w /\ \A j \in 1 .. Len(writes) : writes[j] \in ListWrite /\ (j # i => writes'[j] = writes[j])
OBVIOUS

\* A click under way stays that, but for its stage.
SameWrite(w, x) ==
    /\ w.kind = x.kind /\ w.note = x.note /\ w.value = x.value /\ w.before = x.before /\ w.row = x.row /\ w.alone = x.alone

\* So it does to a row what it did.
LEMMA ClickedAlike ==
  ASSUME NEW w, NEW x \in ListWrite, SameWrite(w, x), NEW r, NEW v
  PROVE  Clicked(r, v, w) = Clicked(r, v, x)
<1>1. x.kind \in {"color", "move", "archive", "delete", "restore", "create"} BY DEF ListWrite
<1>2. w.kind = x.kind /\ w.value = x.value /\ w.row = x.row BY DEF SameWrite
<1> QED BY <1>1, <1>2 DEF Clicked

\* It is sent, in its turn, or what became of it is known.
Advances(i, w) ==
    \/ writes[i].stage = "queued" /\ w.stage = "sent" /\ MaySend(i) /\ UNCHANGED <<server, last>>
    \/ /\ writes[i].stage = "sent" /\ w.stage \in {"taken", "failed"}
       /\ \/ UNCHANGED <<server, last>>
          \/ /\ server' = [server EXCEPT ![writes[i].note] = Taken(@, writes[i])]
             /\ last' = [last EXCEPT ![writes[i].note] = i]

\* The server takes no other values than the click's.
LEMMA TakenShape ==
  ASSUME NEW head \in HeadRow, NEW w \in ListWrite
  PROVE  Taken(head, w) \in HeadRow /\ Taken(head, w).row.color \in {head.row.color, w.value}
<1>1. w.kind \in {"color", "move", "archive", "delete", "restore", "create"} /\ w.value \in Values /\ w.row.archived \in BOOLEAN
 <2>1. w.kind \in {"color", "move", "archive", "delete", "restore", "create"} /\ w.value \in Values /\ w.row \in CardRow \cup {NoCardRow}
   BY DEF ListWrite
 <2>2. NoCardRow.archived \in BOOLEAN /\ \A x \in CardRow : x.archived \in BOOLEAN BY DEF NoCardRow, CardRow
 <2> QED BY <2>1, <2>2
<1> QED BY <1>1 DEF Taken, HeadRow, CardRow

\* So the invariant stands while a write is on its way.
LEMMA AdvanceKeeps ==
  ASSUME ListsInv, NEW i \in 1 .. Len(writes), NEW w \in ListWrite, writes' = [writes EXCEPT ![i] = w],
         SameWrite(w, writes[i]), Advances(i, w), UNCHANGED <<lists, fetches, shown, trash, views>>
  PROVE  ListsInv' /\ \A n \in Cards : last'[n] >= last[n]
<1>1. /\ writes' \in Seq(ListWrite) /\ Len(writes') = Len(writes) /\ Len(writes) \in Nat /\ i \in Nat
      /\ writes'[i] = w /\ \A j \in 1 .. Len(writes) : writes[j] \in ListWrite /\ (j # i => writes'[j] = writes[j])
  BY OneWrite DEF ListsInv, ListsShape
<1>2. ListsShape BY DEF ListsInv
<1>3. Open' = Open /\ i \in Open BY <1>1 DEF Open, Advances
<1>4. writes[i].note \in Cards /\ writes[i].value = i /\ i <= MaxWrites /\ MaxWrites \in Nat
  BY <1>1, <1>2, ListsAssumption DEF ListWrite, ListsInv, Numbered, ListsShape
<1>5. server' \in [Cards -> HeadRow] /\ last' \in [Cards -> Values] /\ \A n \in Cards : server'[n].row.color <= Len(writes)
 <2>1. CASE UNCHANGED <<server, last>> BY <1>2, <2>1 DEF ListsShape, ListsInv, Numbered
 <2>2. CASE /\ server' = [server EXCEPT ![writes[i].note] = Taken(@, writes[i])]
            /\ last' = [last EXCEPT ![writes[i].note] = i]
  <3>1. Taken(server[writes[i].note], writes[i]) \in HeadRow
        /\ Taken(server[writes[i].note], writes[i]).row.color \in {server[writes[i].note].row.color, i}
    BY <1>1, <1>2, <1>4, TakenShape DEF ListsShape
  <3> QED BY <1>1, <1>2, <1>4, <2>2, <3>1 DEF ListsShape, ListsInv, Numbered, Values
 <2> QED BY <2>1, <2>2 DEF Advances
<1>6. ListsShape' BY <1>1, <1>2, <1>5 DEF ListsShape
<1>8. Numbered' BY <1>1, <1>5 DEF Numbered, ListsInv, SameWrite
<1>9. InOrder' /\ \A n \in Cards : last'[n] >= last[n]
 <2>1. \A j \in 1 .. i - 1 : writes[j].note = writes[i].note => writes[j].stage \notin {"queued", "sent"}
  <3>1. CASE writes[i].stage = "queued" BY <1>1, <3>1 DEF Advances, MaySend, WriteInTurn, Open
  <3>2. CASE writes[i].stage # "queued" BY <1>1, <3>2 DEF ListsInv, InOrder
  <3> QED BY <3>1, <3>2
 <2>2. \A j \in 1 .. Len(writes) : writes'[j].note = writes[j].note /\ (writes[j].stage # "queued" => writes'[j].stage # "queued")
       /\ (writes[j].stage \notin {"queued", "sent"} => writes'[j].stage = writes[j].stage) BY <1>1 DEF Advances, SameWrite
 <2>3. \A j \in 1 .. Len(writes) : writes'[j].stage # "queued" =>
         \A k \in 1 .. j - 1 : writes'[k].note = writes'[j].note => writes'[k].stage \notin {"queued", "sent"}
   BY <1>1, <2>1, <2>2 DEF ListsInv, InOrder
 <2>4. CASE UNCHANGED last
   BY <1>2, <1>4, <1>1, <2>2, <2>4, <2>3 DEF ListsShape, Values, ListsInv, InOrder
 <2>5. CASE last' = [last EXCEPT ![writes[i].note] = i] /\ writes[i].stage = "sent" /\ w.stage \in {"taken", "failed"}
  <3>1. last[writes[i].note] \in Nat /\ \A n \in Cards : last[n] \in Nat BY <1>2, <1>4 DEF ListsShape, Values
  <3>2. last[writes[i].note] <= i
   <4>1. SUFFICES ASSUME last[writes[i].note] > i PROVE FALSE BY <1>1, <3>1
   <4>2. PICK j \in 1 .. Len(writes) : j = last[writes[i].note] /\ writes[j].note = writes[i].note /\ writes[j].stage # "queued" /\ i < j
     BY <1>1, <1>4, <3>1, <4>1 DEF ListsInv, InOrder
   <4> QED BY <1>1, <2>5, <4>2 DEF ListsInv, InOrder
  <3>3. \A n \in Cards : last'[n] = IF n = writes[i].note THEN i ELSE last[n] BY <1>2, <1>4, <2>5 DEF ListsShape
  <3>4. \A n \in Cards : last'[n] # 0 =>
          last'[n] <= Len(writes) /\ writes'[last'[n]].note = n /\ writes'[last'[n]].stage \notin {"queued", "sent"}
    BY <1>1, <2>2, <2>5, <3>1, <3>3 DEF ListsInv, InOrder, SameWrite
  <3> QED BY <1>1, <2>3, <3>1, <3>2, <3>3, <3>4 DEF InOrder
 <2> QED BY <2>4, <2>5 DEF Advances
<1>10. Showing'
 <2>1. \A j \in Open : SameWrite(writes'[j], writes[j]) BY <1>1 DEF Open, SameWrite
 <2>2. \A j \in Open, v \in Views : Clicked(lists[v].rows[writes[j].note], v, writes'[j]) = Clicked(lists[v].rows[writes[j].note], v, writes[j])
  <3> TAKE j \in Open, v \in Views
  <3>1. SameWrite(writes'[j], writes[j]) /\ writes[j] \in ListWrite BY <1>1, <2>1 DEF Open
  <3> QED BY <3>1, ClickedAlike
 <2>3. \A j \in Open : ByItself(j) => ByItself(j)' BY <1>3, <2>1 DEF ByItself, SameWrite
 <2> QED BY <1>3, <2>1, <2>2, <2>3 DEF Showing, ListsInv, SameWrite
<1>11. Mirrors'
  BY <1>1, <1>3 DEF Open, SameWrite, Mirrors, ListsInv
<1> QED BY <1>6, <1>8, <1>9, <1>10, <1>11 DEF ListsInv

Kinds == {"color", "move", "archive", "delete", "restore", "create"}

\* A click is put behind the writes, which it leaves as they are, but not alone.
LEMMA ClickedWrites ==
  ASSUME ListsInv, NEW kind \in Kinds, NEW n \in Cards, NEW row \in AnyRow, Click(kind, n, row)
  PROVE  /\ Len(writes) \in Nat /\ Len(writes') = Len(writes) + 1 /\ Len(writes') <= MaxWrites /\ writes' \in Seq(ListWrite)
         /\ \A i \in 1 .. Len(writes) :
              /\ writes[i] \in ListWrite /\ writes'[i].stage = writes[i].stage
              /\ writes'[i] = IF writes[i].note = n THEN [writes[i] EXCEPT !.alone = FALSE] ELSE writes[i]
         /\ LET w == writes'[Len(writes')] IN
            /\ w \in ListWrite /\ w.kind = kind /\ w.note = n /\ w.value = Len(writes) + 1 /\ w.stage = "queued"
            /\ w.before = lists /\ w.row = row /\ (w.alone <=> \A i \in Open : writes[i].note # n)
            /\ lists' = [v \in Views |-> IF lists[v].loaded THEN [lists[v] EXCEPT !.rows = Changed(v, w)] ELSE lists[v]]
         /\ Open' = Open \cup {Len(writes) + 1}
<1> DEFINE free == \A i \in Open : writes[i].note # n
           w == [kind |-> kind, note |-> n, value |-> Len(writes) + 1, stage |-> "queued", before |-> lists, row |-> row,
                 reached |-> FALSE, alone |-> free]
           marked == [i \in 1 .. Len(writes) |-> IF writes[i].note = n THEN [writes[i] EXCEPT !.alone = FALSE] ELSE writes[i]]
<1>1. ListsShape /\ Len(writes) \in Nat /\ Len(writes) < MaxWrites /\ MaxWrites \in Nat
  BY ListsAssumption DEF ListsInv, ListsShape, Click
<1>2. free \in BOOLEAN OBVIOUS
<1>3. Len(writes) + 1 \in Values BY <1>1 DEF Values
<1>4. w \in ListWrite
 <2> HIDE DEF free
 <2> QED BY <1>1, <1>2, <1>3 DEF ListWrite, ListsShape, Kinds, AnyRow
<1>5. \A i \in 1 .. Len(writes) : writes[i] \in ListWrite BY <1>1 DEF ListsShape
<1>6. \A i \in 1 .. Len(writes) : [writes[i] EXCEPT !.alone = FALSE] \in ListWrite BY <1>5 DEF ListWrite
<1>7. marked \in Seq(ListWrite) /\ Len(marked) = Len(writes) BY <1>1, <1>5, <1>6
<1>8. writes' = Append(marked, w) /\ lists' = [v \in Views |-> IF lists[v].loaded THEN [lists[v] EXCEPT !.rows = Changed(v, w)] ELSE lists[v]]
  BY DEF Click
<1>9. /\ writes' \in Seq(ListWrite) /\ Len(writes') = Len(writes) + 1 /\ writes'[Len(writes) + 1] = w
      /\ \A i \in 1 .. Len(writes) : writes'[i] = marked[i]
 <2> HIDE DEF w, marked
 <2> QED BY <1>1, <1>4, <1>7, <1>8
<1>10. \A i \in 1 .. Len(writes) : marked[i].stage = writes[i].stage BY <1>5 DEF ListWrite
<1>11. w.stage = "queued" OBVIOUS
<1>12. Open' = Open \cup {Len(writes) + 1}
 <2> HIDE DEF w, marked
 <2> QED BY <1>1, <1>9, <1>10, <1>11 DEF Open
<1>13. /\ w.kind = kind /\ w.note = n /\ w.value = Len(writes) + 1 /\ w.before = lists /\ w.row = row /\ (w.alone <=> free) OBVIOUS
<1> QED
 <2>1. \A i \in 1 .. Len(writes) : marked[i] = IF writes[i].note = n THEN [writes[i] EXCEPT !.alone = FALSE] ELSE writes[i]
   OBVIOUS
 <2>2. free <=> \A i \in Open : writes[i].note # n OBVIOUS
 <2> HIDE DEF w, marked, free
 <2> QED BY <1>1, <1>4, <1>5, <1>8, <1>9, <1>10, <1>11, <1>12, <1>13, <2>1, <2>2

\* What the click makes of the lists.
LEMMA ClickedLists ==
  ASSUME ListsInv, NEW kind \in Kinds, NEW n \in Cards, NEW row \in AnyRow, Click(kind, n, row), NEW w, w = writes'[Len(writes')]
  PROVE  /\ lists' \in [Views -> List] /\ w \in ListWrite
         /\ \A v \in Views :
              /\ lists'[v].there = lists[v].there /\ lists'[v].loaded = lists[v].loaded /\ lists'[v].stale = lists[v].stale
              /\ ~lists[v].loaded => lists'[v] = lists[v]
              /\ lists[v].loaded => lists'[v].rows = [lists[v].rows EXCEPT ![n] = Clicked(lists[v].rows[n], v, w)]
<1>1. ListsShape BY DEF ListsInv
<1>2. w \in ListWrite /\ w.note = n
      /\ lists' = [v \in Views |-> IF lists[v].loaded THEN [lists[v] EXCEPT !.rows = Changed(v, w)] ELSE lists[v]]
  BY ClickedWrites
<1>3. \A v \in Views : Changed(v, w) = [lists[v].rows EXCEPT ![n] = Clicked(lists[v].rows[n], v, w)] /\ Changed(v, w) \in Rows
  BY <1>1, <1>2, OneRowClicked DEF ListsShape
<1>4. \A v \in Views : lists[v] \in List BY <1>1 DEF ListsShape
<1> QED BY <1>2, <1>3, <1>4 DEF List

\* A click keeps the invariant.
LEMMA ClickKeeps ==
  ASSUME ListsInv, NEW kind \in Kinds, NEW n \in Cards, NEW row \in AnyRow, row.color <= Len(writes), Click(kind, n, row),
         trash' \in Rows, Dyed(trash', Len(writes))
  PROVE  ListsInv'
<1> DEFINE k == Len(writes)
<1>1. PICK w : w = writes'[Len(writes')] OBVIOUS
<1>2. /\ k \in Nat /\ Len(writes') = k + 1 /\ Len(writes') <= MaxWrites /\ writes' \in Seq(ListWrite)
      /\ \A i \in 1 .. k : /\ writes[i] \in ListWrite /\ writes'[i].stage = writes[i].stage
                           /\ writes'[i] = IF writes[i].note = n THEN [writes[i] EXCEPT !.alone = FALSE] ELSE writes[i]
      /\ w \in ListWrite /\ w.kind = kind /\ w.note = n /\ w.value = k + 1 /\ w.stage = "queued"
      /\ w.before = lists /\ w.row = row /\ (w.alone <=> \A i \in Open : writes[i].note # n)
      /\ Open' = Open \cup {k + 1} /\ w = writes'[k + 1] BY <1>1, ClickedWrites
<1>3. /\ lists' \in [Views -> List]
      /\ \A v \in Views :
           /\ lists'[v].there = lists[v].there /\ lists'[v].loaded = lists[v].loaded /\ lists'[v].stale = lists[v].stale
           /\ ~lists[v].loaded => lists'[v] = lists[v]
           /\ lists[v].loaded => lists'[v].rows = [lists[v].rows EXCEPT ![n] = Clicked(lists[v].rows[n], v, w)]
  BY <1>1, ClickedLists
<1>4. ListsShape /\ Numbered /\ InOrder /\ Showing /\ Mirrors BY DEF ListsInv
<1>5. fetches' = [v \in Views |-> NoFetch] /\ UNCHANGED <<server, shown, last, views>> BY DEF Click
<1>6. \A i \in 1 .. k : /\ writes'[i].kind = writes[i].kind /\ writes'[i].note = writes[i].note /\ writes'[i].value = writes[i].value
                        /\ writes'[i].before = writes[i].before /\ writes'[i].row = writes[i].row
                        /\ (writes'[i].alone => writes[i].alone /\ writes[i].note # n)
                        /\ (writes[i].note # n => writes'[i] = writes[i])
 <2> TAKE i \in 1 .. k
 <2>1. writes[i] \in ListWrite /\ writes'[i] = IF writes[i].note = n THEN [writes[i] EXCEPT !.alone = FALSE] ELSE writes[i]
   BY <1>2
 <2>2. CASE writes[i].note = n BY <2>1, <2>2 DEF ListWrite
 <2>3. CASE writes[i].note # n BY <2>1, <2>3
 <2> QED BY <2>2, <2>3
<1>7. \A v \in Views : \A m \in Cards : lists[v].rows \in [Cards -> AnyRow] /\ lists[v].rows[m] \in AnyRow
  BY <1>4 DEF ListsShape, List, Rows, AnyRow
<1>8. \A v \in Views, m \in Cards : m # n => lists'[v].rows[m] = lists[v].rows[m] BY <1>3, <1>7
<1>9. \A v \in Views : lists[v].loaded => lists'[v].rows[n] = Clicked(lists[v].rows[n], v, w) BY <1>3, <1>7
<1>10. ListsShape'
 <2>1. fetches' \in [Views -> Fetch] BY <1>5, BlankRows
 <2>2. \A v \in Views : ~lists'[v].loaded => lists'[v].rows = Empty BY <1>3, <1>4 DEF ListsShape
 <2>3. UNCHANGED <<server, shown, last, views>> BY <1>5
 <2>4. Len(writes') <= MaxWrites /\ writes' \in Seq(ListWrite) BY <1>2
 <2>5. lists' \in [Views -> List] BY <1>3
 <2> QED BY <1>4, <2>1, <2>2, <2>3, <2>4, <2>5 DEF ListsShape
<1>11. Numbered'
 <2>1. \A v \in Views : Dyed(lists'[v].rows, k + 1)
  <3> SUFFICES ASSUME NEW v \in Views, NEW m \in Cards PROVE lists'[v].rows[m].color <= k + 1 BY DEF Dyed
  <3>0. lists[v].rows[m].color <= k /\ lists[v].rows[m].color \in Nat /\ row.color \in Nat /\ k \in Nat /\ Values \subseteq Nat
    BY ListsAssumption, BlankRows, <1>2, <1>4, <1>7 DEF AnyRow, CardRow, Values, Numbered, Dyed
  <3>1. CASE ~lists[v].loaded \/ m # n
   <4>1. lists'[v].rows[m] = lists[v].rows[m] BY <1>3, <1>8, <3>1
   <4> QED BY <3>0, <4>1
  <3>2. CASE lists[v].loaded /\ m = n
   <4>1. lists'[v].rows[m].color \in {0, lists[v].rows[m].color, k + 1, row.color} BY <1>2, <1>7, <1>9, <3>2, ClickedTwice
   <4>2. PICK c : c = lists'[v].rows[m].color OBVIOUS
   <4>3. c = 0 \/ c = lists[v].rows[m].color \/ c = k + 1 \/ c = row.color BY <4>1, <4>2
   <4>4. c <= k + 1
     BY <3>0, <4>3
   <4> QED BY <4>2, <4>4
  <3> QED BY <3>1, <3>2
 <2>2. \A v \in Views : Dyed(fetches'[v].rows, k + 1) BY <1>2, <1>5, BlankRows DEF NoFetch
 <2>3. \A r \in AnyRow : r.color \in Nat BY ListsAssumption, BlankRows DEF AnyRow, CardRow, Values
 <2>4. \A m \in Cards : server'[m].row.color <= k + 1 /\ trash'[m].color <= k + 1
   BY <1>4, <2>3, <1>2, <1>5 DEF ListsShape, HeadRow, Rows, AnyRow, Numbered, Dyed
 <2>5. \A v \in Views, i \in 1 .. k + 1 : writes'[i].value = i /\ Dyed(writes'[i].before[v].rows, i - 1)
  <3> TAKE v \in Views, i \in 1 .. k + 1
  <3>1. CASE i = k + 1 BY <1>2, <1>4, <3>1 DEF Numbered
  <3>2. CASE i # k + 1 BY <1>2, <1>4, <1>6, <3>2 DEF Numbered
  <3> QED BY <3>1, <3>2
 <2> QED BY <1>2, <2>1, <2>2, <2>4, <2>5 DEF Numbered, Dyed
<1>12. InOrder'
 <2>1. ASSUME NEW j \in 1 .. k + 1, NEW i \in 1 .. j - 1, writes'[j].stage # "queued", writes'[i].note = writes'[j].note
       PROVE writes'[i].stage \notin {"queued", "sent"}
  <3>1. j \in 1 .. k /\ i \in 1 .. k BY <1>2, <2>1
  <3>2. writes[j].stage # "queued" /\ writes[i].note = writes[j].note BY <1>2, <1>6, <2>1, <3>1
  <3>3. writes[i].stage \notin {"queued", "sent"} BY <1>4, <3>1, <3>2 DEF InOrder
  <3> QED BY <1>2, <3>1, <3>3
 <2>2. \A m \in Cards : last[m] \in Nat BY <1>4, ListsAssumption DEF ListsShape, Values
 <2>3. ASSUME NEW m \in Cards, last[m] # 0
       PROVE last[m] <= k + 1 /\ writes'[last[m]].note = m /\ writes'[last[m]].stage \notin {"queued", "sent"}
  <3>1. last[m] \in 1 .. k /\ writes[last[m]].note = m /\ writes[last[m]].stage \notin {"queued", "sent"}
    BY <1>2, <1>4, <2>2, <2>3 DEF InOrder
  <3>2. PICK i \in 1 .. k : i = last[m] BY <3>1
  <3>3. writes'[i].note = writes[i].note /\ writes'[i].stage = writes[i].stage BY <1>2, <1>6
  <3>4. i <= k + 1 BY <1>2
  <3> QED BY <3>1, <3>2, <3>3, <3>4
 <2> QED BY <1>2, <1>5, <2>1, <2>3 DEF InOrder
<1>13. Showing'
 <2>1. \A v \in Views : fetches'[v].stage = "none" BY <1>5 DEF NoFetch
 <2>2. ASSUME NEW i \in Open', writes'[i].alone
       PROVE /\ ByItself(i)'
             /\ \A v \in Views : writes'[i].before[v].loaded =>
                  lists'[v].rows[writes'[i].note] = Clicked(lists'[v].rows[writes'[i].note], v, writes'[i])
  <3>0. Open \subseteq 1 .. k BY DEF Open
  <3>1. CASE i = k + 1
   <4>1. \A j \in Open : writes'[j].note # n BY <1>2, <1>6, <2>2, <3>0, <3>1
   <4>2. ByItself(i)' BY <1>2, <3>1, <4>1 DEF ByItself
   <4> QED BY <1>2, <1>7, <1>9, <3>1, <4>2, ClickedTwice
  <3>2. CASE i # k + 1
   <4>1. i \in Open /\ writes'[i] = writes[i] /\ writes[i].alone /\ writes[i].note # n /\ writes[i].note \in Cards
     BY <1>2, <1>6, <2>2, <3>0, <3>2 DEF ListWrite
   <4>2. ByItself(i)' BY <1>2, <1>4, <1>6, <3>0, <4>1 DEF ByItself, Showing
   <4> QED BY <1>4, <1>8, <4>1, <4>2 DEF Showing
  <3> QED BY <3>1, <3>2
 <2> QED BY <2>1, <2>2 DEF Showing
<1>14. Mirrors' BY <1>2, <1>3, <1>4, <1>6 DEF Mirrors, Open
<1> QED BY <1>10, <1>11, <1>12, <1>13, <1>14 DEF ListsInv

\* Every click of the user is of a row that the lists, or the toast, have.
LEMMA UserKeeps == ASSUME ListsInv, NEW n \in Cards, UserStep(n) PROVE ListsInv'
<1>1. ListsShape /\ Numbered /\ Len(writes) \in Nat BY DEF ListsInv, ListsShape
<1>2. NoCardRow \in AnyRow /\ NoCardRow.color <= Len(writes) BY <1>1, BlankRows DEF AnyRow
<1>3. trash \in Rows /\ Dyed(trash, Len(writes)) BY <1>1 DEF ListsShape, Numbered
<1>4. \A v \in Views : lists[v].rows[n] \in AnyRow /\ lists[v].rows[n].color <= Len(writes)
  BY <1>1 DEF ListsShape, List, Rows, AnyRow, Numbered, Dyed
<1>5. shown \in Views BY <1>1 DEF ListsShape
<1>6. CASE Recolor(n) BY <1>2, <1>3, <1>6, ClickKeeps DEF Recolor, Kinds
<1>7. CASE Move(n) BY <1>2, <1>3, <1>7, ClickKeeps DEF Move, Kinds
<1>8. CASE Archive(n)
 <2>1. PICK v \in Views : Found(n) = lists[v].rows[n] /\ lists[v].rows[n] # NoCardRow
  <3> DEFINE W == {v \in Views : lists[v].loaded /\ In(lists[v].rows, n)}
  <3>1. shown \in W BY <1>1, <1>5, <1>8 DEF Archive, OnPage, ListsShape, Empty, In
  <3>2. (CHOOSE v \in W : TRUE) \in W BY <3>1
  <3> QED BY <3>1, <3>2 DEF Found, In
 <2>2. PICK r : r = [Found(n) EXCEPT !.archived = ~@] OBVIOUS
 <2>3. r \in CardRow /\ r.color = Found(n).color BY <1>4, <2>1, <2>2 DEF AnyRow, CardRow
 <2>4. r \in AnyRow /\ r.color <= Len(writes) BY <1>4, <2>1, <2>3 DEF AnyRow
 <2>5. Click("archive", n, r) /\ UNCHANGED trash BY <1>8, <2>2 DEF Archive
 <2> QED BY <1>3, <2>4, <2>5, ClickKeeps DEF Kinds
<1>9. CASE Delete(n)
  BY <1>9, <1>3, <1>4, <1>5, <1>2, ClickKeeps DEF Delete, Rows, AnyRow, Dyed, Kinds
<1>10. CASE UndoDeletion(n)
  BY <1>10, <1>2, <1>3, ClickKeeps DEF UndoDeletion, Rows, AnyRow, Dyed, Kinds
<1>11. CASE Create(n)
 <2>1. PICK r : r = [NewRow EXCEPT !.temp = TRUE] OBVIOUS
 <2>2. r \in CardRow /\ r.color = 0 BY <2>1, BlankRows DEF CardRow
 <2>4. r \in AnyRow /\ r.color <= Len(writes) BY <1>1, <2>2 DEF AnyRow
 <2>3. Click("create", n, r) /\ UNCHANGED trash BY <1>11, <2>1 DEF Create
 <2> QED BY <1>3, <2>3, <2>4, ClickKeeps DEF Kinds
<1> QED BY <1>6, <1>7, <1>8, <1>9, <1>10, <1>11 DEF UserStep

\* The order stands while no write goes back.
LEMMA OrderStays ==
  ASSUME ListsShape, InOrder, last' = last, Len(writes') = Len(writes),
         \A j \in 1 .. Len(writes) :
           /\ writes'[j].note = writes[j].note /\ (writes'[j].stage # "queued" => writes[j].stage # "queued")
           /\ writes'[j].stage \in {"queued", "sent"} => writes[j].stage \in {"queued", "sent"}
  PROVE  InOrder'
<1> DEFINE k == Len(writes)
<1>1. k \in Nat BY DEF ListsShape
<1>2. ASSUME NEW j \in 1 .. k, NEW h \in 1 .. j - 1, writes'[j].stage # "queued", writes'[h].note = writes'[j].note
      PROVE writes'[h].stage \notin {"queued", "sent"}
  BY <1>1, <1>2 DEF InOrder
<1>3. ASSUME NEW m \in Cards, last[m] # 0
      PROVE last[m] <= k /\ writes'[last[m]].note = m /\ writes'[last[m]].stage \notin {"queued", "sent"}
 <2>1. last[m] \in Nat BY ListsAssumption DEF ListsShape, Values
 <2>2. PICK j \in 1 .. k : j = last[m] BY <1>1, <1>3, <2>1 DEF InOrder
 <2>3. writes[j].note = m /\ writes[j].stage \notin {"queued", "sent"} /\ j <= k BY <1>1, <1>3, <2>2 DEF InOrder
 <2> QED BY <2>2, <2>3
<1> QED BY <1>2, <1>3 DEF InOrder

\* An answer changes the row of its note, to one of an earlier click at most.
LEMMA SettledLists ==
  ASSUME ListsInv, NEW i \in 1 .. Len(writes), Settle(i)
  PROVE  /\ lists' \in [Views -> List]
         /\ \A v \in Views :
              /\ lists'[v].there = lists[v].there /\ lists'[v].loaded = lists[v].loaded
              /\ ~lists[v].loaded => lists'[v].rows = lists[v].rows
              /\ lists'[v].stale = (lists[v].stale \/ (MayRefetch(i) /\ v \in Refetched(writes[i])))
              /\ \A m \in Cards : m # writes[i].note => lists'[v].rows[m] = lists[v].rows[m]
              /\ Dyed(lists'[v].rows, Len(writes))
<1> DEFINE w == writes[i]
           n == w.note
<1>1. ListsShape /\ Numbered /\ Len(writes) \in Nat /\ w \in ListWrite /\ n \in Cards
 <2>1. ListsShape /\ Numbered BY DEF ListsInv
 <2>2. writes \in Seq(ListWrite) BY <2>1 DEF ListsShape
 <2>3. w \in ListWrite /\ Len(writes) \in Nat BY <2>2
 <2> HIDE DEF w
 <2>4. n \in Cards BY <2>3 DEF ListWrite
 <2> QED BY <2>1, <2>3, <2>4
<1>2. \A v \in Views : lists[v] \in List /\ lists[v].rows \in Rows /\ lists[v].rows \in [Cards -> AnyRow]
  BY <1>1 DEF ListsShape, List, Rows, AnyRow
<1> HIDE DEF w
<1>3. ASSUME NEW v \in Views, NEW rows, rows = Adopted(lists[v].rows, w) \/ rows = RolledBack(lists[v].rows, w, v)
      PROVE rows \in Rows /\ Dyed(rows, Len(writes)) /\ \A m \in Cards : m # n => rows[m] = lists[v].rows[m]
 <2>1. Dyed(lists[v].rows, Len(writes)) BY <1>1 DEF Numbered
 <2>2. \A r \in AnyRow : r.color \in Nat BY ListsAssumption, BlankRows DEF AnyRow, CardRow, Values
 <2>3. CASE rows = Adopted(lists[v].rows, w)
   BY <2>3, <1>1, <1>2, <2>1, BlankRows DEF Adopted, Dyed, Rows
 <2>4. CASE rows = RolledBack(lists[v].rows, w, v)
  <3>1. PICK r \in AnyRow : /\ rows = [lists[v].rows EXCEPT ![n] = r] /\ rows \in Rows
                            /\ r.color \in {0, lists[v].rows[n].color, Before(w, v).color}
    BY <1>1, <1>2, <2>4, OneRowTakenBack DEF RolledBack
  <3>2. Before(w, v) \in AnyRow /\ Before(w, v).color <= i - 1
    BY <1>1 DEF Before, Numbered, Dyed, ListWrite, List, Rows, AnyRow, w
  <3>3. Before(w, v).color <= Len(writes)
    BY <2>2, <3>2, <1>1
  <3>4. r.color <= Len(writes) BY <1>1, <2>1, <3>1, <3>3 DEF Dyed
  <3> QED BY <1>1, <1>2, <2>1, <3>1, <3>4 DEF Dyed
 <2> QED BY <1>3, <2>3, <2>4
<1>4. \A v \in Views : Dyed(lists[v].rows, Len(writes)) BY <1>1 DEF Numbered
<1>5. PICK stale : stale = IF MayRefetch(i) THEN Refetched(w) ELSE {} OBVIOUS
<1>6. PICK ok : ok \in BOOLEAN /\ ok = (w.stage = "taken") OBVIOUS
<1>7. lists' = [v \in Views |->
             [lists[v] EXCEPT !.rows = IF ~lists[v].loaded THEN @ ELSE IF ok THEN Adopted(@, w) ELSE RolledBack(@, w, v),
                              !.stale = @ \/ v \in stale]] BY <1>5, <1>6 DEF Settle, w
<1>8. ASSUME NEW v \in Views
      PROVE /\ lists'[v] \in List
            /\ lists'[v].there = lists[v].there /\ lists'[v].loaded = lists[v].loaded
            /\ ~lists[v].loaded => lists'[v].rows = lists[v].rows
            /\ lists'[v].stale = (lists[v].stale \/ v \in stale)
            /\ \A m \in Cards : m # n => lists'[v].rows[m] = lists[v].rows[m]
            /\ Dyed(lists'[v].rows, Len(writes))
 <2>1. PICK rows : rows = IF ~lists[v].loaded THEN lists[v].rows ELSE IF ok THEN Adopted(lists[v].rows, w) ELSE RolledBack(lists[v].rows, w, v)
   OBVIOUS
 <2>2. rows \in Rows /\ Dyed(rows, Len(writes)) /\ \A m \in Cards : m # n => rows[m] = lists[v].rows[m]
   BY <1>2, <1>3, <1>4, <2>1
 <2>3. lists'[v] = [lists[v] EXCEPT !.rows = rows, !.stale = @ \/ v \in stale] BY <1>7, <2>1
 <2>4. lists[v] \in List BY <1>2
 <2> QED BY <2>1, <2>2, <2>3, <2>4 DEF List
<1>9. \A v \in Views : lists'[v].stale = (lists[v].stale \/ (MayRefetch(i) /\ v \in Refetched(w))) BY <1>5, <1>8
<1>10. lists' \in [Views -> List] BY <1>7, <1>8
<1> QED BY <1>8, <1>9, <1>10 DEF w

\* The answer of a write keeps the invariant.
LEMMA SettleKeeps == ASSUME ListsInv, NEW i \in 1 .. Len(writes), Settle(i) PROVE ListsInv'
<1> DEFINE k == Len(writes)
<1>1. ListsShape /\ Numbered /\ InOrder /\ Showing /\ Mirrors /\ k \in Nat /\ writes[i] \in ListWrite BY DEF ListsInv, ListsShape
<1>2. PICK w : w = [writes[i] EXCEPT !.stage = IF writes[i].stage = "taken" THEN "done" ELSE "undone", !.before = NoLists,
                                     !.row = NoCardRow, !.alone = FALSE] OBVIOUS
<1>3. w \in ListWrite /\ w.note = writes[i].note /\ w.value = writes[i].value /\ w.before = NoLists /\ w.stage \in {"done", "undone"}
  BY <1>1, <1>2, BlankRows DEF ListWrite
<1>4. writes' = [writes EXCEPT ![i] = w] /\ writes[i].stage \in {"taken", "failed"} /\ UNCHANGED <<server, shown, trash, last, views>>
  BY <1>2 DEF Settle
<1>5. /\ writes' \in Seq(ListWrite) /\ Len(writes') = k /\ writes'[i] = w
      /\ \A j \in 1 .. k : writes[j] \in ListWrite /\ (j # i => writes'[j] = writes[j])
  BY <1>1, <1>3, <1>4, OneWrite DEF ListsShape
<1>6. /\ lists' \in [Views -> List]
      /\ \A v \in Views :
           /\ lists'[v].there = lists[v].there /\ lists'[v].loaded = lists[v].loaded
           /\ ~lists[v].loaded => lists'[v].rows = lists[v].rows
           /\ lists'[v].stale = (lists[v].stale \/ (MayRefetch(i) /\ v \in Refetched(writes[i])))
           /\ \A m \in Cards : m # writes[i].note => lists'[v].rows[m] = lists[v].rows[m]
           /\ Dyed(lists'[v].rows, k) BY SettledLists
<1>7. Open' = Open \ {i} /\ i \in Open
  BY <1>4, <1>3, <1>5 DEF Open
<1>8. \A v \in Views :
        \/ v \in Refetched(writes[i]) /\ MayRefetch(i) /\ fetches'[v].stage \in {"none", "asked"} /\ fetches'[v] \in Fetch /\ fetches'[v].rows = Empty
        \/ ~(v \in Refetched(writes[i]) /\ MayRefetch(i)) /\ fetches'[v] = fetches[v] BY BlankRows DEF Settle, NoFetch, Fetch
<1>9. ListsShape'
 <2>1. fetches' \in [Views -> Fetch]
   BY <1>1, <1>8 DEF ListsShape, Settle
 <2> QED BY <1>1, <1>4, <1>5, <1>6, <2>1 DEF ListsShape
<1>10. Numbered'
 <2>1. \A v \in Views : Dyed(fetches'[v].rows, k) BY <1>1, <1>8, BlankRows DEF Numbered
 <2>2. \A v \in Views, j \in 1 .. k : writes'[j].value = j /\ Dyed(writes'[j].before[v].rows, j - 1)
  <3> TAKE v \in Views, j \in 1 .. k
  <3>1. CASE j = i
    BY <1>1, <1>3, <1>5, <3>1, BlankRows DEF Numbered
  <3>2. CASE j # i BY <1>1, <1>5, <3>2 DEF Numbered
  <3> QED BY <3>1, <3>2
 <2> QED BY <1>1, <1>4, <1>5, <1>6, <2>1, <2>2 DEF Numbered
<1>11. InOrder'
  BY <1>3, <1>4, <1>5, <1>1, OrderStays
<1>12. Showing'
 <2>1. \A v \in Views : fetches'[v].stage # "none" /\ fetches'[v].cause = "settle" => Open' = {}
  <3> TAKE v \in Views
  <3>1. CASE MayRefetch(i) BY <1>7, <3>1 DEF MayRefetch, LastOne
  <3>2. CASE ~MayRefetch(i) BY <1>1, <1>7, <1>8, <3>2 DEF Showing
  <3> QED BY <3>1, <3>2
 <2>2. ASSUME NEW j \in Open', writes'[j].alone
       PROVE /\ ByItself(j)'
             /\ \A v \in Views : writes'[j].before[v].loaded =>
                  lists'[v].rows[writes'[j].note] = Clicked(lists'[v].rows[writes'[j].note], v, writes'[j])
  <3>1. j \in Open /\ j # i /\ j \in 1 .. k BY <1>7 DEF Open
  <3>2. writes'[j] = writes[j] /\ writes[j].note \in Cards BY <1>5, <3>1 DEF ListWrite
  <3>3. ByItself(j) /\ writes[j].note # writes[i].note BY <1>1, <1>7, <2>2, <3>1, <3>2 DEF Showing, ByItself
  <3>4. ByItself(j)'
    BY <1>5, <1>7, <3>2, <3>3 DEF Open, ByItself
  <3>5. \A v \in Views : lists'[v].rows[writes[j].note] = lists[v].rows[writes[j].note] BY <1>6, <3>2, <3>3
  <3> QED BY <1>1, <2>2, <3>1, <3>2, <3>4, <3>5 DEF Showing
 <2> QED BY <2>1, <2>2 DEF Showing
<1>13. Mirrors'
 <2> SUFFICES ASSUME ~OpensLate
              PROVE  /\ \A v \in Views : lists'[v].there /\ lists'[v].loaded
                     /\ \A j \in Open', v \in Views : writes'[j].before[v].there /\ writes'[j].before[v].loaded
                     /\ Open' = {} => \A v \in Views :
                          /\ fetches'[v].stage = "served" => fetches'[v].rows = ListAnswer(v)'
                          /\ ~lists'[v].stale => lists'[v].rows = ListAnswer(v)' BY DEF Mirrors
 <2>1. \A v \in Views : lists'[v].there /\ lists'[v].loaded BY <1>1, <1>6 DEF Mirrors
 <2>2. \A j \in Open', v \in Views : writes'[j].before[v].there /\ writes'[j].before[v].loaded
   BY <1>5, <1>7, <1>1 DEF Open, Mirrors
 <2>3. ASSUME Open' = {}, NEW v \in Views PROVE fetches'[v].stage # "served" /\ lists'[v].stale
   BY <1>7, <2>3, <1>1, <1>6, <1>8 DEF MayRefetch, LastOne, Refetched, Mirrors
 <2> QED BY <2>1, <2>2, <2>3
<1> QED BY <1>9, <1>10, <1>11, <1>12, <1>13 DEF ListsInv

\* What the server has, listed, has no row of a click to come.
LEMMA AnswerShape ==
  ASSUME ListsShape, Numbered, NEW v \in Views PROVE ListAnswer(v) \in Rows /\ Dyed(ListAnswer(v), Len(writes))
<1>1. \A n \in Cards : server[n].row \in CardRow /\ server[n].row.color <= Len(writes) BY DEF ListsShape, HeadRow, Numbered
<1>2. Len(writes) \in Nat BY DEF ListsShape
<1> QED BY <1>1, <1>2, BlankRows DEF ListAnswer, Rows, Dyed

\* A fetch that goes on, or comes up, keeps the invariant.
LEMMA FetchKeeps == ASSUME ListsInv, NEW v \in Views, Serve(v) \/ Arrive(v) \/ FetchFails(v) \/ Show(v) PROVE ListsInv'
<1>1. ListsShape /\ Numbered /\ InOrder /\ Showing /\ Mirrors /\ Len(writes) \in Nat BY DEF ListsInv, ListsShape
<1>2. ListAnswer(v) \in Rows /\ Dyed(ListAnswer(v), Len(writes)) BY <1>1, AnswerShape
<1>3. fetches[v] \in Fetch /\ lists[v] \in List BY <1>1 DEF ListsShape
<1>4. CASE Arrive(v)
 <2>1. PICK list : list = [there |-> TRUE, loaded |-> TRUE, stale |-> FALSE, rows |-> fetches[v].rows] OBVIOUS
 <2>2. list \in List /\ list.there /\ list.loaded /\ ~list.stale /\ list.rows = fetches[v].rows BY <1>3, <2>1 DEF List, Fetch
 <2>3. /\ lists' = [lists EXCEPT ![v] = list] /\ fetches' = [fetches EXCEPT ![v] = NoFetch] /\ fetches[v].stage = "served"
       /\ UNCHANGED <<server, shown, trash, last, views>> BY <1>4, <2>1 DEF Arrive
 <2>4. /\ writes' \in Seq(ListWrite) /\ Len(writes') = Len(writes)
       /\ \A i \in 1 .. Len(writes) :
            /\ writes'[i].note = writes[i].note /\ writes'[i].stage = writes[i].stage /\ writes'[i].value = writes[i].value
            /\ writes'[i].before = writes[i].before
       /\ \/ fetches[v].cause = "settle" /\ writes' = writes
          \/ \A i \in 1 .. Len(writes) : ~writes'[i].alone
  <3>1. CASE fetches[v].cause = "settle" BY <1>1, <1>4, <3>1 DEF Arrive, ListsShape
  <3>2. CASE fetches[v].cause # "settle"
   <4>1. writes' = [i \in 1 .. Len(writes) |-> [writes[i] EXCEPT !.alone = FALSE]] BY <1>4, <3>2 DEF Arrive
   <4>2. \A i \in 1 .. Len(writes) : writes[i] \in ListWrite BY <1>1 DEF ListsShape
   <4>3. \A i \in 1 .. Len(writes) :
           /\ [writes[i] EXCEPT !.alone = FALSE] \in ListWrite /\ ~[writes[i] EXCEPT !.alone = FALSE].alone
           /\ [writes[i] EXCEPT !.alone = FALSE].note = writes[i].note
           /\ [writes[i] EXCEPT !.alone = FALSE].stage = writes[i].stage
           /\ [writes[i] EXCEPT !.alone = FALSE].value = writes[i].value
           /\ [writes[i] EXCEPT !.alone = FALSE].before = writes[i].before BY <4>2 DEF ListWrite
   <4>4. writes' \in Seq(ListWrite) /\ Len(writes') = Len(writes) BY <1>1, <4>1, <4>3
   <4>5. \A i \in 1 .. Len(writes) : writes'[i] = [writes[i] EXCEPT !.alone = FALSE] BY <4>1
   <4> QED BY <4>3, <4>4, <4>5
  <3> QED BY <3>1, <3>2
 <2>5. Open' = Open BY <2>4 DEF Open
 <2>6. ListsShape' BY <1>1, <2>2, <2>3, <2>4, BlankRows DEF ListsShape
 <2>7. Numbered'
   BY <1>1, <2>2, <2>3, BlankRows, <2>4 DEF Numbered, NoFetch, ListsShape
 <2>8. InOrder' BY <1>1, <2>3, <2>4, OrderStays
 <2>9. Showing'
  <3>1. \A u \in Views : fetches'[u].stage # "none" => fetches'[u] = fetches[u] BY <1>1, <2>3 DEF NoFetch, ListsShape
  <3>2. CASE fetches[v].cause = "settle"
    BY <1>1, <2>3, <2>5, <3>2 DEF Showing
  <3>3. CASE \A i \in 1 .. Len(writes) : ~writes'[i].alone
    BY <2>4, <3>3, <1>1, <2>5, <3>1 DEF Open, Showing
  <3> QED BY <2>4, <3>2, <3>3
 <2>10. Mirrors'
  <3>1. \A i \in Open' : i \in Open /\ writes'[i].before = writes[i].before BY <2>4, <2>5 DEF Open
  <3>2. \A u \in Views : ListAnswer(u)' = ListAnswer(u) BY <2>3 DEF ListAnswer, Listed
  <3>3. \A u \in Views : u # v => lists'[u] = lists[u] /\ fetches'[u] = fetches[u] BY <1>1, <2>3 DEF ListsShape
  <3>4. lists'[v] = list /\ fetches'[v].stage = "none" BY <1>1, <2>3 DEF ListsShape, NoFetch
  <3> QED BY <1>1, <2>2, <2>3, <2>5, <3>1, <3>2, <3>3, <3>4 DEF Mirrors
 <2> QED BY <2>6, <2>7, <2>8, <2>9, <2>10 DEF ListsInv
<1>5. CASE Serve(v) \/ FetchFails(v) \/ Show(v)
 <2>1. UNCHANGED <<server, writes, trash, last>> /\ Open' = Open BY <1>5 DEF Serve, FetchFails, Show, Open
 <2>2. PICK fetch, list : fetch = fetches'[v] /\ list = lists'[v] OBVIOUS
 <2>3. /\ fetches' = [fetches EXCEPT ![v] = fetch] /\ lists' = [lists EXCEPT ![v] = list]
       /\ fetch \in Fetch /\ list \in List /\ list.loaded = lists[v].loaded /\ list.stale = lists[v].stale
       /\ list.rows = lists[v].rows /\ (lists[v].there => list.there)
       /\ Dyed(fetch.rows, Len(writes))
       /\ fetch.stage # "none" /\ fetch.cause = "settle" => fetches[v].stage # "none" /\ fetches[v].cause = "settle"
       /\ fetch.stage = "served" => fetch.rows = ListAnswer(v) \/ fetch = fetches[v]
       /\ shown' \in Views /\ views' \in 0 .. MaxViews
  <3>1. fetches \in [Views -> Fetch] /\ lists \in [Views -> List] /\ Dyed(fetches[v].rows, Len(writes)) /\ Dyed(Empty, Len(writes))
    BY <1>1, BlankRows DEF ListsShape, Numbered
  <3>2. [lists EXCEPT ![v] = lists[v]] = lists BY <3>1
  <3>3. CASE Serve(v) BY <1>1, <1>2, <1>3, <2>2, <3>1, <3>2, <3>3 DEF Serve, Fetch, ListsShape
  <3>4. CASE FetchFails(v) BY <1>1, <1>3, <2>2, <3>1, <3>2, <3>4, BlankRows DEF FetchFails, NoFetch, ListsShape
  <3>5. CASE Show(v)
   <4>1. list = [lists[v] EXCEPT !.there = TRUE] /\ lists' = [lists EXCEPT ![v] = list] BY <2>2, <3>1, <3>5 DEF Show
   <4>2. fetches' = [fetches EXCEPT ![v] = fetch]
         /\ fetch = IF fetches[v].stage = "none" THEN [NoFetch EXCEPT !.stage = "asked"] ELSE fetches[v]
     BY <2>2, <3>1, <3>5 DEF Show
   <4>3. PICK asked : asked = [NoFetch EXCEPT !.stage = "asked"] OBVIOUS
   <4>4. asked \in Fetch /\ asked.cause = "view" /\ asked.stage = "asked" /\ asked.rows = Empty BY <4>3, BlankRows DEF Fetch, NoFetch
   <4>5. shown' = v /\ views' \in 0 .. MaxViews BY <1>1, <3>5, ListsAssumption DEF Show, ListsShape
   <4> QED BY <1>3, <3>1, <4>1, <4>2, <4>3, <4>4, <4>5 DEF List
  <3> QED BY <1>5, <3>3, <3>4, <3>5
 <2>4. ListsShape' BY <1>1, <2>1, <2>3 DEF ListsShape
 <2>5. \A u \in Views : u # v => lists'[u] = lists[u] /\ fetches'[u] = fetches[u] BY <1>1, <2>3 DEF ListsShape
 <2>6. lists'[v] = list /\ fetches'[v] = fetch BY <2>2
 <2>7. Numbered' BY <1>1, <2>1, <2>3, <2>5, <2>6 DEF Numbered
 <2>8. InOrder' BY <1>1, <2>1 DEF InOrder
 <2>9. Showing'
   BY <2>3, <2>5, <2>6, <2>1, <1>1 DEF ByItself, Showing
 <2>10. Mirrors'
   BY <2>1, <1>1, <2>3, <2>5, <2>6 DEF ListAnswer, Listed, Mirrors
 <2> QED BY <2>4, <2>7, <2>8, <2>9, <2>10 DEF ListsInv
<1> QED BY <1>4, <1>5

\* What a page begins with.
LEMMA ListsStart == ListsInit => ListsInv
<1> SUFFICES ASSUME ListsInit PROVE ListsInv OBVIOUS
<1>1. writes = <<>> /\ writes \in Seq(ListWrite) /\ Len(writes) = 0 /\ Open = {} /\ MaxWrites \in Nat /\ 0 \in Values /\ MaxViews \in Nat
  BY ListsAssumption DEF ListsInit, Open, Values
<1>2. server \in [Cards -> HeadRow] /\ \A n \in Cards : server[n].row.color = 0 BY BlankRows DEF ListsInit, HeadRow
<1>3. \A v \in Views : ListAnswer(v) \in Rows /\ Dyed(ListAnswer(v), 0) BY <1>2, BlankRows DEF ListAnswer, Rows, HeadRow, Dyed
<1>4. \A v \in Views : /\ lists[v] \in List /\ Dyed(lists[v].rows, 0) /\ (~lists[v].loaded => lists[v].rows = Empty)
                       /\ (~OpensLate => lists[v].there /\ lists[v].loaded /\ lists[v].rows = ListAnswer(v))
 <2> TAKE v \in Views
 <2>1. CASE OpensLate /\ v = "archived"
   BY <2>1, BlankRows DEF ListsInit, NoList
 <2>2. CASE ~(OpensLate /\ v = "archived")
   BY <2>2, <1>3 DEF ListsInit, List
 <2> QED BY <2>1, <2>2
<1>5. lists \in [Views -> List]
  BY <1>4 DEF ListsInit
<1>6. fetches \in [Views -> Fetch] /\ \A v \in Views : fetches[v] = NoFetch BY BlankRows DEF ListsInit
<1>7. shown \in Views /\ trash = Empty /\ last \in [Cards -> Values] /\ views \in 0 .. MaxViews /\ \A n \in Cards : last[n] = 0
  BY <1>1 DEF ListsInit, Views
<1>8. ListsShape BY <1>1, <1>2, <1>4, <1>5, <1>6, <1>7, BlankRows DEF ListsShape
<1>9. Numbered BY <1>1, <1>2, <1>4, <1>6, <1>7, BlankRows DEF Numbered, NoFetch
<1>10. InOrder BY <1>1, <1>7 DEF InOrder
<1>11. Showing BY <1>1 DEF Showing
<1>12. Mirrors BY <1>1, <1>4, <1>6 DEF Mirrors, NoFetch
<1> QED BY <1>8, <1>9, <1>10, <1>11, <1>12 DEF ListsInv

\* A step of a request, and so every step, keeps the invariant and the order of
\* the clicks at the server.
LEMMA RequestKeeps ==
  ASSUME ListsInv, NEW i \in 1 .. Len(writes), Send(i) \/ Take(i) \/ LoseWrite(i)
  PROVE  ListsInv' /\ \A n \in Cards : last'[n] >= last[n]
<1>1. writes[i] \in ListWrite BY DEF ListsInv, ListsShape
<1>2. PICK w : w = writes'[i] OBVIOUS
<1>3. writes' = [writes EXCEPT ![i] = w] /\ SameWrite(w, writes[i]) /\ w \in ListWrite /\ Advances(i, w)
      /\ UNCHANGED <<lists, fetches, shown, trash, views>>
 <2>0. writes \in Seq(ListWrite) BY DEF ListsInv, ListsShape
 <2>1. CASE Send(i)
  <3>1. PICK x : x = [writes[i] EXCEPT !.stage = "sent"] OBVIOUS
  <3>2. writes' = [writes EXCEPT ![i] = x] BY <2>1, <3>1 DEF Send
  <3>3. w = x BY <1>2, <2>0, <3>2
  <3>4. x \in ListWrite /\ SameWrite(x, writes[i]) /\ x.stage = "sent" BY <1>1, <3>1 DEF ListWrite, SameWrite
  <3> QED BY <2>1, <3>2, <3>3, <3>4 DEF Send, Advances
 <2>2. CASE Take(i)
  <3>1. PICK answer \in {"taken", "failed"} : writes' = [writes EXCEPT ![i].stage = answer, ![i].reached = TRUE] BY <2>2 DEF Take
  <3>2. PICK x : x = [writes[i] EXCEPT !.stage = answer, !.reached = TRUE] OBVIOUS
  <3>3. writes' = [writes EXCEPT ![i] = x] BY <2>0, <3>1, <3>2
  <3>4. w = x BY <1>2, <2>0, <3>3
  <3>5. x \in ListWrite /\ SameWrite(x, writes[i]) /\ x.stage \in {"taken", "failed"} BY <1>1, <3>2 DEF ListWrite, SameWrite
  <3> QED BY <2>2, <3>3, <3>4, <3>5 DEF Take, Advances
 <2>3. CASE LoseWrite(i)
  <3>1. PICK x : x = [writes[i] EXCEPT !.stage = "failed"] OBVIOUS
  <3>2. writes' = [writes EXCEPT ![i] = x] BY <2>3, <3>1 DEF LoseWrite
  <3>3. w = x BY <1>2, <2>0, <3>2
  <3>4. x \in ListWrite /\ SameWrite(x, writes[i]) /\ x.stage = "failed" BY <1>1, <3>1 DEF ListWrite, SameWrite
  <3> QED BY <2>3, <3>2, <3>3, <3>4 DEF LoseWrite, Advances
 <2> QED BY <2>1, <2>2, <2>3
<1> QED BY <1>3, AdvanceKeeps

\* Every step keeps the invariant.
LEMMA ListsStepKeeps ==
  ASSUME ListsInv, [ListsNext]_listsVars PROVE ListsInv' /\ (listsVars' = listsVars \/ \A n \in Cards : last'[n] >= last[n])
<1>1. CASE UNCHANGED listsVars
 <2>1. Open' = Open /\ \A v \in Views : ListAnswer(v)' = ListAnswer(v) BY <1>1 DEF listsVars, Open, ListAnswer, Listed
 <2>2. ListsInv' BY <1>1, <2>1 DEF listsVars, ListsInv, ListsShape, Numbered, InOrder, Showing, ByItself, Mirrors
 <2> QED BY <1>1, <2>2
<1>2. \A n \in Cards : last[n] \in Nat BY ListsAssumption DEF ListsInv, ListsShape, Values
<1>3. CASE \E n \in Cards : UserStep(n)
 <2>1. last' = last BY <1>3 DEF UserStep, Recolor, Move, Archive, Delete, UndoDeletion, Create, Click
 <2> QED BY <1>2, <1>3, <2>1, UserKeeps
<1>4. CASE \E i \in 1 .. Len(writes) : WriteStep(i)
 <2>1. PICK i \in 1 .. Len(writes) : WriteStep(i) BY <1>4
 <2>2. CASE Settle(i)
  <3>1. last' = last BY <2>2 DEF Settle
  <3> QED BY <1>2, <2>2, <3>1, SettleKeeps
 <2> QED BY <2>1, <2>2, RequestKeeps DEF WriteStep
<1>5. CASE \E v \in Views : Serve(v) \/ Arrive(v) \/ FetchFails(v) \/ Show(v)
 <2>1. last' = last BY <1>5 DEF Serve, Arrive, FetchFails, Show
 <2> QED BY <1>2, <1>5, <2>1, FetchKeeps
<1> QED BY <1>1, <1>3, <1>4, <1>5 DEF ListsNext

\* Induction, over the set of the numbers that have the property.
LEMMA ByInduction ==
  ASSUME NEW S, 0 \in S, \A n \in Nat : n \in S => n + 1 \in S PROVE Nat \subseteq S
<1> SUFFICES ASSUME Nat \ S # {} PROVE FALSE OBVIOUS
<1>1. IsWellFoundedOn(OpToRel(<, Nat), Nat) BY NatLessThanWellFounded
<1>2. PICK m \in Nat \ S : \A n \in Nat \ S : ~(<<n, m>> \in OpToRel(<, Nat)) BY <1>1, WFMin
<1>3. \A n \in Nat \ S : ~(n < m) BY <1>2 DEF OpToRel
<1>4. m # 0 /\ m - 1 \in Nat /\ m - 1 \notin Nat \ S BY <1>3
<1> QED BY <1>4

\* The values of a recursion over 0 .. m.
Chain(g, V, m, base, step) == g \in [0 .. m -> V] /\ g[0] = base /\ \A k \in 1 .. m : g[k] = step[k][g[k - 1]]

\* What is defined step by step, each from the one before, is a function.
LEMMA StepByStep ==
  ASSUME NEW V, NEW m \in Nat, NEW base \in V, NEW step \in [1 .. m -> [V -> V]]
  PROVE  \E g : Chain(g, V, m, base, step)
<1> DEFINE Is(g, n) == g \in [0 .. n -> V] /\ g[0] = base /\ \A k \in 1 .. n : g[k] = step[k][g[k - 1]]
           S == {n \in Nat : n <= m => \E g : Is(g, n)}
<1>1. 0 \in S
 <2>1. Is([k \in 0 .. 0 |-> base], 0) OBVIOUS
 <2> QED BY <2>1
<1>2. ASSUME NEW n \in Nat, n \in S PROVE n + 1 \in S
 <2> SUFFICES ASSUME n + 1 <= m PROVE \E g : Is(g, n + 1) OBVIOUS
 <2>1. PICK g : Is(g, n) BY <1>2
 <2>2. PICK h : h = [k \in 0 .. n + 1 |-> IF k = n + 1 THEN step[n + 1][g[n]] ELSE g[k]] OBVIOUS
 <2>3. g \in [0 .. n -> V] /\ g[0] = base /\ \A k \in 1 .. n : g[k] = step[k][g[k - 1]] BY <2>1
 <2>4. step[n + 1] \in [V -> V] /\ g[n] \in V BY <2>3
 <2>5. h \in [0 .. n + 1 -> V] /\ h[0] = base BY <2>2, <2>3, <2>4
 <2>6. \A k \in 1 .. n + 1 : h[k] = step[k][h[k - 1]] BY <2>2, <2>3
 <2> QED BY <2>5, <2>6
<1>3. m \in S
 <2> HIDE DEF S
 <2> QED BY <1>1, <1>2, ByInduction
<1> QED BY <1>3 DEF Chain

\* The lists as the writes are taken back, the latest first.
LEMMA Unwinding ==
  ASSUME ListsShape, NEW v \in Views
  PROVE  \E rows \in [0 .. Len(writes) -> Rows] :
           /\ rows[0] = lists[v].rows /\ Unwound(v) = rows[Len(writes)]
           /\ \A k \in 1 .. Len(writes) :
                rows[k] = IF FromLatest(k) \in Open THEN TakenBack(rows[k - 1], writes[FromLatest(k)], v) ELSE rows[k - 1]
<1> DEFINE m == Len(writes)
           Back(k, x) == IF FromLatest(k) \in Open THEN TakenBack(x, writes[FromLatest(k)], v) ELSE x
           step == [k \in 1 .. m |-> [x \in Rows |-> Back(k, x)]]
           Rec(f) == f = [k \in 0 .. m |-> IF k = 0 THEN lists[v].rows
                                           ELSE IF FromLatest(k) \in Open THEN TakenBack(f[k - 1], writes[FromLatest(k)], v) ELSE f[k - 1]]
           h == CHOOSE f : Rec(f)
<1>1. m \in Nat /\ lists[v].rows \in Rows BY DEF ListsShape, List
<1>2. \A k \in 1 .. m, x \in Rows : Back(k, x) \in Rows
 <2> TAKE k \in 1 .. m, x \in Rows
 <2>1. FromLatest(k) \in Open => writes[FromLatest(k)] \in ListWrite BY DEF Open, ListsShape
 <2> QED BY <2>1, OneRowTakenBack
<1>3. step \in [1 .. m -> [Rows -> Rows]]
 <2> HIDE DEF Back
 <2> QED BY <1>2
<1>4. PICK g \in [0 .. m -> Rows] : g[0] = lists[v].rows /\ \A k \in 1 .. m : g[k] = step[k][g[k - 1]]
 <2>1. PICK st, base : st = step /\ base = lists[v].rows OBVIOUS
 <2>2. st \in [1 .. m -> [Rows -> Rows]] /\ base \in Rows BY <1>1, <1>3, <2>1
 <2>3. \E g : Chain(g, Rows, m, base, st)
  <3> HIDE DEF step, m
  <3> QED BY <1>1, <2>2, StepByStep
 <2> QED BY <2>1, <2>3 DEF Chain
<1>5. \A k \in 1 .. m : g[k] = Back(k, g[k - 1])
 <2> HIDE DEF Back
 <2> TAKE k \in 1 .. m
 <2>1. g[k - 1] \in Rows BY <1>1
 <2> QED BY <1>4, <2>1
<1>6. Rec(g) BY <1>1, <1>4, <1>5
<1>7. Rec(h)
 <2> HIDE DEF Rec
 <2> QED BY <1>6
<1>8. Unwound(v) = h[m] BY DEF Unwound
<1>9. h = g
 <2> HIDE DEF h
 <2> DEFINE T == {n \in Nat : n <= m => h[n] = g[n]}
 <2>1. 0 \in T BY <1>1, <1>4, <1>7
 <2>2. ASSUME NEW n \in Nat, n \in T PROVE n + 1 \in T BY <1>1, <1>5, <1>7, <2>2
 <2>3. \A n \in 0 .. m : h[n] = g[n]
  <3> HIDE DEF T
  <3>1. Nat \subseteq T BY <2>1, <2>2, ByInduction
  <3> QED BY <1>1, <3>1 DEF T
 <2> QED BY <1>7, <2>3
<1> QED
 <2> HIDE DEF h
 <2> QED BY <1>4, <1>5, <1>8, <1>9

\* So a color that is unanswered is gone from what is written to the disk.
LEMMA DiskIsBehind == ASSUME ~OpensLate, ListsInv PROVE DiskHoldsNothingUnanswered
<1> SUFFICES ASSUME NEW i \in Open, NEW v \in Views, writes[i].kind = "color"
             PROVE  Confirmed(v)[writes[i].note].color # writes[i].value BY DEF DiskHoldsNothingUnanswered
<1> DEFINE n == writes[i].note
           m == Len(writes)
<1>1. ListsShape /\ Numbered /\ Mirrors /\ m \in Nat /\ i \in 1 .. m /\ writes[i] \in ListWrite /\ n \in Cards /\ writes[i].value = i
 <2>1. ListsShape /\ Numbered /\ Mirrors /\ i \in 1 .. m BY DEF ListsInv, Open
 <2>2. m \in Nat /\ writes[i] \in ListWrite BY <2>1 DEF ListsShape
 <2> QED BY <2>1, <2>2 DEF ListWrite, Numbered
<1>2. PICK rows \in [0 .. m -> Rows] :
        /\ Unwound(v) = rows[m]
        /\ \A k \in 1 .. m :
             rows[k] = IF FromLatest(k) \in Open THEN TakenBack(rows[k - 1], writes[FromLatest(k)], v) ELSE rows[k - 1]
  BY <1>1, Unwinding
<1>3. \A r \in AnyRow : r.color \in Nat BY ListsAssumption, BlankRows DEF AnyRow, CardRow, Values
<1>4. \A j \in Open : /\ j \in 1 .. m /\ writes[j] \in ListWrite /\ writes[j].before[v].loaded
                      /\ writes[j].note = n => Before(writes[j], v).color <= j - 1 /\ Before(writes[j], v) \in AnyRow
 <2> TAKE j \in Open
 <2>1. j \in 1 .. m BY DEF Open
 <2>2. writes[j] \in ListWrite BY <1>1, <2>1 DEF ListsShape
 <2>3. Before(writes[j], v) \in AnyRow BY <2>2 DEF Before, ListWrite, List, Rows, AnyRow
 <2>4. writes[j].note = n => Before(writes[j], v).color <= j - 1 BY <1>1, <2>1 DEF Numbered, Dyed, Before
 <2>5. writes[j].before[v].loaded BY <1>1 DEF Mirrors
 <2> QED BY <2>1, <2>2, <2>3, <2>4, <2>5
<1>5. \A k \in 0 .. m : rows[k] \in Rows /\ rows[k][n] \in AnyRow BY <1>1, <1>2 DEF Rows, AnyRow
<1>6. ASSUME NEW k \in 1 .. m, FromLatest(k) = i PROVE rows[k][n].color # i
 <2>1. k - 1 \in 0 .. m BY <1>1
 <2>2. rows[k] = TakenBack(rows[k - 1], writes[i], v) BY <1>2, <1>6
 <2>3. rows[k][n] = Unclicked(rows[k - 1][n], writes[i], v) BY <1>1, <1>5, <2>1, <2>2, OneRowTakenBack DEF Rows
 <2>4. PICK r \in AnyRow : r = rows[k - 1][n] BY <1>5, <2>1
 <2>5. PICK b \in AnyRow : b = Before(writes[i], v) /\ b.color <= i - 1 BY <1>4
 <2>6. i \in Nat /\ i # 0 /\ b.color # i BY <1>1, <1>3, <2>5
 <2>7. [r EXCEPT !.color = b.color].color # i
  <3>1. CASE r = NoCardRow
    BY <3>1, <2>6 DEF NoCardRow
  <3>2. CASE r \in CardRow
    BY <3>2, <2>6 DEF CardRow
  <3> QED BY <2>4, <3>1, <3>2 DEF AnyRow
 <2>8. NoCardRow.color # i BY <2>6, BlankRows
 <2> QED BY <1>1, <1>4, <2>3, <2>4, <2>5, <2>7, <2>8 DEF Unclicked
<1>7. ASSUME NEW k \in 1 .. m, FromLatest(k) < i, rows[k - 1][n].color # i PROVE rows[k][n].color # i
 <2>1. k - 1 \in 0 .. m /\ FromLatest(k) \in Nat /\ i \in Nat /\ i # 0 BY <1>1 DEF FromLatest
 <2>2. CASE FromLatest(k) \notin Open BY <1>2, <1>7, <2>2
 <2>3. CASE FromLatest(k) \in Open
  <3>1. PICK j \in Open : j = FromLatest(k) BY <2>3
  <3>2. rows[k] = TakenBack(rows[k - 1], writes[j], v) BY <1>2, <3>1
  <3>3. rows[k] = [rows[k - 1] EXCEPT ![writes[j].note] = Unclicked(rows[k - 1][writes[j].note], writes[j], v)]
        /\ Unclicked(rows[k - 1][writes[j].note], writes[j], v).color \in {0, rows[k - 1][writes[j].note].color, Before(writes[j], v).color}
   <4>1. PICK x \in Rows : x = rows[k - 1] BY <1>5, <2>1
   <4>2. PICK w \in ListWrite : w = writes[j] BY <1>4
   <4>3. TakenBack(x, w, v) = [x EXCEPT ![w.note] = Unclicked(x[w.note], w, v)]
         /\ Unclicked(x[w.note], w, v).color \in {0, x[w.note].color, Before(w, v).color} BY OneRowTakenBack
   <4> QED BY <3>2, <4>1, <4>2, <4>3
  <3>4. CASE writes[j].note # n
    BY <1>1, <1>5, <2>1, <3>3, <3>4, <1>7 DEF Rows
  <3>5. CASE writes[j].note = n
   <4>1. rows[k][n].color \in {0, rows[k - 1][n].color, Before(writes[j], v).color} BY <1>1, <1>5, <2>1, <3>3, <3>5 DEF Rows
   <4>2. Before(writes[j], v).color \in Nat /\ Before(writes[j], v).color <= j - 1 BY <1>3, <1>4, <3>5
   <4> QED BY <1>7, <2>1, <3>1, <4>1, <4>2
  <3> QED BY <3>4, <3>5
 <2> QED BY <2>2, <2>3
<1>8. rows[m][n].color # i
 <2> DEFINE T == {k \in Nat : m + 1 - i <= k /\ k <= m => rows[k][n].color # i}
 <2>1. 0 \in T BY <1>1
 <2>2. ASSUME NEW k \in Nat, k \in T PROVE k + 1 \in T
  <3> SUFFICES ASSUME m + 1 - i <= k + 1, k + 1 <= m PROVE rows[k + 1][n].color # i OBVIOUS
  <3>1. k + 1 \in 1 .. m /\ FromLatest(k + 1) <= i /\ FromLatest(k + 1) \in Nat BY <1>1 DEF FromLatest
  <3>2. CASE FromLatest(k + 1) = i BY <1>6, <3>1, <3>2
  <3>3. CASE FromLatest(k + 1) < i
    BY <1>1, <3>1, <3>3, <2>2, <1>7 DEF FromLatest
  <3> QED BY <1>1, <3>1, <3>2, <3>3
 <2>3. m \in T
  <3> HIDE DEF T
  <3> QED BY <1>1, <2>1, <2>2, ByInduction
 <2> QED BY <1>1, <2>3
<1>9. Confirmed(v)[n] = rows[m][n] \/ Confirmed(v)[n] = NoCardRow BY <1>1, <1>2 DEF Confirmed
<1> QED BY <1>1, <1>8, <1>9, BlankRows

\* A list never shows less than was clicked nor, in the end, other than the server
\* has, and neither does its copy on disk: for any notes, clicks and lost answers,
\* of a page that had fetched both its lists before anything was clicked.
THEOREM ListsStayTrue == ASSUME ~OpensLate PROVE ListsSpec => ListsAreTrue
<1>1. ListsInv => ShownUntilSettled
 <2> SUFFICES ASSUME ListsInv, NEW i \in Open, NEW v \in Views, writes[i].alone, writes[i].before[v].loaded
              PROVE  lists[v].rows[writes[i].note] = (Changed(v, writes[i]))[writes[i].note] BY DEF ShownUntilSettled
 <2>1. ListsShape /\ writes[i] \in ListWrite BY DEF ListsInv, ListsShape, Open
 <2>2. Changed(v, writes[i]) = [lists[v].rows EXCEPT ![writes[i].note] = Clicked(lists[v].rows[writes[i].note], v, writes[i])]
   BY <2>1, OneRowClicked DEF ListsShape
 <2>3. writes[i].note \in Cards /\ lists[v].rows \in [Cards -> AnyRow] BY <2>1 DEF ListsShape, ListWrite, List, Rows, AnyRow
 <2>4. lists[v].rows[writes[i].note] = Clicked(lists[v].rows[writes[i].note], v, writes[i]) BY DEF ListsInv, Showing
 <2> QED BY <2>2, <2>3, <2>4
<1>2. ListsInv => SettledListsAreTrue BY DEF ListsInv, Mirrors, SettledListsAreTrue, ListsShape
<1>3. ListsInv => DiskHoldsNothingUnanswered BY DiskIsBehind
<1>4. ListsInv /\ [ListsNext]_listsVars => ListsInv' /\ [\A n \in Cards : last'[n] >= last[n]]_listsVars BY ListsStepKeeps
<1> QED BY <1>1, <1>2, <1>3, <1>4, ListsStart, PTL DEF ListsSpec, ListsAreTrue, WritesKeepClickOrder
=============================================================================
