---------------------------- MODULE SelfDestruct ----------------------------
(***************************************************************************)
(* One note that destroys itself: its timer and its burn flag on the       *)
(* server (routers/_commonTier.ts, routers/_meta.ts, db/tier.ts), the      *)
(* pages that list it, open it and change them (useNoteModalMeta.ts,       *)
(* useBurnArming.ts, NoteActionsMenu), and the sweep that takes it away    *)
(* (controllers/cleanup.ts). Requests may take any time, or be lost.       *)
(* A Seal is read when it is decrypted, the other tiers when they open.    *)
(***************************************************************************)
EXTENDS Integers, Sequences, SequencesExt

CONSTANTS Readers,      \* the pages of the account
          MaxHours,
          MaxDeeds,     \* what its user does, over all of them
          MaxLost       \* requests, or answers, that are lost

ASSUME DestructAssumption == {MaxHours, MaxDeeds, MaxLost} \subseteq Nat

Grace == 1
Life == 1
Never == MaxHours + Life + 1
Hours == 0 .. MaxHours
Moments == (0 .. MaxHours + Life) \cup {Never}

VARIABLES sealed,    \* the note is a Seal
          noteRow,   \* its row
          hour,
          sweep,     \* the hour of the scan that found it, or Never
          cards,     \* per page: the note in its lists
          modals,    \* per page: the note, opened
          pending,   \* per page: the writes of the note, in their order
          trashed,   \* per page: the card a delete toast can put back
          deed,      \* history: the last thing the user did with the note
          deeds, lost

destructVars == <<sealed, noteRow, hour, sweep, cards, modals, pending, trashed, deed, deeds, lost>>

Card == [there : BOOLEAN, exp : Moments, burn : BOOLEAN]
NoCard == [there |-> FALSE, exp |-> Never, burn |-> FALSE]
CardOf(exp, burn) == [there |-> TRUE, exp |-> exp, burn |-> burn]
\* initial: it was to burn when it opened. candid, history: the modal opened
\* from what the server had, and nothing has happened that it could not know.
\* mount: which opening this is; only its own writes change what it shows.
Modal == [open : BOOLEAN, prop : Card, initial : BOOLEAN, exp : Moments, burn : BOOLEAN, armed : BOOLEAN,
          shown : BOOLEAN, candid : BOOLEAN, mount : 0 .. MaxDeeds]
Shut == [open |-> FALSE, prop |-> NoCard, initial |-> FALSE, exp |-> Never, burn |-> FALSE, armed |-> FALSE,
         shown |-> FALSE, candid |-> FALSE, mount |-> 0]
\* was: what the modal showed, before: the card, when it was asked for.
MetaWrite == [kind : {"choose", "arm", "delete", "restore"}, exp : Moments, burn : BOOLEAN,
              was : Moments \X BOOLEAN, mount : 0 .. MaxDeeds, before : Card]

DestructInit ==
    /\ sealed \in BOOLEAN
    /\ \E exp \in {1, Never}, burn \in BOOLEAN :
        /\ exp = Never \/ ~burn
        /\ noteRow = [exp |-> exp, burn |-> burn, deleted |-> Never, gone |-> FALSE]
        /\ cards = [p \in Readers |-> CardOf(exp, burn)]
    /\ hour = 0 /\ sweep = Never
    /\ modals = [p \in Readers |-> Shut]
    /\ pending = [p \in Readers |-> <<>>]
    /\ trashed = [p \in Readers |-> NoCard]
    /\ deed = [what |-> "none", page |-> CHOOSE p \in Readers : TRUE, exp |-> Never, ok |-> TRUE, firm |-> TRUE]
    /\ deeds = 0 /\ lost = 0

-----------------------------------------------------------------------------
(* The server *)

\* A row can be changed for an hour after it expired, and is listed no more.
StillOpen == ~noteRow.gone /\ (noteRow.exp = Never \/ noteRow.exp > hour - Grace)
OnList == IF ~noteRow.gone /\ noteRow.deleted = Never /\ (noteRow.exp = Never \/ noteRow.exp > hour)
          THEN CardOf(noteRow.exp, noteRow.burn) ELSE NoCard

\* Turning the flag on clears the timer and the other way round, but a caller
\* who sends both has the last word.
MutexOf(exp, burn) == [exp |-> IF burn THEN Never ELSE exp, burn |-> burn]
MetaOf(exp, burn) == [exp |-> exp, burn |-> burn]

Rewritten(w) ==
    CASE w.kind \in {"choose", "arm"} -> LET m == MetaOf(w.exp, w.burn) IN
                                         [noteRow EXCEPT !.exp = m.exp, !.burn = m.burn]
      [] w.kind = "delete"            -> [noteRow EXCEPT !.deleted = hour]
      [] w.kind = "restore"           -> [noteRow EXCEPT !.deleted = Never]

Overdue(at) == (noteRow.deleted # Never /\ noteRow.deleted < at - Grace) \/ (noteRow.exp # Never /\ noteRow.exp < at - Grace)

\* The sweep looks for rows first, and takes them under the account's lock,
\* where it looks again.
ScanRows ==
    /\ sweep = Never /\ ~noteRow.gone /\ Overdue(hour)
    /\ sweep' = hour
    /\ UNCHANGED <<sealed, noteRow, hour, cards, modals, pending, trashed, deed, deeds, lost>>
AsFound(at) == TRUE
AsItIs(at) == Overdue(at)
TakesRow(at) == AsItIs(at)
TakeRows ==
    /\ sweep # Never
    /\ noteRow' = IF TakesRow(sweep) THEN [noteRow EXCEPT !.gone = TRUE] ELSE noteRow
    /\ sweep' = Never
    /\ UNCHANGED <<sealed, hour, cards, modals, pending, trashed, deed, deeds, lost>>

HourPasses ==
    /\ hour < MaxHours
    /\ hour' = hour + 1
    /\ UNCHANGED <<sealed, noteRow, sweep, cards, modals, pending, trashed, deed, deeds, lost>>

-----------------------------------------------------------------------------
(* What a page asks for *)

Asks(p, kind, exp, burn, m, card) ==
    [kind |-> kind, exp |-> exp, burn |-> burn, was |-> <<m.exp, m.burn>>, mount |-> m.mount, before |-> card]

\* The effect that arms a note on its first reading; it runs whenever what it
\* looks at has changed.
DueWhenOpen(m) == m.open /\ ~m.armed /\ m.initial /\ m.exp = Never
DueWhenShown(m) == DueWhenOpen(m) /\ m.shown
MustArm(m) == DueWhenShown(m)

\* The page's state after the modal became m, with the writes ws and the card c.
Comes(p, m, ws, c) ==
    /\ modals' = [q \in Readers |->
                    IF q = p THEN [m EXCEPT !.armed = @ \/ MustArm(m), !.candid = @ /\ (MustArm(m) => m.burn)]
                    ELSE IF MustArm(m) \/ ws # pending[p] THEN [modals[q] EXCEPT !.candid = FALSE] ELSE modals[q]]
    /\ pending' = [pending EXCEPT ![p] = IF MustArm(m) THEN Append(ws, Asks(p, "arm", hour, TRUE, m, c)) ELSE ws]
    /\ cards' = [cards EXCEPT ![p] = IF MustArm(m) /\ c.there THEN CardOf(hour, TRUE) ELSE c]

\* A note spared in a modal that has not shown its text is armed when it does.
ArmsYet(m) == m.initial /\ ~m.armed /\ ~m.burn
Does(p, what, exp, firm) ==
    deed' = [what |-> what, page |-> p, exp |-> exp, ok |-> TRUE,
             firm |-> firm /\ \A q \in Readers \ {p} : pending[q] = <<>> /\ ~ArmsYet(modals[q])]
MayDo == deeds < MaxDeeds /\ deeds' = deeds + 1

\* It was to burn on reading, it says so, and now its text shows, the first time.
Reads(p, m) == IF m.shown /\ ~m.armed /\ m.initial /\ m.burn /\ m.exp = Never THEN Does(p, "read", Never, TRUE) ELSE UNCHANGED deed

OpenNote(p) ==
    LET c == cards[p]
        m == [open |-> TRUE, prop |-> c, initial |-> c.burn, exp |-> c.exp, burn |-> c.burn, armed |-> FALSE,
              shown |-> ~sealed, mount |-> deeds + 1,
              candid |-> c = CardOf(noteRow.exp, noteRow.burn) /\ \A q \in Readers : pending[q] = <<>>] IN
    /\ MayDo /\ ~modals[p].open /\ c.there
    /\ Comes(p, m, pending[p], c)
    /\ Reads(p, m)
    /\ UNCHANGED <<sealed, noteRow, hour, sweep, trashed, lost>>

DecryptNote(p) ==
    LET m == [modals[p] EXCEPT !.shown = TRUE] IN
    /\ MayDo /\ modals[p].open /\ ~modals[p].shown
    /\ Comes(p, m, pending[p], cards[p])
    /\ Reads(p, m)
    /\ UNCHANGED <<sealed, noteRow, hour, sweep, trashed, lost>>

\* The countdown, the button, or a soft lock.
SealAgain(p) ==
    /\ sealed /\ modals[p].open /\ modals[p].shown
    /\ modals' = [modals EXCEPT ![p].shown = FALSE]
    /\ UNCHANGED <<sealed, noteRow, hour, sweep, cards, pending, trashed, deed, deeds, lost>>

ShutNote(p) ==
    /\ modals[p].open
    /\ modals' = [modals EXCEPT ![p] = Shut]
    /\ UNCHANGED <<sealed, noteRow, hour, sweep, cards, pending, trashed, deed, deeds, lost>>

\* The picker's Save, which is on when there is something to save, and its
\* button that turns everything off. A date is of today or later, its time any.
Timers == {t \in (hour - 1) .. (hour + Life) : t >= 0}
PickerOffers(m) == (IF m.burn \/ m.exp # Never THEN {<<Never, FALSE>>} ELSE {})
              \cup (IF m.burn THEN {} ELSE {<<Never, TRUE>>})
              \cup {<<t, FALSE>> : t \in {t \in Timers : m.burn \/ t # m.exp}}
Intent(choice) == IF choice[2] THEN "burn" ELSE IF choice[1] = Never THEN "keep" ELSE "timer"

Choose(p) ==
    LET m == modals[p] IN
    /\ MayDo /\ m.open
    /\ \E choice \in PickerOffers(m) :
        LET c == IF cards[p].there THEN CardOf(choice[1], choice[2]) ELSE cards[p] IN
        /\ Comes(p, [m EXCEPT !.exp = choice[1], !.burn = choice[2]],
                 Append(pending[p], Asks(p, "choose", choice[1], choice[2], m, cards[p])), c)
        /\ Does(p, Intent(choice), choice[1], m.initial => m.armed)
    /\ UNCHANGED <<sealed, noteRow, hour, sweep, trashed, lost>>

\* Deleting closes the modal and leaves a toast.
DeleteNote(p) ==
    LET m == modals[p] IN
    /\ MayDo /\ m.open
    /\ trashed' = [trashed EXCEPT ![p] = m.prop]
    /\ Comes(p, Shut, Append(pending[p], Asks(p, "delete", Never, FALSE, m, cards[p])), NoCard)
    /\ Does(p, "delete", Never, TRUE)
    /\ UNCHANGED <<sealed, noteRow, hour, sweep, lost>>

UndoDelete(p) ==
    /\ MayDo /\ trashed[p].there
    /\ trashed' = [trashed EXCEPT ![p] = NoCard]
    /\ Comes(p, modals[p], Append(pending[p], Asks(p, "restore", Never, FALSE, modals[p], cards[p])), trashed[p])
    /\ Does(p, "undo", Never, TRUE)
    /\ UNCHANGED <<sealed, noteRow, hour, sweep, lost>>

-----------------------------------------------------------------------------
(* Answers: the writes of a note go to the server one by one *)

InTurn(p) == {1}
AllAtOnce(p) == 1 .. Len(pending[p])
Sendable(p) == IF pending[p] = <<>> THEN {} ELSE InTurn(p)

\* The modal takes a choice back where it still shows it, and the card too. An
\* arming that failed is taken off the card alone.
TakesBack(w, m) ==
    IF w.kind = "choose" /\ m.open /\ m.mount = w.mount
    THEN [m EXCEPT !.exp = IF @ = w.exp THEN w.was[1] ELSE @, !.burn = IF @ = w.burn THEN w.was[2] ELSE @]
    ELSE m
TakesBackAnywhere(w, m) ==
    IF w.kind = "choose" THEN [m EXCEPT !.exp = IF @ = w.exp THEN w.was[1] ELSE @, !.burn = IF @ = w.burn THEN w.was[2] ELSE @]
    ELSE m
LetsItStand(w, m) == m
AfterFailure(w, m) == TakesBack(w, m)
CardTakenBack(w, c) ==
    IF ~w.before.there THEN NoCard
    ELSE IF w.kind \in {"delete", "restore"} THEN w.before
    ELSE IF ~c.there THEN c
    ELSE [c EXCEPT !.exp = IF @ = w.exp THEN w.before.exp ELSE @, !.burn = IF @ = w.burn THEN w.before.burn ELSE @]

TakesWrite(p, i) ==
    /\ StillOpen
    /\ noteRow' = Rewritten(pending[p][i])
    /\ pending' = [pending EXCEPT ![p] = RemoveAt(@, i)]
    /\ UNCHANGED <<cards, modals, deed, lost>>

FailsToSave(p, i) ==
    LET w == pending[p][i]
        m == AfterFailure(w, modals[p])
        rest == RemoveAt(pending[p], i) IN
    /\ \/ ~StillOpen /\ UNCHANGED <<noteRow, lost>>
       \/ lost < MaxLost /\ lost' = lost + 1 /\ noteRow' \in {noteRow} \cup (IF StillOpen THEN {Rewritten(w)} ELSE {})
    /\ deed' = IF deed.page = p THEN [deed EXCEPT !.ok = FALSE] ELSE deed
    /\ Comes(p, [m EXCEPT !.candid = @ /\ rest = <<>> /\ noteRow' = noteRow /\ StillOpen], rest, CardTakenBack(w, cards[p]))

AnswerComes(p) ==
    /\ \E i \in Sendable(p) : TakesWrite(p, i) \/ FailsToSave(p, i)
    /\ UNCHANGED <<sealed, hour, sweep, trashed, deeds>>

\* The lists are asked for again once nothing is under way.
FetchCards(p) ==
    /\ pending[p] = <<>> /\ cards[p] # OnList
    /\ cards' = [cards EXCEPT ![p] = OnList]
    /\ UNCHANGED <<sealed, noteRow, hour, sweep, modals, pending, trashed, deed, deeds, lost>>

DestructNext ==
    \/ ScanRows \/ TakeRows \/ HourPasses
    \/ \E p \in Readers : \/ OpenNote(p) \/ DecryptNote(p) \/ SealAgain(p) \/ ShutNote(p)
                          \/ Choose(p) \/ DeleteNote(p) \/ UndoDelete(p)
                          \/ AnswerComes(p) \/ FetchCards(p)

DestructSpec == DestructInit /\ [][DestructNext]_destructVars

-----------------------------------------------------------------------------
(* Properties *)

\* Fields hold values of their kinds, a page with no modal shows nothing, and no page owes more writes than it was asked for, one of each arming.
DestructTypeOK ==
    /\ noteRow \in [exp : Moments, burn : BOOLEAN, deleted : Hours \cup {Never}, gone : BOOLEAN]
    /\ hour \in Hours /\ sweep \in Hours \cup {Never}
    /\ cards \in [Readers -> Card] /\ trashed \in [Readers -> Card]
    /\ modals \in [Readers -> Modal]
    /\ \A p \in Readers : /\ pending[p] \in Seq(MetaWrite)
                          /\ ~modals[p].open => modals[p] = Shut

AllAnswered == deed.ok /\ deed.firm /\ pending[deed.page] = <<>>
Expired == noteRow.gone \/ noteRow.deleted # Never \/ (noteRow.exp # Never /\ noteRow.exp <= hour)

\* A note that was to burn on reading, once read, is out of every list as soon as
\* the page's writes have been answered, unless the user changed their mind.
ReadIsBurnt == AllAnswered /\ deed.what = "read" => Expired

\* A note that was to burn on reading and has not been read is still there,
\* however often it was listed, or opened under its seal.
UnreadStands == deed.what = "none" /\ noteRow.burn => noteRow.exp = Never /\ ~noteRow.gone

\* What the user chose last is what becomes of the note: one spared, in time, is
\* not taken by a sweep already under way or by the reading's own request, a
\* deletion undone stays undone. (PickerOffers made before a note is armed: below.)
ChoicesAreKept ==
    AllAnswered /\ (noteRow.deleted = Never \/ deed.what = "undo") =>
       CASE deed.what = "keep"  -> ~noteRow.gone /\ noteRow.exp = Never /\ ~noteRow.burn
         [] deed.what = "burn"  -> ~noteRow.gone /\ noteRow.exp = Never /\ noteRow.burn
         [] deed.what = "timer" -> noteRow.exp = deed.exp /\ ~noteRow.burn
                                     /\ (noteRow.gone => deed.exp + Grace < hour)
         [] deed.what = "undo"  -> noteRow.deleted = Never /\ (noteRow.gone => noteRow.exp + Grace < hour)
         [] OTHER               -> TRUE

\* Once its writes are answered, a modal nobody went behind shows the timer and
\* the flag the server has, whichever of them failed.
ModalShowsTheRow ==
    \A p \in Readers :
        LET m == modals[p] IN
        m.open /\ m.candid /\ pending[p] = <<>> =>
            /\ m.burn = noteRow.burn
            /\ m.exp = noteRow.exp \/ (m.armed /\ m.exp = Never /\ m.burn)

\* Not true of the code: a note spared in its modal is spared, whenever that was.
SparedSurvives ==
    deed.what = "keep" /\ deed.ok /\ pending[deed.page] = <<>> /\ (\A p \in Readers : pending[p] = <<>>)
        => noteRow.exp = Never /\ ~noteRow.gone

\* Not true of the code: a modal that says "Self-destructs after closing" is of
\* a note that does.
BannerIsTrue ==
    \A p \in Readers :
        LET m == modals[p] IN
        m.open /\ m.candid /\ m.shown /\ pending[p] = <<>> /\ m.initial /\ m.burn /\ m.exp = Never
            => noteRow.exp # Never

\* What burns is what was read or chosen to burn, and the page says so.
ReadersDecide == ReadIsBurnt /\ UnreadStands /\ ChoicesAreKept /\ ModalShowsTheRow
=============================================================================
