----------------------------- MODULE NoteDrafts -----------------------------
(***************************************************************************)
(* What a browser keeps of text that the server has not confirmed: one     *)
(* durable slot per editor (lib/draft.ts, useDraftRecovery.ts), written by *)
(* debounced flushes and by saves, emptied by confirmed saves and explicit *)
(* discards, offered for recovery by a toast (DraftToast.tsx).  Windows of *)
(* one browser share the slots and the session cookie, and nothing else:   *)
(* which slots are being edited or saved is known to one page only.        *)
(*                                                                         *)
(* A text is a number; 0 is what an editor shows when it opens.  Web       *)
(* Crypto is slow enough for a keystroke or an answer to overtake it, and  *)
(* fast enough to finish before a person opens the same slot again.        *)
(***************************************************************************)
EXTENDS Naturals, FiniteSets, Sequences

CONSTANTS Windows,   \* the open windows of the browser
          Accounts,  \* the accounts that sign in there
          Tier,      \* the tier the editors are of
          MaxText, MaxSlots, MaxTries, MaxTurns

ASSUME DraftAssumption ==
    /\ Tier \in {"note", "secret", "seal"}
    /\ {MaxText, MaxSlots, MaxTries, MaxTurns} \subseteq Nat
    /\ Windows \cap (0 .. MaxTries) = {}

VARIABLES drafts,    \* localStorage: what each slot holds
          forms,     \* the editor open in each window
          attempts,  \* the saves asked for
          flushes,   \* checkpoints being encrypted
          offers,    \* the recovery toasts of each window
          owners,    \* the account each page believes it is (activeAccountScope)
          cookie,    \* the account the browser is signed in as
          calls,     \* windows that have not heard a sign-out yet
          slotsMinted,    \* slots handed out
          turns,     \* editors opened, and session changes and reloads, so far
          gone       \* history: slots their editor discarded, not typed in since

draftVars == <<drafts, forms, attempts, flushes, offers, owners, cookie, calls,
               slotsMinted, turns, gone>>

Slots == 1 .. MaxSlots
Tries == 1 .. MaxTries
DraftTexts == 0 .. MaxText
NoText == MaxText + 1
Nobody == "nobody"
Encrypts == Tier # "note"

\* `same` names the saves and the toasts whose copy is byte for byte this one.
Draft == [text : DraftTexts, owner : Accounts \cup {Nobody}, clear : BOOLEAN,
          same : SUBSET (Tries \cup Windows)]
NoDraft == [text |-> NoText, owner |-> Nobody, clear |-> FALSE, same |-> {}]
Form == [slot : 0 .. MaxSlots, new : BOOLEAN, text : DraftTexts, base : DraftTexts,
         editing : BOOLEAN, cipher : DraftTexts \cup {NoText},
         submitted : DraftTexts \cup {NoText}, last : 0 .. MaxTries]
NoForm == [slot |-> 0, new |-> FALSE, text |-> 0, base |-> 0, editing |-> FALSE,
           cipher |-> NoText, submitted |-> NoText, last |-> 0]
Attempt == [stage : {"none", "asked", "settled"}, window : Windows, slot : Slots,
            text : DraftTexts, new : BOOLEAN, heard : BOOLEAN, waived : BOOLEAN]
Flush == [window : Windows, slot : Slots, text : DraftTexts, owner : Accounts \cup {Nobody},
          live : BOOLEAN]

DraftsInit ==
    /\ drafts = [s \in Slots |-> NoDraft]
    /\ forms = [w \in Windows |-> NoForm]
    /\ attempts = <<>>
    /\ flushes = {}
    /\ offers = [w \in Windows |-> [s \in Slots |-> NoText]]
    /\ cookie \in Accounts
    /\ owners = [w \in Windows |-> cookie]
    /\ calls = {} /\ slotsMinted = 0 /\ turns = 0 /\ gone = {}

-----------------------------------------------------------------------------
(* Reading and writing slots *)

WrittenKeeping(disk, s, text, owner, by) ==
    [disk EXCEPT ![s] = [text |-> text, owner |-> owner, clear |-> ~Encrypts,
                         same |-> by \cup disk[s].same]]
\* A new text in a slot: no copy anybody held is this one, but the writer's.
Written(disk, s, text, owner, by) ==
    [disk EXCEPT ![s] = [text |-> text, owner |-> owner, clear |-> ~Encrypts, same |-> by]]

\* saveDraft: a draft of another account is refused, one of nobody is claimed.
Stored(disk, w, s, text, owner, by) ==
    IF owners[w] # Nobody /\ owner # Nobody /\ owner # owners[w] THEN disk
    ELSE Written(disk, s, text, IF owner = Nobody THEN owners[w] ELSE owner, by)

ClearAlways(disk, s, who) == [disk EXCEPT ![s] = NoDraft]
\* clearDraft of a draft: only while the slot still holds exactly that draft.
ClearIfSame(disk, s, who) ==
    IF who \in disk[s].same THEN [disk EXCEPT ![s] = NoDraft] ELSE disk

Cleared(disk) == [s \in Slots |-> NoDraft]

\* The saves of this page that are not settled keep their slot from being offered.
PendingSlots(w) == {attempts[a].slot : a \in {b \in DOMAIN attempts :
                   attempts[b].stage = "asked" /\ attempts[b].window = w /\ attempts[b].heard}}
Dirty(f) == f.editing /\ f.text # f.base
Recoverable(w, disk) ==
    {s \in Slots : /\ disk[s] # NoDraft /\ disk[s].owner = owners[w]
                   /\ s \notin PendingSlots(w)
                   /\ ~(Dirty(forms[w]) /\ forms[w].slot = s)}

-----------------------------------------------------------------------------
(* Typing and checkpoints *)

Turned == turns < MaxTurns /\ turns' = turns + 1

OpenForm(w, new) ==
    /\ Turned /\ forms[w] = NoForm /\ slotsMinted < MaxSlots /\ owners[w] # Nobody
    /\ slotsMinted' = slotsMinted + 1
    /\ forms' = [forms EXCEPT ![w] = [NoForm EXCEPT !.slot = slotsMinted + 1, !.new = new,
                                                    !.editing = new]]
    /\ UNCHANGED <<drafts, attempts, flushes, offers, owners, cookie, calls, gone>>

StartEdit(w) ==
    /\ Turned /\ forms[w] # NoForm /\ ~forms[w].editing
    /\ forms' = [forms EXCEPT ![w].editing = TRUE]
    /\ UNCHANGED <<drafts, attempts, flushes, offers, owners, cookie, calls, slotsMinted, gone>>

Type(w, text) ==
    /\ forms[w].editing /\ text # forms[w].text
    /\ forms' = [forms EXCEPT ![w].text = text]
    /\ gone' = gone \ {forms[w].slot}
    /\ UNCHANGED <<drafts, attempts, flushes, offers, owners, cookie, calls, slotsMinted, turns>>

\* flush() has something to do: unsaved typing that is not what was just submitted.
Worth(f) == Dirty(f) /\ f.text # f.submitted

\* What flush() writes at once: the text, or the ciphertext made last.
FlushNow(disk, w) ==
    LET f == forms[w] IN
    IF ~Worth(f) THEN disk
    ELSE IF ~Encrypts THEN Stored(disk, w, f.slot, f.text, owners[w], {})
    ELSE IF f.cipher # NoText THEN Stored(disk, w, f.slot, f.cipher, owners[w], {})
    ELSE disk

\* And what it starts to encrypt, if the page lives on.
FlushLater(w) ==
    IF Encrypts /\ Worth(forms[w])
    THEN {[window |-> w, slot |-> forms[w].slot, text |-> forms[w].text,
           owner |-> owners[w], live |-> TRUE]}
    ELSE {}

\* The debounce ran out, or the window was hidden.
Pause(w) ==
    /\ Worth(forms[w])
    /\ FlushLater(w) \cap flushes = {}
    /\ drafts' = FlushNow(drafts, w)
    /\ flushes' = flushes \cup FlushLater(w)
    /\ UNCHANGED <<forms, attempts, offers, owners, cookie, calls, slotsMinted, turns, gone>>

LandsAnyway(f) == TRUE
\* The slot was not emptied or saved while the checkpoint was being encrypted.
Lands(f) == f.live

Checkpointed(f) ==
    /\ flushes' = flushes \ {f}
    /\ drafts' = IF Lands(f) THEN Stored(drafts, f.window, f.slot, f.text, f.owner, {}) ELSE drafts
    /\ forms' = IF forms[f.window].slot = f.slot
                THEN [forms EXCEPT ![f.window].cipher = f.text] ELSE forms
    /\ UNCHANGED <<attempts, offers, owners, cookie, calls, slotsMinted, turns, gone>>

\* A new era of an editor: its checkpoints in flight will not land.
NewEra(w) ==
    {IF f.window = w /\ f.slot = forms[w].slot THEN [f EXCEPT !.live = FALSE] ELSE f :
        f \in flushes}

-----------------------------------------------------------------------------
(* Discarding and leaving *)

\* History: the saves whose durable copy somebody gives up.
Waive(slots) == [a \in DOMAIN attempts |->
                    [attempts[a] EXCEPT !.waived = @ \/ attempts[a].slot \in slots]]
OnlyHere(w) == /\ \A v \in Windows \ {w} : forms[v].slot # forms[w].slot
               /\ \A f \in flushes : f.slot = forms[w].slot => f.window = w
Discards(w) == IF OnlyHere(w) THEN gone \cup {forms[w].slot} ELSE gone

\* Cancel in an editor of a note: discard, and back to what was saved.
Cancel(w) ==
    LET f == forms[w] IN
    /\ f.editing /\ ~f.new
    /\ drafts' = [drafts EXCEPT ![f.slot] = NoDraft]
    /\ flushes' = NewEra(w)
    /\ forms' = [forms EXCEPT ![w] = [f EXCEPT !.text = f.base, !.editing = FALSE,
                                               !.submitted = NoText]]
    /\ gone' = Discards(w)
    /\ attempts' = Waive({f.slot})
    /\ UNCHANGED <<offers, owners, cookie, calls, slotsMinted, turns>>

\* Closing: unsaved typing is discarded after a confirmation; without any, nothing is
\* emptied.
CloseForm(w) ==
    LET f == forms[w] IN
    /\ f # NoForm
    /\ IF Dirty(f)
       THEN /\ drafts' = [drafts EXCEPT ![f.slot] = NoDraft]
            /\ flushes' = NewEra(w)
            /\ gone' = Discards(w)
            /\ attempts' = Waive({f.slot})
       ELSE UNCHANGED <<drafts, flushes, gone, attempts>>
    /\ forms' = [forms EXCEPT ![w] = NoForm]
    /\ UNCHANGED <<offers, owners, cookie, calls, slotsMinted, turns>>

\* Going to another page of the app unmounts the editor, which flushes.
LeaveForm(w) ==
    /\ forms[w] # NoForm
    /\ drafts' = FlushNow(drafts, w)
    /\ flushes' = flushes \cup FlushLater(w)
    /\ forms' = [forms EXCEPT ![w] = NoForm]
    /\ UNCHANGED <<attempts, offers, owners, cookie, calls, slotsMinted, turns, gone>>

-----------------------------------------------------------------------------
(* Saving *)

SaveAttempt(w, text) == [stage |-> "asked", window |-> w, slot |-> forms[w].slot, text |-> text,
                  new |-> forms[w].new, heard |-> TRUE, waived |-> FALSE]

\* An editor's save: the checkpoint first, then the request, detached from the editor.
Saving(w, text, form) ==
    LET a == Len(attempts) + 1 IN
    /\ a <= MaxTries
    /\ attempts' = Append(attempts, SaveAttempt(w, text))
    /\ drafts' = Stored(drafts, w, forms[w].slot, text, owners[w], {a})
    /\ flushes' = NewEra(w)
    /\ forms' = [forms EXCEPT ![w] = form]
    /\ gone' = gone \ {forms[w].slot}
    /\ UNCHANGED <<offers, owners, cookie, calls, slotsMinted, turns>>

Sealed(text) == IF Encrypts THEN text ELSE NoText
Submits(f, text) ==
    [f EXCEPT !.text = text, !.editing = FALSE, !.submitted = text, !.cipher = Sealed(text),
              !.last = Len(attempts) + 1]
InFlight(w) == \E a \in DOMAIN attempts :
    attempts[a].stage = "asked" /\ attempts[a].window = w /\ attempts[a].heard
               /\ attempts[a].slot = forms[w].slot

\* Save.  A form for a new note closes; the editor of a note stays, no longer editing.
\* Only a plain note's Save waits for its previous answer.
Save(w) ==
    LET f == forms[w] IN
    /\ f.editing /\ f.text # 0
    /\ Encrypts \/ ~InFlight(w)
    /\ Saving(w, f.text, IF f.new THEN NoForm ELSE Submits(f, f.text))

\* A checkbox ticked while only viewing is saved at once.
Tick(w, text) ==
    LET f == forms[w] IN
    /\ f # NoForm /\ ~f.editing /\ text # f.text
    /\ Saving(w, text, Submits(f, text))

\* The form that asked is still open, and has asked nothing since.
Listening(a) == forms[attempts[a].window].last = a

\* Editors of one note send in order; requests for new notes do not wait.
Turn(a) ==
    /\ attempts[a].stage = "asked"
    /\ attempts[a].new \/ \A b \in DOMAIN attempts :
          (b < a /\ attempts[b].window = attempts[a].window /\ ~attempts[b].new)
              => attempts[b].stage = "settled"

\* Toasts for drafts no longer there go; the recoverable ones are shown.
Refreshed(w, disk) ==
    [s \in Slots |-> IF s \in Recoverable(w, disk) THEN disk[s].text
                     ELSE IF disk[s] = NoDraft THEN NoText ELSE offers[w][s]]
Shown(w, disk) ==
    [s \in Slots |-> IF s \in Recoverable(w, disk)
                     THEN [disk[s] EXCEPT !.same = @ \cup {w}] ELSE disk[s]]

\* An answer its editor hears counts as typing there: it changes what is unsaved.
Settles(a) ==
    /\ attempts' = [attempts EXCEPT ![a].stage = "settled", ![a].text = 0, ![a].new = FALSE,
                                    ![a].heard = FALSE, ![a].waived = FALSE]
    /\ gone' = IF Listening(a) THEN gone \ {attempts[a].slot} ELSE gone

Forgot(a) == [drafts EXCEPT ![attempts[a].slot].same = @ \ {a}]

\* The answer of a save that was made: the draft is no longer needed.
Succeeds(a) ==
    LET t == attempts[a]
        left == ClearIfSame(drafts, t.slot, a) IN
    /\ Turn(a) /\ cookie # Nobody
    /\ Settles(a)
    /\ IF t.heard
       THEN /\ drafts' = left
            /\ forms' = IF Listening(a) THEN [forms EXCEPT ![t.window].base = t.text] ELSE forms
       ELSE /\ UNCHANGED forms
            /\ drafts' = Forgot(a)
    /\ UNCHANGED <<flushes, offers, owners, cookie, calls, slotsMinted, turns>>

ReopensWith(f, text) == [f EXCEPT !.editing = TRUE, !.text = text]
\* The editor opens again; a Seal's is filled once more with what it had asked to save.
Reopens(f, text) ==
    [f EXCEPT !.editing = TRUE, !.text = IF Tier = "seal" THEN text ELSE @]

\* The answer of a save that failed: the editor reopens, and a toast offers the draft as
\* the page holds it, in the clear.
Fails(a) ==
    LET t == attempts[a] IN
    /\ Turn(a)
    /\ Settles(a)
    /\ IF t.heard
       THEN /\ forms' = IF Listening(a) THEN [forms EXCEPT ![t.window] = Reopens(@, t.text)]
                        ELSE forms
            /\ IF owners[t.window] # Nobody
               THEN /\ offers' = [offers EXCEPT ![t.window][t.slot] = t.text]
                    /\ drafts' = IF ~Encrypts /\ a \in drafts[t.slot].same
                                 THEN [drafts EXCEPT ![t.slot].same = (@ \ {a}) \cup {t.window}]
                                 ELSE [drafts EXCEPT ![t.slot].same = @ \ {a, t.window}]
               ELSE /\ UNCHANGED offers
                    /\ drafts' = Forgot(a)
       ELSE /\ UNCHANGED <<forms, offers>>
            /\ drafts' = Forgot(a)
    /\ UNCHANGED <<flushes, owners, cookie, calls, slotsMinted, turns>>

-----------------------------------------------------------------------------
(* Recovery *)

\* The page is shown, comes back, or a save was confirmed.
Look(w) ==
    /\ owners[w] # Nobody
    /\ offers' = [offers EXCEPT ![w] = Refreshed(w, drafts)]
    /\ drafts' = Shown(w, drafts)
    /\ UNCHANGED <<forms, attempts, flushes, owners, cookie, calls, slotsMinted, turns, gone>>

\* Continue: what is on disk now, or else what the toast captured, opens as a new note in
\* the same slot.  It stays durable until that note is saved.
Continue(w, s) ==
    LET found == drafts[s] # NoDraft /\ drafts[s].owner = owners[w]
        text == IF found THEN drafts[s].text ELSE offers[w][s] IN
    /\ Turned /\ offers[w][s] # NoText /\ owners[w] # Nobody
    /\ forms[w] = NoForm /\ s \notin {f.slot : f \in flushes}
    /\ drafts' = IF found THEN drafts
                 ELSE [drafts EXCEPT ![s] = [text |-> text, owner |-> owners[w],
                                             clear |-> TRUE, same |-> {}]]
    /\ forms' = [forms EXCEPT ![w] = [NoForm EXCEPT !.slot = s, !.new = TRUE, !.text = text,
                                                    !.editing = TRUE]]
    /\ offers' = [offers EXCEPT ![w][s] = NoText]
    /\ gone' = gone \ {s}
    /\ UNCHANGED <<attempts, flushes, owners, cookie, calls, slotsMinted>>

\* Dismiss empties the slot if it still holds what this toast offered.
Dismiss(w, s) ==
    /\ offers[w][s] # NoText /\ s \notin {f.slot : f \in flushes}
    /\ drafts' = ClearIfSame(drafts, s, w)
    /\ offers' = [offers EXCEPT ![w][s] = NoText]
    /\ IF w \in drafts[s].same
       THEN attempts' = Waive({s})
       ELSE UNCHANGED attempts
    /\ UNCHANGED <<forms, flushes, gone, owners, cookie, calls, slotsMinted, turns>>

-----------------------------------------------------------------------------
(* Sessions and pages *)

\* Sign out: every draft of the browser goes, the cookie too, and the other pages hear.
SignOutHere(w) ==
    /\ Turned /\ cookie # Nobody /\ owners[w] = cookie /\ forms[w] = NoForm
    /\ drafts' = Cleared(drafts)
    /\ cookie' = Nobody
    /\ calls' = Windows \ {w}
    /\ attempts' = Waive(Slots)
    /\ UNCHANGED <<forms, flushes, offers, owners, slotsMinted, gone>>

\* A page that hears it clears the drafts once more and signs out.
HearSignOut(w) ==
    /\ w \in calls
    /\ calls' = calls \ {w}
    /\ drafts' = Cleared(drafts)
    /\ attempts' = Waive(Slots)
    /\ cookie' = Nobody
    /\ UNCHANGED <<forms, flushes, offers, owners, slotsMinted, turns, gone>>

\* The session ends at the server: drafts stay.
SessionEnds ==
    /\ Turned /\ cookie # Nobody
    /\ cookie' = Nobody
    /\ UNCHANGED <<drafts, forms, attempts, flushes, offers, owners, calls, slotsMinted, gone>>

SignInHere(u) ==
    /\ Turned /\ cookie = Nobody /\ calls = {} /\ flushes = {}
    /\ cookie' = u
    /\ UNCHANGED <<drafts, forms, attempts, flushes, offers, owners, calls, slotsMinted, gone>>

Claimed(disk, u) ==
    [s \in Slots |-> IF disk[s] # NoDraft /\ disk[s].owner = Nobody
                     THEN [disk[s] EXCEPT !.owner = u, !.same = {}] ELSE disk[s]]

\* A page learns who is signed in: the editor of a note goes with the list, a form for a
\* new note stays; drafts of nobody are taken over.
LearnAccount(w) ==
    LET unmounts == forms[w] # NoForm /\ ~forms[w].new
        left == IF unmounts THEN FlushNow(drafts, w) ELSE drafts IN
    /\ owners[w] # cookie /\ w \notin calls
    /\ owners' = [owners EXCEPT ![w] = cookie]
    /\ drafts' = IF cookie = Nobody THEN left ELSE Claimed(left, cookie)
    /\ forms' = IF unmounts THEN [forms EXCEPT ![w] = NoForm] ELSE forms
    /\ flushes' = IF unmounts THEN flushes \cup FlushLater(w) ELSE flushes
    /\ offers' = [offers EXCEPT ![w] = [s \in Slots |-> NoText]]
    /\ UNCHANGED <<attempts, cookie, calls, slotsMinted, turns, gone>>

Deafened(w) == [a \in DOMAIN attempts |-> [attempts[a] EXCEPT !.heard = @ /\ attempts[a].window # w]]

\* The page is closed and opened again: only the synchronous half of a flush is written,
\* and its saves go on without anybody to hear their answers.
Reload(w) ==
    /\ Turned
    /\ drafts' = FlushNow(drafts, w)
    /\ forms' = [forms EXCEPT ![w] = NoForm]
    /\ attempts' = Deafened(w)
    /\ flushes' = {f \in flushes : f.window # w}
    /\ offers' = [offers EXCEPT ![w] = [s \in Slots |-> NoText]]
    /\ owners' = [owners EXCEPT ![w] = cookie]
    /\ calls' = calls \ {w}
    /\ UNCHANGED <<cookie, slotsMinted, gone>>

-----------------------------------------------------------------------------
EditorStep(w) ==
    \/ \E new \in BOOLEAN : OpenForm(w, new)
    \/ StartEdit(w)
    \/ \E text \in DraftTexts : Type(w, text) \/ Tick(w, text)
    \/ Pause(w) \/ Cancel(w) \/ CloseForm(w) \/ LeaveForm(w) \/ Save(w)
AnswerStep == \E a \in DOMAIN attempts : Succeeds(a) \/ Fails(a)
ToastStep(w) == Look(w) \/ (\E s \in Slots : Continue(w, s) \/ Dismiss(w, s))
SessionStep ==
    \/ \E w \in Windows : SignOutHere(w) \/ HearSignOut(w) \/ LearnAccount(w) \/ Reload(w)
    \/ SessionEnds
    \/ \E u \in Accounts : SignInHere(u)

DraftsNext ==
    \/ \E w \in Windows : EditorStep(w) \/ ToastStep(w)
    \/ \E f \in flushes : Checkpointed(f)
    \/ AnswerStep
    \/ SessionStep

DraftsSpec == DraftsInit /\ [][DraftsNext]_draftVars

-----------------------------------------------------------------------------
(* Every slot holds a draft of the shape the readers expect, and a save that  *)
(* a slot is said to repeat was asked for that slot (draft.ts).               *)
DraftsTypeOK ==
    /\ \A s \in Slots : drafts[s] = NoDraft \/ drafts[s] \in Draft
    /\ \A w \in Windows : forms[w] \in Form
    /\ \A a \in DOMAIN attempts : a \in Tries /\ attempts[a] \in Attempt
    /\ flushes \subseteq Flush
    /\ offers \in [Windows -> [Slots -> DraftTexts \cup {NoText}]]
    /\ owners \in [Windows -> Accounts \cup {Nobody}]
    /\ \A s \in Slots : \A a \in drafts[s].same \ Windows :
          attempts[a].slot = s /\ attempts[a].text = drafts[s].text

(* A slot whose editor was cancelled or closed with a confirmed discard, and  *)
(* that is open in no other window, stays empty until somebody types or saves *)
(* there again, or hears the answer of an earlier save: no encryption in flight brings the text back                  *)
(* (useDraftRecovery.ts, the generation counter).                             *)
DiscardedStaysDiscarded == \A s \in gone : drafts[s] = NoDraft

(* While a save is unanswered, what it asked to save, or something typed      *)
(* later in the same slot, is durable in this browser, unless it was          *)
(* discarded, dismissed, signed out of or saved once more: answers of older   *)
(* saves and other windows never take it away (draft.ts clearDraft).          *)
UnansweredSaveIsOnDisk ==
    \A a \in DOMAIN attempts :
        (/\ attempts[a].stage = "asked" /\ attempts[a].heard /\ ~attempts[a].waived
         /\ \A b \in DOMAIN attempts : b > a => attempts[b].slot # attempts[a].slot)
            => drafts[attempts[a].slot] # NoDraft

Answers == \E a \in DOMAIN attempts : attempts'[a].stage # attempts[a].stage

(* An answer empties only a slot that holds what was saved: "An old request   *)
(* must never erase newer typing in the same form" (draft.ts clearDraft).     *)
AnswersEraseOnlyWhatIsSaved ==
    [][Answers => \A s \in Slots : (drafts[s] # NoDraft /\ drafts'[s] = NoDraft) =>
          \E a \in DOMAIN attempts :
              /\ attempts[a].stage # attempts'[a].stage
              /\ attempts[a].slot = s /\ attempts[a].text = drafts[s].text]_draftVars

(* The answer of a save leaves alone what is being typed when it comes.       *)
AnswersLeaveTypingAlone ==
    [][Answers => \A w \in Windows :
          (Dirty(forms[w]) /\ forms'[w] # NoForm) => forms'[w].text = forms[w].text]_draftVars

(* What the user typed is neither lost before it is saved nor brought back    *)
(* after it was thrown away.                                                  *)
DraftsAreSafe == [](UnansweredSaveIsOnDisk /\ DiscardedStaysDiscarded) /\ AnswersEraseOnlyWhatIsSaved
=============================================================================
