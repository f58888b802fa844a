------------------------------ MODULE VaultLock ------------------------------
(* The lock of the vault in one browser tab, and the note editor that lives   *)
(* under it: src/src/contexts/EncryptionContext.tsx, hooks/useAutoLock.ts,    *)
(* useEncryptionGuard.tsx, useRehydratingEncryptionAction.ts, the prompt for  *)
(* the passphrase, and the Secret and Seal editors.                           *)
(*                                                                            *)
(* The master key is in memory or it is not (lock.key).  It is put together   *)
(* from the share of the tab (session storage, lock.share) and the material   *)
(* of the server; both are numbered by the passphrase they belong to, and a   *)
(* passphrase is its number.  A text is a number, 0 the empty one.            *)
EXTENDS Naturals, Sequences, SequencesExt

CONSTANTS
  Tiers,      \* which editors a behaviour may be about: "secret", "seal"
  MaxText,    \* texts a note may have are 0 .. MaxText
  MaxChanges, \* changes of the passphrase made on another device
  MaxFaults,  \* requests that fail
  MaxActs,    \* steps of the user
  MaxSaves,   \* saves under way at once
  Kept,       \* the device keeps a copy of the material ("Unlock without a network")
  Patient     \* nothing disturbs a key request while it is under way

ASSUME LockAssumption ==
  /\ Tiers \subseteq {"secret", "seal"}
  /\ {MaxText, MaxChanges, MaxFaults, MaxActs, MaxSaves} \subseteq Nat
  /\ MaxText < 9 /\ MaxChanges < 9
  /\ {Kept, Patient} \subseteq BOOLEAN

Nil == 9        \* no text, share, material, time: outside the numbers in use
NoAct == "none"  \* no action, no prompt, no stamp
NoGuard == [act |-> NoAct, text |-> Nil]
Texts == 0 .. MaxText
Passphrases == 0 .. MaxChanges
FullTime == 1

VARIABLES
  tier,   \* the tier of the note
  lock,   \* [key, fresh, soft, share, stamp, hidden]; hard records a hard lock no passphrase has ended
  server, \* [pass, body]: the passphrase in force, the text of the note's row
  disk,   \* the material kept on the device
  asks,   \* key requests without a passphrase, by what they are for
  prompt, \* the passphrase prompt
  guard,  \* the action waiting for the prompt
  wish,   \* the action waiting for a key request
  editor, \* the open note
  sends,  \* saves under way, oldest first
  wanted, \* what the user pressed for and has neither got nor taken back
  acts, faults

lockVars == <<tier, lock, server, disk, asks, prompt, guard, wish, editor, sends, wanted, acts, faults>>

Seal == tier = "seal"

(* SealNoteModal.tsx, SecretNoteModal.tsx: the state of an open note.  `due`  *)
(* says that a hard lock came after it was mounted (lockSerial).              *)
Mounted(note, content) ==
  [open |-> TRUE, editing |-> FALSE, note |-> note, content |-> content, base |-> content,
   timer |-> Nil, history |-> FALSE, due |-> FALSE, opening |-> Nil, after |-> FALSE]

NoEditor == [Mounted(0, Nil) EXCEPT !.open = FALSE]

NoPrompt == [by |-> NoAct, material |-> Nil, typed |-> Nil]

(* What the list shows of the note: the row, under the saves not yet answered. *)
Cached == IF sends = <<>> THEN server.body ELSE Last(sends).text

LockInit ==
  /\ tier \in Tiers
  /\ lock = [key |-> FALSE, fresh |-> FALSE, soft |-> FALSE, share |-> Nil, stamp |-> NoAct, hidden |-> FALSE,
             hard |-> FALSE]
  /\ server \in {[pass |-> 0, body |-> x] : x \in {0, 1} \cap Texts}
  /\ disk = Nil
  /\ asks = [k \in {"mount", "reveal", "action"} |-> Nil]
  /\ prompt = NoPrompt
  /\ guard = NoGuard
  /\ wish = NoAct
  /\ editor = NoEditor
  /\ sends = <<>>
  /\ wanted = {}
  /\ acts = 0
  /\ faults = 0

Asking == prompt.typed # Nil \/ \E k \in DOMAIN asks : asks[k] # Nil

(* ------------------------------------------------------------------------ *)
(* The effects of the editor, run after every change of the lock             *)

(* handleEncrypt: the Seal goes back to its cover. *)
Encrypted(e) == [e EXCEPT !.content = Nil, !.editing = FALSE, !.history = FALSE, !.timer = Nil]

(* Mutant of Effects: a soft lock re-encrypts only what is in view at the     *)
(* moment it falls, not a text that arrives later.                            *)
EffectsAtLock(l, e) ==
  LET looked == IF l.key THEN e ELSE [e EXCEPT !.history = FALSE]
  IN  IF e.due /\ ~e.editing THEN NoEditor
      ELSE IF Seal /\ ~l.key /\ l.soft /\ ~e.editing /\ e.content # Nil /\ lock.key
           THEN Encrypted(looked) ELSE looked

(* A hard lock closes an editor that is not editing; a lock closes history;   *)
(* a soft lock re-encrypts a Seal being viewed, whenever its text arrives.    *)
Effects(l, e) ==
  LET looked == IF l.key THEN e ELSE [e EXCEPT !.history = FALSE]
  IN  IF e.due /\ ~e.editing THEN NoEditor
      ELSE IF Seal /\ ~l.key /\ l.soft /\ ~e.editing /\ e.content # Nil
           THEN Encrypted(looked) ELSE looked

(* useDraftRecovery: the answers of the saves of an editor that is gone, or   *)
(* has saved again since, no longer reach it.                                 *)
Unheard(s) == [i \in DOMAIN s |-> [s[i] EXCEPT !.heard = FALSE]]

(* What becomes of the editor, its saves and its pending action when it moves *)
(* to e under the lock l. *)
Settles(l, e) ==
  LET to == Effects(l, e)
  IN  /\ lock' = l
      /\ editor' = to
      /\ sends' = IF to.open THEN sends ELSE Unheard(sends)

(* ------------------------------------------------------------------------ *)
(* Locking *)

(* Mutant of HardLocked: the lock leaves the share in session storage. *)
HoldsShare(l) == [l EXCEPT !.key = FALSE, !.fresh = FALSE, !.soft = FALSE, !.stamp = NoAct,
                         !.hard = TRUE]

(* EncryptionContext.lock and softLock. *)
HardLocked(l) == [l EXCEPT !.key = FALSE, !.fresh = FALSE, !.share = Nil, !.soft = FALSE, !.stamp = NoAct,
                           !.hard = TRUE]
SoftLocked(l) == [l EXCEPT !.key = FALSE, !.fresh = FALSE, !.soft = TRUE, !.stamp = "young"]
Marked == [editor EXCEPT !.due = editor.open]

LocksHard ==
  /\ Settles(HardLocked(lock), Marked)
  /\ prompt' = [prompt EXCEPT !.material = Nil]

Quiet == ~lock.fresh
Step == acts < MaxActs /\ acts' = acts + 1

(* LockFab: the Lock button. *)
PressLock ==
  /\ Quiet /\ Step /\ lock.key /\ prompt.by = NoAct
  /\ asks["reveal"] = Nil
  /\ Patient => ~Asking
  /\ LocksHard
  /\ UNCHANGED <<tier, server, disk, asks, guard, wish, wanted, faults>>

(* useAutoLock: five minutes without input, or the machine slept. *)
Inactivity ==
  /\ Quiet /\ lock.key
  /\ Patient => ~Asking
  /\ LocksHard
  /\ UNCHANGED <<tier, server, disk, asks, guard, wish, wanted, acts, faults>>

(* A soft lock grows old ... *)
Ages ==
  /\ lock.stamp = "young"
  /\ Patient => ~Asking
  /\ lock' = [lock EXCEPT !.stamp = "old"]
  /\ UNCHANGED <<tier, server, disk, asks, prompt, guard, wish, editor, sends, wanted, acts, faults>>

(* ... and becomes a hard one. *)
Escalate ==
  /\ Quiet /\ lock.soft /\ lock.stamp = "old"
  /\ LocksHard
  /\ UNCHANGED <<tier, server, disk, asks, guard, wish, wanted, acts, faults>>

(* Mutant of HidesAs: a page that resumed by itself after a reload, and still *)
(* counts as softly locked, is not locked again.                              *)
HidesUnlessSoft(l) == IF l.key /\ ~l.soft THEN SoftLocked(l) ELSE l

(* The tab is hidden: a soft lock, if there is something to lock. *)
HidesAs(l) == IF l.key THEN SoftLocked(l) ELSE l

Hide ==
  /\ Quiet /\ Step /\ ~lock.hidden
  /\ Patient => ~Asking
  /\ Settles(HidesAs([lock EXCEPT !.hidden = TRUE]), editor)
  /\ UNCHANGED <<tier, server, disk, asks, prompt, guard, wish, wanted, faults>>

Unhide ==
  /\ lock.hidden
  /\ lock' = [lock EXCEPT !.hidden = FALSE]
  /\ UNCHANGED <<tier, server, disk, asks, prompt, guard, wish, editor, sends, wanted, acts, faults>>

(* A reload keeps the share, the stamp and the disk; with a share the lock    *)
(* starts soft, and unless the user had locked it a silent request follows.   *)
ReloadPage ==
  /\ Quiet /\ Step /\ ~lock.hidden
  /\ lock' = [lock EXCEPT !.key = FALSE, !.soft = lock.share # Nil]
  /\ asks' = [k \in DOMAIN asks |->
                IF k = "mount" /\ lock.stamp = NoAct /\ lock.share # Nil THEN lock.share ELSE Nil]
  /\ prompt' = NoPrompt
  /\ guard' = NoGuard
  /\ wish' = NoAct
  /\ editor' = NoEditor
  /\ sends' = Unheard(sends)
  /\ wanted' = {}
  /\ UNCHANGED <<tier, server, disk, faults>>

-----------------------------------------------------------------------------
(* Asking for the key without a passphrase (rehydrate) *)

(* The key arrives: what waits for it runs next (RunGuarded, RunWished). *)
KeyArrives(l, share) ==
  [l EXCEPT !.key = TRUE, !.fresh = TRUE, !.soft = FALSE, !.stamp = NoAct, !.share = share]

(* useEncryptionGuard.execute: the passphrase is asked for when there is no key. *)
Prompted(by) == [by |-> by, material |-> Nil, typed |-> Nil]

(* rehydrate refuses an aged lock, which becomes a hard one, and an absent share. *)
MayAsk == lock.share # Nil /\ lock.stamp # "old"

(* reveal (NoteContentVeil) and handleUnlock (LockFab). *)
Reveal ==
  /\ Quiet /\ Step /\ ~lock.hidden /\ ~lock.key /\ prompt.by = NoAct
  /\ asks["reveal"] = Nil
  /\ Patient => ~Asking
  /\ IF lock.soft /\ MayAsk
     THEN /\ asks' = [asks EXCEPT !["reveal"] = lock.share]
          /\ UNCHANGED <<lock, prompt, editor, sends>>
     ELSE /\ prompt' = Prompted("reveal")
          /\ IF lock.soft /\ lock.stamp = "old"
             THEN Settles(HardLocked(lock), Marked)
             ELSE UNCHANGED <<lock, editor, sends>>
          /\ UNCHANGED asks
  /\ UNCHANGED <<tier, server, disk, guard, wish, wanted, faults>>

(* What an answer gives to a waiting request when the key cannot be had. *)
Refuses(k) ==
  CASE k = "mount" -> UNCHANGED <<prompt, guard, wish>>
    [] k = "reveal" -> /\ prompt' = IF prompt.by = NoAct THEN Prompted("reveal") ELSE prompt
                       /\ UNCHANGED <<guard, wish>>
    [] k = "action" ->
         IF wish = NoAct THEN UNCHANGED <<prompt, guard, wish>>
         ELSE /\ wish' = NoAct
              /\ guard' = [act |-> wish, text |-> editor.content]
              /\ prompt' = Prompted("guard")

(* resolveMaterial: the answer of the server wins and renews the kept copy.   *)
(* reconstructMek: the shares must belong together, or the tab's is cleared.  *)
AskAnswered(k) ==
  /\ Quiet /\ asks[k] # Nil
  /\ asks' = [asks EXCEPT ![k] = Nil]
  /\ disk' = IF Kept THEN server.pass ELSE Nil
  /\ IF asks[k] = server.pass
     THEN /\ lock' = IF k = "mount" THEN [lock EXCEPT !.key = TRUE, !.fresh = TRUE]
                     ELSE KeyArrives(lock, lock.share)
          /\ UNCHANGED <<prompt, guard, wish>>
     ELSE /\ lock' = [lock EXCEPT !.share = Nil]
          /\ Refuses(k)
  /\ UNCHANGED <<tier, server, editor, sends, wanted, acts, faults>>

(* The request fails: the copy on the device answers, if there is one. *)
AskFails(k) ==
  /\ Quiet /\ asks[k] # Nil /\ faults < MaxFaults
  /\ faults' = faults + 1
  /\ asks' = [asks EXCEPT ![k] = Nil]
  /\ IF disk # Nil /\ asks[k] = disk
     THEN /\ lock' = IF k = "mount" THEN [lock EXCEPT !.key = TRUE, !.fresh = TRUE]
                     ELSE KeyArrives(lock, lock.share)
          /\ UNCHANGED <<prompt, guard, wish>>
     ELSE /\ lock' = IF disk # Nil THEN [lock EXCEPT !.share = Nil] ELSE lock
          /\ Refuses(k)
  /\ UNCHANGED <<tier, server, disk, editor, sends, wanted, acts>>

-----------------------------------------------------------------------------
(* The passphrase prompt *)

(* The material is fetched while the user types, and reused by later tries. *)
Preloaded ==
  /\ prompt.by # NoAct /\ prompt.material = Nil
  /\ prompt' = [prompt EXCEPT !.material = server.pass]
  /\ disk' = IF Kept THEN server.pass ELSE Nil
  /\ UNCHANGED <<tier, lock, server, asks, guard, wish, editor, sends, wanted, acts, faults>>

(* A minute on it is fetched again. *)
PreloadExpires ==
  /\ prompt.material # Nil /\ prompt.typed = Nil /\ prompt.material # server.pass
  /\ prompt' = [prompt EXCEPT !.material = Nil]
  /\ UNCHANGED <<tier, lock, server, disk, asks, guard, wish, editor, sends, wanted, acts, faults>>

Submit(p) ==
  /\ Quiet /\ Step /\ prompt.by # NoAct /\ prompt.typed = Nil /\ ~lock.hidden
  /\ prompt' = [prompt EXCEPT !.typed = p]
  /\ UNCHANGED <<tier, lock, server, disk, asks, guard, wish, editor, sends, wanted, faults>>

(* unlock: the right passphrase of the material it was given opens the vault. *)
UnlockAnswered ==
  /\ Quiet /\ prompt.typed # Nil /\ prompt.material # Nil
  /\ prompt.typed = prompt.material
  /\ lock' = [KeyArrives(lock, prompt.typed) EXCEPT !.hard = FALSE]
  /\ prompt' = NoPrompt
  /\ UNCHANGED <<tier, server, disk, asks, guard, wish, editor, sends, wanted, acts, faults>>

WrongPassphrase ==
  /\ prompt.typed # Nil /\ prompt.material # Nil
  /\ prompt.typed # prompt.material
  /\ prompt' = IF prompt.by = "left" THEN NoPrompt ELSE [prompt EXCEPT !.typed = Nil]
  /\ UNCHANGED <<tier, lock, server, disk, asks, guard, wish, editor, sends, wanted, acts, faults>>

(* Mutant of Dropped: closing the prompt leaves the action pending. *)
Forgotten == guard

(* handlePassphraseClose.  Closing does not stop an unlock under way. *)
Dropped == NoGuard

ClosePrompt ==
  /\ Quiet /\ Step /\ prompt.by \in {"reveal", "guard"}
  /\ prompt' = IF prompt.typed = Nil THEN NoPrompt ELSE [prompt EXCEPT !.by = "left"]
  /\ IF prompt.by = "guard"
     THEN /\ guard' = Dropped
          /\ wanted' = wanted \ {guard.act}
     ELSE UNCHANGED <<guard, wanted>>
  /\ UNCHANGED <<tier, lock, server, disk, asks, wish, editor, sends, faults>>

ChangedElsewhere ==
  /\ server.pass < MaxChanges
  /\ server' = [server EXCEPT !.pass = @ + 1]
  /\ UNCHANGED <<tier, lock, disk, asks, prompt, guard, wish, editor, sends, wanted, acts, faults>>

-----------------------------------------------------------------------------
(* What needs the key *)

(* performDecrypt: a Seal never written opens at once, as an empty text. *)
Deciphers(e, then) ==
  IF e.note = 0 THEN [e EXCEPT !.content = 0, !.history = then]
  ELSE [e EXCEPT !.opening = e.note, !.after = then]

(* performSave, and the save behind it (useDraftRecovery.save). *)
Sent(text) == Append(Unheard(sends), [text |-> text, heard |-> TRUE])

Performs(act, text) ==
  CASE act = "decrypt" ->
         /\ editor' = IF editor.open THEN Deciphers(editor, FALSE) ELSE editor
         /\ UNCHANGED sends
    [] act = "history" ->
         /\ editor' = IF ~editor.open THEN editor
                      ELSE IF Seal /\ editor.content = Nil THEN Deciphers(editor, TRUE)
                      ELSE [editor EXCEPT !.history = TRUE]
         /\ UNCHANGED sends
    [] act = "open" ->
         /\ editor' = Mounted(Cached, Cached)
         /\ UNCHANGED sends
    [] act = "save" ->
         IF text = Nil \/ ~editor.open THEN UNCHANGED <<editor, sends>>
         ELSE LET e == Effects(lock, [editor EXCEPT !.editing = FALSE])
              IN  /\ editor' = e
                  /\ sends' = IF e.open THEN Sent(text) ELSE Unheard(Sent(text))

MayPress == Quiet /\ ~lock.hidden /\ prompt.by = NoAct /\ wish = NoAct /\ ~editor.history
            /\ asks["action"] = Nil

(* useRehydratingEncryptionAction: after a soft lock the tab's share is tried *)
(* first and the action waits for the key; otherwise the guard decides.       *)
Protected(act, text) ==
  /\ wanted' = IF lock.key THEN wanted ELSE wanted \cup {act}
  /\ CASE lock.key ->
            /\ Performs(act, text)
            /\ Patient /\ lock.soft => ~Asking
            /\ asks' = IF lock.soft /\ MayAsk THEN [asks EXCEPT !["action"] = lock.share] ELSE asks
            /\ UNCHANGED <<lock, wish, guard, prompt>>
       [] ~lock.key /\ lock.soft /\ MayAsk ->
            /\ Patient => ~Asking
            /\ asks' = [asks EXCEPT !["action"] = lock.share]
            /\ wish' = act
            /\ UNCHANGED <<lock, editor, sends, guard, prompt>>
       [] ~lock.key /\ ~(lock.soft /\ MayAsk) ->
            /\ guard' = [act |-> act, text |-> text]
            /\ prompt' = Prompted("guard")
            /\ IF lock.soft /\ lock.stamp = "old" THEN Settles(HardLocked(lock), Marked)
               ELSE UNCHANGED <<lock, editor, sends>>
            /\ UNCHANGED <<asks, wish>>

(* handleDecrypt *)
PressDecrypt ==
  /\ MayPress /\ Step /\ Seal
  /\ editor.open /\ ~editor.editing /\ editor.content = Nil /\ editor.opening = Nil
  /\ Protected("decrypt", Nil)
  /\ UNCHANGED <<tier, server, disk, faults>>

(* handleSave *)
PressSave ==
  /\ MayPress /\ Step /\ editor.open /\ editor.editing /\ Len(sends) < MaxSaves
  /\ Protected("save", editor.content)
  /\ UNCHANGED <<tier, server, disk, faults>>

(* SecretsGrid.handleNoteClick: a Secret opens decrypted. *)
ClickSecret ==
  /\ MayPress /\ Step /\ ~Seal /\ ~editor.open
  /\ Protected("open", Nil)
  /\ UNCHANGED <<tier, server, disk, faults>>

(* SealsGrid: a Seal opens covered. *)
ClickSeal ==
  /\ MayPress /\ Step /\ Seal /\ ~editor.open
  /\ editor' = Mounted(Cached, Nil)
  /\ UNCHANGED <<tier, lock, server, disk, asks, prompt, guard, wish, sends, wanted, faults>>

(* openHistory goes to the guard alone. *)
OpenHistory ==
  /\ MayPress /\ Step /\ editor.open /\ ~editor.editing /\ editor.opening = Nil
  /\ IF lock.key THEN Performs("history", Nil) /\ UNCHANGED <<guard, prompt, wanted>>
     ELSE /\ guard' = [act |-> "history", text |-> Nil]
          /\ prompt' = Prompted("guard")
          /\ wanted' = wanted \cup {"history"}
          /\ UNCHANGED <<editor, sends>>
  /\ UNCHANGED <<tier, lock, server, disk, asks, wish, faults>>

(* The effects that wait for the key run once it is there; each action is     *)
(* cleared before it runs.                                                    *)
Cleared(act) == NoAct

RunGuarded ==
  /\ lock.fresh /\ guard # NoGuard
  /\ Performs(guard.act, guard.text)
  /\ guard' = [guard EXCEPT !.act = Cleared(@), !.text = Nil]
  /\ wanted' = wanted \ {guard.act}
  /\ prompt' = IF prompt.by = "guard" THEN NoPrompt ELSE prompt
  /\ UNCHANGED <<tier, lock, server, disk, asks, wish, acts, faults>>

RunWished ==
  /\ lock.fresh /\ guard = NoGuard /\ wish # NoAct
  /\ Performs(wish, editor.content)
  /\ wish' = Cleared(wish)
  /\ wanted' = wanted \ {wish}
  /\ UNCHANGED <<tier, lock, server, disk, asks, guard, prompt, acts, faults>>

RunNothing ==
  /\ lock.fresh /\ guard = NoGuard /\ wish = NoAct
  /\ lock' = [lock EXCEPT !.fresh = FALSE]
  /\ UNCHANGED <<tier, server, disk, asks, prompt, guard, wish, editor, sends, wanted, acts, faults>>

-----------------------------------------------------------------------------
(* The editor *)

(* The text arrives, whatever became of the lock since. *)
OpenSeal ==
  /\ Quiet /\ editor.opening # Nil
  /\ Settles(lock, [editor EXCEPT !.content = editor.opening, !.base = editor.opening, !.timer = FullTime,
                                  !.opening = Nil, !.history = editor.after, !.after = FALSE])
  /\ UNCHANGED <<tier, server, disk, asks, prompt, guard, wish, wanted, acts, faults>>

AtHand == Quiet /\ editor.open /\ ~editor.history /\ prompt.by = NoAct

EncryptNow ==
  /\ AtHand /\ Step /\ Seal /\ ~editor.editing /\ editor.content # Nil /\ editor.timer # Nil
  /\ editor' = Encrypted(editor)
  /\ UNCHANGED <<tier, lock, server, disk, asks, prompt, guard, wish, sends, wanted, faults>>

(* The countdown stands still while editing or in history. *)
CountDown ==
  /\ Quiet /\ editor.open /\ editor.timer # Nil /\ ~editor.editing /\ ~editor.history
  /\ editor' = IF editor.timer > 1 THEN [editor EXCEPT !.timer = @ - 1] ELSE Encrypted(editor)
  /\ UNCHANGED <<tier, lock, server, disk, asks, prompt, guard, wish, sends, wanted, acts, faults>>

Edit ==
  /\ AtHand /\ Step /\ ~editor.editing /\ editor.content # Nil
  /\ editor' = [editor EXCEPT !.editing = TRUE]
  /\ UNCHANGED <<tier, lock, server, disk, asks, prompt, guard, wish, sends, wanted, faults>>

(* The cover keeps the user from typing while the vault is locked. *)
TypeText(x) ==
  /\ AtHand /\ Step /\ editor.editing /\ lock.key /\ ~lock.hidden
  /\ x # editor.content
  /\ editor' = [editor EXCEPT !.content = x]
  /\ UNCHANGED <<tier, lock, server, disk, asks, prompt, guard, wish, sends, wanted, faults>>

(* A box ticked while viewing is saved at once. *)
TickBox(x) ==
  /\ AtHand /\ Step /\ ~editor.editing /\ lock.key /\ ~lock.hidden
  /\ editor.content \notin {Nil, 0, x} /\ x # 0 /\ Len(sends) < MaxSaves
  /\ editor' = [editor EXCEPT !.content = x]
  /\ sends' = Sent(x)
  /\ UNCHANGED <<tier, lock, server, disk, asks, prompt, guard, wish, wanted, faults>>

(* handleCancel *)
CancelEdit ==
  /\ AtHand /\ Step /\ editor.editing
  /\ Settles(lock, [editor EXCEPT !.editing = FALSE, !.content = editor.base])
  /\ UNCHANGED <<tier, server, disk, asks, prompt, guard, wish, wanted, faults>>

(* handleClose, after the question about unsaved changes. *)
CloseNote ==
  /\ AtHand /\ Step
  /\ editor' = NoEditor
  /\ sends' = Unheard(sends)
  /\ wish' = NoAct
  /\ wanted' = {}
  /\ UNCHANGED <<tier, lock, server, disk, asks, prompt, guard, faults>>

CloseHistory ==
  /\ Quiet /\ Step /\ editor.history
  /\ editor' = [editor EXCEPT !.history = FALSE]
  /\ UNCHANGED <<tier, lock, server, disk, asks, prompt, guard, wish, sends, wanted, faults>>

(* The answers of a save. *)
SaveSucceeds ==
  /\ Quiet /\ sends # <<>>
  /\ server' = [server EXCEPT !.body = Head(sends).text]
  /\ sends' = Tail(sends)
  /\ editor' = IF Head(sends).heard THEN [editor EXCEPT !.base = Head(sends).text] ELSE editor
  /\ UNCHANGED <<tier, lock, disk, asks, prompt, guard, wish, wanted, acts, faults>>

(* A failed save reopens the editor, of a Seal with the text that was not saved. *)
SaveFails ==
  /\ Quiet /\ sends # <<>> /\ faults < MaxFaults
  /\ faults' = faults + 1
  /\ sends' = Tail(sends)
  /\ editor' = IF ~Head(sends).heard THEN editor
               ELSE [editor EXCEPT !.editing = TRUE,
                                   !.content = IF Seal THEN Head(sends).text ELSE @]
  /\ UNCHANGED <<tier, lock, server, disk, asks, prompt, guard, wish, wanted, acts>>

-----------------------------------------------------------------------------
LockNext ==
  \/ PressLock \/ Inactivity \/ Ages \/ Escalate \/ Hide \/ Unhide \/ ReloadPage
  \/ Reveal
  \/ \E k \in DOMAIN asks : AskAnswered(k) \/ AskFails(k)
  \/ Preloaded \/ PreloadExpires \/ UnlockAnswered \/ WrongPassphrase \/ ClosePrompt
  \/ \E p \in Passphrases : Submit(p)
  \/ ChangedElsewhere
  \/ PressDecrypt \/ PressSave \/ ClickSecret \/ ClickSeal \/ OpenHistory
  \/ RunGuarded \/ RunWished \/ RunNothing
  \/ OpenSeal \/ EncryptNow \/ CountDown \/ Edit \/ CancelEdit \/ CloseNote \/ CloseHistory
  \/ \E x \in Texts : TypeText(x) \/ TickBox(x)
  \/ SaveSucceeds \/ SaveFails

LockSpec == LockInit /\ [][LockNext]_lockVars

-----------------------------------------------------------------------------
(* Properties *)

(* The state is well formed; an action that waits for the guard has its prompt *)
(* before it, and a Seal under its cover has no countdown.                     *)
LockTypeOK ==
  /\ lock \in [key : BOOLEAN, fresh : BOOLEAN, soft : BOOLEAN, share : {Nil} \cup Passphrases,
               stamp : {NoAct, "young", "old"}, hidden : BOOLEAN, hard : BOOLEAN]
  /\ server.pass \in Passphrases /\ server.body \in Texts
  /\ disk \in {Nil} \cup Passphrases
  /\ \A k \in DOMAIN asks : asks[k] \in {Nil} \cup Passphrases
  /\ wish \in {NoAct, "decrypt", "save", "open"}
  /\ guard # NoGuard /\ ~lock.fresh => prompt.by = "guard"
  /\ editor.content = Nil => editor.timer = Nil
  /\ Len(sends) <= MaxSaves
  /\ lock.fresh => lock.key

(* docs/6.seals.md:60-72.  While the vault is locked no Seal that is merely   *)
(* being looked at holds its text, however late the text arrived.             *)
SealsCoveredUnderLock ==
  Seal /\ ~lock.key /\ editor.open /\ ~editor.editing => editor.content = Nil

(* docs/6.seals.md:62.  A hidden tab has no key. *)
HiddenIsLocked == lock.hidden => ~lock.key

(* docs/11.threat-model.md:38-43.  After a hard lock nothing but a passphrase  *)
(* brings the key back, neither a share left behind nor an answer still due.   *)
HardLockAsksAgain == [][~lock.key /\ lock'.key /\ lock.hard => prompt.typed = lock'.share]_lockVars

(* docs/6.seals.md:52.  A Seal left open without editing is counted down. *)
ViewedIsTimed ==
  Seal /\ editor.open /\ editor.content \notin {Nil, 0} /\ ~editor.editing /\ ~editor.history
    => editor.timer # Nil

(* What runs when the key comes is what the user pressed for and has not      *)
(* called off, and it runs once (useRehydratingEncryptionAction.ts:34).       *)
OnlyWhatIsWanted ==
  [][(guard # NoGuard /\ guard' = NoGuard /\ lock.fresh => guard.act \in wanted)
     /\ (wish # NoAct /\ wish' = NoAct /\ lock.fresh => wish \in wanted)]_lockVars

(* What a Seal shows when it is decrypted is what its row holds, or what a    *)
(* save under way is about to put there (docs/6.seals.md:64).                  *)
DecryptShowsTheSeal ==
  [][Seal /\ editor.opening = Nil /\ editor'.opening # Nil
       => editor'.opening \in {server.body} \cup {sends[i].text : i \in DOMAIN sends}]_lockVars

==============================================================================
