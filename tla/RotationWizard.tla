---------------------------- MODULE RotationWizard ----------------------------
(***************************************************************************)
(* The key-change wizard (lib/rotation/wizard.ts) as its page drives it     *)
(* (rotate-keys/page.tsx): which step the user may leave, what each button   *)
(* asks of the server, what a lost answer leaves on the screen, and how a   *)
(* page that was closed takes the rotation over again.                     *)
(*                                                                         *)
(* A target key is named by the number of the passphrase choice that made   *)
(* it.  The server keeps an operation as one row with two items; what it    *)
(* does with the records is in KeyRotation, how the engine walks them in    *)
(* RotationWalk, and what the activation does to the pages in Generations.   *)
(***************************************************************************)
EXTENDS Naturals, FiniteSets

CONSTANTS
    Screens,     \* pages that show the wizard
    Machines,    \* browsers, each with one session
    Seats,       \* the ways the pages may be spread over the browsers
    MaxSids,     \* bound: sessions ever made
    MaxOps,      \* bound: operations ever begun
    MaxTargets,  \* bound: target keys ever made
    MaxSlips,    \* bound: calls whose answer is lost, cleanups that fail
    MaxWhims,    \* bound: reloads, sign-outs and pauses nobody had to make
    Forgetful    \* the user may forget the new passphrase

ASSUME WizardAssumption ==
    /\ Seats \subseteq [Screens -> Machines] /\ Seats # {}
    /\ IsFiniteSet(Machines)
    /\ MaxSids \in Nat /\ MaxSids >= Cardinality(Machines)
    /\ {MaxOps, MaxTargets} \subseteq Nat \ {0} /\ {MaxSlips, MaxWhims} \subseteq Nat /\ Forgetful \in BOOLEAN

VARIABLES
    vault,       \* encryption_states and the profile's key
    operations,  \* encryption_rotations
    sids,        \* the session of each browser, 0: signed out
    sole,        \* the session that ended all others, 0: none since the last sign-in
    screens,
    saved,       \* recovery files on the user's disk
    remembered,  \* target keys whose passphrase the user still knows
    unsaved,     \* browsers with an encrypted draft no editor has saved
    seats, targets, lastSid, slips, whims

wizardVars == <<vault, operations, sids, sole, screens, saved, remembered, unsaved, seats, targets, lastSid, slips, whims>>

OpItems     == 1 .. 2
Target    == 0 .. MaxTargets      \* 0: none, or the key before any rotation
Op        == 1 .. MaxOps
Live      == {"migrating"}
Missing   == [phase |-> "none", fence |-> 0, owner |-> 0, key |-> 0, from |-> 0, staged |-> [i \in OpItems |-> 0],
              recovered |-> FALSE]
Row       == [phase : {"none", "migrating", "committed", "aborted"}, fence : Nat, owner : 0 .. MaxSids, key : Target,
              from : 0 .. MaxOps, staged : [OpItems -> Target], recovered : BOOLEAN]
Unread    == MaxOps + 1           \* load() has not answered

Rail   == <<"intro", "support", "sessions", "drafts", "credentials", "confirm", "running", "recovery", "commit", "done">>
Step   == {Rail[i] : i \in DOMAIN Rail}
After(step) == Rail[1 + CHOOSE i \in DOMAIN Rail : Rail[i] = step]

\* The flow a button starts and the call it is at.
IdleScreen   == [flow |-> "none", call |-> "none", reply |-> "none"]
Busy   == [flow : {"none", "load", "revoke", "verify", "begin", "process", "confirm", "commit", "cancel", "escape"},
           call : {"none", "status", "revoke", "list", "material", "claim", "begin", "stage", "confirm", "commit",
                   "clean", "cancel"},
           reply : {"none", "ok", "others", "conflict", "session", "incomplete", "unauthorized", "lost"}]
Screen == [step : Step \cup {"off"}, busy : Busy,
           error : {"none", "failed", "session", "still", "conflict", "signedOut", "unfinished", "file", "passphrase",
                    "cleanup", "requirement", "drafts"},
           checked : BOOLEAN, clean : BOOLEAN, acknowledged : BOOLEAN, verified : BOOLEAN, target : Target,
           op : 0 .. MaxOps, fence : Nat, open : BOOLEAN, pending : Target,
           from : 0 .. Unread, whole : BOOLEAN, fileSaved : BOOLEAN, frozen : BOOLEAN]
Off    == [step |-> "off", busy |-> IdleScreen, error |-> "none", checked |-> FALSE, clean |-> FALSE, acknowledged |-> FALSE,
           verified |-> FALSE, target |-> 0, op |-> 0, fence |-> 0, open |-> FALSE, pending |-> 0,
           from |-> Unread, whole |-> FALSE, fileSaved |-> FALSE, frozen |-> FALSE]

WizardTypeOK ==
    /\ vault \in [gen : 0 .. MaxOps, key : Target, active : 0 .. MaxOps]
    /\ operations \in [Op -> Row] /\ sids \in [Machines -> 0 .. MaxSids] /\ sole \in 0 .. MaxSids
    /\ screens \in [Screens -> Screen] /\ saved \subseteq [op : 0 .. MaxOps, key : Target]
    /\ remembered \subseteq Target /\ unsaved \subseteq Machines /\ seats \in Seats /\ targets \in Target
    /\ lastSid \in 0 .. MaxSids /\ slips \in 0 .. MaxSlips /\ whims \in 0 .. MaxWhims
    /\ vault.active # 0 => operations[vault.active].phase \in Live
    /\ \A o \in Op : operations[o].phase \in Live => o = vault.active

WizardInit ==
    /\ vault = [gen |-> 0, key |-> 0, active |-> 0]
    /\ operations = [o \in Op |-> Missing]
    /\ \E order \in [Machines -> 1 .. Cardinality(Machines)] :
         (\A m, n \in Machines : order[m] = order[n] => m = n) /\ sids = order
    /\ sole = 0 /\ screens = [p \in Screens |-> Off] /\ saved = {[op |-> 0, key |-> 0]} /\ remembered = {} /\ unsaved = {}
    /\ seats \in Seats /\ targets = 0 /\ lastSid = Cardinality(Machines) /\ slips = 0 /\ whims = 0

-----------------------------------------------------------------------------
(* Pieces *)

Sid(p)   == sids[seats[p]]
Show(p, screen) == screens' = [screens EXCEPT ![p] = screen]
Free(p)  == screens[p].busy = IdleScreen
At(p, steps) == screens[p].step \in steps /\ Free(p)
AskServer(screen, flow, call) ==
    [screen EXCEPT !.busy = [flow |-> flow, call |-> call, reply |-> "none"], !.error = "none"]
Fails(screen, error) == [screen EXCEPT !.busy = IdleScreen, !.error = error]
Done(screen) == [screen EXCEPT !.busy = IdleScreen]
Slip     == slips < MaxSlips /\ slips' = slips + 1
Whim     == whims < MaxWhims /\ whims' = whims + 1
Mine(p)  == operations[screens[p].op]
Fresh(p) == [Off EXCEPT !.step = "intro", !.from = screens[p].from]

\* describeRotationError()
Described(reply) ==
    CASE reply = "session" -> "session"  [] reply = "unauthorized" -> "signedOut"  [] reply = "conflict" -> "conflict"
      [] reply = "incomplete" -> "requirement"  [] OTHER -> "failed"

\* canAdvance()
MayLeave(p) ==
    LET screen == screens[p]
    IN  CASE screen.step \in {"intro", "support"} -> TRUE
          [] screen.step = "sessions" -> screen.checked
          [] screen.step = "drafts" -> screen.clean /\ screen.acknowledged
          [] screen.step = "credentials" -> screen.verified /\ screen.target # 0
          [] OTHER -> FALSE

-----------------------------------------------------------------------------
(* The server's answer to the call a page waits for *)

SoleSession(sid) == sole = sid /\ {sids[m] : m \in Machines} \ {0} = {sid}
\* worker(): the token still names the operation, its owner and its fence.
Worker(p) ==
    /\ screens[p].op # 0 /\ screens[p].op = vault.active
    /\ Mine(p).owner = Sid(p) /\ Mine(p).fence = screens[p].fence
WorkerReply(p) == IF ~Worker(p) THEN "conflict" ELSE IF ~SoleSession(Sid(p)) THEN "session" ELSE "ok"

Reclaims(p) == Mine(p).owner = Sid(p) /\ Mine(p).fence = screens[p].fence + 1
ClaimReply(p) ==
    IF screens[p].op # vault.active THEN "conflict"
    ELSE IF ~SoleSession(Sid(p)) THEN "session"
    ELSE IF Mine(p).fence = screens[p].fence \/ Reclaims(p) THEN "ok" ELSE "conflict"

Outdated(p)  == vault.gen # screens[p].from
Conflicts(p) == vault.active # 0 \/ Outdated(p)

Whole(o) == \A i \in OpItems : operations[o].staged[i] # 0
Reply(p) ==
    LET call == screens[p].busy.call
    IN  IF Sid(p) = 0 THEN "unauthorized"
        ELSE CASE call = "list" -> IF {sids[m] : m \in Machines} \ {0} = {Sid(p)} THEN "ok" ELSE "others"
               [] call \in {"status", "revoke", "material"} -> "ok"
               [] call = "begin" -> IF Conflicts(p) THEN "conflict" ELSE IF SoleSession(Sid(p)) THEN "ok" ELSE "session"
               [] call = "claim" -> ClaimReply(p)
               [] call = "cancel" -> IF Mine(p).phase = "aborted" THEN "ok" ELSE WorkerReply(p)
               [] call = "commit" -> IF Mine(p).phase = "committed" THEN "ok"
                                     ELSE IF WorkerReply(p) # "ok" THEN WorkerReply(p)
                                     ELSE IF Whole(screens[p].op) /\ Mine(p).recovered THEN "ok" ELSE "incomplete"
               [] OTHER -> WorkerReply(p)

OpBegun(p) == CHOOSE o \in Op : operations[o].phase = "none" /\ \A other \in 1 .. (o - 1) : operations[other].phase # "none"
Unstaged(p) == {i \in OpItems : Mine(p).staged[i] = 0}
SetOp(o, row) == operations' = [operations EXCEPT ![o] = row]

Apply(p) ==
    LET call == screens[p].busy.call
        o    == screens[p].op
    IN  CASE call = "revoke" ->
                /\ sids' = [m \in Machines |-> IF m = seats[p] THEN sids[m] ELSE 0]
                /\ sole' = Sid(p) /\ UNCHANGED <<vault, operations>>
          [] call = "begin" ->
                /\ SetOp(OpBegun(p), [Missing EXCEPT !.phase = "migrating", !.fence = 1, !.owner = Sid(p),
                                                   !.key = screens[p].target, !.from = vault.gen])
                /\ vault' = [vault EXCEPT !.active = OpBegun(p)] /\ UNCHANGED <<sids, sole>>
          [] call = "claim" ->
                /\ SetOp(o, [Mine(p) EXCEPT !.owner = Sid(p), !.fence = screens[p].fence + 1])
                /\ UNCHANGED <<vault, sids, sole>>
          [] call = "stage" /\ Unstaged(p) # {} ->
                /\ \E i \in Unstaged(p) : SetOp(o, [Mine(p) EXCEPT !.staged[i] = screens[p].target])
                /\ UNCHANGED <<vault, sids, sole>>
          [] call = "confirm" ->
                SetOp(o, [Mine(p) EXCEPT !.recovered = TRUE]) /\ UNCHANGED <<vault, sids, sole>>
          [] call = "commit" /\ Mine(p).phase = "migrating" ->
                /\ SetOp(o, [Mine(p) EXCEPT !.phase = "committed"])
                /\ vault' = [gen |-> vault.gen + 1, key |-> Mine(p).key, active |-> 0] /\ UNCHANGED <<sids, sole>>
          [] call = "cancel" /\ Mine(p).phase = "migrating" ->
                /\ SetOp(o, [Mine(p) EXCEPT !.phase = "aborted"])
                /\ vault' = [vault EXCEPT !.active = 0] /\ UNCHANGED <<sids, sole>>
          [] OTHER -> UNCHANGED <<vault, operations, sids, sole>>

LastButOne(p) == Cardinality(Unstaged(p)) <= 2
LastItem(p) == Cardinality(Unstaged(p)) <= 1
Waits(p) == screens[p].busy.call \notin {"none", "clean"} /\ screens[p].busy.reply = "none"
\* What the answer tells is read with it: status and claim give the row.
ScreenTold(p, screen) ==
    CASE screens[p].busy.call = "status" ->
             LET last == IF \E o \in Op : operations[o].phase # "none"
                         THEN CHOOSE o \in Op : operations[o].phase # "none"
                                /\ \A later \in (o + 1) .. MaxOps : operations[later].phase = "none"
                         ELSE 0
             IN  [screen EXCEPT !.from = vault.gen, !.op = last,
                                !.fence = IF last = 0 THEN 0 ELSE operations[last].fence,
                                !.open = last # 0 /\ last = vault.active,
                                !.pending = IF last # 0 /\ last = vault.active THEN operations[last].key ELSE 0]
      [] screens[p].busy.call = "begin" ->
             [screen EXCEPT !.op = OpBegun(p), !.fence = 1, !.open = TRUE, !.pending = screen.target]
      [] screens[p].busy.call = "claim" -> [screen EXCEPT !.fence = @ + 1]
      [] screens[p].busy.call = "stage" -> [screen EXCEPT !.whole = LastItem(p)]
      [] OTHER -> screen

\* The bound on operations.
Room(p) == screens[p].busy.call = "begin" /\ Reply(p) = "ok" => \E o \in Op : operations[o].phase = "none"
Answer(p) ==
    /\ Waits(p)
    /\ Room(p)
    /\ IF Reply(p) = "ok"
       THEN Apply(p) /\ Show(p, [ScreenTold(p, screens[p]) EXCEPT !.busy.reply = "ok"])
       ELSE Show(p, [screens[p] EXCEPT !.busy.reply = Reply(p)]) /\ UNCHANGED <<vault, operations, sids, sole>>
    /\ UNCHANGED <<saved, remembered, unsaved, seats, targets, lastSid, slips, whims>>
\* The request or its answer is lost: the page learns nothing either way.
Lost(p) ==
    /\ Waits(p) /\ Slip
    /\ \/ UNCHANGED <<vault, operations, sids, sole>>
       \/ Reply(p) = "ok" /\ Room(p) /\ Apply(p)
    /\ Show(p, [screens[p] EXCEPT !.busy.reply = "lost"])
    /\ UNCHANGED <<saved, remembered, unsaved, seats, targets, lastSid, whims>>

-----------------------------------------------------------------------------
(* The page reads the answer *)

Local == <<vault, operations, sids, sole, saved, unsaved, seats, lastSid, whims>>
Gets(p, flow, calls) == screens[p].busy.flow = flow /\ screens[p].busy.call \in calls /\ screens[p].busy.reply # "none"
Good(p) == screens[p].busy.reply = "ok"

\* run(): one place for the message.
RefusedBegin(p) ==
    /\ screens[p].busy.reply \notin {"none", "ok", "others"}
    /\ Show(p, Fails(screens[p], Described(screens[p].busy.reply)))
    /\ UNCHANGED Local /\ UNCHANGED <<remembered, targets, slips>>

Loaded(p) ==
    /\ Gets(p, "load", {"status"}) /\ Good(p)
    /\ Show(p, [Done(screens[p]) EXCEPT !.step = IF screens[p].open THEN "sessions" ELSE @])
    /\ UNCHANGED Local /\ UNCHANGED <<remembered, targets, slips>>

\* revokeOtherSessions(), on its own or on the way to a cancel.
Revoked(p) ==
    /\ Gets(p, "revoke", {"revoke"}) \/ Gets(p, "escape", {"revoke"})
    /\ Good(p)
    /\ Show(p, [screens[p] EXCEPT !.busy.call = "list", !.busy.reply = "none"])
    /\ UNCHANGED Local /\ UNCHANGED <<remembered, targets, slips>>
Listed(p) ==
    /\ Gets(p, "revoke", {"list"}) /\ screens[p].busy.reply \in {"ok", "others"}
    /\ Show(p, [Done(screens[p]) EXCEPT !.checked = Good(p)])
    /\ UNCHANGED Local /\ UNCHANGED <<remembered, targets, slips>>
\* revokeAndCancel()
ListedForEscape(p) ==
    /\ Gets(p, "escape", {"list"}) /\ screens[p].busy.reply \in {"ok", "others"}
    /\ Show(p, IF Good(p) THEN [AskServer(screens[p], "cancel", "cancel") EXCEPT !.checked = TRUE]
               ELSE [Fails(screens[p], "still") EXCEPT !.checked = FALSE])
    /\ UNCHANGED Local /\ UNCHANGED <<remembered, targets, slips>>

\* setCredentials(): a rotation that is under way keeps the key it was begun
\* with, so the passphrase has to be the one that gives it.
Minted(p) == targets + 1
MintedAnyway(p) == Minted(p)
Chosen(p) == IF screens[p].pending # 0 THEN screens[p].pending ELSE Minted(p)
Verified(p) ==
    /\ Gets(p, "verify", {"material"}) /\ Good(p)
    /\ \/ /\ Chosen(p) \in remembered \cup {Minted(p)} /\ Chosen(p) <= MaxTargets
          /\ targets' = IF Chosen(p) > targets THEN Chosen(p) ELSE targets
          /\ remembered' = remembered \cup {Chosen(p)}
          /\ Show(p, [Done(screens[p]) EXCEPT !.target = Chosen(p), !.verified = TRUE, !.step = "confirm"])
       \/ /\ screens[p].pending # 0 /\ screens[p].pending \notin remembered
          /\ Show(p, Fails(screens[p], "passphrase"))
          /\ UNCHANGED <<targets, remembered>>
    /\ UNCHANGED Local /\ UNCHANGED slips

\* begin(): a last look at the sessions, then the operation is made or taken
\* over.
ListedForBegin(p) ==
    /\ Gets(p, "begin", {"list"}) /\ screens[p].busy.reply \in {"ok", "others"}
    /\ Show(p, IF Good(p)
               THEN [AskServer(screens[p], "begin", IF screens[p].open THEN "claim" ELSE "begin") EXCEPT !.checked = TRUE]
               ELSE [Fails(screens[p], "session") EXCEPT !.checked = FALSE, !.frozen = FALSE])
    /\ UNCHANGED Local /\ UNCHANGED <<remembered, targets, slips>>
Started(p) ==
    /\ Gets(p, "begin", {"begin", "claim"}) /\ Good(p)
    /\ Show(p, [Done(screens[p]) EXCEPT !.step = "running"])
    /\ UNCHANGED Local /\ UNCHANGED <<remembered, targets, slips>>
Staged(p) ==
    /\ Gets(p, "process", {"stage"}) /\ Good(p)
    /\ Show(p, IF screens[p].whole THEN [Done(screens[p]) EXCEPT !.step = "recovery"]
               ELSE [screens[p] EXCEPT !.busy.reply = "none"])
    /\ UNCHANGED Local /\ UNCHANGED <<remembered, targets, slips>>
Confirmed(p) ==
    /\ Gets(p, "confirm", {"confirm"}) /\ Good(p)
    /\ Show(p, [Done(screens[p]) EXCEPT !.step = "commit"])
    /\ UNCHANGED Local /\ UNCHANGED <<remembered, targets, slips>>
\* commit() goes on to afterCommit(), which may fail on this device.
Committed(p) ==
    /\ Gets(p, "commit", {"commit"}) /\ Good(p)
    /\ Show(p, [screens[p] EXCEPT !.busy.call = "clean", !.busy.reply = "none", !.open = FALSE, !.pending = 0])
    /\ UNCHANGED Local /\ UNCHANGED <<remembered, targets, slips>>
CleansUp(p) ==
    /\ screens[p].busy.call = "clean"
    /\ \/ Show(p, [Done(screens[p]) EXCEPT !.step = "done", !.frozen = FALSE]) /\ UNCHANGED slips
       \/ Slip /\ Show(p, Fails(screens[p], "cleanup"))
    /\ UNCHANGED Local /\ UNCHANGED <<remembered, targets>>
Cancelled(p) ==
    /\ Gets(p, "cancel", {"cancel"}) /\ Good(p)
    /\ Show(p, Fresh(p))
    /\ UNCHANGED Local /\ UNCHANGED <<remembered, targets, slips>>

-----------------------------------------------------------------------------
(* The buttons of the page *)

Steady == <<vault, operations, sids, sole, unsaved, seats, targets, remembered, lastSid, slips>>
Press(p, steps, flow, call) ==
    /\ At(p, steps) /\ Show(p, AskServer(screens[p], flow, call)) /\ UNCHANGED Steady /\ UNCHANGED <<saved, whims>>

\* The page is opened: load().
Visit(p) ==
    /\ screens[p].step = "off" /\ Sid(p) # 0
    /\ Show(p, AskServer([Off EXCEPT !.step = "intro"], "load", "status"))
    /\ UNCHANGED Steady /\ UNCHANGED <<saved, whims>>
Advance(p) ==
    /\ screens[p].step \in {"intro", "support", "sessions", "drafts"} /\ MayLeave(p)
    /\ screens[p].step \in {"sessions", "drafts"} => Free(p)
    /\ Show(p, [screens[p] EXCEPT !.step = After(@), !.error = "none"])
    /\ UNCHANGED Steady /\ UNCHANGED <<saved, whims>>
PressRevoke(p) == Press(p, {"sessions"}, "revoke", "revoke")
Acknowledge(p) ==
    /\ At(p, {"drafts"}) /\ ~screens[p].acknowledged
    /\ Show(p, [screens[p] EXCEPT !.acknowledged = TRUE]) /\ UNCHANGED Steady /\ UNCHANGED <<saved, whims>>
\* rescanDrafts(), by its button or after a draft was discarded.
Rescan(p) ==
    /\ At(p, {"drafts"})
    /\ unsaved' \in {unsaved, unsaved \ {seats[p]}}
    /\ Show(p, [screens[p] EXCEPT !.clean = seats[p] \notin unsaved'])
    /\ UNCHANGED <<vault, operations, sids, sole, saved, remembered, seats, targets, lastSid, slips, whims>>
Verify(p) ==
    /\ screens[p].pending # 0 \/ targets < MaxTargets
    /\ Press(p, {"credentials"}, "verify", "material")
Begin(p) ==
    /\ At(p, {"confirm"})
    /\ Show(p, IF screens[p].target = 0 \/ screens[p].from = Unread THEN Fails(screens[p], "unfinished")
               ELSE IF seats[p] \in unsaved THEN [Fails(screens[p], "drafts") EXCEPT !.clean = FALSE, !.frozen = FALSE]
               ELSE [AskServer(screens[p], "begin", "list") EXCEPT !.clean = TRUE, !.frozen = TRUE])
    /\ UNCHANGED Steady /\ UNCHANGED <<saved, whims>>
ProcessOp(p) == Press(p, {"running"}, "process", "stage")
PauseProcess(p) ==
    /\ screens[p].busy.flow = "process" /\ Whim
    /\ Show(p, Done(screens[p]))
    /\ UNCHANGED Steady /\ UNCHANGED saved
\* buildRecoveryFile() hands the file to the browser, which may not keep it.
SaveFile(p) ==
    /\ At(p, {"recovery"})
    /\ saved' \in {saved, saved \cup {[op |-> screens[p].op, key |-> screens[p].target]}}
    /\ Show(p, [screens[p] EXCEPT !.fileSaved = TRUE])
    /\ UNCHANGED Steady /\ UNCHANGED whims
\* parseAndValidatePendingRecovery() and the challenge.
AnyFile(p, file) == TRUE
\* A file of the backup page (version 1) names no rotation.
Pending(file) == file.op # 0
Fits(p, file) == Pending(file) /\ file.op = screens[p].op /\ file.key = screens[p].target
ConfirmFile(p) ==
    /\ At(p, {"recovery"}) /\ screens[p].fileSaved
    /\ \E file \in saved :
         Show(p, IF Fits(p, file) THEN AskServer(screens[p], "confirm", "confirm") ELSE Fails(screens[p], "file"))
    /\ UNCHANGED Steady /\ UNCHANGED <<saved, whims>>
PressActivate(p) == Press(p, {"commit"}, "commit", "commit")
Cancel(p) == Press(p, {"running", "commit"}, "cancel", "cancel")
\* The button the error offers, found by how its text begins.
OfferedOnRetry(p) == screens[p].error = "still" /\ screens[p].op # 0
Offered(p) == screens[p].error = "session" /\ screens[p].op # 0
RevokeAndCancel(p) ==
    /\ Offered(p)
    /\ Press(p, Step, "escape", "revoke")

-----------------------------------------------------------------------------
(* What happens around the page *)

\* A page that is reloaded or left drops its keys; the operation stays.
Leave(p) ==
    /\ screens[p].step # "off"
    /\ Whim \/ (screens[p].error \notin {"none", "file", "passphrase"} /\ UNCHANGED whims)
    /\ Show(p, Off) /\ UNCHANGED Steady /\ UNCHANGED saved
Forget(key) ==
    /\ Forgetful /\ key \in remembered
    /\ remembered' = remembered \ {key}
    /\ UNCHANGED <<vault, operations, sids, sole, screens, saved, unsaved, seats, targets, lastSid, slips, whims>>
\* An editor in another page of the browser: none of them hears the freeze.
WriteDraft(m) ==
    /\ m \notin unsaved /\ sids[m] # 0 /\ Whim
    /\ unsaved' = unsaved \cup {m}
    /\ UNCHANGED <<vault, operations, sids, sole, screens, saved, remembered, seats, targets, lastSid, slips>>
SignsIn(m) ==
    /\ sids[m] = 0 /\ lastSid < MaxSids
    /\ lastSid' = lastSid + 1 /\ sids' = [sids EXCEPT ![m] = lastSid + 1] /\ sole' = 0
    /\ screens' = [p \in Screens |-> IF seats[p] = m THEN Off ELSE screens[p]]
    /\ UNCHANGED <<vault, operations, saved, remembered, unsaved, seats, targets, slips, whims>>
SignsOut(m) ==
    /\ sids[m] # 0 /\ Whim /\ lastSid < MaxSids
    /\ sids' = [sids EXCEPT ![m] = 0]
    /\ screens' = [p \in Screens |-> IF seats[p] = m THEN Off ELSE screens[p]]
    /\ UNCHANGED <<vault, operations, sole, saved, remembered, unsaved, seats, targets, lastSid, slips>>

Reads(p) ==
    \/ RefusedBegin(p) \/ Loaded(p) \/ Revoked(p) \/ Listed(p) \/ ListedForEscape(p) \/ Verified(p) \/ ListedForBegin(p)
    \/ Started(p) \/ Staged(p) \/ Confirmed(p) \/ Committed(p) \/ CleansUp(p) \/ Cancelled(p)
Presses(p) ==
    \/ Visit(p) \/ Advance(p) \/ PressRevoke(p) \/ Acknowledge(p) \/ Rescan(p) \/ Verify(p) \/ Begin(p) \/ ProcessOp(p)
    \/ PauseProcess(p) \/ SaveFile(p) \/ ConfirmFile(p) \/ PressActivate(p) \/ Cancel(p) \/ RevokeAndCancel(p) \/ Leave(p)
WizardNext ==
    \/ \E p \in Screens : Answer(p) \/ Lost(p) \/ Reads(p) \/ Presses(p)
    \/ \E key \in Target : Forget(key)
    \/ \E m \in Machines : SignsIn(m) \/ SignsOut(m) \/ WriteDraft(m)

WizardSpec == WizardInit /\ [][WizardNext]_wizardVars

-----------------------------------------------------------------------------
(* A user who wants the rotation to end, and calls that end *)

\* What such a user does next on the page in front of them.
Determined(p) ==
    \/ RevokeAndCancel(p)
    \/ /\ ~(screens[p].error = "session" /\ screens[p].op # 0)
       /\ IF screens[p].error \in {"conflict", "unfinished", "cleanup", "requirement", "drafts", "session", "still"}
          THEN Leave(p)
          ELSE \/ Visit(p) \/ Advance(p) \/ Acknowledge(p) \/ Verify(p) \/ Begin(p) \/ Cancel(p)
               \/ ~screens[p].checked /\ PressRevoke(p)
               \/ ~screens[p].clean /\ Rescan(p) /\ screens[p].clean' 
               \/ SaveFile(p) /\ (saved' # saved \/ ~screens[p].fileSaved)
               \/ ConfirmFile(p) /\ screens'[p].error # "file"

-----------------------------------------------------------------------------
(* Properties *)

\* Every replacement of a rotation is encrypted under the key it was begun
\* with, whatever passphrase is typed when another page takes it over.
StagesUnderItsKey == \A o \in Op, i \in OpItems : operations[o].staged[i] \in {0, operations[o].key}

\* A rotation is told that its recovery file is safe only when the user's disk
\* holds a file that gives the key of this rotation.
RecoveryOpensIt == \A o \in Op : operations[o].recovered => [op |-> o, key |-> operations[o].key] \in saved

\* A page asks for the recovery file only when everything has been encrypted
\* again, and offers to activate only when the server has both.
OffersWhatIsReady ==
    \A p \in Screens : vault.active # 0 /\ screens[p].op = vault.active =>
        /\ screens[p].step \in {"recovery", "commit"} => Whole(vault.active)
        /\ screens[p].step = "commit" => operations[vault.active].recovered

\* A rotation nobody wants any more ends: the pages lead a user who knows both
\* passphrases to a button that cancels it.
RotationsCanBeEnded == vault.active # 0 ~> (vault.active = 0 \/ \A p \in Screens : Sid(p) = 0)

\* What the page says of a failure it could not name: nothing has changed.
NothingChangedIsTrue ==
    \A p \in Screens : screens[p].error = "failed" /\ screens[p].from # Unread => vault.gen = screens[p].from

\* Of two pages that took the rotation over, the server listens to one.
Working(p)    == Worker(p) /\ screens[p].step \in {"running", "recovery", "commit"}
OneWorkerEach == \A p, q \in Screens : p # q => ~(Working(p) /\ Working(q))

\* What the wizard lets its user do rests on what the server and the disk hold.
WizardIsSound == StagesUnderItsKey /\ RecoveryOpensIt /\ OffersWhatIsReady
=============================================================================
