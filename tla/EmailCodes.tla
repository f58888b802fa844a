----------------------------- MODULE EmailCodes -----------------------------
(***************************************************************************)
(* One-time codes for one address: controllers/emailSignInCodes.ts, whose  *)
(* askings and checks are transactions that run side by side, the form    *)
(* that asks for a code and sends it in (EmailCodeForm.tsx), the mail in   *)
(* between, and the cleanup of expired codes.                              *)
(***************************************************************************)
EXTENDS Naturals, FiniteSets

CONSTANTS Forms,          \* pages showing the form
          MaxCodes,       \* codes there are rows for
          GuessLimit,     \* MAX_ATTEMPTS
          Quota,          \* MAX_PER_EMAIL
          MaxSteps         \* times anybody asks for a code, sends one in, starts over or reloads

ASSUME CodesAssumption ==
    /\ {MaxCodes, GuessLimit, Quota, MaxSteps} \subseteq Nat
    /\ GuessLimit > 0 /\ Quota > 0

Codes == 1 .. MaxCodes

VARIABLES codes,     \* the rows, in the order they were made
          inbox,     \* mail that arrived
          askings,  \* per form: its transaction asking for a code
          checks,    \* per form: its transaction checking one
          forms,
          compared, accepted, \* history, per code
          steps

codesVars == <<codes, inbox, askings, checks, forms, compared, accepted, steps>>

Code == [made : BOOLEAN, there : BOOLEAN, attempts : 0 .. GuessLimit, used : BOOLEAN, live : BOOLEAN, recent : BOOLEAN]
NoCode == [made |-> FALSE, there |-> FALSE, attempts |-> 0, used |-> FALSE, live |-> FALSE, recent |-> FALSE]
NewCode == [made |-> TRUE, there |-> TRUE, attempts |-> 0, used |-> FALSE, live |-> TRUE, recent |-> TRUE]
\* code: the one it made.
Asking == [stage : {"none", "asked", "counted", "refused", "issued"}, code : 0 .. MaxCodes]
NoAsking == [stage |-> "none", code |-> 0]
\* row: the code it settled on, with the attempts it read there; typed: the code it was given.
Check == [stage : {"none", "asked", "waiting", "holding", "ok", "bad"}, row : 0 .. MaxCodes,
          seen : 0 .. GuessLimit, typed : 0 .. MaxCodes]
NoCheck == [stage |-> "none", row |-> 0, seen |-> 0, typed |-> 0]
\* pending: parked in sessionStorage.
Form == [up : BOOLEAN, sent : BOOLEAN, pending : BOOLEAN, busy : {"no", "request", "verify"},
         over : BOOLEAN]
NewForm == [up |-> TRUE, sent |-> FALSE, pending |-> FALSE, busy |-> "no", over |-> FALSE]

Made == {c \in Codes : codes[c].made}
Unused == {c \in Codes : codes[c].there /\ ~codes[c].used}
NewestOf(S) == CHOOSE c \in S : \A d \in S : d <= c

CodesInit ==
    /\ codes = [c \in Codes |-> NoCode] /\ inbox = {}
    /\ askings = [f \in Forms |-> NoAsking]
    /\ checks = [f \in Forms |-> NoCheck]
    /\ forms = [f \in Forms |-> NewForm]
    /\ compared = [c \in Codes |-> 0] /\ accepted = [c \in Codes |-> 0]
    /\ steps = 0

CountStep == steps < MaxSteps /\ steps' = steps + 1

-----------------------------------------------------------------------------
(* Asking for a code *)

\* The first request, or a resend.
Request(f) ==
    /\ forms[f].up /\ forms[f].busy = "no" /\ ~forms[f].over /\ askings[f].stage = "none" /\ CountStep
    /\ askings' = [askings EXCEPT ![f].stage = "asked"]
    /\ forms' = [forms EXCEPT ![f].busy = "request"]
    /\ UNCHANGED <<codes, inbox, checks, compared, accepted>>

\* The advisory locks on the address and the caller's network.
QuotaIsFree(f) == \A g \in Forms : askings[g].stage # "counted"
QuotaIsOpen(f) == TRUE
MayCount(f) == QuotaIsFree(f)
UnderQuota == Cardinality({c \in Codes : codes[c].there /\ codes[c].recent}) < Quota

Count(f) ==
    /\ askings[f].stage = "asked" /\ MayCount(f)
    /\ askings' = [askings EXCEPT ![f].stage = IF UnderQuota THEN "counted" ELSE "refused"]
    /\ UNCHANGED <<codes, inbox, checks, forms, compared, accepted, steps>>

Retired(c) == [c EXCEPT !.used = TRUE]
Kept(c) == c
Older(c) == Retired(c)
Locked(c) == \E f \in Forms : checks[f].stage = "holding" /\ checks[f].row = c

\* Older codes are retired, which waits for checks of them, and the new one is made.
Issue(f) ==
    /\ askings[f].stage = "counted" /\ \A c \in Unused : ~Locked(c)
    /\ \E c \in Codes :
          /\ c \notin Made /\ \A d \in Codes \ Made : c <= d
          /\ codes' = [d \in Codes |-> IF d = c THEN NewCode
                                       ELSE IF d \in Unused THEN Older(codes[d]) ELSE codes[d]]
          /\ askings' = [askings EXCEPT ![f] = [stage |-> "issued", code |-> c]]
    /\ UNCHANGED <<inbox, checks, forms, compared, accepted, steps>>

\* The mail is handed over, and the form goes on to the code; or either fails.
AnswerRequest(f) ==
    /\ askings[f].stage \in {"issued", "refused"} /\ askings' = [askings EXCEPT ![f] = NoAsking]
    /\ \E sent \in IF askings[f].stage = "issued" THEN BOOLEAN ELSE {FALSE} :
          /\ inbox' \in IF sent THEN {inbox, inbox \cup {askings[f].code}} ELSE {inbox}
          /\ forms' = IF forms[f].busy # "request" THEN forms
                      ELSE IF ~sent THEN [forms EXCEPT ![f].busy = "no"]
                      ELSE [forms EXCEPT ![f] = [@ EXCEPT !.busy = "no", !.sent = TRUE, !.pending = TRUE]]
    /\ UNCHANGED <<codes, checks, compared, accepted, steps>>

-----------------------------------------------------------------------------
(* Sending one in *)

\* What the mail said, or a slip (0).
Submit(f) ==
    /\ forms[f].up /\ forms[f].busy = "no" /\ forms[f].sent /\ ~forms[f].over
    /\ checks[f].stage = "none" /\ CountStep
    /\ \E c \in inbox \cup {0} : checks' = [checks EXCEPT ![f] = [NoCheck EXCEPT !.stage = "asked", !.typed = c]]
    /\ forms' = [forms EXCEPT ![f].busy = "verify"]
    /\ UNCHANGED <<codes, inbox, askings, compared, accepted>>

\* The newest unused code there is when the statement starts.
Look(f) ==
    /\ checks[f].stage = "asked"
    /\ checks' = [checks EXCEPT ![f] = IF Unused = {} THEN [@ EXCEPT !.stage = "bad"]
                                       ELSE [@ EXCEPT !.stage = "waiting", !.row = NewestOf(Unused)]]
    /\ UNCHANGED <<codes, inbox, askings, forms, compared, accepted, steps>>

RowIsFree(c) == ~Locked(c)
RowIsOpen(c) == TRUE
MayHold(c) == RowIsFree(c)

\* Its lock, once nobody checks it; a code used meanwhile is no longer found.
Hold(f) ==
    /\ checks[f].stage = "waiting" /\ MayHold(checks[f].row)
    /\ checks' = [checks EXCEPT ![f] = IF @.row \in Unused
                                       THEN [@ EXCEPT !.stage = "holding", !.seen = codes[checks[f].row].attempts]
                                       ELSE [@ EXCEPT !.stage = "bad"]]
    /\ UNCHANGED <<codes, inbox, askings, forms, compared, accepted, steps>>

Decide(f) ==
    LET c == checks[f].row
        open == codes[c].live /\ checks[f].seen < GuessLimit
        right == open /\ checks[f].typed = c
    IN /\ checks[f].stage = "holding"
       /\ codes' = [codes EXCEPT ![c].used = @ \/ right,
                                 ![c].attempts = IF open /\ ~right THEN checks[f].seen + 1 ELSE @]
       /\ compared' = [compared EXCEPT ![c] = IF open THEN @ + 1 ELSE @]
       /\ accepted' = [accepted EXCEPT ![c] = IF right THEN @ + 1 ELSE @]
       /\ checks' = [checks EXCEPT ![f].stage = IF right THEN "ok" ELSE "bad"]
       /\ UNCHANGED <<inbox, askings, forms, steps>>

\* A good answer ends the flow; any other asks for the code again.
AnswerCheck(f) ==
    /\ checks[f].stage \in {"ok", "bad"} /\ checks' = [checks EXCEPT ![f] = NoCheck]
    /\ forms' = IF forms[f].busy # "verify" THEN forms
                ELSE IF checks[f].stage = "bad" THEN [forms EXCEPT ![f].busy = "no"]
                ELSE [forms EXCEPT ![f] = [@ EXCEPT !.busy = "no", !.pending = FALSE, !.over = TRUE]]
    /\ UNCHANGED <<codes, inbox, askings, compared, accepted, steps>>

\* "Change email".
StartOver(f) ==
    /\ forms[f].up /\ forms[f].busy = "no" /\ forms[f].sent /\ ~forms[f].over /\ CountStep
    /\ forms' = [forms EXCEPT ![f] = NewForm]
    /\ UNCHANGED <<codes, inbox, askings, checks, compared, accepted>>

-----------------------------------------------------------------------------
(* Reloads, time, and the cleanup *)

ReloadForm(f) ==
    /\ forms[f].up /\ CountStep
    /\ forms' = [forms EXCEPT ![f] = [@ EXCEPT !.up = FALSE, !.sent = FALSE, !.busy = "no"]]
    /\ UNCHANGED <<codes, inbox, askings, checks, compared, accepted>>
\* "Resume rather than restart."
Resumed(form) == [form EXCEPT !.up = TRUE, !.sent = form.pending]
MountForm(f) ==
    /\ ~forms[f].up /\ forms' = [forms EXCEPT ![f] = Resumed(@)]
    /\ UNCHANGED <<codes, inbox, askings, checks, compared, accepted, steps>>

\* A code lives for ten minutes and counts for fifteen; a form parks it for ten.
Expire(c) ==
    /\ codes[c].there /\ codes[c].live /\ ~Locked(c)
    /\ codes' = [codes EXCEPT ![c].live = FALSE]
    /\ UNCHANGED <<inbox, askings, checks, forms, compared, accepted, steps>>
Forget(c) ==
    /\ codes[c].recent /\ ~codes[c].live /\ \A d \in Codes : d < c => ~codes[d].recent
    /\ codes' = [codes EXCEPT ![c].recent = FALSE]
    /\ UNCHANGED <<inbox, askings, checks, forms, compared, accepted, steps>>
Unpark(f) ==
    /\ forms[f].pending /\ \A c \in Codes : ~codes[c].live
    /\ forms' = [forms EXCEPT ![f].pending = FALSE]
    /\ UNCHANGED <<codes, inbox, askings, checks, compared, accepted, steps>>
SweepCode(c) ==
    /\ codes[c].there /\ ~codes[c].live
    /\ \A f \in Forms : checks[f].stage \notin {"waiting", "holding"} \/ checks[f].row # c
    /\ codes' = [codes EXCEPT ![c].there = FALSE]
    /\ UNCHANGED <<inbox, askings, checks, forms, compared, accepted, steps>>

-----------------------------------------------------------------------------
CodeStep(f) == Count(f) \/ Issue(f) \/ AnswerRequest(f) \/ Look(f) \/ Hold(f) \/ Decide(f) \/ AnswerCheck(f)
CodesNext ==
    \/ \E f \in Forms : CodeStep(f) \/ Request(f) \/ Submit(f) \/ StartOver(f) \/ ReloadForm(f) \/ MountForm(f) \/ Unpark(f)
    \/ \E c \in Codes : Expire(c) \/ Forget(c) \/ SweepCode(c)

CodesSpec == CodesInit /\ [][CodesNext]_codesVars

-----------------------------------------------------------------------------
(* One live code per address: of the codes made, only the newest is unused.   *)
CodesTypeOK ==
    /\ codes \in [Codes -> Code] /\ inbox \subseteq Codes
    /\ askings \in [Forms -> Asking]
    /\ checks \in [Forms -> Check] /\ forms \in [Forms -> Form]
    /\ Cardinality(Unused) <= 1

(* Every check of a code is paid for: callers that come at once do not share  *)
(* one attempt, and none is accepted twice (consumeSignInCode).               *)
GuessesAreCounted == \A c \in Codes : compared[c] <= GuessLimit /\ accepted[c] <= 1

(* A code is good until the next one is made, and never again.                *)
OnlyTheNewest ==
    [][\A c \in Codes : accepted'[c] > accepted[c] => c = NewestOf({d \in Codes : codes[d].there})]_codesVars

(* However many ask at once, an address has no more rows of one window than   *)
(* its quota (requestSignInCode). What the cleanup deleted is not counted.    *)
QuotaHolds == Cardinality({c \in Codes : codes[c].there /\ codes[c].recent}) <= Quota

(* No guess goes uncounted, no quota is passed, and the newest code rules.    *)
CodesAreSound == [](GuessesAreCounted /\ QuotaHolds) /\ OnlyTheNewest
=============================================================================
