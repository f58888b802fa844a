--------------------------- MODULE DesktopSignIn ---------------------------
(***************************************************************************)
(* Signing the desktop application in through a browser: the window that   *)
(* starts an attempt and exchanges its answer (lib/desktopAuth.ts and the  *)
(* components around it), the shell that hands it the deep link            *)
(* (desktop/src), the browser page that approves (DesktopLogin.tsx), and   *)
(* the server's attempts (controllers/desktopAuth.ts).                     *)
(***************************************************************************)
EXTENDS Naturals, FiniteSets

CONSTANTS MaxAttempts,   \* attempts there are rows for
          Exchanges,     \* exchange requests the server works on at a time
          TryLimit,      \* DESKTOP_EXCHANGE_ATTEMPT_MAX
          MaxFaults,     \* lost answers, failed requests and reloads
          MaxWindows     \* windows closed and opened again

ASSUME DesktopAssumption ==
    /\ {MaxAttempts, TryLimit, MaxFaults, MaxWindows} \subseteq Nat
    /\ TryLimit > 0 /\ 0 \notin Exchanges

AttemptIds == 1 .. MaxAttempts

VARIABLES attempts,       \* the server's attempts
          calls,      \* exchange requests at the server
          browser,    \* attempts whose page in the browser is open, or has its deep link
          queue,      \* the one deep link the shell keeps, 0: none
          ready,      \* the page in the window listens
          window,     \* the page in the window, and what its sessionStorage holds
          granted,    \* history: how often each attempt was consumed
          faults, windows

desktopVars == <<attempts, calls, browser, queue, ready, window, granted, faults, windows>>

AttemptRow == [status : {"none", "pending", "authorized", "consumed"}, live : BOOLEAN, tries : 0 .. TryLimit]
NoAttempt == [status |-> "none", live |-> FALSE, tries |-> 0]
\* "claimed": the try is counted; "won": the attempt is consumed; then the answer is under way.
ExchangeCall == [stage : {"idle", "sent", "claimed", "won", "made", "refused"}, attempt : 0 .. MaxAttempts]
NoCall == [stage |-> "idle", attempt |-> 0]

\* pending, callback: sessionStorage. exchange: the request this page waits for, 0: none.
Window == [open : BOOLEAN, button : {"idle", "opening", "waiting", "exchanging", "error"},
           pending : 0 .. MaxAttempts, callback : 0 .. MaxAttempts, late : BOOLEAN,
           exchange : Exchanges \cup {0}, hopeful : BOOLEAN, signedIn : 0 .. MaxAttempts]
Page == [open |-> TRUE, button |-> "idle", pending |-> 0, callback |-> 0, late |-> FALSE,
         exchange |-> 0, hopeful |-> FALSE, signedIn |-> 0]

DesktopInit ==
    /\ attempts = [a \in AttemptIds |-> NoAttempt]
    /\ calls = [x \in Exchanges |-> NoCall]
    /\ browser = [a \in AttemptIds |-> "none"]
    /\ queue = 0 /\ ready = FALSE /\ window = Page
    /\ granted = [a \in AttemptIds |-> 0]
    /\ faults = 0 /\ windows = 0

Fault == faults < MaxFaults /\ faults' = faults + 1
Cleared(w) == [w EXCEPT !.pending = 0, !.callback = 0, !.late = FALSE]
Unasked == {a \in AttemptIds : attempts[a].status = "none" /\ browser[a] = "none"}

-----------------------------------------------------------------------------
(* Starting *)

\* beginDesktopAuth clears what was stored before it asks.
BeginAttempt ==
    /\ window.open /\ window.button \in {"idle", "error"} /\ window.signedIn = 0 /\ Unasked # {}
    /\ window' = [Cleared(window) EXCEPT !.button = "opening", !.hopeful = FALSE]
    /\ UNCHANGED <<attempts, calls, browser, queue, ready, granted, faults, windows>>
\* The row is there; the answer opens the browser.
AttemptBegun ==
    /\ window.open /\ window.button = "opening"
    /\ \E a \in Unasked :
       /\ \A b \in Unasked : a <= b
       /\ attempts' = [attempts EXCEPT ![a] = [NoAttempt EXCEPT !.status = "pending", !.live = TRUE]]
       /\ browser' = [browser EXCEPT ![a] = "open"]
       /\ window' = [window EXCEPT !.button = "waiting", !.pending = a, !.late = FALSE]
    /\ UNCHANGED <<calls, queue, ready, granted, faults, windows>>
BeginFails ==
    /\ window.open /\ window.button = "opening" /\ Fault
    /\ window' = [window EXCEPT !.button = "error"]
    /\ UNCHANGED <<attempts, calls, browser, queue, ready, granted, windows>>

-----------------------------------------------------------------------------
(* The server's attempts *)

Authorizable(a) == attempts[a].status = "pending" /\ attempts[a].live
\* authorizeDesktopAuthAttempt; a lost answer leaves the code with nobody.
Authorize(a) ==
    /\ browser[a] = "open"
    /\ attempts' = IF Authorizable(a) THEN [attempts EXCEPT ![a].status = "authorized"] ELSE attempts
    /\ \/ /\ browser' = [browser EXCEPT ![a] = IF Authorizable(a) THEN "ready" ELSE "error"]
          /\ UNCHANGED faults
       \/ Fault /\ browser' = [browser EXCEPT ![a] = "error"]
    /\ UNCHANGED <<calls, queue, ready, window, granted, windows>>

RowExpires(a) ==
    /\ attempts[a].live /\ attempts' = [attempts EXCEPT ![a].live = FALSE]
    /\ UNCHANGED <<calls, browser, queue, ready, window, granted, faults, windows>>
\* The daily cleanup.
SweepAttempt(a) ==
    /\ attempts[a].status # "none" /\ ~attempts[a].live
    /\ attempts' = [attempts EXCEPT ![a].status = "none"]
    /\ UNCHANGED <<calls, browser, queue, ready, window, granted, faults, windows>>

Redeemable(a) == attempts[a].status = "authorized" /\ attempts[a].live
RedeemableOnce(a) == attempts[a].live
UnderLimit(a) == attempts[a].tries < TryLimit
UnderLimitLate(a) == attempts[a].tries <= TryLimit
MayTry(a) == UnderLimit(a)
MayRedeem(a) == Redeemable(a)

\* "Burn one exchange attempt up front", in a statement of its own.
Claim(x) ==
    LET a == calls[x].attempt IN
    /\ calls[x].stage = "sent"
    /\ IF Redeemable(a) /\ MayTry(a)
       THEN /\ attempts' = [attempts EXCEPT ![a].tries = @ + 1]
            /\ calls' = [calls EXCEPT ![x].stage = "claimed"]
       ELSE calls' = [calls EXCEPT ![x].stage = "refused"] /\ UNCHANGED attempts
    /\ UNCHANGED <<browser, queue, ready, window, granted, faults, windows>>
Consume(x) ==
    LET a == calls[x].attempt IN
    /\ calls[x].stage = "claimed"
    /\ IF MayRedeem(a)
       THEN /\ attempts' = [attempts EXCEPT ![a].status = "consumed"]
            /\ calls' = [calls EXCEPT ![x].stage = "won"]
            /\ granted' = [granted EXCEPT ![a] = @ + 1]
       ELSE calls' = [calls EXCEPT ![x].stage = "refused"] /\ UNCHANGED <<attempts, granted>>
    /\ UNCHANGED <<browser, queue, ready, window, faults, windows>>
\* createDesktopSession: or everything was signed out meanwhile, or the account is gone.
Mint(x) ==
    /\ calls[x].stage = "won"
    /\ \/ calls' = [calls EXCEPT ![x].stage = "made"] /\ UNCHANGED faults
       \/ Fault /\ calls' = [calls EXCEPT ![x].stage = "refused"]
    /\ UNCHANGED <<attempts, browser, queue, ready, window, granted, windows>>

-----------------------------------------------------------------------------
(* The deep link: from the browser, through the shell *)

\* The page opens it by itself, and again from its button.
OpenLink(a) ==
    /\ browser[a] = "ready" /\ queue # a
    /\ queue' = a
    /\ window' = IF window.open THEN window ELSE Page
    /\ UNCHANGED <<attempts, calls, browser, ready, granted, faults, windows>>

Remembered(a) == window.pending = a
RememberedAny(a) == window.pending # 0
Matches(a) == Remembered(a)

\* exchange(payload): one at a time, and what does not match clears everything.
Exchanged(w, a) ==
    IF w.exchange # 0 THEN {w}
    ELSE LET kept == [w EXCEPT !.callback = a, !.button = "exchanging", !.hopeful = FALSE] IN
         IF ~Matches(a) \/ w.late THEN {[Cleared(kept) EXCEPT !.button = "error"]}
         ELSE {[kept EXCEPT !.exchange = x] : x \in {y \in Exchanges : calls[y].stage = "idle"}}
Sent(w) ==
    calls' = IF w.exchange # window.exchange /\ w.exchange # 0
             THEN [calls EXCEPT ![w.exchange] = [stage |-> "sent", attempt |-> w.callback]]
             ELSE calls

\* flush: a page that listens gets it, and the slot is empty again.
Flushed == ready /\ window.open
FlushedEarly == window.open
MayFlush == Flushed

Deliver ==
    /\ queue # 0 /\ MayFlush
    /\ IF ready THEN \E w \in Exchanged(window, queue) : window' = w /\ Sent(w)
       ELSE UNCHANGED <<window, calls>>
    /\ queue' = 0
    /\ UNCHANGED <<attempts, browser, ready, granted, faults, windows>>

\* The page is up: it listens, and takes up the answer it had kept.
MountWindow ==
    /\ window.open /\ ~ready /\ ready' = TRUE
    /\ IF window.callback = 0 THEN UNCHANGED <<window, calls>>
       ELSE \E w \in Exchanged(window, window.callback) : window' = w /\ Sent(w)
    /\ UNCHANGED <<attempts, browser, queue, granted, faults, windows>>

-----------------------------------------------------------------------------
(* The answer to the exchange *)

FailedQuietly(w) == [w EXCEPT !.exchange = 0]
Failed(w) == [w EXCEPT !.exchange = 0, !.button = "error"]
ExchangeRefused(w) == Failed(w)
Waiting(x) == window.open /\ window.exchange = x

\* The cookie comes with the answer, and the page loads anew; a refusal clears everything.
Answered(x) ==
    /\ calls[x].stage \in {"made", "refused"}
    /\ calls' = [calls EXCEPT ![x] = NoCall]
    /\ IF ~Waiting(x) THEN UNCHANGED <<window, ready>>
       ELSE IF calls[x].stage = "made"
       THEN /\ window' = [Page EXCEPT !.signedIn = calls[x].attempt]
            /\ ready' = FALSE
       ELSE /\ window' = ExchangeRefused(Cleared(window))
            /\ UNCHANGED ready
    /\ UNCHANGED <<attempts, browser, queue, granted, faults, windows>>
\* The request fails on its way, the server stops, or the answer is lost: the page may try again.
AnswerLost(x) ==
    /\ calls[x].stage # "idle" /\ Waiting(x) /\ Fault
    /\ \/ calls' = [calls EXCEPT ![x] = NoCall]
       \/ calls[x].stage # "sent" /\ UNCHANGED calls
    /\ window' = [ExchangeRefused(window) EXCEPT !.hopeful = TRUE]
    /\ UNCHANGED <<attempts, browser, queue, ready, granted, windows>>

-----------------------------------------------------------------------------
(* The window *)

\* A reload keeps sessionStorage; an answer under way is nobody's.
ReloadWindow ==
    /\ window.open /\ Fault /\ ready' = FALSE
    /\ window' = [window EXCEPT !.button = "idle", !.exchange = 0]
    /\ UNCHANGED <<attempts, calls, browser, queue, granted, windows>>
\* A closed window loses it; the cookie stays.
Close ==
    /\ window.open /\ windows < MaxWindows /\ windows' = windows + 1
    /\ window' = [Page EXCEPT !.open = FALSE, !.signedIn = window.signedIn] /\ ready' = FALSE
    /\ UNCHANGED <<attempts, calls, browser, queue, granted, faults>>
Open ==
    /\ ~window.open /\ window' = [window EXCEPT !.open = TRUE]
    /\ UNCHANGED <<attempts, calls, browser, queue, ready, granted, faults, windows>>
\* The time the server gave the attempt, by the page's own clock.
Late ==
    /\ window.pending # 0 /\ ~window.late /\ ~attempts[window.pending].live
    /\ window' = [window EXCEPT !.late = TRUE]
    /\ UNCHANGED <<attempts, calls, browser, queue, ready, granted, faults, windows>>

-----------------------------------------------------------------------------
ServerStep == \E x \in Exchanges : Claim(x) \/ Consume(x) \/ Mint(x) \/ Answered(x)
WindowStep == AttemptBegun \/ Deliver \/ MountWindow
DesktopNext ==
    \/ BeginAttempt \/ BeginFails \/ WindowStep \/ ServerStep \/ ReloadWindow \/ Close \/ Open \/ Late
    \/ \E a \in AttemptIds : Authorize(a) \/ RowExpires(a) \/ SweepAttempt(a) \/ OpenLink(a)
    \/ \E x \in Exchanges : AnswerLost(x)

DesktopSpec == DesktopInit /\ [][DesktopNext]_desktopVars

-----------------------------------------------------------------------------
(* The shell keeps one link, the window waits for one exchange, and an        *)
(* attempt is tried TryLimit times at most.                                   *)
DesktopTypeOK ==
    /\ attempts \in [AttemptIds -> AttemptRow] /\ calls \in [Exchanges -> ExchangeCall]
    /\ browser \in [AttemptIds -> {"none", "open", "ready", "error"}]
    /\ queue \in 0 .. MaxAttempts /\ ready \in BOOLEAN /\ window \in Window
    /\ granted \in [AttemptIds -> Nat]

(* An approved attempt signs in once, however many exchanges run at the       *)
(* server and wherever one of them stops (controllers/desktopAuth.ts).        *)
OneSessionEach == \A a \in AttemptIds : granted[a] <= 1

(* The request the window waits for carries the attempt this page remembers,  *)
(* whatever was reloaded, sent twice or begun again meanwhile.                *)
WaitsForItsOwn == window.exchange # 0 => calls[window.exchange].attempt = window.pending

(* The window is signed in only by an attempt it started itself and still     *)
(* waited for: "This sign-in response does not match the request" otherwise.  *)
SignedInByItsOwn ==
    [][window'.signedIn # window.signedIn => window'.signedIn = window.pending]_desktopVars

(* A link the shell received is not lost while the page loads: the page hears *)
(* of it (AuthCallbackQueue).                                                 *)
LinksAreHeard ==
    [][queue # 0 /\ queue' = 0 => ready]_desktopVars

(* One attempt, one session, in the window that asked for it.                 *)
ExchangesAreSound == [](OneSessionEach /\ WaitsForItsOwn) /\ SignedInByItsOwn /\ LinksAreHeard

(* "Check your connection and try again" (lib/desktopAuth.ts): the answer the *)
(* page keeps can still sign in.                                              *)
TryingAgainCanWork ==
    window.hopeful /\ window.callback # 0 /\ ~window.late /\ attempts[window.callback].live
        => attempts[window.callback].status = "authorized"

(* What the page shows as under way ends.                                     *)
ExchangesEnd == window.button = "exchanging" ~> window.button # "exchanging"

\* The attempts, one by one, keep the promise of a one-time grant.
Standing(a) == CASE attempts[a].status = "none" -> "void"
                 [] attempts[a].status = "pending" -> "asked"
                 [] attempts[a].status = "authorized" -> "approved"
                 [] attempts[a].status = "consumed" -> "spent"
OneTime == INSTANCE OneTimeGrant WITH
             Grants <- AttemptIds,
             standing <- [a \in AttemptIds |-> Standing(a)],
             tries <- [a \in AttemptIds |-> attempts[a].tries],
             redeemed <- granted
KeepsItsPromise == OneTime!GrantSpec
=============================================================================
