---------------------------- MODULE AccountSessions ----------------------------
(***************************************************************************)
(* The sessions of ONE account and the epoch that fences them              *)
(* (src/controllers/authSessions.ts, src/lib/routeAuth.ts, and the session *)
(* sweep of src/controllers/cleanup.ts).                                   *)
(*                                                                         *)
(* A sign-in is a signed token that names a session id and the epoch it    *)
(* was issued in; the server cannot take it back.  What ends a session is  *)
(* its row in auth_sessions (revoked or expired) and the account's epoch.  *)
(* A request is admitted by two separate unlocked reads, the account state *)
(* and the row; a row that does not exist yet is created under the account *)
(* lock, where both are read again.                                        *)
(***************************************************************************)
EXTENDS Naturals, FiniteSets

CONSTANTS
  Sids,            \* session ids, one per sign-in
  Reqs,            \* requests in flight
  SessionLifetime, \* SESSION_LIFETIME_MS: the sliding expiry of a row
  TokenLifetime,   \* AUTH_SESSION_MAX_AGE_SECONDS: the expiry of a token
  MaxNow,          \* bound: ticks of the clock
  MaxEpoch,        \* bound: revocations of all other sessions
  Legacy,          \* the claim of a token issued before epochs existed
  None             \* absent

ASSUME TimesAssumption ==
  /\ SessionLifetime \in Nat \ {0} /\ TokenLifetime \in Nat \ {0}
  /\ MaxNow \in Nat /\ MaxEpoch \in Nat

\* Seven days each; the sweep's grace relies on it.
ASSUME LifetimeAssumption == TokenLifetime <= SessionLifetime

Row   == [revoked : BOOLEAN, expiresAt : Nat]
Token == [epoch : Nat \cup {Legacy}, exp : Nat]
Read  == [sid : Sids, stage : {"state", "missing", "admitted", "refresh"},
          epoch : Nat, survivor : Sids \cup {None}]

ASSUME TokensAssumption == Legacy \notin Nat /\ None \notin Sids \cup Row \cup Token \cup Read

VARIABLES
  now,        \* the clock, in ticks longer than any request
  epoch,      \* encryption_states.session_epoch
  survivor,   \* encryption_states.surviving_sid
  rotationSid,\* encryption_states.rotation_session_sid
  row,        \* auth_sessions
  token,      \* the newest token issued for each session id
  req,        \* requests in flight: what each has read so far
  ended       \* history: session ids whose row was ever seen revoked or expired

stateVars == <<epoch, survivor, rotationSid>>
vars == <<now, epoch, survivor, rotationSid, row, token, req, ended>>

TypeOK ==
  /\ now \in Nat /\ epoch \in Nat
  /\ survivor \in Sids \cup {None} /\ rotationSid \in Sids \cup {None}
  /\ row \in [Sids -> Row \cup {None}]
  /\ token \in [Sids -> Token \cup {None}]
  /\ req \in [Reqs -> Read \cup {None}]
  /\ ended \subseteq Sids
  /\ \A s \in Sids : row[s] # None => token[s] # None
  /\ \A r \in Reqs : req[r] # None => token[req[r].sid] # None

Dead(x) == x.revoked \/ x.expiresAt <= now
Live(s) == row[s] # None /\ ~Dead(row[s])
Valid(s) == token[s] # None /\ token[s].exp > now

\* isSessionEpochAllowed(): the current epoch, or the explicit survivor.
EpochAllowed(e, surv, s) ==
  \/ surv = s
  \/ token[s].epoch = Legacy /\ e = 0
  \/ token[s].epoch = e

\* The survivor exception needs the row it was granted with.
SurvivorLost(e, surv, s) == e > 0 /\ surv = s

\* Accounts from before epochs: some sessions signed in, their row made or not.
Init ==
  /\ now = 0 /\ epoch = 0 /\ survivor = None /\ rotationSid = None
  /\ token \in [Sids -> {None, [epoch |-> Legacy, exp |-> TokenLifetime]}]
  /\ row \in [Sids -> {None, [revoked |-> FALSE, expiresAt |-> SessionLifetime]}]
  /\ \A s \in Sids : row[s] # None => token[s] # None
  /\ req = [r \in Reqs |-> None]
  /\ ended = {}

-----------------------------------------------------------------------------
Done(r) == req' = [req EXCEPT ![r] = None]
Goes(r, stage) == req' = [req EXCEPT ![r].stage = stage]

\* deviation: a sign-in leaves the rotation marker alone
SignInQuietly(s) ==
  /\ token[s] = None
  /\ token' = [token EXCEPT ![s] = [epoch |-> epoch, exp |-> now + TokenLifetime]]
  /\ UNCHANGED <<now, epoch, survivor, rotationSid, row, req>>

\* captureSessionEpoch(): the token carries the epoch; a rotation loses its
\* prerequisite because the account has one more session.
SignIn(s) ==
  /\ token[s] = None
  /\ rotationSid' = None
  /\ token' = [token EXCEPT ![s] = [epoch |-> epoch, exp |-> now + TokenLifetime]]
  /\ UNCHANGED <<now, epoch, survivor, row, req>>

\* authenticateRequest(): the account state is read first ...
Arrive(r, s) ==
  /\ req[r] = None /\ Valid(s)
  /\ req' = [req EXCEPT ![r] = [sid |-> s, stage |-> "state", epoch |-> epoch, survivor |-> survivor]]
  /\ UNCHANGED <<now, stateVars, row, token>>

\* deviation: a dead row is not refused
LookUpLoosely(r) ==
  LET q == req[r] IN
  /\ q # None /\ q.stage = "state"
  /\ IF ~EpochAllowed(q.epoch, q.survivor, q.sid) THEN Done(r)
     ELSE Goes(r, IF row[q.sid] = None THEN "missing" ELSE "admitted")
  /\ UNCHANGED <<now, stateVars, row, token>>

\* ... then the row, and the request is refused, admitted, or has to make one.
LookUp(r) ==
  LET q == req[r] IN
  /\ q # None /\ q.stage = "state"
  /\ IF \/ ~EpochAllowed(q.epoch, q.survivor, q.sid)
        \/ row[q.sid] = None /\ SurvivorLost(q.epoch, q.survivor, q.sid)
        \/ row[q.sid] # None /\ Dead(row[q.sid])
     THEN Done(r)
     ELSE Goes(r, IF row[q.sid] = None THEN "missing" ELSE "admitted")
  /\ UNCHANGED <<now, stateVars, row, token>>

\* deviation: the epoch is not read again under the lock
AdmitsStale(q) ==
  IF row[q.sid] # None THEN ~Dead(row[q.sid]) ELSE EpochAllowed(q.epoch, q.survivor, q.sid)

\* What upsertSessionIfMissing() checks under the account lock.
Admits(q) ==
  /\ EpochAllowed(epoch, survivor, q.sid)
  /\ IF row[q.sid] # None THEN ~Dead(row[q.sid]) ELSE ~SurvivorLost(epoch, survivor, q.sid)

Upsert(r) ==
  LET q == req[r] IN
  /\ q # None /\ q.stage = "missing"
  /\ IF Admits(q)
     THEN /\ Goes(r, "admitted")
          /\ row' = IF row[q.sid] # None THEN row
                    ELSE [row EXCEPT ![q.sid] = [revoked |-> FALSE, expiresAt |-> now + SessionLifetime]]
     ELSE Done(r) /\ row' = row
  /\ UNCHANGED <<now, stateVars, token>>

\* touchSession(): one guarded UPDATE, sent after the response.
Touch(r) ==
  /\ req[r] # None /\ req[r].stage = "admitted"
  /\ row' = IF Live(req[r].sid) THEN [row EXCEPT ![req[r].sid].expiresAt = now + SessionLifetime] ELSE row
  /\ Done(r)
  /\ UNCHANGED <<now, stateVars, token>>

\* /api/auth/session reads the row ...
ReadForRefresh(r, s) ==
  /\ req[r] = None /\ Valid(s)
  /\ row[s] # None => ~Dead(row[s])
  /\ req' = [req EXCEPT ![r] = [sid |-> s, stage |-> "refresh", epoch |-> epoch,
                                survivor |-> IF row[s] = None THEN s ELSE None]]
  /\ UNCHANGED <<now, stateVars, row, token>>

\* ... then the state; if both allow it the same claims get a new expiry.  (The
\* "survivor" such a request remembers says that it found no row.)
Refresh(r) ==
  LET q == req[r] IN
  /\ q # None /\ q.stage = "refresh"
  /\ token' = IF /\ EpochAllowed(epoch, survivor, q.sid)
                 /\ q.survivor = q.sid => ~SurvivorLost(epoch, survivor, q.sid)
              THEN [token EXCEPT ![q.sid].exp = now + TokenLifetime] ELSE token
  /\ Done(r)
  /\ UNCHANGED <<now, stateVars, row>>

Revoked(s) == [row EXCEPT ![s].revoked = TRUE]

\* revokeSession() and, at sign-out, revokeSessionBySid().
Revoke(s) ==
  /\ row[s] # None /\ ~row[s].revoked
  /\ row' = Revoked(s)
  /\ survivor' = IF survivor = s THEN None ELSE survivor
  /\ rotationSid' = IF survivor = s THEN None ELSE rotationSid
  /\ UNCHANGED <<now, epoch, token>>

RevokeOne(r, s) ==
  /\ req[r] # None /\ req[r].stage = "admitted"
  /\ Revoke(s) /\ Done(r)

SignOut(s) == Valid(s) /\ Revoke(s) /\ UNCHANGED req

\* revokeAllOtherSessions(): "keep" is the caller, or nobody when the account is
\* erased; rows, epoch and survivor change together.
RevokeAll(r) ==
  /\ req[r] # None /\ req[r].stage = "admitted"
  /\ epoch < MaxEpoch
  /\ \E keep \in {req[r].sid, None} :
       /\ row' = [s \in Sids |-> IF row[s] # None /\ s # keep THEN [row[s] EXCEPT !.revoked = TRUE] ELSE row[s]]
       /\ epoch' = epoch + 1
       /\ survivor' = keep /\ rotationSid' = keep
  /\ Done(r)
  /\ UNCHANGED <<now, token>>

SweepableAtOnce(s) == row[s] # None /\ row[s].expiresAt < now  \* deviation: no grace
Sweepable(s) == row[s] # None /\ row[s].expiresAt + SessionLifetime < now

\* cleanupExpiredRows(): a tombstone goes once no token can still name it.
Sweep ==
  /\ \E s \in Sids : Sweepable(s)
  /\ row' = [s \in Sids |-> IF Sweepable(s) THEN None ELSE row[s]]
  /\ UNCHANGED <<now, stateVars, token, req>>

Finish(r) == req[r] # None /\ Done(r) /\ UNCHANGED <<now, stateVars, row, token>>

\* A tick is longer than a request may run; the clock stops at its bound.
Tick ==
  /\ \A r \in Reqs : req[r] = None
  /\ now' = IF now < MaxNow THEN now + 1 ELSE now
  /\ UNCHANGED <<stateVars, row, token, req>>

Step ==
  \/ \E s \in Sids : SignIn(s) \/ SignOut(s)
  \/ \E r \in Reqs : \E s \in Sids : Arrive(r, s) \/ ReadForRefresh(r, s) \/ RevokeOne(r, s)
  \/ \E r \in Reqs : LookUp(r) \/ Upsert(r) \/ Touch(r) \/ Refresh(r) \/ RevokeAll(r) \/ Finish(r)
  \/ Sweep \/ Tick

Next == Step /\ ended' = ended \cup {s \in Sids : row'[s] # None /\ Dead(row[s])'}

Spec == Init /\ [][Next]_vars

-----------------------------------------------------------------------------
\* A session that was revoked, signed out or left to expire never comes back,
\* although the server cannot recall its token and sweeps its tombstone.
NoResurrection == \A s \in ended : ~Live(s)

\* Signing out everywhere else holds: a session with a live row belongs to the
\* current epoch or is the one that was spared, whatever requests were being
\* admitted while the epoch advanced.
LiveIsCurrent == \A s \in Sids : Live(s) => token[s] # None /\ EpochAllowed(epoch, survivor, s)

\* While a session holds the rotation prerequisite, no other session of the
\* account is live and no other token can make one.
RotationSessionIsAlone ==
  rotationSid # None =>
    /\ rotationSid = survivor /\ epoch > 0
    /\ \A s \in Sids \ {rotationSid} : ~Live(s) /\ (token[s] # None => ~EpochAllowed(epoch, survivor, s))

Admitted(r, s) == req[r] # None /\ req[r].sid = s /\ req[r].stage = "admitted"

\* The two reads that admit a request are not atomic, yet when it is admitted its
\* session is live and allowed by the epoch of that very moment.
AdmissionStep ==
  \A r \in Reqs, s \in Sids : Admitted(r, s)' /\ ~Admitted(r, s) => Live(s)' /\ EpochAllowed(epoch, survivor, s)'
AdmissionIsCurrent == [][AdmissionStep]_vars

=============================================================================
