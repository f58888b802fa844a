-------------------------- MODULE Accounts_proofs --------------------------
(***************************************************************************)
(* Sessions and signing in, for every number of sessions, attempts, codes, *)
(* accounts and requests, and any lifetimes with TokenLifetime <=          *)
(* SessionLifetime: a session that ended stays ended, an approved desktop  *)
(* attempt signs in once, in the window that asked for it, the attempts    *)
(* keep the promise of a one-time grant, every guess at an email code is   *)
(* counted and no address has more of them than its quota, and no          *)
(* interleaving of links, merges and removals of sign-in methods locks an  *)
(* account out or lets another's go.                                       *)
(***************************************************************************)
EXTENDS AccountSessions, SignInMethods, DesktopSignIn, EmailCodes, FiniteSetTheorems, SequenceTheorems, TLAPS

-----------------------------------------------------------------------------
(* Sessions.                                                               *)

\* Accounts from before epochs are well formed.
LEMMA InitTypeOK == Init => TypeOK
<1>1. /\ [epoch |-> Legacy, exp |-> TokenLifetime] \in Token
      /\ [revoked |-> FALSE, expiresAt |-> SessionLifetime] \in Row BY TimesAssumption DEF Row, Token
<1> DEFINE oldToken == [epoch |-> Legacy, exp |-> TokenLifetime]
           oldRow == [revoked |-> FALSE, expiresAt |-> SessionLifetime]
<1> HIDE DEF oldToken, oldRow
<1>2. Init => /\ token \in [Sids -> {None, oldToken}] /\ row \in [Sids -> {None, oldRow}]
              /\ \A s \in Sids : row[s] # None => token[s] # None BY DEF Init, oldToken, oldRow
<1>3. Init => now = 0 /\ epoch = 0 /\ survivor = None /\ rotationSid = None /\ req = [r \in Reqs |-> None] /\ ended = {}
  BY DEF Init
<1>4. oldToken \in Token /\ oldRow \in Row BY <1>1 DEF oldToken, oldRow
<1> QED BY <1>2, <1>3, <1>4 DEF TypeOK

\* A finished request leaves well-formed requests.
LEMMA DoneType ==
  ASSUME TypeOK, NEW r \in Reqs, Done(r) PROVE req' \in [Reqs -> Read \cup {None}] /\ \A x \in Reqs : req'[x] # None => req[x] # None /\ req'[x].sid = req[x].sid
BY DEF TypeOK, Done

\* So does a request that moves on.
LEMMA GoesType ==
  ASSUME TypeOK, NEW r \in Reqs, req[r] # None, NEW g \in {"missing", "admitted"}, Goes(r, g)
  PROVE  /\ req' \in [Reqs -> Read \cup {None}]
         /\ req'[r] \in Read /\ req'[r].sid = req[r].sid /\ req'[r].stage = g
         /\ \A x \in Reqs : req'[x] # None => req[x] # None /\ req'[x].sid = req[x].sid
BY DEF TypeOK, Goes, Read

\* A revoked row is a row.
LEMMA RevokeType ==
  ASSUME TypeOK, NEW s \in Sids, Revoke(s)
  PROVE  row' \in [Sids -> Row \cup {None}] /\ \A x \in Sids : row'[x] # None => row[x] # None
<1>1. row[s] \in Row BY DEF TypeOK, Revoke
<1>2. [row[s] EXCEPT !.revoked = TRUE] \in Row BY <1>1 DEF Row
<1> QED BY <1>2 DEF TypeOK, Revoke, Revoked

\* Every step keeps the state well formed.
LEMMA StepTypeOK == TypeOK /\ [Next]_vars => TypeOK'
<1> SUFFICES ASSUME TypeOK, Next PROVE TypeOK' BY DEF TypeOK, vars
<1>0. ended' \subseteq Sids BY DEF TypeOK, Next
<1> USE DEF stateVars
<1>1. ASSUME NEW s \in Sids, SignIn(s) PROVE TypeOK'
  BY TimesAssumption, <1>0, <1>1 DEF TypeOK, Token, SignIn
<1>2. ASSUME NEW s \in Sids, SignOut(s) PROVE TypeOK' BY <1>0, <1>2, RevokeType DEF TypeOK, SignOut, Revoke
<1>3. ASSUME NEW r \in Reqs, NEW s \in Sids, Arrive(r, s) \/ ReadForRefresh(r, s) PROVE TypeOK'
  BY <1>3, <1>0 DEF TypeOK, Arrive, ReadForRefresh, Read, Valid
<1>4. ASSUME NEW r \in Reqs, NEW s \in Sids, RevokeOne(r, s) PROVE TypeOK'
  BY <1>0, <1>4, RevokeType, DoneType DEF TypeOK, RevokeOne, Revoke
<1>5. ASSUME NEW r \in Reqs, LookUp(r) PROVE TypeOK'
  BY <1>5, DoneType, GoesType, <1>0 DEF LookUp, TypeOK
<1>6. ASSUME NEW r \in Reqs, Upsert(r) PROVE TypeOK'
 <2>1. req' \in [Reqs -> Read \cup {None}] /\ \A x \in Reqs : req'[x] # None => req[x] # None /\ req'[x].sid = req[x].sid
   BY <1>6, DoneType, GoesType DEF Upsert
 <2>2. [revoked |-> FALSE, expiresAt |-> now + SessionLifetime] \in Row BY TimesAssumption DEF TypeOK, Row
 <2>3. /\ row' \in [Sids -> Row \cup {None}]
       /\ \A s \in Sids : row'[s] # None => token[s] # None BY <1>6, <2>2 DEF TypeOK, Upsert
 <2> QED BY <1>0, <1>6, <2>1, <2>3 DEF TypeOK, Upsert
<1>7. ASSUME NEW r \in Reqs, Touch(r) PROVE TypeOK'
 <2>1. req[r].sid \in Sids BY <1>7 DEF TypeOK, Touch, Read
 <2>2. row' \in [Sids -> Row \cup {None}] /\ \A s \in Sids : row'[s] # None => row[s] # None
  <3>1. CASE Live(req[r].sid)
    BY <2>1, <3>1, TimesAssumption, <1>7, TokensAssumption DEF TypeOK, Live, Row, Touch
  <3>2. CASE ~Live(req[r].sid) BY <1>7, <3>2 DEF TypeOK, Touch
  <3> QED BY <3>1, <3>2
 <2> QED BY <1>0, <1>7, <2>2, DoneType DEF TypeOK, Touch
<1>8. ASSUME NEW r \in Reqs, Refresh(r) PROVE TypeOK'
 <2>1. token' \in [Sids -> Token \cup {None}] /\ \A s \in Sids : token[s] # None => token'[s] # None
  <3> DEFINE s == req[r].sid
  <3>1. CASE token' = token BY <3>1 DEF TypeOK
  <3>2. CASE token' = [token EXCEPT ![s].exp = now + TokenLifetime] /\ token[s] = None BY <1>8, <3>2 DEF TypeOK, Refresh
  <3>3. CASE token' = [token EXCEPT ![s].exp = now + TokenLifetime] /\ token[s] # None
    BY <1>8, <3>3, TimesAssumption, TokensAssumption DEF TypeOK, Refresh, Read, Token
  <3> QED BY <1>8, <3>1, <3>2, <3>3 DEF Refresh
 <2>2. req' \in [Reqs -> Read \cup {None}] /\ \A x \in Reqs : req'[x] # None => req[x] # None /\ req'[x].sid = req[x].sid
   BY <1>8, DoneType DEF Refresh
 <2>3. \A x \in Reqs : req[x] # None => req[x].sid \in Sids BY DEF TypeOK, Read
 <2> QED BY <1>0, <1>8, <2>1, <2>2, <2>3 DEF TypeOK, Refresh
<1>9. ASSUME NEW r \in Reqs, RevokeAll(r) PROVE TypeOK'
 <2>1. req[r].sid \in Sids BY <1>9 DEF TypeOK, RevokeAll, Read
 <2>2. \A s \in Sids : row[s] # None => [row[s] EXCEPT !.revoked = TRUE] \in Row BY DEF TypeOK, Row
 <2>3. row' \in [Sids -> Row \cup {None}] BY <1>9, <2>2 DEF TypeOK, RevokeAll
 <2> QED BY <1>0, <1>9, <2>1, <2>3, DoneType DEF TypeOK, RevokeAll
<1>10. ASSUME NEW r \in Reqs, Finish(r) PROVE TypeOK' BY <1>0, <1>10, DoneType DEF TypeOK, Finish
<1>11. CASE Sweep BY <1>0, <1>11 DEF TypeOK, Sweep
<1>12. CASE Tick BY <1>0, <1>12 DEF TypeOK, Tick
<1> QED BY <1>1, <1>2, <1>3, <1>4, <1>5, <1>6, <1>7, <1>8, <1>9, <1>10, <1>11, <1>12 DEF Next, Step

\* Every row, token and request is well formed; a row and a request always
\* belong to a session id a token was issued for.
THEOREM TypeCorrect == Spec => []TypeOK
BY InitTypeOK, StepTypeOK, PTL DEF Spec

-----------------------------------------------------------------------------
(* The epoch fence.                                                        *)

\* No token claims an epoch that has not begun.
ClaimsArePast == \A s \in Sids : token[s] # None => token[s].epoch = Legacy \/ token[s].epoch <= epoch

Fenced == LiveIsCurrent /\ RotationSessionIsAlone /\ ClaimsArePast

\* A step that leaves the account state and the claims alone, and makes only
\* sessions live that the epoch allows, keeps the fence.
LEMMA FenceUntouched ==
  ASSUME Fenced, UNCHANGED stateVars,
         \A s \in Sids : /\ token'[s] # None <=> token[s] # None
                         /\ token[s] # None => token'[s].epoch = token[s].epoch,
         \A s \in Sids : Live(s)' => Live(s) \/ (token[s] # None /\ EpochAllowed(epoch, survivor, s))
  PROVE  Fenced'
<1>1. \A s \in Sids : token[s] # None => (EpochAllowed(epoch, survivor, s)' <=> EpochAllowed(epoch, survivor, s))
  BY DEF EpochAllowed, stateVars
<1>2. LiveIsCurrent' BY <1>1 DEF Fenced, LiveIsCurrent
<1>3. RotationSessionIsAlone' BY <1>1 DEF Fenced, RotationSessionIsAlone, stateVars
<1>4. ClaimsArePast' BY DEF Fenced, ClaimsArePast, stateVars
<1> QED BY <1>2, <1>3, <1>4 DEF Fenced

\* Revoking one session keeps the fence, and takes the exception of a survivor.
LEMMA RevokeFenced ==
  ASSUME TypeOK, Fenced, NEW s \in Sids, Revoke(s) PROVE Fenced'
<1>1. \A t \in Sids : t # s => row'[t] = row[t] BY DEF TypeOK, Revoke, Revoked
<1>2. row'[s].revoked = TRUE BY DEF TypeOK, Revoke, Revoked, Row
<1>3. UNCHANGED <<now, epoch, token>> BY DEF Revoke
<1>4. \A t \in Sids : Live(t)' => t # s /\ Live(t) BY <1>1, <1>2, <1>3 DEF Live, Dead
<1>5. LiveIsCurrent' BY <1>3, <1>4 DEF Fenced, LiveIsCurrent, EpochAllowed, Revoke
<1>6. RotationSessionIsAlone' BY <1>3, <1>4, TokensAssumption DEF Fenced, RotationSessionIsAlone, EpochAllowed, Revoke
<1>7. ClaimsArePast' BY <1>3 DEF Fenced, ClaimsArePast
<1> QED BY <1>5, <1>6, <1>7 DEF Fenced

\* Advancing the epoch leaves at most the survivor live.
LEMMA RevokeAllFenced ==
  ASSUME TypeOK, Fenced, NEW r \in Reqs, RevokeAll(r) PROVE Fenced'
<1>1. req[r].sid \in Sids /\ token[req[r].sid] # None BY DEF TypeOK, RevokeAll, Read
<1>2. PICK keep \in {req[r].sid, None} :
        /\ row' = [s \in Sids |-> IF row[s] # None /\ s # keep THEN [row[s] EXCEPT !.revoked = TRUE] ELSE row[s]]
        /\ epoch' = epoch + 1
        /\ survivor' = keep /\ rotationSid' = keep BY DEF RevokeAll
<1>3. UNCHANGED <<now, token>> /\ epoch \in Nat BY DEF RevokeAll, TypeOK
<1>4. \A s \in Sids : Live(s)' => s = keep /\ Live(s) BY <1>2, <1>3 DEF Live, Dead, TypeOK, Row
<1>5. \A s \in Sids : token[s] # None /\ s # keep => ~EpochAllowed(epoch, survivor, s)'
 <2> SUFFICES ASSUME NEW s \in Sids, token[s] # None, s # keep PROVE ~EpochAllowed(epoch, survivor, s)' OBVIOUS
 <2>1. token[s].epoch = Legacy \/ (token[s].epoch \in Nat /\ token[s].epoch <= epoch)
   BY DEF Fenced, ClaimsArePast, TypeOK, Token
 <2> QED BY <1>2, <1>3, <2>1, TokensAssumption DEF EpochAllowed
<1>6. LiveIsCurrent' BY <1>1, <1>2, <1>3, <1>4 DEF Fenced, LiveIsCurrent, EpochAllowed
<1>7. RotationSessionIsAlone' BY <1>2, <1>3, <1>4, <1>5 DEF RotationSessionIsAlone
<1>8. ClaimsArePast'
 <2> SUFFICES ASSUME NEW s \in Sids, token[s] # None, token[s].epoch # Legacy PROVE token[s].epoch <= epoch + 1
   BY <1>2, <1>3 DEF ClaimsArePast
 <2> QED BY <1>3 DEF Fenced, ClaimsArePast, TypeOK, Token
<1> QED BY <1>6, <1>7, <1>8 DEF Fenced

\* No step makes a session live that the epoch does not allow.
LEMMA FencedStep == TypeOK /\ Fenced /\ [Next]_vars => Fenced'
<1> SUFFICES ASSUME TypeOK, Fenced, Next PROVE Fenced'
  BY DEF vars, stateVars, Fenced, LiveIsCurrent, RotationSessionIsAlone, ClaimsArePast, Live, Dead, EpochAllowed
<1>1. ASSUME NEW s \in Sids, SignIn(s) PROVE Fenced'
 <2>1. \A t \in Sids : t # s => token'[t] = token[t] BY <1>1 DEF TypeOK, SignIn
 <2>2. token'[s].epoch = epoch /\ token[s] = None /\ row[s] = None BY <1>1 DEF TypeOK, SignIn
 <2>3. UNCHANGED <<now, epoch, survivor, row>> /\ rotationSid' = None /\ epoch \in Nat BY <1>1 DEF SignIn, TypeOK
 <2>4. \A t \in Sids : Live(t)' => t # s /\ Live(t) BY <2>2, <2>3 DEF Live, Dead
 <2>5. LiveIsCurrent' BY <2>1, <2>3, <2>4 DEF Fenced, LiveIsCurrent, EpochAllowed
 <2>6. ClaimsArePast'
   BY <2>3, <2>1, <2>2 DEF Fenced, ClaimsArePast
 <2> QED BY <2>3, <2>5, <2>6 DEF Fenced, RotationSessionIsAlone
<1>2. ASSUME NEW s \in Sids, Revoke(s) PROVE Fenced' BY <1>2, RevokeFenced
<1>3. ASSUME NEW r \in Reqs, RevokeAll(r) PROVE Fenced' BY <1>3, RevokeAllFenced
<1>4. ASSUME NEW r \in Reqs, Upsert(r) PROVE Fenced'
 <2> DEFINE q == req[r]
 <2>1. q.sid \in Sids /\ token[q.sid] # None BY <1>4 DEF TypeOK, Upsert, Read
 <2>2. UNCHANGED <<now, epoch, survivor, rotationSid, token>> BY <1>4 DEF Upsert, stateVars
 <2>3. \A s \in Sids : row'[s] = row[s] \/ (s = q.sid /\ EpochAllowed(epoch, survivor, s))
   BY <1>4, <2>1 DEF TypeOK, Upsert, Admits
 <2>4. \A s \in Sids : Live(s)' => Live(s) \/ (token[s] # None /\ EpochAllowed(epoch, survivor, s))
   BY <2>1, <2>2, <2>3 DEF Live, Dead
 <2> QED BY <2>2, <2>4, FenceUntouched DEF stateVars
<1>5. ASSUME NEW r \in Reqs, Touch(r) PROVE Fenced'
  BY <1>5, FenceUntouched DEF Touch, stateVars, TypeOK, Live, Dead
<1>6. ASSUME NEW r \in Reqs, Refresh(r) PROVE Fenced'
  BY <1>6, TimesAssumption, TokensAssumption, FenceUntouched DEF Refresh, stateVars, TypeOK, Read, Token, Live, Dead
<1>7. ASSUME \/ \E r \in Reqs : \E s \in Sids : Arrive(r, s) \/ ReadForRefresh(r, s)
             \/ \E r \in Reqs : LookUp(r) \/ Finish(r)
      PROVE  Fenced'
  BY <1>7, FenceUntouched DEF Arrive, ReadForRefresh, LookUp, Finish, stateVars, Live, Dead
<1>8. CASE Sweep
  BY <1>8, FenceUntouched DEF Sweep, stateVars, Live, Dead
<1>9. CASE Tick
 <2>1. UNCHANGED <<epoch, survivor, rotationSid, row, token>> /\ now \in Nat /\ now' \in Nat /\ now <= now'
   BY <1>9 DEF Tick, stateVars, TypeOK
 <2>2. \A s \in Sids : Live(s)' => Live(s)
  <3> SUFFICES ASSUME NEW s \in Sids, row[s] # None, row[s].expiresAt <= now PROVE row[s].expiresAt <= now'
    BY <2>1 DEF Live, Dead
  <3>1. row[s].expiresAt \in Nat BY DEF TypeOK, Row
  <3> QED BY <2>1, <3>1
 <2> QED BY <2>1, <2>2, FenceUntouched DEF stateVars
<1> QED BY <1>1, <1>2, <1>3, <1>4, <1>5, <1>6, <1>7, <1>8, <1>9 DEF Next, Step, SignOut, RevokeOne

\* Before the first revocation every session is allowed.
LEMMA InitFenced == Init => Fenced
<1> SUFFICES ASSUME Init PROVE Fenced OBVIOUS
<1>1. \A s \in Sids : token[s] # None => token[s].epoch = Legacy BY DEF Init
<1>2. epoch = 0 /\ survivor = None /\ rotationSid = None /\ \A s \in Sids : row[s] # None => token[s] # None BY DEF Init
<1> QED BY <1>1, <1>2 DEF Fenced, LiveIsCurrent, RotationSessionIsAlone, ClaimsArePast, EpochAllowed, Live

\* Sign-out everywhere else holds whatever requests were being admitted, and the
\* session that holds the rotation prerequisite really is alone.
THEOREM EpochFence == Spec => [](LiveIsCurrent /\ RotationSessionIsAlone)
<1>1. Fenced => LiveIsCurrent /\ RotationSessionIsAlone BY DEF Fenced
<1> QED BY <1>1, InitFenced, FencedStep, TypeCorrect, PTL DEF Spec

\* A request is admitted only while its session is live and allowed.
THEOREM AdmissionCurrent == Spec => AdmissionIsCurrent
<1>1. TypeOK /\ Fenced /\ [Next]_vars => [AdmissionStep]_vars
 <2> SUFFICES ASSUME TypeOK, Fenced, Next, NEW r \in Reqs, NEW s \in Sids, Admitted(r, s)', ~Admitted(r, s)
              PROVE  Live(s)' /\ EpochAllowed(epoch, survivor, s)' BY DEF AdmissionStep
 <2>1. CASE \E x \in Reqs : LookUp(x)
  <3>1. PICK x \in Reqs : LookUp(x) BY <2>1
  <3>2. x = r /\ req[r].sid = s /\ row[s] # None /\ ~Dead(row[s])
    BY <3>1, TokensAssumption DEF LookUp, Goes, Done, Admitted, TypeOK, Read
  <3>3. UNCHANGED <<now, epoch, survivor, row, token>> BY <3>1 DEF LookUp, stateVars
  <3> QED BY <3>2, <3>3 DEF Live, Dead, Fenced, LiveIsCurrent, EpochAllowed
 <2>2. CASE \E x \in Reqs : Upsert(x)
  <3>1. PICK x \in Reqs : Upsert(x) BY <2>2
  <3>2. x = r /\ req[r].sid = s /\ Admits(req[r]) BY <3>1, TokensAssumption DEF Upsert, Goes, Done, Admitted, TypeOK, Read
  <3>3. UNCHANGED <<now, epoch, survivor, token>> BY <3>1 DEF Upsert, stateVars
  <3>4. EpochAllowed(epoch, survivor, s)' BY <3>2, <3>3 DEF Admits, EpochAllowed
  <3>5. CASE row[s] # None BY <3>1, <3>2, <3>3, <3>4, <3>5 DEF Admits, Upsert, Live, Dead
  <3>6. CASE row[s] = None
   <4>1. row'[s] = [revoked |-> FALSE, expiresAt |-> now + SessionLifetime] BY <3>1, <3>2, <3>6 DEF Upsert, TypeOK
   <4>2. row'[s] \in Row BY <4>1, TimesAssumption DEF TypeOK, Row
   <4>3. now \in Nat /\ ~(now + SessionLifetime <= now) BY TimesAssumption DEF TypeOK
   <4>4. row'[s] # None BY <4>2, TokensAssumption
   <4>5. row'[s].revoked = FALSE /\ row'[s].expiresAt = now + SessionLifetime BY <4>1
   <4>6. Live(s)' BY <3>3, <4>3, <4>4, <4>5 DEF Live, Dead
   <4> QED BY <3>4, <4>6
  <3> QED BY <3>5, <3>6
 <2>3. CASE \E x \in Reqs, z \in Sids : Arrive(x, z) \/ ReadForRefresh(x, z)
  <3>1. PICK x \in Reqs : (req'[x] # None => req'[x].stage \in {"state", "refresh"}) /\ \A y \in Reqs \ {x} : req'[y] = req[y]
    BY <2>3 DEF Arrive, ReadForRefresh, TypeOK
  <3> QED BY <3>1 DEF Admitted
 <2>4. CASE \E x \in Reqs : Done(x)
  <3>1. PICK x \in Reqs : req'[x] = None /\ \A y \in Reqs \ {x} : req'[y] = req[y] BY <2>4 DEF Done, TypeOK
  <3> QED BY <3>1 DEF Admitted
 <2>5. CASE UNCHANGED req BY <2>5 DEF Admitted
 <2>6. \/ \E x \in Reqs : LookUp(x)
       \/ \E x \in Reqs : Upsert(x)
       \/ \E x \in Reqs, z \in Sids : Arrive(x, z) \/ ReadForRefresh(x, z)
       \/ \E x \in Reqs : Done(x)
       \/ UNCHANGED req BY DEF Next, Step, SignIn, SignOut, RevokeOne, Touch, Refresh, RevokeAll, Finish, Sweep, Tick
 <2> QED BY <2>1, <2>2, <2>3, <2>4, <2>5, <2>6
<1> QED BY <1>1, InitFenced, FencedStep, TypeCorrect, PTL DEF Spec, AdmissionIsCurrent

-----------------------------------------------------------------------------
(* A session that ended never comes back.  Why a tombstone may be swept: a *)
(* token never outlives the expiry of its row by a whole session lifetime, *)
(* so when the sweep takes the tombstone the token is already dead, and a  *)
(* request can neither recreate the row nor refresh the token.             *)

\* What one step may do to the row of a session ...
RowKept(s) ==
  /\ row[s] = None => row'[s] = None
  /\ row[s] # None => row'[s] # None /\ row'[s].expiresAt = row[s].expiresAt /\ (row[s].revoked => row'[s].revoked)
RowMade(s)    == row[s] = None /\ (\E r \in Reqs : req[r] # None /\ req[r].sid = s) /\ row'[s].expiresAt = now + SessionLifetime
SessionTouched(s) == row[s] # None /\ Live(s) /\ row'[s].expiresAt = now + SessionLifetime
RowSwept(s)   == Sweepable(s) /\ row'[s] = None
RowStep(s)    == RowKept(s) \/ RowMade(s) \/ SessionTouched(s) \/ RowSwept(s)

\* ... to its token ...
TokenSigned(s)    == token[s] = None /\ token'[s].exp = now + TokenLifetime
TokenRefreshed(s) ==
  /\ token[s] # None /\ token'[s] # None /\ token'[s].exp = now + TokenLifetime
  /\ \E r \in Reqs : req[r] # None /\ req[r].sid = s /\ req[r].stage = "refresh"
TokenStep(s) == token'[s] = token[s] \/ TokenSigned(s) \/ TokenRefreshed(s)

\* ... and to a request.
ReqGone(r) == req'[r] = None
ReqGoes(r) == req[r] # None /\ req'[r].sid = req[r].sid /\ (req'[r].stage = "refresh" => req[r].stage = "refresh")
ReqNew(r)  ==
  LET s == req'[r].sid IN
  /\ token[s] # None /\ token[s].exp > now
  /\ req'[r].stage = "refresh" /\ row[s] # None => row[s].expiresAt > now
ReqStep(r) == ReqGone(r) \/ ReqGoes(r) \/ ReqNew(r)

TimeStep == now' = now \/ (now <= now' /\ UNCHANGED <<row, token, req>> /\ \A r \in Reqs : req[r] = None)

Parts(s) == RowStep(s) /\ TokenStep(s)

\* Leaving the rows alone is one of the row steps.
LEMMA RowUnchanged == ASSUME NEW s, row' = row PROVE RowStep(s)
BY DEF RowStep, RowKept

\* Leaving the tokens alone is one of the token steps.
LEMMA TokenUnchanged == ASSUME NEW s, token' = token PROVE TokenStep(s)
BY DEF TokenStep

\* Leaving the requests alone is one of the request steps.
LEMMA RequestUnchanged == ASSUME TypeOK, req' = req PROVE \A r \in Reqs : ReqStep(r)
BY DEF ReqStep, ReqGone, ReqGoes

\* So is finishing a request,
LEMMA RequestDone == ASSUME TypeOK, NEW x \in Reqs, Done(x) PROVE \A r \in Reqs : ReqStep(r)
BY DEF TypeOK, Done, ReqStep, ReqGone, ReqGoes

\* and letting one go on.
LEMMA RequestGoes ==
  ASSUME TypeOK, NEW x \in Reqs, req[x] # None, NEW g \in {"missing", "admitted"}, Goes(x, g) PROVE \A r \in Reqs : ReqStep(r)
<1>1. req[x] \in Read BY DEF TypeOK
<1>2. req'[x].sid = req[x].sid /\ req'[x].stage = g /\ \A r \in Reqs \ {x} : req'[r] = req[r] BY <1>1 DEF TypeOK, Goes, Read
<1> QED BY <1>2 DEF ReqStep, ReqGone, ReqGoes

\* Revoking a row keeps its expiry.
LEMMA RevokedKept == ASSUME TypeOK, NEW x \in Sids, row[x] # None, row' = Revoked(x) PROVE \A s \in Sids : RowStep(s)
<1>1. row[x] \in Row BY DEF TypeOK
<1>2. row'[x] \in Row /\ row'[x].expiresAt = row[x].expiresAt /\ row'[x].revoked /\ \A s \in Sids \ {x} : row'[s] = row[s]
  BY <1>1 DEF TypeOK, Revoked, Row
<1> QED BY <1>2, TokensAssumption DEF RowStep, RowKept

\* Every step moves every session, every request and the clock in one of these ways.
LEMMA StepParts ==
  ASSUME TypeOK, Next
  PROVE  TimeStep /\ (\A s \in Sids : RowStep(s) /\ TokenStep(s)) /\ (\A r \in Reqs : ReqStep(r))
<1>1. ASSUME NEW z \in Sids, SignIn(z)
      PROVE  TimeStep /\ (\A s \in Sids : RowStep(s) /\ TokenStep(s)) /\ (\A r \in Reqs : ReqStep(r))
  BY <1>1, RowUnchanged, RequestUnchanged DEF SignIn, TypeOK, TokenStep, TokenSigned, TimeStep
<1>2. ASSUME NEW z \in Sids, SignOut(z) \/ (\E r \in Reqs : RevokeOne(r, z))
      PROVE  TimeStep /\ (\A s \in Sids : RowStep(s) /\ TokenStep(s)) /\ (\A r \in Reqs : ReqStep(r))
  BY <1>2, RequestUnchanged, RequestDone, RevokedKept, TokenUnchanged DEF SignOut, RevokeOne, Revoke, TimeStep
<1>3. ASSUME NEW x \in Reqs, NEW z \in Sids, Arrive(x, z) \/ ReadForRefresh(x, z)
      PROVE  TimeStep /\ (\A s \in Sids : RowStep(s) /\ TokenStep(s)) /\ (\A r \in Reqs : ReqStep(r))
 <2>1. token[z] # None /\ token[z].exp > now /\ UNCHANGED <<now, row, token>> BY <1>3 DEF Arrive, ReadForRefresh, Valid
 <2>2. req'[x].sid = z /\ \A r \in Reqs \ {x} : req'[r] = req[r] BY <1>3 DEF Arrive, ReadForRefresh, TypeOK
 <2>3. req'[x].stage = "refresh" /\ row[z] # None => row[z].expiresAt > now
  <3>1. CASE Arrive(x, z) BY <3>1 DEF Arrive, TypeOK
  <3>2. CASE ReadForRefresh(x, z) BY <3>2 DEF ReadForRefresh, TypeOK, Dead, Row
  <3> QED BY <1>3, <3>1, <3>2
 <2>4. \A r \in Reqs : ReqStep(r) BY <2>1, <2>2, <2>3 DEF ReqStep, ReqGone, ReqGoes, ReqNew
 <2> QED BY <2>1, <2>4, RowUnchanged, TokenUnchanged DEF TimeStep
<1>4. ASSUME NEW x \in Reqs, LookUp(x) \/ Finish(x)
      PROVE  TimeStep /\ (\A s \in Sids : RowStep(s) /\ TokenStep(s)) /\ (\A r \in Reqs : ReqStep(r))
  BY <1>4, RowUnchanged, TokenUnchanged, RequestDone, RequestGoes DEF LookUp, Finish, TimeStep
<1>5. ASSUME NEW x \in Reqs, Upsert(x)
      PROVE  TimeStep /\ (\A s \in Sids : RowStep(s) /\ TokenStep(s)) /\ (\A r \in Reqs : ReqStep(r))
  BY <1>5, RowUnchanged, TokenUnchanged, RequestDone, RequestGoes DEF Upsert, TypeOK, RowStep, RowKept, RowMade, TimeStep
<1>6. ASSUME NEW x \in Reqs, Touch(x)
      PROVE  TimeStep /\ (\A s \in Sids : RowStep(s) /\ TokenStep(s)) /\ (\A r \in Reqs : ReqStep(r))
 <2>1. UNCHANGED <<now, token>> /\ Done(x) BY <1>6 DEF Touch
 <2>2. CASE Live(req[x].sid)
  <3> DEFINE z == req[x].sid
  <3>1. z \in Sids /\ row[z] # None /\ row[z] \in Row BY <1>6, <2>2 DEF Touch, TypeOK, Read, Live
  <3>2. row'[z].expiresAt = now + SessionLifetime /\ \A s \in Sids \ {z} : row'[s] = row[s]
    BY <1>6, <2>2, <3>1 DEF Touch, TypeOK, Row
  <3> QED BY <2>1, <2>2, <3>1, <3>2, TokenUnchanged, RequestDone DEF TimeStep, RowStep, RowKept, SessionTouched
 <2>3. CASE ~Live(req[x].sid) BY <1>6, <2>1, <2>3, RowUnchanged, TokenUnchanged, RequestDone DEF Touch, TimeStep
 <2> QED BY <2>2, <2>3
<1>7. ASSUME NEW x \in Reqs, Refresh(x)
      PROVE  TimeStep /\ (\A s \in Sids : RowStep(s) /\ TokenStep(s)) /\ (\A r \in Reqs : ReqStep(r))
 <2> DEFINE z == req[x].sid
 <2>1. req[x] # None /\ req[x].stage = "refresh" /\ UNCHANGED <<now, row>> /\ Done(x) BY <1>7 DEF Refresh
 <2>2. z \in Sids /\ token[z] # None /\ token[z] \in Token BY <2>1 DEF TypeOK, Read
 <2>3. token' = token \/ (/\ token'[z] \in Token /\ token'[z].exp = now + TokenLifetime
                         /\ \A s \in Sids \ {z} : token'[s] = token[s])
   BY <1>7, <2>2, TimesAssumption DEF Refresh, TypeOK, Token
 <2>4. \A s \in Sids : TokenStep(s) BY <2>1, <2>2, <2>3, TokensAssumption DEF TokenStep, TokenRefreshed
 <2> QED BY <2>1, <2>4, RowUnchanged, RequestDone DEF TimeStep
<1>8. ASSUME NEW x \in Reqs, RevokeAll(x)
      PROVE  TimeStep /\ (\A s \in Sids : RowStep(s) /\ TokenStep(s)) /\ (\A r \in Reqs : ReqStep(r))
 <2>1. UNCHANGED <<now, token>> /\ Done(x) BY <1>8 DEF RevokeAll
 <2>2. \A s \in Sids : row'[s] = row[s] \/ (row[s] # None /\ row'[s] = [row[s] EXCEPT !.revoked = TRUE]) BY <1>8 DEF RevokeAll
 <2>3. \A s \in Sids : row[s] # None =>
         /\ [row[s] EXCEPT !.revoked = TRUE] \in Row
         /\ [row[s] EXCEPT !.revoked = TRUE].expiresAt = row[s].expiresAt /\ [row[s] EXCEPT !.revoked = TRUE].revoked
   BY DEF TypeOK, Row
 <2>4. \A s \in Sids : RowStep(s) BY <2>2, <2>3, TokensAssumption DEF RowStep, RowKept
 <2> QED BY <2>1, <2>4, TokenUnchanged, RequestDone DEF TimeStep
<1>9. CASE Sweep
  BY <1>9, TokenUnchanged, RequestUnchanged DEF Sweep, RowStep, RowKept, RowSwept, TimeStep
<1>10. CASE Tick
  BY <1>10, RowUnchanged, TokenUnchanged, RequestUnchanged DEF Tick, TypeOK, TimeStep
<1> QED BY <1>1, <1>2, <1>3, <1>4, <1>5, <1>6, <1>7, <1>8, <1>9, <1>10 DEF Next, Step

TokensExpire   == \A s \in Sids : token[s] # None => token[s].exp <= now + TokenLifetime
TombstonesStay == \A s \in Sids : row[s] # None => token[s].exp < row[s].expiresAt + SessionLifetime
RefreshesLive  == \A r \in Reqs : req[r] # None /\ req[r].stage = "refresh" /\ row[req[r].sid] # None => row[req[r].sid].expiresAt > now
RequestsValid  == \A r \in Reqs : req[r] # None => token[req[r].sid].exp > now
SweptAreOver   == \A s \in ended : token[s] # None /\ (row[s] = None => token[s].exp <= now)

Ending == TokensExpire /\ TombstonesStay /\ RefreshesLive /\ RequestsValid /\ SweptAreOver /\ NoResurrection

\* Nothing has ended at first.
LEMMA InitEnding == ASSUME Init PROVE Ending
BY TimesAssumption, TokensAssumption, LifetimeAssumption
   DEF Init, Ending, TokensExpire, TombstonesStay, RefreshesLive, RequestsValid, SweptAreOver, NoResurrection

\* What keeps an ended session ended is kept by every step.
LEMMA EndingStep == TypeOK /\ TypeOK' /\ Ending /\ [Next]_vars => Ending'
<1> SUFFICES ASSUME TypeOK, TypeOK', Ending, [Next]_vars PROVE Ending' OBVIOUS
<1> USE TimesAssumption, LifetimeAssumption
<1>1. CASE UNCHANGED vars
  BY <1>1 DEF vars, Ending, TokensExpire, TombstonesStay, RefreshesLive, RequestsValid, SweptAreOver, NoResurrection, Live, Dead
<1>2. CASE Next
 <2>1. TimeStep /\ (\A s \in Sids : RowStep(s) /\ TokenStep(s)) /\ (\A r \in Reqs : ReqStep(r)) BY <1>2, StepParts
 <2>2. now \in Nat /\ now' \in Nat /\ now <= now' BY <2>1 DEF TimeStep, TypeOK
 <2>3. \A s \in Sids : /\ token[s] # None => token[s].exp \in Nat
                       /\ token'[s] # None => token'[s].exp \in Nat
                       /\ row[s] # None => row[s].expiresAt \in Nat /\ token[s] # None
                       /\ row'[s] # None => row'[s].expiresAt \in Nat /\ token'[s] # None BY DEF TypeOK, Token, Row
 <2>4. \A r \in Reqs : /\ req[r] # None => req[r].sid \in Sids /\ token[req[r].sid] # None
                       /\ req'[r] # None => req'[r].sid \in Sids /\ token'[req'[r].sid] # None BY DEF TypeOK, Read
 <2>5. now' # now => UNCHANGED <<row, token, req>> /\ \A r \in Reqs : req[r] = None BY <2>1 DEF TimeStep
 <2>6. \A s \in Sids : row[s] # None /\ row'[s] # None => row'[s].expiresAt = row[s].expiresAt \/ row'[s].expiresAt = now + SessionLifetime
   BY <2>1 DEF RowStep, RowKept, RowMade, SessionTouched, RowSwept
 <2>7. \A s \in Sids : row[s] = None /\ row'[s] # None => row'[s].expiresAt = now + SessionLifetime
   BY <2>1 DEF RowStep, RowKept, RowMade, SessionTouched, RowSwept, Sweepable
 <2>8. \A s \in Sids : token[s] # None => token'[s] # None BY <2>1 DEF TokenStep, TokenSigned, TokenRefreshed
 <2>t. TokensExpire'
  <3> SUFFICES ASSUME NEW s \in Sids, token'[s] # None PROVE token'[s].exp <= now' + TokenLifetime BY DEF TokensExpire
  <3>1. token'[s] = token[s] \/ token'[s].exp = now + TokenLifetime BY <2>1 DEF TokenStep, TokenSigned, TokenRefreshed
  <3>2. token'[s] = token[s] => token'[s].exp <= now + TokenLifetime BY DEF Ending, TokensExpire
  <3> QED BY <2>2, <2>3, <3>1, <3>2
 <2>s. TombstonesStay'
  <3> SUFFICES ASSUME NEW s \in Sids, row'[s] # None PROVE token'[s].exp < row'[s].expiresAt + SessionLifetime
    BY DEF TombstonesStay
  <3>1. token'[s].exp <= now' + TokenLifetime BY <2>3, <2>t DEF TokensExpire
  <3>2. CASE now' # now BY <2>5, <3>2 DEF Ending, TombstonesStay
  <3>3. CASE now' = now /\ row'[s].expiresAt = now + SessionLifetime BY <2>2, <2>3, <3>1, <3>3
  <3>4. CASE now' = now /\ row[s] # None /\ row'[s].expiresAt = row[s].expiresAt
   <4>1. token'[s] = token[s] \/ TokenRefreshed(s) BY <2>1, <2>3, <3>4 DEF TokenStep, TokenSigned
   <4>2. CASE token'[s] = token[s] BY <3>4, <4>2 DEF Ending, TombstonesStay
   <4>3. CASE TokenRefreshed(s)
     BY <3>4, <4>3, <2>2, <2>3, <3>1 DEF TokenRefreshed, Ending, RefreshesLive
   <4> QED BY <4>1, <4>2, <4>3
  <3> QED BY <2>6, <2>7, <3>2, <3>3, <3>4
 <2>r. RefreshesLive'
  <3> SUFFICES ASSUME NEW r \in Reqs, req'[r] # None, req'[r].stage = "refresh", row'[req'[r].sid] # None
               PROVE  row'[req'[r].sid].expiresAt > now' BY DEF RefreshesLive
  <3> DEFINE z == req'[r].sid
  <3>0. z \in Sids BY <2>4
  <3>1. CASE now' # now BY <2>5, <3>1
  <3>2. CASE now' = now /\ row[z] = None BY <2>2, <2>7, <3>0, <3>2
  <3>3. CASE now' = now /\ row[z] # None
    BY <2>1, <3>3, <2>2, <2>6, <3>0 DEF ReqStep, ReqGone, ReqGoes, ReqNew, Ending, RefreshesLive
  <3> QED BY <3>1, <3>2, <3>3
 <2>v. RequestsValid'
  <3> SUFFICES ASSUME NEW r \in Reqs, req'[r] # None PROVE token'[req'[r].sid].exp > now' BY DEF RequestsValid
  <3> DEFINE z == req'[r].sid
  <3>0. z \in Sids /\ now' = now BY <2>4, <2>5
  <3>1. ReqGoes(r) \/ ReqNew(r) BY <2>1 DEF ReqStep, ReqGone
  <3>2. token[z] # None /\ token[z].exp > now BY <2>4, <3>1 DEF ReqGoes, ReqNew, Ending, RequestsValid
  <3>3. token'[z] = token[z] \/ token'[z].exp = now + TokenLifetime BY <2>1, <3>0 DEF TokenStep, TokenSigned, TokenRefreshed
  <3> QED BY <2>2, <3>0, <3>2, <3>3
 <2>e. \A s \in ended' : s \in ended \/ (s \in Sids /\ row'[s] # None /\ Dead(row[s])') BY <1>2 DEF Next
 <2>o. \A s \in ended : s \in Sids /\ token[s] # None BY DEF Ending, SweptAreOver, TypeOK
 <2>w. SweptAreOver'
  <3>1. ASSUME NEW s \in ended', row'[s] # None PROVE token'[s] # None BY <2>3, <3>1 DEF TypeOK
  <3>2. ASSUME NEW s \in ended', row'[s] = None PROVE token'[s] # None /\ token'[s].exp <= now'
   <4>1. s \in ended /\ s \in Sids /\ token[s] # None BY <2>e, <2>o, <3>2
   <4>2. token[s].exp <= now
    <5>1. CASE row[s] = None BY <4>1, <5>1 DEF Ending, SweptAreOver
    <5>2. CASE row[s] # None
     <6>1. row[s].expiresAt + SessionLifetime < now
      <7>1. RowStep(s) BY <2>1, <4>1
      <7>2. ~RowKept(s) /\ ~RowMade(s) BY <3>2, <5>2 DEF RowKept, RowMade
      <7>3. ~SessionTouched(s) BY <4>1 DEF SessionTouched, Ending, NoResurrection
      <7> QED BY <7>1, <7>2, <7>3 DEF RowStep, RowSwept, Sweepable
     <6>2. token[s].exp < row[s].expiresAt + SessionLifetime BY <4>1, <5>2 DEF Ending, TombstonesStay
     <6> QED BY <2>2, <2>3, <4>1, <5>2, <6>1, <6>2
    <5> QED BY <5>1, <5>2
   <4>3. token'[s] = token[s]
    <5>1. TokenStep(s) BY <2>1, <4>1
    <5>2. ~TokenSigned(s) BY <4>1 DEF TokenSigned
    <5>3. ~TokenRefreshed(s)
     <6> SUFFICES ASSUME NEW r \in Reqs, req[r] # None, req[r].sid = s PROVE FALSE BY DEF TokenRefreshed
     <6>1. token[s].exp > now BY DEF Ending, RequestsValid
     <6> QED BY <2>2, <2>3, <4>1, <4>2, <6>1
    <5> QED BY <5>1, <5>2, <5>3 DEF TokenStep
   <4> QED BY <2>2, <2>3, <4>1, <4>2, <4>3
  <3> QED BY <3>1, <3>2 DEF SweptAreOver
 <2>n. NoResurrection'
  <3> SUFFICES ASSUME NEW s \in ended', row'[s] # None PROVE Dead(row[s])' BY DEF NoResurrection, Live
  <3>1. CASE s \in ended
   <4>0. s \in Sids /\ token[s] # None /\ ~Live(s) BY <2>o, <3>1 DEF Ending, NoResurrection
   <4>1. RowStep(s) /\ ~SessionTouched(s) /\ ~RowSwept(s) BY <2>1, <4>0 DEF SessionTouched, RowSwept
   <4>2. ~RowMade(s)
    <5> SUFFICES ASSUME RowMade(s) PROVE FALSE OBVIOUS
    <5>1. PICK r \in Reqs : req[r] # None /\ req[r].sid = s /\ row[s] = None BY DEF RowMade
    <5>2. token[s].exp > now /\ token[s].exp <= now BY <3>1, <5>1 DEF Ending, RequestsValid, SweptAreOver
    <5> QED BY <2>2, <2>3, <4>0, <5>2
   <4>3. RowKept(s) /\ row[s] # None BY <4>1, <4>2 DEF RowStep, RowKept
   <4>4. row[s].revoked \/ row[s].expiresAt <= now BY <4>0, <4>3 DEF Live, Dead
   <4> QED BY <2>2, <2>3, <4>0, <4>3, <4>4 DEF RowKept, Dead
  <3>2. CASE s \notin ended BY <2>e, <3>2
  <3> QED BY <3>1, <3>2
 <2> QED BY <2>t, <2>s, <2>r, <2>v, <2>w, <2>n DEF Ending
<1> QED BY <1>1, <1>2

\* A session that was revoked, signed out or left to expire never comes back,
\* whichever requests race the revocation and however long the sweep waits.
THEOREM EndedForGood == Spec => []NoResurrection
<1>1. Ending => NoResurrection BY DEF Ending
<1> QED BY <1>1, InitEnding, EndingStep, TypeCorrect, PTL DEF Spec

-----------------------------------------------------------------------------
(* The desktop exchange: types.                                            *)

\* The rows, requests, links and windows.
DesktopTypes ==
    /\ attempts \in [AttemptIds -> AttemptRow] /\ calls \in [Exchanges -> ExchangeCall]
    /\ browser \in [AttemptIds -> {"none", "open", "ready", "error"}]
    /\ queue \in 0 .. MaxAttempts /\ ready \in BOOLEAN /\ window \in Window
    /\ granted \in [AttemptIds -> Nat]

\* Attempts are numbered from one; zero stands for none.
LEMMA AttemptNumbers ==
    /\ TryLimit \in Nat /\ 0 \in 0 .. TryLimit
    /\ MaxAttempts \in Nat /\ 0 \in 0 .. MaxAttempts /\ \A a \in AttemptIds : a \in 0 .. MaxAttempts /\ a # 0
<1>1. MaxAttempts \in Nat /\ TryLimit \in Nat BY DesktopAssumption
<1> QED BY <1>1 DEF AttemptIds

\* A page that has just loaded waits for nothing.
LEMMA PageIsWindow ==
    /\ Page \in Window
    /\ \A a \in 0 .. MaxAttempts, b \in BOOLEAN : [Page EXCEPT !.open = b, !.signedIn = a] \in Window
BY AttemptNumbers DEF Page, Window

\* What an exchange that starts leaves in the window: it waits for nothing new, or
\* for an idle request that carries the attempt it remembers.
LEMMA ExchangedShape ==
    ASSUME window \in Window, NEW a \in AttemptIds, NEW w \in Exchanged(window, a)
    PROVE  /\ w \in Window /\ w.signedIn = window.signedIn /\ w.open = window.open
           /\ \/ w = window
              \/ window.exchange = 0 /\ w.exchange = 0
              \/ /\ window.exchange = 0 /\ window.pending = a /\ w.pending = a /\ w.callback = a
                 /\ w.exchange \in Exchanges /\ w.button = "exchanging" /\ calls[w.exchange].stage = "idle"
<1> DEFINE kept == [window EXCEPT !.callback = a, !.button = "exchanging", !.hopeful = FALSE]
<1>1. /\ kept \in Window /\ kept.callback = a /\ kept.button = "exchanging" /\ kept.pending = window.pending
      /\ kept.signedIn = window.signedIn /\ kept.open = window.open /\ kept.exchange = window.exchange
  BY AttemptNumbers DEF Window
<1>2. CASE window.exchange # 0
  BY <1>2 DEF Exchanged
<1>3. CASE window.exchange = 0 /\ (~Matches(a) \/ window.late)
 <2>1. w = [Cleared(kept) EXCEPT !.button = "error"] BY <1>3 DEF Exchanged
 <2> HIDE DEF kept
 <2>2. w = [kept EXCEPT !.pending = 0, !.callback = 0, !.late = FALSE, !.button = "error"] BY <1>1, <2>1 DEF Cleared, Window
 <2> QED BY <1>1, <1>3, <2>2, AttemptNumbers DEF Window
<1>4. CASE window.exchange = 0 /\ ~(~Matches(a) \/ window.late)
 <2>1. PICK x \in {y \in Exchanges : calls[y].stage = "idle"} : w = [kept EXCEPT !.exchange = x] BY <1>4 DEF Exchanged
 <2> HIDE DEF kept
 <2> QED BY <1>1, <1>4, <2>1 DEF Matches, Remembered, Window
<1> QED BY <1>2, <1>3, <1>4

\* A page that takes up an answer does nothing with it, or starts an exchange.
LEMMA AnswerTaken ==
    ASSUME DesktopTypes, Deliver \/ MountWindow
    PROVE  /\ UNCHANGED <<attempts, browser, granted>> /\ queue' \in {0, queue} /\ ready' \in BOOLEAN
           /\ \/ UNCHANGED <<window, calls>>
              \/ \E a \in AttemptIds : \E w \in Exchanged(window, a) : window' = w /\ Sent(w)
<1>1. \A n \in 0 .. MaxAttempts : n # 0 => n \in AttemptIds BY AttemptNumbers DEF AttemptIds
<1>2. window.callback \in 0 .. MaxAttempts BY DEF DesktopTypes, Window
<1>3. CASE Deliver BY <1>1, <1>3 DEF Deliver, DesktopTypes
<1>4. CASE MountWindow BY <1>1, <1>2, <1>4 DEF MountWindow, DesktopTypes
<1> QED BY <1>3, <1>4

\* Every step of the server, the shell and the window keeps the types.
LEMMA DesktopTypesStep == ASSUME DesktopTypes, [DesktopNext]_desktopVars PROVE DesktopTypes'
<1> USE DEF DesktopTypes
<1>0. /\ NoAttempt \in AttemptRow /\ NoCall \in ExchangeCall
      /\ \A a \in AttemptIds : attempts[a] \in AttemptRow
      /\ \A x \in Exchanges : calls[x] \in ExchangeCall BY AttemptNumbers DEF NoAttempt, NoCall, AttemptRow, ExchangeCall
<1>1. CASE BeginAttempt \/ BeginFails \/ ReloadWindow \/ Late
  BY <1>1, AttemptNumbers DEF BeginAttempt, BeginFails, ReloadWindow, Late, Cleared, Window
<1>2. CASE Close \/ Open
 <2>1. window.signedIn \in 0 .. MaxAttempts BY DEF Window
 <2>2. CASE Close BY <2>1, <2>2, AttemptNumbers DEF Close, Page, Window
 <2>3. CASE Open BY <2>3 DEF Open, Window
 <2> QED BY <1>2, <2>2, <2>3
<1>3. CASE AttemptBegun
 <2>1. PICK a \in Unasked :
         /\ attempts' = [attempts EXCEPT ![a] = [NoAttempt EXCEPT !.status = "pending", !.live = TRUE]]
         /\ browser' = [browser EXCEPT ![a] = "open"]
         /\ window' = [window EXCEPT !.button = "waiting", !.pending = a, !.late = FALSE]
         /\ UNCHANGED <<calls, queue, ready, granted>> BY <1>3 DEF AttemptBegun
 <2>2. a \in AttemptIds /\ [NoAttempt EXCEPT !.status = "pending", !.live = TRUE] \in AttemptRow
   BY AttemptNumbers DEF Unasked, NoAttempt, AttemptRow
 <2>3. window' \in Window BY <2>1, <2>2, AttemptNumbers DEF Window
 <2> QED BY <2>1, <2>2, <2>3
<1>4. ASSUME NEW a \in AttemptIds, Authorize(a) \/ RowExpires(a) \/ SweepAttempt(a) PROVE DesktopTypes'
 <2>1. attempts' \in [AttemptIds -> AttemptRow]
  <3>1. \A b \in BOOLEAN, t \in {"none", "authorized"} :
          [attempts[a] EXCEPT !.status = t] \in AttemptRow /\ [attempts[a] EXCEPT !.live = b] \in AttemptRow
    BY <1>0 DEF AttemptRow
  <3> QED BY <1>4, <3>1 DEF Authorize, RowExpires, SweepAttempt
 <2>2. browser' \in [AttemptIds -> {"none", "open", "ready", "error"}] BY <1>4 DEF Authorize, RowExpires, SweepAttempt
 <2> QED BY <1>4, <2>1, <2>2 DEF Authorize, RowExpires, SweepAttempt
<1>5. ASSUME NEW a \in AttemptIds, OpenLink(a) PROVE DesktopTypes' BY <1>5, PageIsWindow, AttemptNumbers DEF OpenLink
<1>6. ASSUME NEW x \in Exchanges, Claim(x) PROVE DesktopTypes'
 <2> DEFINE a == calls[x].attempt
 <2>1. calls' \in [Exchanges -> ExchangeCall] /\ UNCHANGED <<browser, queue, ready, window, granted>>
   BY <1>0, <1>6 DEF Claim, ExchangeCall
 <2>2. attempts' \in [AttemptIds -> AttemptRow] BY <1>0, <1>6, DesktopAssumption DEF Claim, MayTry, UnderLimit, AttemptRow
 <2> QED BY <2>1, <2>2
<1>7. ASSUME NEW x \in Exchanges, Consume(x) \/ Mint(x) PROVE DesktopTypes'
 <2>1. calls' \in [Exchanges -> ExchangeCall] /\ UNCHANGED <<browser, queue, ready, window>>
   BY <1>0, <1>7 DEF Consume, Mint, ExchangeCall
 <2>2. attempts' \in [AttemptIds -> AttemptRow] /\ granted' \in [AttemptIds -> Nat] BY <1>0, <1>7 DEF Consume, Mint, AttemptRow
 <2> QED BY <2>1, <2>2
<1>8. ASSUME NEW a \in AttemptIds, NEW w \in Exchanged(window, a), window' = w, Sent(w)
      PROVE  window' \in Window /\ calls' \in [Exchanges -> ExchangeCall]
  BY <1>8, ExchangedShape DEF Sent, Window, ExchangeCall
<1>9. CASE Deliver \/ MountWindow BY <1>8, <1>9, AnswerTaken, AttemptNumbers
<1>10. ASSUME NEW x \in Exchanges, Answered(x) \/ AnswerLost(x) PROVE DesktopTypes'
 <2>1. calls' \in [Exchanges -> ExchangeCall] /\ UNCHANGED <<attempts, browser, queue, granted>> /\ ready' \in BOOLEAN
  <3>1. CASE Answered(x) BY <1>0, <3>1 DEF Answered
  <3>2. CASE AnswerLost(x) BY <1>0, <3>2 DEF AnswerLost
  <3> QED BY <1>10, <3>1, <3>2
 <2>2. calls[x].attempt \in 0 .. MaxAttempts BY <1>0 DEF ExchangeCall
 <2>3. window' \in Window
  <3>1. ExchangeRefused(window) \in Window /\ ExchangeRefused(Cleared(window)) \in Window
    BY AttemptNumbers DEF ExchangeRefused, Failed, Cleared, Window
  <3>2. [ExchangeRefused(window) EXCEPT !.hopeful = TRUE] \in Window BY <3>1 DEF Window
  <3>3. [Page EXCEPT !.signedIn = calls[x].attempt] \in Window BY <2>2, AttemptNumbers DEF Page, Window
  <3> QED BY <1>10, <3>1, <3>2, <3>3 DEF Answered, AnswerLost
 <2> QED BY <2>1, <2>3
<1>11. CASE UNCHANGED desktopVars BY <1>11 DEF desktopVars
<1> QED BY <1>1, <1>2, <1>3, <1>4, <1>5, <1>6, <1>7, <1>9, <1>10, <1>11 DEF DesktopNext, ServerStep, WindowStep

-----------------------------------------------------------------------------
(* The desktop exchange: an attempt signs in once.                         *)

\* An attempt whose browser page was never opened is untouched.
UnaskedIsNew == \A a \in AttemptIds : browser[a] = "none" => attempts[a] = NoAttempt /\ granted[a] = 0

\* What can still be redeemed was not, and nothing is redeemed twice.
RedeemableIsUnspent ==
    \A a \in AttemptIds : /\ granted[a] \in {0, 1}
                          /\ attempts[a].status \in {"pending", "authorized"} => granted[a] = 0

\* A request is about an attempt, and one that counted its try was counted.
ClaimsAreCounted ==
    \A x \in Exchanges :
        /\ calls[x].stage # "idle" => calls[x].attempt \in AttemptIds
        /\ calls[x].stage = "claimed" => attempts[calls[x].attempt].tries > 0

\* A window that waits for a request waits for one that is under way and carries
\* the attempt it remembers, and while it waits it begins no other.
WaitsSoundly ==
    /\ window.exchange # 0 => /\ calls[window.exchange].stage # "idle"
                              /\ calls[window.exchange].attempt = window.pending
                              /\ window.button = "exchanging"
    /\ ~window.open => window.exchange = 0 /\ window.pending = 0

DesktopInv == DesktopTypes /\ UnaskedIsNew /\ RedeemableIsUnspent /\ ClaimsAreCounted /\ WaitsSoundly

\* Nothing has been asked.
LEMMA DesktopInitInv == DesktopInit => DesktopInv
<1> SUFFICES ASSUME DesktopInit PROVE DesktopInv OBVIOUS
<1>1. DesktopTypes
  BY AttemptNumbers, PageIsWindow DEF NoAttempt, NoCall, AttemptRow, ExchangeCall, DesktopInit, DesktopTypes
<1>2. UnaskedIsNew /\ RedeemableIsUnspent BY DEF DesktopInit, UnaskedIsNew, RedeemableIsUnspent, NoAttempt
<1>3. ClaimsAreCounted /\ WaitsSoundly BY DEF DesktopInit, ClaimsAreCounted, WaitsSoundly, NoCall, Page
<1> QED BY <1>1, <1>2, <1>3 DEF DesktopInv

\* A step that leaves the attempts alone is about windows and requests.
ServerRows == <<attempts, browser, granted>>

\* A row that is there may lapse, and nothing is asked or redeemed by that.
LEMMA RowTouched ==
    ASSUME UnaskedIsNew, RedeemableIsUnspent, NEW a \in AttemptIds,
           attempts[a].status # "none" \/ attempts[a].live, UNCHANGED <<browser, granted>>,
           \A b \in AttemptIds : b # a => attempts'[b] = attempts[b], attempts'[a].status \in {attempts[a].status, "none"}
    PROVE  UnaskedIsNew' /\ RedeemableIsUnspent'
<1>1. browser[a] # "none" BY DEF UnaskedIsNew, NoAttempt
<1>2. UnaskedIsNew' BY <1>1 DEF UnaskedIsNew
<1>3. RedeemableIsUnspent' BY DEF RedeemableIsUnspent
<1> QED BY <1>2, <1>3

\* Attempts are begun, approved, tried, redeemed and swept one at a time.
LEMMA RowsStep ==
    ASSUME DesktopTypes, UnaskedIsNew, RedeemableIsUnspent, ClaimsAreCounted, [DesktopNext]_desktopVars
    PROVE  UnaskedIsNew' /\ RedeemableIsUnspent'
<1>1. ASSUME UNCHANGED ServerRows PROVE UnaskedIsNew' /\ RedeemableIsUnspent'
  BY <1>1 DEF ServerRows, UnaskedIsNew, RedeemableIsUnspent
<1>2. CASE AttemptBegun
 <2>1. PICK a \in Unasked :
         /\ attempts' = [attempts EXCEPT ![a] = [NoAttempt EXCEPT !.status = "pending", !.live = TRUE]]
         /\ browser' = [browser EXCEPT ![a] = "open"] /\ granted' = granted BY <1>2 DEF AttemptBegun
 <2>2. a \in AttemptIds /\ granted[a] = 0 BY DEF Unasked, UnaskedIsNew
 <2> QED BY <2>1, <2>2 DEF UnaskedIsNew, RedeemableIsUnspent, DesktopTypes
<1>3. ASSUME NEW a \in AttemptIds, Authorize(a) PROVE UnaskedIsNew' /\ RedeemableIsUnspent'
  BY <1>3 DEF Authorize, DesktopTypes, Authorizable, UnaskedIsNew, RedeemableIsUnspent
<1>4. ASSUME NEW a \in AttemptIds, RowExpires(a) PROVE UnaskedIsNew' /\ RedeemableIsUnspent'
  BY <1>4, RowTouched DEF RowExpires, DesktopTypes, AttemptRow
<1>5. ASSUME NEW a \in AttemptIds, SweepAttempt(a) PROVE UnaskedIsNew' /\ RedeemableIsUnspent'
  BY <1>5, RowTouched DEF SweepAttempt, DesktopTypes, AttemptRow
<1>6. ASSUME NEW x \in Exchanges, Claim(x) PROVE UnaskedIsNew' /\ RedeemableIsUnspent'
 <2> DEFINE a == calls[x].attempt
 <2>1. UNCHANGED <<browser, granted>> /\ a \in AttemptIds BY <1>6 DEF Claim, ClaimsAreCounted
 <2>2. attempts' = attempts \/ (attempts[a].status = "authorized" /\ attempts' = [attempts EXCEPT ![a].tries = @ + 1])
   BY <1>6 DEF Claim, Redeemable
 <2>3. attempts[a] \in AttemptRow BY <2>1 DEF DesktopTypes
 <2>4. CASE attempts' = attempts BY <1>1, <2>1, <2>4 DEF ServerRows
 <2>5. CASE attempts[a].status = "authorized" /\ attempts' = [attempts EXCEPT ![a].tries = @ + 1]
   BY <2>1, <2>3, <2>5, RowTouched DEF DesktopTypes, AttemptRow
 <2> QED BY <2>2, <2>4, <2>5
<1>7. ASSUME NEW x \in Exchanges, Consume(x) PROVE UnaskedIsNew' /\ RedeemableIsUnspent'
 <2> DEFINE a == calls[x].attempt
 <2>1. browser' = browser /\ a \in AttemptIds BY <1>7 DEF Consume, ClaimsAreCounted
 <2>2. \/ UNCHANGED <<attempts, granted>>
       \/ /\ attempts[a].status = "authorized" /\ attempts' = [attempts EXCEPT ![a].status = "consumed"]
          /\ granted' = [granted EXCEPT ![a] = @ + 1] BY <1>7 DEF Consume, MayRedeem, Redeemable
 <2>3. attempts[a] \in AttemptRow BY <2>1 DEF DesktopTypes
 <2>4. CASE UNCHANGED <<attempts, granted>> BY <1>1, <2>1, <2>4 DEF ServerRows
 <2>5. CASE /\ attempts[a].status = "authorized" /\ attempts' = [attempts EXCEPT ![a].status = "consumed"]
            /\ granted' = [granted EXCEPT ![a] = @ + 1]
  <3>1. browser[a] # "none" /\ granted[a] = 0 BY <2>1, <2>5 DEF UnaskedIsNew, RedeemableIsUnspent, NoAttempt
  <3>2. attempts'[a].status = "consumed" /\ granted'[a] = 1 BY <2>1, <2>3, <2>5, <3>1 DEF DesktopTypes, AttemptRow
  <3>3. \A b \in AttemptIds : b # a => attempts'[b] = attempts[b] /\ granted'[b] = granted[b] BY <2>1, <2>5 DEF DesktopTypes
  <3>4. UnaskedIsNew' BY <2>1, <3>1, <3>3 DEF UnaskedIsNew
  <3>5. RedeemableIsUnspent' BY <2>1, <3>2, <3>3 DEF RedeemableIsUnspent
  <3> QED BY <3>4, <3>5
 <2> QED BY <2>2, <2>4, <2>5
<1>8. CASE BeginAttempt \/ BeginFails \/ ReloadWindow \/ Close \/ Open \/ Late \/ Deliver \/ MountWindow
  BY <1>1, <1>8, AnswerTaken DEF ServerRows, BeginAttempt, BeginFails, ReloadWindow, Close, Open, Late
<1>9. ASSUME NEW x \in Exchanges, Mint(x) \/ Answered(x) \/ AnswerLost(x) PROVE UnaskedIsNew' /\ RedeemableIsUnspent'
  BY <1>1, <1>9 DEF ServerRows, Mint, Answered, AnswerLost
<1>10. ASSUME NEW a \in AttemptIds, OpenLink(a) PROVE UnaskedIsNew' /\ RedeemableIsUnspent'
  BY <1>1, <1>10 DEF ServerRows, OpenLink
<1>11. CASE UNCHANGED desktopVars BY <1>1, <1>11 DEF ServerRows, desktopVars
<1> QED BY <1>2, <1>3, <1>4, <1>5, <1>6, <1>7, <1>8, <1>9, <1>10, <1>11 DEF DesktopNext, ServerStep, WindowStep

\* A request is sent about the attempt of the link, and tried before it is claimed.
LEMMA ClaimsStep ==
    ASSUME DesktopTypes, UnaskedIsNew, ClaimsAreCounted, [DesktopNext]_desktopVars
    PROVE  ClaimsAreCounted'
<1>0. \A x \in Exchanges : calls[x] \in ExchangeCall BY DEF DesktopTypes
<1>1. ASSUME UNCHANGED <<attempts, calls>> PROVE ClaimsAreCounted' BY <1>1 DEF ClaimsAreCounted
<1>2. CASE AttemptBegun
 <2>1. PICK a \in Unasked : attempts' = [attempts EXCEPT ![a] = [NoAttempt EXCEPT !.status = "pending", !.live = TRUE]]
   BY <1>2 DEF AttemptBegun
 <2>2. a \in AttemptIds /\ attempts[a].tries = 0 /\ calls' = calls BY <1>2 DEF AttemptBegun, Unasked, UnaskedIsNew, NoAttempt
 <2>3. \A b \in AttemptIds : b # a => attempts'[b] = attempts[b] BY <2>1 DEF DesktopTypes
 <2> QED BY <2>2, <2>3 DEF ClaimsAreCounted
<1>3. ASSUME NEW a \in AttemptIds, Authorize(a) \/ RowExpires(a) \/ SweepAttempt(a) PROVE ClaimsAreCounted'
  BY <1>3 DEF Authorize, RowExpires, SweepAttempt, DesktopTypes, AttemptRow, ClaimsAreCounted
<1>4. ASSUME NEW x \in Exchanges, Claim(x) PROVE ClaimsAreCounted'
 <2> DEFINE a == calls[x].attempt
 <2>1. a \in AttemptIds /\ \A y \in Exchanges : calls'[y].attempt = calls[y].attempt
   BY <1>0, <1>4 DEF Claim, ClaimsAreCounted, DesktopTypes, ExchangeCall
 <2>2. \A y \in Exchanges : y # x => calls'[y] = calls[y] BY <1>4 DEF Claim, DesktopTypes
 <2>3. attempts[a] \in AttemptRow BY <2>1 DEF DesktopTypes
 <2>4. CASE Redeemable(a) /\ MayTry(a)
  <3>1. attempts' = [attempts EXCEPT ![a].tries = @ + 1] BY <1>4, <2>4 DEF Claim
  <3>2. attempts'[a].tries > 0 /\ \A b \in AttemptIds : b # a => attempts'[b] = attempts[b]
    BY <2>1, <2>3, <3>1 DEF DesktopTypes, AttemptRow
  <3> QED BY <2>1, <2>2, <3>2, <1>4 DEF Claim, ClaimsAreCounted
 <2>5. CASE ~(Redeemable(a) /\ MayTry(a))
   BY <1>0, <1>4, <2>5, <2>1, <2>2 DEF Claim, DesktopTypes, ExchangeCall, ClaimsAreCounted
 <2> QED BY <2>4, <2>5
<1>5. ASSUME NEW x \in Exchanges, Consume(x) PROVE ClaimsAreCounted'
 <2> DEFINE a == calls[x].attempt
 <2>1. a \in AttemptIds /\ \A b \in AttemptIds : attempts'[b].tries = attempts[b].tries
   BY <1>5 DEF Consume, ClaimsAreCounted, DesktopTypes, AttemptRow
 <2>2. calls'[x].attempt = a /\ calls'[x].stage # "claimed" /\ \A y \in Exchanges : y # x => calls'[y] = calls[y]
   BY <1>0, <1>5 DEF Consume, DesktopTypes, ExchangeCall
 <2> QED BY <2>1, <2>2 DEF ClaimsAreCounted
<1>6. ASSUME NEW x \in Exchanges, Mint(x) \/ Answered(x) \/ AnswerLost(x) PROVE ClaimsAreCounted'
 <2>1. attempts' = attempts /\ \A y \in Exchanges : y # x => calls'[y] = calls[y]
   BY <1>6 DEF Mint, Answered, AnswerLost, DesktopTypes
 <2>2. calls'[x] = calls[x] \/ calls'[x].stage = "idle" \/ (Mint(x) /\ calls'[x].stage # "claimed" /\ calls'[x].attempt = calls[x].attempt)
  <3>1. CASE Mint(x) BY <1>0, <3>1 DEF Mint, DesktopTypes, ExchangeCall
  <3>2. CASE Answered(x) \/ AnswerLost(x) BY <3>2 DEF Answered, AnswerLost, NoCall, DesktopTypes
  <3> QED BY <1>6, <3>1, <3>2
 <2>3. Mint(x) => calls[x].stage # "idle" BY DEF Mint
 <2> QED BY <2>1, <2>2, <2>3 DEF ClaimsAreCounted
<1>7. CASE Deliver \/ MountWindow
 <2>1. attempts' = attempts BY <1>7, AnswerTaken
 <2>2. ASSUME NEW a \in AttemptIds, NEW w \in Exchanged(window, a), Sent(w) PROVE ClaimsAreCounted'
   BY <2>2, ExchangedShape, <2>1 DEF DesktopTypes, Sent, ClaimsAreCounted
 <2> QED BY <1>1, <1>7, <2>1, <2>2, AnswerTaken
<1>8. CASE BeginAttempt \/ BeginFails \/ ReloadWindow \/ Close \/ Open \/ Late
  BY <1>1, <1>8 DEF BeginAttempt, BeginFails, ReloadWindow, Close, Open, Late
<1>9. ASSUME NEW a \in AttemptIds, OpenLink(a) PROVE ClaimsAreCounted' BY <1>1, <1>9 DEF OpenLink
<1>10. CASE UNCHANGED desktopVars BY <1>1, <1>10 DEF desktopVars
<1> QED BY <1>2, <1>3, <1>4, <1>5, <1>6, <1>7, <1>8, <1>9, <1>10 DEF DesktopNext, ServerStep, WindowStep

\* The window goes on waiting for the request it sent, until that is answered or
\* the page is gone.
LEMMA WaitsStep ==
    ASSUME DesktopTypes, WaitsSoundly, [DesktopNext]_desktopVars
    PROVE  WaitsSoundly'
<1>0. window \in Window /\ \A x \in Exchanges : calls[x] \in ExchangeCall BY DEF DesktopTypes
<1>1. ASSUME UNCHANGED <<window, calls>> PROVE WaitsSoundly' BY <1>1 DEF WaitsSoundly
<1>2. CASE BeginAttempt \/ BeginFails \/ AttemptBegun
  BY <1>2, <1>0 DEF BeginAttempt, BeginFails, AttemptBegun, WaitsSoundly, Cleared, Window
<1>3. CASE ReloadWindow BY <1>0, <1>3 DEF ReloadWindow, Window, WaitsSoundly
<1>4. CASE Close BY <1>4 DEF Close, Page, WaitsSoundly
<1>5. CASE Open BY <1>0, <1>5 DEF Open, Window, WaitsSoundly
<1>6. CASE Late BY <1>0, <1>6 DEF Late, Window, WaitsSoundly
<1>7. ASSUME NEW a \in AttemptIds, OpenLink(a) PROVE WaitsSoundly' BY <1>7 DEF OpenLink, Page, WaitsSoundly
<1>8. CASE Deliver \/ MountWindow
 <2>1. window.open BY <1>8 DEF Deliver, MayFlush, Flushed, MountWindow
 <2>2. ASSUME NEW a \in AttemptIds, NEW w \in Exchanged(window, a), window' = w, Sent(w) PROVE WaitsSoundly'
  <3>1. w.open BY <1>0, <2>1, <2>2, ExchangedShape
  <3>2. CASE w = window
    BY <2>2, <3>2, <1>1 DEF Sent
  <3>3. CASE w.exchange = 0 BY <2>2, <3>1, <3>3 DEF WaitsSoundly
  <3>4. CASE /\ window.exchange = 0 /\ w.pending = a /\ w.callback = a
             /\ w.exchange \in Exchanges /\ w.button = "exchanging"
    BY <3>4, DesktopAssumption, <2>2, <3>1 DEF Sent, DesktopTypes, WaitsSoundly
  <3> QED BY <1>0, <2>2, <3>2, <3>3, <3>4, ExchangedShape
 <2> QED BY <1>1, <1>8, <2>2, AnswerTaken
<1>9. ASSUME NEW x \in Exchanges, Claim(x) \/ Consume(x) \/ Mint(x) PROVE WaitsSoundly'
  BY <1>0, <1>9 DEF Claim, Consume, Mint, DesktopTypes, ExchangeCall, WaitsSoundly, Window
<1>10. ASSUME NEW x \in Exchanges, Answered(x) \/ AnswerLost(x) PROVE WaitsSoundly'
 <2>1. \A y \in Exchanges : y # x => calls'[y] = calls[y] BY <1>10 DEF Answered, AnswerLost, DesktopTypes
 <2>2. CASE ~Waiting(x)
   BY <1>10, <2>2, DesktopAssumption, <1>0, <2>1 DEF Answered, AnswerLost, Waiting, WaitsSoundly, Window
 <2>3. CASE Waiting(x)
  <3>1. window'.exchange = 0 /\ window'.open
   <4>1. CASE Answered(x) BY <1>0, <2>3, <4>1 DEF Answered, Waiting, ExchangeRefused, Failed, Cleared, Page, Window
   <4>2. CASE AnswerLost(x) BY <1>0, <2>3, <4>2 DEF AnswerLost, Waiting, ExchangeRefused, Failed, Window
   <4> QED BY <1>10, <4>1, <4>2
  <3> QED BY <3>1 DEF WaitsSoundly
 <2> QED BY <2>2, <2>3
<1>11. ASSUME NEW a \in AttemptIds, Authorize(a) \/ RowExpires(a) \/ SweepAttempt(a) PROVE WaitsSoundly'
  BY <1>1, <1>11 DEF Authorize, RowExpires, SweepAttempt
<1>12. CASE UNCHANGED desktopVars BY <1>1, <1>12 DEF desktopVars
<1> QED BY <1>2, <1>3, <1>4, <1>5, <1>6, <1>7, <1>8, <1>9, <1>10, <1>11, <1>12 DEF DesktopNext, ServerStep, WindowStep

\* The invariant of the desktop exchange.
LEMMA DesktopInvariant == DesktopSpec => []DesktopInv
<1>1. DesktopInv /\ [DesktopNext]_desktopVars => DesktopInv' BY DesktopTypesStep, RowsStep, ClaimsStep, WaitsStep DEF DesktopInv
<1> QED BY <1>1, DesktopInitInv, PTL DEF DesktopSpec

\* One approved attempt signs in once, in the window that asked for it and still
\* waits for it, and the shell hands its link to a page that listens.
THEOREM DesktopExchangeIsSound == DesktopSpec => ExchangesAreSound
<1>1. DesktopInv => OneSessionEach /\ WaitsForItsOwn
  BY DEF DesktopInv, RedeemableIsUnspent, WaitsSoundly, OneSessionEach, WaitsForItsOwn
<1>2. DesktopInv /\ [DesktopNext]_desktopVars => (window'.signedIn # window.signedIn => window'.signedIn = window.pending)
 <2> SUFFICES ASSUME DesktopInv, [DesktopNext]_desktopVars, window'.signedIn # window.signedIn
              PROVE  window'.signedIn = window.pending OBVIOUS
 <2>0. window \in Window BY DEF DesktopInv, DesktopTypes
 <2>1. ASSUME NEW a \in AttemptIds, OpenLink(a) PROVE window'.signedIn = window.pending
   BY <2>1 DEF OpenLink, Page, DesktopInv, WaitsSoundly
 <2>2. ASSUME NEW x \in Exchanges, Answered(x) PROVE window'.signedIn = window.pending
  <3>1. Waiting(x) /\ x # 0 BY <2>2, DesktopAssumption DEF Answered
  <3>2. calls[x].attempt = window.pending BY <3>1 DEF Waiting, DesktopInv, WaitsSoundly
  <3>3. CASE calls[x].stage = "made" BY <2>2, <3>1, <3>2, <3>3 DEF Answered, Page
  <3>4. CASE calls[x].stage # "made" BY <2>0, <2>2, <3>1, <3>4 DEF Answered, ExchangeRefused, Failed, Cleared, Window
  <3> QED BY <3>3, <3>4
 <2>3. CASE Deliver \/ MountWindow BY <2>0, <2>3, AnswerTaken, ExchangedShape DEF DesktopInv
 <2>4. ASSUME NEW x \in Exchanges, AnswerLost(x) PROVE FALSE BY <2>0, <2>4 DEF AnswerLost, ExchangeRefused, Failed, Window
 <2>5. ASSUME BeginAttempt \/ BeginFails \/ AttemptBegun \/ ReloadWindow \/ Close \/ Open \/ Late PROVE FALSE
   BY <2>0, <2>5 DEF BeginAttempt, BeginFails, AttemptBegun, ReloadWindow, Close, Open, Late, Cleared, Page, Window
 <2>6. ASSUME NEW x \in Exchanges, Claim(x) \/ Consume(x) \/ Mint(x) PROVE FALSE BY <2>6 DEF Claim, Consume, Mint
 <2>7. ASSUME NEW a \in AttemptIds, Authorize(a) \/ RowExpires(a) \/ SweepAttempt(a) PROVE FALSE
   BY <2>7 DEF Authorize, RowExpires, SweepAttempt
 <2>8. window' # window OBVIOUS
 <2> QED BY <2>1, <2>2, <2>3, <2>4, <2>5, <2>6, <2>7, <2>8 DEF DesktopNext, ServerStep, WindowStep, desktopVars
<1>3. DesktopInv /\ [DesktopNext]_desktopVars => (queue # 0 /\ queue' = 0 => ready)
 <2> SUFFICES ASSUME DesktopInv, DesktopNext, queue # 0, queue' = 0 PROVE ready BY DEF desktopVars
 <2>1. ASSUME NEW a \in AttemptIds, OpenLink(a) PROVE FALSE BY <2>1, AttemptNumbers DEF OpenLink
 <2>2. Deliver => ready BY DEF Deliver, MayFlush, Flushed
 <2>3. queue' # queue OBVIOUS
 <2> QED
   BY <2>1, <2>2, <2>3 DEF DesktopNext, ServerStep, WindowStep, BeginAttempt, BeginFails, AttemptBegun, ReloadWindow, Close,
      Open, Late, Claim, Consume, Mint, Answered, AnswerLost, Authorize, RowExpires, SweepAttempt, MountWindow
<1> QED BY <1>1, <1>2, <1>3, DesktopInvariant, PTL DEF DesktopSpec, ExchangesAreSound, SignedInByItsOwn, LinksAreHeard

-----------------------------------------------------------------------------
(* The desktop exchange implements a one-time grant.                       *)

\* What the contract sees of the attempts.
Standings == [a \in AttemptIds |-> Standing(a)]
Tries == [a \in AttemptIds |-> attempts[a].tries]

\* A step that changes one attempt's standing is a turn of that grant.
LEMMA OneTurn ==
    ASSUME DesktopTypes, NEW a \in AttemptIds, \A b \in AttemptIds : b # a => attempts'[b] = attempts[b]
    PROVE  /\ Standings' = [Standings EXCEPT ![a] = Standing(a)']
           /\ attempts'[a].tries = attempts[a].tries => Tries' = Tries
           /\ attempts'[a].tries = attempts[a].tries + 1 => Tries' = [Tries EXCEPT ![a] = @ + 1]
<1>1. \A b \in AttemptIds : b # a => Standing(b)' = Standing(b) BY DEF Standing
<1>2. Standings' = [Standings EXCEPT ![a] = Standing(a)'] BY <1>1 DEF Standings
<1> QED BY <1>2 DEF Tries

\* Rows that stand are grants that stand.
LEMMA NoTurn == ASSUME attempts' = attempts, granted' = granted PROVE UNCHANGED OneTime!grantVars
BY DEF OneTime!grantVars, Standing

\* Every step of the exchange is a step of the grant, or none.
LEMMA PromiseStep ==
    ASSUME DesktopInv, [DesktopNext]_desktopVars
    PROVE  [OneTime!GrantNext]_(OneTime!grantVars)
<1> USE DEF Standings, Tries
<1>0. DesktopTypes /\ UnaskedIsNew /\ RedeemableIsUnspent /\ ClaimsAreCounted BY DEF DesktopInv
<1>1. \A a \in AttemptIds : attempts[a] \in AttemptRow BY <1>0 DEF DesktopTypes
<1>2. CASE AttemptBegun
 <2>1. PICK a \in Unasked :
         /\ attempts' = [attempts EXCEPT ![a] = [NoAttempt EXCEPT !.status = "pending", !.live = TRUE]]
         /\ granted' = granted BY <1>2 DEF AttemptBegun
 <2>2. a \in AttemptIds /\ granted[a] = 0 /\ attempts[a].tries = 0 /\ attempts[a].status = "none"
   BY <1>0 DEF Unasked, UnaskedIsNew, NoAttempt
 <2>3. /\ attempts'[a].status = "pending" /\ attempts'[a].tries = attempts[a].tries
       /\ \A b \in AttemptIds : b # a => attempts'[b] = attempts[b] BY <1>0, <2>1, <2>2 DEF DesktopTypes, NoAttempt
 <2>4. Standing(a) = "void" /\ Standing(a)' = "asked" BY <2>2, <2>3 DEF Standing
 <2>5. OneTime!Offer(a) BY <1>0, <2>1, <2>2, <2>3, <2>4, OneTurn DEF OneTime!Offer, OneTime!Turn
 <2> QED BY <2>2, <2>5 DEF OneTime!GrantNext
<1>3. ASSUME NEW a \in AttemptIds, Authorize(a) PROVE OneTime!GrantNext \/ UNCHANGED OneTime!grantVars
 <2>1. CASE attempts' = attempts BY <1>3, <2>1, NoTurn DEF Authorize
 <2>2. CASE attempts[a].status = "pending" /\ attempts' = [attempts EXCEPT ![a].status = "authorized"]
  <3>1. /\ attempts'[a].status = "authorized" /\ attempts'[a].tries = attempts[a].tries /\ granted' = granted
        /\ \A b \in AttemptIds : b # a => attempts'[b] = attempts[b]
    BY <1>0, <1>1, <1>3, <2>2 DEF DesktopTypes, AttemptRow, Authorize
  <3>2. Standing(a) = "asked" /\ Standing(a)' = "approved" BY <2>2, <3>1 DEF Standing
  <3>3. OneTime!Approve(a) BY <1>0, <3>1, <3>2, OneTurn DEF OneTime!Approve, OneTime!Turn
  <3> QED BY <3>3 DEF OneTime!GrantNext
 <2> QED BY <1>3, <2>1, <2>2 DEF Authorize, Authorizable
<1>4. ASSUME NEW a \in AttemptIds, RowExpires(a) PROVE UNCHANGED OneTime!grantVars
  BY <1>0, <1>1, <1>4 DEF DesktopTypes, AttemptRow, RowExpires, Standing, OneTime!grantVars
<1>5. ASSUME NEW a \in AttemptIds, SweepAttempt(a) PROVE OneTime!GrantNext
  BY <1>0, <1>1, <1>5, OneTurn DEF DesktopTypes, AttemptRow, SweepAttempt, Standing, OneTime!Lapse, OneTime!Turn,
    OneTime!GrantNext
<1>6. ASSUME NEW x \in Exchanges, Claim(x) PROVE OneTime!GrantNext \/ UNCHANGED OneTime!grantVars
 <2>1. PICK a \in AttemptIds : a = calls[x].attempt /\ granted' = granted BY <1>0, <1>6 DEF Claim, ClaimsAreCounted
 <2>2. CASE attempts' = attempts BY <2>1, <2>2, NoTurn
 <2>3. CASE attempts[a].status = "authorized" /\ attempts[a].tries < TryLimit /\ attempts' = [attempts EXCEPT ![a].tries = @ + 1]
  <3>1. /\ attempts'[a].status = "authorized" /\ attempts'[a].tries = attempts[a].tries + 1
        /\ \A b \in AttemptIds : b # a => attempts'[b] = attempts[b] BY <1>0, <1>1, <2>1, <2>3 DEF DesktopTypes, AttemptRow
  <3>2. Standing(a) = "approved" /\ Standing(a)' = "approved" BY <2>3, <3>1 DEF Standing
  <3>3. Standings' = Standings
   <4>1. \A b \in AttemptIds : Standing(b)' = Standing(b) BY <3>1, <3>2 DEF Standing
   <4> QED BY <4>1
  <3>4. OneTime!Try(a) BY <1>0, <2>1, <2>3, <3>1, <3>2, <3>3, OneTurn DEF OneTime!Try
  <3> QED BY <2>1, <3>4 DEF OneTime!GrantNext
 <2> QED BY <1>6, <2>1, <2>2, <2>3 DEF Claim, Redeemable, MayTry, UnderLimit
<1>7. ASSUME NEW x \in Exchanges, Consume(x) PROVE OneTime!GrantNext \/ UNCHANGED OneTime!grantVars
 <2>1. PICK a \in AttemptIds : a = calls[x].attempt /\ attempts[a].tries > 0 BY <1>0, <1>7 DEF Consume, ClaimsAreCounted
 <2>2. CASE UNCHANGED <<attempts, granted>> BY <2>2, NoTurn
 <2>3. CASE /\ attempts[a].status = "authorized" /\ attempts' = [attempts EXCEPT ![a].status = "consumed"]
            /\ granted' = [granted EXCEPT ![a] = @ + 1]
   BY <1>0, <1>1, <2>1, <2>3, OneTurn DEF DesktopTypes, AttemptRow, Standing, OneTime!Redeem, OneTime!Turn, OneTime!GrantNext
 <2> QED BY <1>7, <2>1, <2>2, <2>3 DEF Consume, MayRedeem, Redeemable
<1>8. CASE Deliver \/ MountWindow BY <1>0, <1>8, AnswerTaken, NoTurn
<1>9. CASE BeginAttempt \/ BeginFails \/ ReloadWindow \/ Close \/ Open \/ Late
  BY <1>9, NoTurn DEF BeginAttempt, BeginFails, ReloadWindow, Close, Open, Late
<1>10. ASSUME NEW x \in Exchanges, Mint(x) \/ Answered(x) \/ AnswerLost(x) PROVE UNCHANGED OneTime!grantVars
  BY <1>10, NoTurn DEF Mint, Answered, AnswerLost
<1>11. ASSUME NEW a \in AttemptIds, OpenLink(a) PROVE UNCHANGED OneTime!grantVars BY <1>11, NoTurn DEF OpenLink
<1>12. CASE UNCHANGED desktopVars BY <1>12, NoTurn DEF desktopVars
<1> QED BY <1>2, <1>3, <1>4, <1>5, <1>6, <1>7, <1>8, <1>9, <1>10, <1>11, <1>12 DEF DesktopNext, ServerStep, WindowStep

\* Claims, redemptions, crashes between them, lapses and sweeps keep the promise
\* of a one-time grant: approved before it is tried, tried TryLimit times at most,
\* and redeemed once.
THEOREM AttemptsAreOneTime == DesktopSpec => KeepsItsPromise
<1>1. DesktopInit => OneTime!GrantInit BY DEF DesktopInit, OneTime!GrantInit, Standing, NoAttempt
<1>2. DesktopInv /\ [DesktopNext]_desktopVars => [OneTime!GrantNext]_(OneTime!grantVars) BY PromiseStep
<1> QED BY <1>1, <1>2, DesktopInvariant, PTL DEF DesktopSpec, KeepsItsPromise, OneTime!GrantSpec

-----------------------------------------------------------------------------
(* Email codes: the inductive invariant.                                   *)

\* The rows, transactions and forms.
CodesTypes ==
    /\ codes \in [Codes -> Code] /\ inbox \subseteq Codes
    /\ askings \in [Forms -> Asking] /\ checks \in [Forms -> Check] /\ forms \in [Forms -> Form]
    /\ compared \in [Codes -> Nat] /\ accepted \in [Codes -> Nat]
    /\ \A f \in Forms : askings[f].stage = "issued" => askings[f].code \in Codes

\* Codes are made one after the other, and nothing is known of one before.
MadeInOrder ==
    /\ \A c, d \in Codes : codes[c].made /\ d < c => codes[d].made
    /\ \A c \in Codes : ~codes[c].made => ~codes[c].there /\ ~codes[c].recent /\ compared[c] = 0 /\ accepted[c] = 0

\* A code not used yet is the last one made.
OlderAreRetired == \A c \in Unused : \A d \in Codes : codes[d].made => d <= c

\* A check that holds a row holds it alone, and knows what it says.
HeldAlone ==
    /\ \A f \in Forms : checks[f].stage = "holding"
          => checks[f].row \in Unused /\ checks[f].seen = codes[checks[f].row].attempts
    /\ \A f, g \in Forms : checks[f].stage = "holding" /\ checks[g].stage = "holding" /\ checks[f].row = checks[g].row
          => f = g

\* Each comparison is an attempt that was counted, or the one that was right.
PaidFor ==
    \A c \in Codes :
        /\ compared[c] = codes[c].attempts + accepted[c] /\ accepted[c] \in {0, 1}
        /\ accepted[c] = 1 => codes[c].used /\ codes[c].attempts < GuessLimit

\* A request that was counted has room for its row, and is the only one counted.
Recent == {c \in Codes : codes[c].there /\ codes[c].recent}
RoomForOne ==
    /\ Cardinality(Recent) <= Quota
    /\ \A f \in Forms : askings[f].stage = "counted" => Cardinality(Recent) < Quota
    /\ \A f, g \in Forms : askings[f].stage = "counted" /\ askings[g].stage = "counted" => f = g

CodesInv == CodesTypes /\ MadeInOrder /\ OlderAreRetired /\ HeldAlone /\ PaidFor /\ RoomForOne

-----------------------------------------------------------------------------
(* Email codes: lemmas about the operators.                                *)

\* The limits are numbers, and zero is below them.
LEMMA CodeNumbers ==
    /\ MaxCodes \in Nat /\ GuessLimit \in Nat /\ Quota \in Nat /\ GuessLimit > 0 /\ Quota > 0
    /\ 0 \in 0 .. MaxCodes /\ 0 \in 0 .. GuessLimit
    /\ \A c \in Codes : c \in 0 .. MaxCodes /\ c \in Nat
<1>1. MaxCodes \in Nat /\ GuessLimit \in Nat /\ Quota \in Nat /\ GuessLimit > 0 /\ Quota > 0 BY CodesAssumption
<1> QED BY <1>1 DEF Codes

\* The newest of a set is the one no other is newer than.
LEMMA NewestIs ==
    ASSUME NEW S \in SUBSET Codes, NEW c \in S, \A d \in S : d <= c
    PROVE  NewestOf(S) = c
<1>1. NewestOf(S) \in S /\ \A d \in S : d <= NewestOf(S) BY DEF NewestOf
<1> QED BY <1>1, CodeNumbers

\* At most one code is unused, and it is the newest there is.
LEMMA UnusedIsNewest ==
    ASSUME CodesTypes, MadeInOrder, OlderAreRetired, NEW c \in Unused
    PROVE  NewestOf(Unused) = c /\ NewestOf({d \in Codes : codes[d].there}) = c
<1>1. \A d \in Codes : codes[d].there => codes[d].made BY DEF MadeInOrder
<1>2. Unused \in SUBSET Codes /\ {d \in Codes : codes[d].there} \in SUBSET Codes /\ c \in {d \in Codes : codes[d].there}
  BY DEF Unused
<1>3. \A d \in {e \in Codes : codes[e].there} : d <= c BY <1>1 DEF OlderAreRetired
<1>4. \A d \in Unused : d <= c BY <1>3 DEF Unused
<1> QED BY <1>2, <1>3, <1>4, NewestIs

\* Rows that lapse or go make no more recent rows.
LEMMA RecentShrinks ==
    ASSUME NEW S, NEW T, S \subseteq T, T \subseteq Codes
    PROVE  Cardinality(S) <= Cardinality(T) /\ Cardinality(T) \in Nat /\ Cardinality(S) \in Nat
<1>1. IsFiniteSet(Codes) BY CodeNumbers, FS_Interval DEF Codes
<1> QED BY <1>1, FS_Subset, FS_CardinalityType

-----------------------------------------------------------------------------
(* Email codes: each step.                                                 *)

\* Nobody has asked.
LEMMA CodesInitInv == CodesInit => CodesInv
<1> SUFFICES ASSUME CodesInit PROVE CodesInv OBVIOUS
<1>1. CodesTypes
 <2>1. NoCode \in Code /\ NoAsking \in Asking /\ NoCheck \in Check /\ NewForm \in Form
   BY CodeNumbers DEF NoCode, Code, NoAsking, Asking, NoCheck, Check, NewForm, Form
 <2> QED BY <2>1 DEF CodesInit, CodesTypes, NoAsking
<1>2. MadeInOrder /\ OlderAreRetired /\ HeldAlone
  BY DEF CodesInit, MadeInOrder, OlderAreRetired, HeldAlone, Unused, NoCode, NoCheck
<1>3. PaidFor BY CodeNumbers DEF CodesInit, PaidFor, NoCode
<1>4. RoomForOne
 <2>1. Recent = {} BY DEF CodesInit, Recent, NoCode
 <2> QED BY <2>1, CodeNumbers, FS_EmptySet DEF CodesInit, RoomForOne, NoAsking
<1> QED BY <1>1, <1>2, <1>3, <1>4 DEF CodesInv

\* Pages, mail and clocks keep the types.
LEMMA CodesTypesStep == ASSUME CodesInv, [CodesNext]_codesVars PROVE CodesTypes'
<1>0. CodesTypes BY DEF CodesInv
<1>a. /\ NewCode \in Code /\ NoAsking \in Asking /\ NoCheck \in Check /\ NewForm \in Form
      /\ \A c \in Codes : codes[c] \in Code
      /\ \A f \in Forms : askings[f] \in Asking /\ checks[f] \in Check /\ forms[f] \in Form
  BY <1>0, CodeNumbers DEF CodesTypes, NewCode, Code, NoAsking, Asking, NoCheck, Check, NewForm, Form
<1>1. ASSUME NEW f \in Forms, Request(f) \/ Count(f) PROVE CodesTypes'
 <2>1. PICK t \in {"asked", "counted", "refused"} : askings' = [askings EXCEPT ![f].stage = t] BY <1>1 DEF Request, Count
 <2>3. askings' \in [Forms -> Asking] /\ \A g \in Forms : askings'[g].stage = "issued" => askings'[g] = askings[g]
   BY <1>0, <1>a, <2>1 DEF CodesTypes, Asking
 <2>2. forms' \in [Forms -> Form] BY <1>0, <1>a, <1>1 DEF CodesTypes, Request, Count, Form
 <2> QED BY <1>0, <1>1, <2>2, <2>3 DEF CodesTypes, Request, Count
<1>2. ASSUME NEW f \in Forms, Issue(f) PROVE CodesTypes'
 <2>1. PICK c \in Codes :
         /\ codes' = [d \in Codes |-> IF d = c THEN NewCode ELSE IF d \in Unused THEN Older(codes[d]) ELSE codes[d]]
         /\ askings' = [askings EXCEPT ![f] = [stage |-> "issued", code |-> c]]
         /\ UNCHANGED <<inbox, checks, forms, compared, accepted, steps>> BY <1>2 DEF Issue
 <2>2. \A d \in Codes : Older(codes[d]) \in Code BY <1>a DEF Older, Retired, Code
 <2>3. [stage |-> "issued", code |-> c] \in Asking BY CodeNumbers DEF Asking
 <2>4. \A g \in Forms : askings'[g].stage = "issued" => askings'[g].code \in Codes BY <1>0, <2>1 DEF CodesTypes
 <2>5. codes' \in [Codes -> Code] /\ askings' \in [Forms -> Asking] BY <1>0, <1>a, <2>1, <2>2, <2>3 DEF CodesTypes
 <2> QED BY <1>0, <2>1, <2>4, <2>5 DEF CodesTypes
<1>3. ASSUME NEW f \in Forms, AnswerRequest(f) PROVE CodesTypes'
 <2>1. askings[f].stage = "issued" => askings[f].code \in Codes BY <1>0 DEF CodesTypes
 <2>2. inbox' \subseteq Codes BY <1>0, <1>3, <2>1 DEF AnswerRequest, CodesTypes
 <2>3. forms' \in [Forms -> Form]
  <3>1. /\ [forms[f] EXCEPT !.busy = "no"] \in Form
        /\ [forms[f] EXCEPT !.busy = "no", !.sent = TRUE, !.pending = TRUE] \in Form BY <1>a DEF Form
  <3> QED BY <1>0, <1>3, <3>1 DEF AnswerRequest, CodesTypes
 <2>4. askings' \in [Forms -> Asking] /\ \A g \in Forms : askings'[g].stage = "issued" => askings'[g] = askings[g]
   BY <1>0, <1>a, <1>3 DEF AnswerRequest, CodesTypes, NoAsking
 <2> QED BY <1>0, <1>3, <2>2, <2>3, <2>4 DEF AnswerRequest, CodesTypes
<1>4. ASSUME NEW f \in Forms, Submit(f) PROVE CodesTypes'
 <2>1. PICK c \in inbox \cup {0} : checks' = [checks EXCEPT ![f] = [NoCheck EXCEPT !.stage = "asked", !.typed = c]]
   BY <1>4 DEF Submit
 <2>2. c \in 0 .. MaxCodes BY <1>0, CodeNumbers DEF CodesTypes
 <2>3. [NoCheck EXCEPT !.stage = "asked", !.typed = c] \in Check BY <2>2, CodeNumbers DEF NoCheck, Check
 <2>4. forms' \in [Forms -> Form] BY <1>0, <1>a, <1>4 DEF Submit, CodesTypes, Form
 <2> QED BY <1>0, <1>4, <2>1, <2>3, <2>4 DEF Submit, CodesTypes
<1>5. ASSUME NEW f \in Forms, Look(f) PROVE CodesTypes'
 <2>1. Unused # {} => NewestOf(Unused) \in 0 .. MaxCodes
  <3> SUFFICES ASSUME NEW c \in Unused PROVE NewestOf(Unused) \in 0 .. MaxCodes OBVIOUS
  <3> QED BY UnusedIsNewest, CodeNumbers DEF CodesInv, Unused
 <2>2. checks' \in [Forms -> Check] BY <1>0, <1>a, <1>5, <2>1 DEF Look, CodesTypes, Check
 <2> QED BY <1>0, <1>5, <2>2 DEF Look, CodesTypes
<1>6. ASSUME NEW f \in Forms, Hold(f) PROVE CodesTypes'
 <2>1. checks[f].row \in Unused => codes[checks[f].row].attempts \in 0 .. GuessLimit BY <1>a DEF Unused, Code
 <2>2. checks' \in [Forms -> Check] BY <1>0, <1>a, <1>6, <2>1 DEF Hold, CodesTypes, Check
 <2> QED BY <1>0, <1>6, <2>2 DEF Hold, CodesTypes
<1>7. ASSUME NEW f \in Forms, Decide(f) PROVE CodesTypes'
 <2>0. PICK c \in Codes : c = checks[f].row BY <1>7 DEF Decide, CodesInv, HeldAlone, Unused
 <2>1. checks' \in [Forms -> Check] BY <1>0, <1>a, <1>7 DEF Decide, CodesTypes, Check
 <2>2. compared' \in [Codes -> Nat] /\ accepted' \in [Codes -> Nat] BY <1>0, <1>7, <2>0 DEF Decide, CodesTypes
 <2>3. \A u \in BOOLEAN, n \in 0 .. GuessLimit : [[codes[c] EXCEPT !.used = u] EXCEPT !.attempts = n] \in Code BY <1>a DEF Code
 <2>4. codes' \in [Codes -> Code]
  <3> DEFINE open == codes[c].live /\ checks[f].seen < GuessLimit
             right == open /\ checks[f].typed = c
             n == IF open /\ ~right THEN checks[f].seen + 1 ELSE codes[c].attempts
  <3>1. n \in 0 .. GuessLimit BY <1>a, CodeNumbers DEF Code, Check
  <3>2. codes' = [codes EXCEPT ![c].used = @ \/ right, ![c].attempts = IF open /\ ~right THEN checks[f].seen + 1 ELSE @]
    BY <1>7, <2>0 DEF Decide
  <3>3. codes' = [codes EXCEPT ![c] = [[codes[c] EXCEPT !.used = @ \/ right] EXCEPT !.attempts = n]]
    BY <1>0, <1>a, <3>2 DEF CodesTypes, Code
  <3>4. (codes[c].used \/ right) \in BOOLEAN OBVIOUS
  <3> HIDE DEF open, right, n
  <3> QED BY <1>0, <2>3, <3>1, <3>3, <3>4 DEF CodesTypes
 <2> QED BY <1>0, <1>7, <2>1, <2>2, <2>4 DEF Decide, CodesTypes
<1>8. ASSUME NEW f \in Forms, AnswerCheck(f) \/ StartOver(f) PROVE CodesTypes'
 <2>1. checks' \in [Forms -> Check] BY <1>0, <1>a, <1>8 DEF AnswerCheck, StartOver, CodesTypes
 <2>2. forms' \in [Forms -> Form]
  <3>1. /\ [forms[f] EXCEPT !.busy = "no"] \in Form
        /\ [forms[f] EXCEPT !.busy = "no", !.pending = FALSE, !.over = TRUE] \in Form BY <1>a DEF Form
  <3> QED BY <1>0, <1>a, <1>8, <3>1 DEF AnswerCheck, StartOver, CodesTypes
 <2> QED BY <1>0, <1>8, <2>1, <2>2 DEF AnswerCheck, StartOver, CodesTypes
<1>9. ASSUME NEW f \in Forms, ReloadForm(f) \/ MountForm(f) \/ Unpark(f) PROVE CodesTypes'
 <2>1. forms' \in [Forms -> Form]
  <3>1. /\ [forms[f] EXCEPT !.up = FALSE, !.sent = FALSE, !.busy = "no"] \in Form
        /\ Resumed(forms[f]) \in Form /\ [forms[f] EXCEPT !.pending = FALSE] \in Form BY <1>a DEF Resumed, Form
  <3> QED BY <1>0, <1>9, <3>1 DEF ReloadForm, MountForm, Unpark, CodesTypes
 <2> QED BY <1>0, <1>9, <2>1 DEF ReloadForm, MountForm, Unpark, CodesTypes
<1>10. ASSUME NEW c \in Codes, Expire(c) \/ Forget(c) \/ SweepCode(c) PROVE CodesTypes'
 <2>1. /\ [codes[c] EXCEPT !.live = FALSE] \in Code /\ [codes[c] EXCEPT !.recent = FALSE] \in Code
       /\ [codes[c] EXCEPT !.there = FALSE] \in Code BY <1>a DEF Code
 <2> QED BY <1>0, <1>10, <2>1 DEF Expire, Forget, SweepCode, CodesTypes
<1>11. CASE UNCHANGED codesVars BY <1>0, <1>11 DEF codesVars, CodesTypes
<1> QED BY <1>1, <1>2, <1>3, <1>4, <1>5, <1>6, <1>7, <1>8, <1>9, <1>10, <1>11 DEF CodesNext, CodeStep

\* The parts that say how codes, checks and requests go together.
Paid == MadeInOrder /\ OlderAreRetired /\ HeldAlone /\ PaidFor /\ RoomForOne

\* Rows stand while a request comes, is counted, or is answered.
LEMMA AskingStep ==
    ASSUME CodesInv, NEW f \in Forms, Request(f) \/ Count(f) \/ AnswerRequest(f)
    PROVE  Paid'
<1>1. UNCHANGED <<codes, checks, compared, accepted>> BY DEF Request, Count, AnswerRequest
<1>2. MadeInOrder' /\ OlderAreRetired' /\ HeldAlone' /\ PaidFor' /\ Recent' = Recent
  BY <1>1 DEF CodesInv, MadeInOrder, OlderAreRetired, HeldAlone, PaidFor, Recent, Unused
<1>3. \A g \in Forms : g # f => askings'[g] = askings[g] BY DEF Request, Count, AnswerRequest, CodesInv, CodesTypes
<1>4. CASE askings'[f].stage # "counted" BY <1>2, <1>3, <1>4 DEF CodesInv, RoomForOne, Paid
<1>5. CASE askings'[f].stage = "counted"
 <2>1. Count(f) /\ UnderQuota /\ \A g \in Forms : askings[g].stage # "counted"
  <3>0. askings \in [Forms -> Asking] BY DEF CodesInv, CodesTypes
  <3>1. Request(f) => askings'[f].stage = "asked" BY <3>0 DEF Request, Asking
  <3>2. AnswerRequest(f) => askings'[f].stage = "none" BY <3>0 DEF AnswerRequest, NoAsking
  <3>3. ASSUME Count(f) PROVE UnderQuota
    BY <3>0, <3>3, <1>5 DEF Count, Asking
  <3>4. Count(f) => \A g \in Forms : askings[g].stage # "counted" BY DEF Count, MayCount, QuotaIsFree
  <3> QED BY <1>5, <3>1, <3>2, <3>3, <3>4
 <2>2. Cardinality(Recent) < Quota BY <2>1 DEF UnderQuota, Recent
 <2> QED BY <1>2, <1>3, <2>1, <2>2 DEF CodesInv, RoomForOne, Paid
<1> QED BY <1>4, <1>5

\* A check takes a row nobody holds, and only a row that is unused.
LEMMA CheckingStep ==
    ASSUME CodesInv, NEW f \in Forms, Submit(f) \/ Look(f) \/ Hold(f) \/ AnswerCheck(f)
    PROVE  Paid'
<1>1. UNCHANGED <<codes, askings, compared, accepted>> BY DEF Submit, Look, Hold, AnswerCheck
<1>2. MadeInOrder' /\ OlderAreRetired' /\ PaidFor' /\ RoomForOne' /\ Unused' = Unused
  BY <1>1 DEF CodesInv, MadeInOrder, OlderAreRetired, PaidFor, RoomForOne, Recent, Unused
<1>3. \A g \in Forms : g # f => checks'[g] = checks[g] BY DEF Submit, Look, Hold, AnswerCheck, CodesInv, CodesTypes
<1>4. CASE checks'[f].stage # "holding" BY <1>1, <1>2, <1>3, <1>4 DEF CodesInv, HeldAlone, Paid
<1>5. CASE checks'[f].stage = "holding"
 <2>1. Hold(f)
  <3>0. checks \in [Forms -> Check] BY DEF CodesInv, CodesTypes
  <3>1. Submit(f) => checks'[f].stage = "asked" BY <3>0 DEF Submit, NoCheck
  <3>2. Look(f) => checks'[f].stage \in {"bad", "waiting"} BY <3>0 DEF Look, Check
  <3>3. AnswerCheck(f) => checks'[f].stage = "none" BY <3>0 DEF AnswerCheck, NoCheck
  <3> QED BY <1>5, <3>1, <3>2, <3>3
 <2>2. /\ checks[f].row \in Unused /\ ~Locked(checks[f].row)
       /\ checks' = [checks EXCEPT ![f] = [@ EXCEPT !.stage = "holding", !.seen = codes[checks[f].row].attempts]]
   BY <1>5, <2>1 DEF Hold, MayHold, RowIsFree, CodesInv, CodesTypes, Check
 <2>3. checks'[f].row = checks[f].row /\ checks'[f].seen = codes[checks[f].row].attempts BY <2>2 DEF CodesInv, CodesTypes, Check
 <2>4. \A g \in Forms : checks[g].stage = "holding" => checks[g].row # checks[f].row BY <2>2 DEF Locked
 <2> QED BY <1>1, <1>2, <1>3, <2>2, <2>3, <2>4 DEF CodesInv, HeldAlone, Paid
<1> QED BY <1>4, <1>5

\* A new code retires the older ones, none of which is being checked.
LEMMA IssueStep == ASSUME CodesInv, NEW f \in Forms, Issue(f) PROVE Paid'
<1>0. CodesTypes /\ MadeInOrder /\ OlderAreRetired /\ HeldAlone /\ PaidFor /\ RoomForOne BY DEF CodesInv
<1>1. PICK c \in Codes :
        /\ ~codes[c].made /\ \A d \in Codes : ~codes[d].made => c <= d
        /\ codes' = [d \in Codes |-> IF d = c THEN NewCode ELSE IF d \in Unused THEN Older(codes[d]) ELSE codes[d]]
        /\ askings' = [askings EXCEPT ![f] = [stage |-> "issued", code |-> c]] BY DEF Issue, Made
<1>2. UNCHANGED <<checks, compared, accepted>> /\ askings[f].stage = "counted" /\ \A g \in Forms : checks[g].stage # "holding"
  BY <1>0 DEF Issue, Locked, HeldAlone
<1>3. \A d \in Codes : codes[d] \in Code BY <1>0 DEF CodesTypes
<1>4. \A d \in Codes : d # c =>
        /\ codes'[d].made = codes[d].made /\ codes'[d].there = codes[d].there /\ codes'[d].recent = codes[d].recent
        /\ codes'[d].attempts = codes[d].attempts /\ (codes[d].used => codes'[d].used) /\ (codes[d].there => codes'[d].used)
 <2> SUFFICES ASSUME NEW d \in Codes, d # c
              PROVE  /\ codes'[d].made = codes[d].made /\ codes'[d].there = codes[d].there /\ codes'[d].recent = codes[d].recent
                     /\ codes'[d].attempts = codes[d].attempts /\ (codes[d].used => codes'[d].used)
                     /\ (codes[d].there => codes'[d].used) OBVIOUS
 <2>1. CASE d \in Unused
   BY <1>1, <2>1, <1>3 DEF Older, Retired, Code
 <2>2. CASE d \notin Unused
   BY <1>1, <2>2 DEF Unused
 <2> QED BY <2>1, <2>2
<1>5. /\ codes'[c].made /\ codes'[c].there /\ codes'[c].attempts = 0 /\ ~codes'[c].used
      /\ ~codes[c].there /\ compared[c] = 0 /\ accepted[c] = 0 BY <1>0, <1>1 DEF NewCode, MadeInOrder
<1>6. \A d \in Codes : codes[d].made => d < c BY <1>0, <1>1, CodeNumbers DEF MadeInOrder
<1>7. MadeInOrder'
 <2>1. \A d \in Codes : d < c => codes[d].made BY <1>1, CodeNumbers
 <2>2. \A d, e \in Codes : codes'[d].made /\ e < d => codes'[e].made
  <3> SUFFICES ASSUME NEW d \in Codes, NEW e \in Codes, codes'[d].made, e < d PROVE codes'[e].made OBVIOUS
  <3>1. d = c \/ codes[d].made BY <1>4
  <3>2. e < c BY <1>6, <3>1, CodeNumbers
  <3>3. e # c /\ codes[e].made BY <2>1, <3>2, CodeNumbers
  <3> QED BY <1>4, <3>3
 <2>3. \A d \in Codes : ~codes'[d].made => ~codes'[d].there /\ ~codes'[d].recent /\ compared'[d] = 0 /\ accepted'[d] = 0
   BY <1>0, <1>2, <1>4, <1>5 DEF MadeInOrder
 <2> QED BY <2>2, <2>3 DEF MadeInOrder
<1>8. OlderAreRetired'
  BY <1>4, <1>6, CodeNumbers DEF Unused, OlderAreRetired
<1>9. HeldAlone' BY <1>2 DEF HeldAlone
<1>10. PaidFor'
  BY <1>2, <1>5, <1>4, <1>0 DEF PaidFor
<1>11. RoomForOne'
 <2>1. Recent' \subseteq Recent \cup {c} /\ Recent \subseteq Codes /\ c \notin Recent BY <1>4, <1>5 DEF Recent
 <2>2. IsFiniteSet(Recent)
  <3>1. IsFiniteSet(Codes) BY CodeNumbers, FS_Interval DEF Codes
  <3> QED BY <2>1, <3>1, FS_Subset
 <2>3. Cardinality(Recent \cup {c}) = Cardinality(Recent) + 1 BY <2>1, <2>2, FS_AddElement
 <2>4. Cardinality(Recent') <= Cardinality(Recent \cup {c}) /\ Cardinality(Recent) \in Nat /\ Cardinality(Recent') \in Nat
   BY <2>1, RecentShrinks
 <2>5. Cardinality(Recent') <= Quota BY <1>0, <1>2, <2>3, <2>4, CodeNumbers DEF RoomForOne
 <2>6. \A g \in Forms : askings'[g].stage # "counted"
   BY <1>0, <1>1, <1>2 DEF CodesTypes, RoomForOne
 <2> QED BY <2>5, <2>6 DEF RoomForOne
<1> QED BY <1>7, <1>8, <1>9, <1>10, <1>11 DEF Paid

\* A decision writes back what its lock has kept true.
LEMMA DecideStep == ASSUME CodesInv, NEW f \in Forms, Decide(f) PROVE Paid'
<1>0. CodesTypes /\ MadeInOrder /\ OlderAreRetired /\ HeldAlone /\ PaidFor /\ RoomForOne BY DEF CodesInv
<1>1. PICK c \in Codes : c = checks[f].row /\ c \in Unused /\ checks[f].seen = codes[c].attempts
  BY <1>0 DEF Decide, HeldAlone, Unused
<1> DEFINE open == codes[c].live /\ checks[f].seen < GuessLimit
           right == open /\ checks[f].typed = c
<1>2. /\ codes' = [codes EXCEPT ![c].used = @ \/ right, ![c].attempts = IF open /\ ~right THEN checks[f].seen + 1 ELSE @]
      /\ compared' = [compared EXCEPT ![c] = IF open THEN @ + 1 ELSE @]
      /\ accepted' = [accepted EXCEPT ![c] = IF right THEN @ + 1 ELSE @]
      /\ checks' = [checks EXCEPT ![f].stage = IF right THEN "ok" ELSE "bad"]
      /\ askings' = askings /\ checks[f].stage = "holding" BY <1>1 DEF Decide
<1>3. /\ codes[c] \in Code /\ ~codes[c].used /\ codes[c].there /\ codes[c].made /\ accepted[c] = 0
      /\ compared[c] = codes[c].attempts /\ codes[c].attempts \in 0 .. GuessLimit
  BY <1>0, <1>1 DEF CodesTypes, Unused, MadeInOrder, Code, PaidFor
<1>4. \A d \in Codes : d # c => codes'[d] = codes[d] /\ compared'[d] = compared[d] /\ accepted'[d] = accepted[d]
  BY <1>0, <1>2 DEF CodesTypes
<1>5. /\ codes'[c].made /\ codes'[c].there /\ codes'[c].recent = codes[c].recent
      /\ codes'[c].used = right /\ codes'[c].attempts = IF open /\ ~right THEN codes[c].attempts + 1 ELSE codes[c].attempts
 <2>1. codes'[c] = [[codes[c] EXCEPT !.used = @ \/ right] EXCEPT !.attempts = IF open /\ ~right THEN checks[f].seen + 1 ELSE @]
   BY <1>0, <1>2, <1>3 DEF CodesTypes, Code
 <2>2. right \in BOOLEAN OBVIOUS
 <2> HIDE DEF open, right
 <2>3. codes[c].used = FALSE BY <1>3 DEF Code
 <2>4. (codes[c].used \/ right) = right BY <2>2, <2>3
 <2>5. codes'[c] = [[codes[c] EXCEPT !.used = right] EXCEPT !.attempts = IF open /\ ~right THEN codes[c].attempts + 1 ELSE codes[c].attempts]
   BY <1>1, <1>3, <2>1, <2>4 DEF Code
 <2> QED BY <1>3, <2>5 DEF Code
<1>6. /\ compared'[c] = IF open THEN compared[c] + 1 ELSE compared[c]
      /\ accepted'[c] = IF right THEN 1 ELSE 0 BY <1>0, <1>2, <1>3 DEF CodesTypes
<1>7. open => codes[c].attempts < GuessLimit BY <1>1
<1>8. right => open OBVIOUS
<1> HIDE DEF open, right
<1>9. MadeInOrder' BY <1>0, <1>3, <1>4, <1>5 DEF MadeInOrder
<1>10. OlderAreRetired' /\ Recent' = Recent BY <1>0, <1>3, <1>4, <1>5 DEF OlderAreRetired, Unused, Recent
<1>11. HeldAlone'
 <2>1. checks'[f].stage # "holding" /\ \A g \in Forms : g # f => checks'[g] = checks[g] BY <1>0, <1>2 DEF CodesTypes, Check
 <2>2. \A g \in Forms : g # f /\ checks[g].stage = "holding" => checks[g].row # c BY <1>0, <1>1, <1>2 DEF HeldAlone
 <2> QED BY <1>0, <1>4, <2>1, <2>2 DEF HeldAlone, Unused
<1>12. PaidFor' BY <1>0, <1>3, <1>4, <1>5, <1>6, <1>7, <1>8, CodeNumbers DEF PaidFor
<1>13. RoomForOne' BY <1>0, <1>2, <1>10 DEF RoomForOne
<1> QED BY <1>9, <1>10, <1>11, <1>12, <1>13 DEF Paid

\* Time passes for rows nobody holds, and the cleanup takes some.
LEMMA LapseStep == ASSUME CodesInv, NEW c \in Codes, Expire(c) \/ Forget(c) \/ SweepCode(c) PROVE Paid'
<1>0. CodesTypes /\ MadeInOrder /\ OlderAreRetired /\ HeldAlone /\ PaidFor /\ RoomForOne /\ codes[c] \in Code
  BY DEF CodesInv, CodesTypes
<1>1. UNCHANGED <<askings, checks, compared, accepted>> BY DEF Expire, Forget, SweepCode
<1>2. /\ \A d \in Codes : d # c => codes'[d] = codes[d]
      /\ codes'[c].made = codes[c].made /\ codes'[c].attempts = codes[c].attempts /\ codes'[c].used = codes[c].used
      /\ (codes'[c].there => codes[c].there) /\ (codes'[c].recent => codes[c].recent)
  BY <1>0 DEF Expire, Forget, SweepCode, CodesTypes, Code
<1>3. \A f \in Forms : checks[f].stage = "holding" /\ checks[f].row = c => codes'[c].there = codes[c].there
  BY <1>0 DEF Expire, Forget, SweepCode, CodesTypes, Code
<1>4. Unused' \subseteq Unused BY <1>2 DEF Unused
<1>5. MadeInOrder' /\ OlderAreRetired' BY <1>0, <1>1, <1>2, <1>4 DEF MadeInOrder, OlderAreRetired
<1>6. HeldAlone' BY <1>0, <1>1, <1>2, <1>3 DEF HeldAlone, Unused
<1>7. PaidFor' BY <1>0, <1>1, <1>2 DEF PaidFor
<1>8. RoomForOne'
  BY <1>2, RecentShrinks, <1>0, <1>1, CodeNumbers DEF Recent, RoomForOne
<1> QED BY <1>5, <1>6, <1>7, <1>8 DEF Paid

\* The invariant of email codes.
LEMMA CodesInvariant == CodesSpec => []CodesInv
<1>1. ASSUME CodesInv, [CodesNext]_codesVars PROVE Paid'
 <2>1. ASSUME UNCHANGED <<codes, askings, checks, compared, accepted>> PROVE Paid'
   BY <1>1, <2>1 DEF CodesInv, Paid, MadeInOrder, OlderAreRetired, HeldAlone, PaidFor, RoomForOne, Recent, Unused
 <2>2. ASSUME NEW f \in Forms, StartOver(f) \/ ReloadForm(f) \/ MountForm(f) \/ Unpark(f) PROVE Paid'
   BY <2>1, <2>2 DEF StartOver, ReloadForm, MountForm, Unpark
 <2>3. CASE UNCHANGED codesVars BY <2>1, <2>3 DEF codesVars
 <2> QED BY <1>1, <2>2, <2>3, AskingStep, CheckingStep, IssueStep, DecideStep, LapseStep DEF CodesNext, CodeStep
<1>2. CodesInv /\ [CodesNext]_codesVars => CodesInv' BY <1>1, CodesTypesStep DEF CodesInv, Paid
<1> QED BY <1>2, CodesInitInv, PTL DEF CodesSpec

\* Every comparison of a code is counted before the next one, none is accepted
\* twice, no address has more recent rows than its quota, and only the newest
\* code is ever accepted, however many requests and checks run at once.
THEOREM EmailCodesAreSound == CodesSpec => CodesAreSound
<1>1. CodesInv => GuessesAreCounted /\ QuotaHolds
 <2> SUFFICES ASSUME CodesInv PROVE GuessesAreCounted /\ QuotaHolds OBVIOUS
 <2>1. QuotaHolds BY DEF CodesInv, RoomForOne, QuotaHolds, Recent
 <2>2. ASSUME NEW c \in Codes PROVE compared[c] <= GuessLimit /\ accepted[c] <= 1
   BY CodeNumbers DEF CodesInv, CodesTypes, Code, PaidFor
 <2> QED BY <2>1, <2>2 DEF GuessesAreCounted
<1>2. CodesInv /\ [CodesNext]_codesVars
        => \A c \in Codes : accepted'[c] > accepted[c] => c = NewestOf({d \in Codes : codes[d].there})
 <2> SUFFICES ASSUME CodesInv, [CodesNext]_codesVars, NEW c \in Codes, accepted'[c] > accepted[c]
              PROVE  c = NewestOf({d \in Codes : codes[d].there}) OBVIOUS
 <2>1. accepted' # accepted BY DEF CodesInv, CodesTypes
 <2>2. PICK f \in Forms : Decide(f)
   BY <2>1 DEF CodesNext, CodeStep, codesVars, Request, Count, Issue, AnswerRequest, Submit, Look, Hold, AnswerCheck, StartOver,
      ReloadForm, MountForm, Unpark, Expire, Forget, SweepCode
 <2>3. checks[f].row = c BY <2>2 DEF Decide, CodesInv, CodesTypes
 <2>4. c \in Unused BY <2>2, <2>3 DEF Decide, CodesInv, HeldAlone
 <2> QED BY <2>4, UnusedIsNewest DEF CodesInv
<1> QED BY <1>1, <1>2, CodesInvariant, PTL DEF CodesSpec, CodesAreSound, OnlyTheNewest
-----------------------------------------------------------------------------
(* Sign-in methods: the inductive invariant.                               *)

Things == Accounts \cup {0} \cup Subjects \cup Passkeys \cup Address \cup {Nobody, "google", "siwe"}
Lock == {OfAccount(a) : a \in Accounts} \cup {OfMethods(a) : a \in Accounts} \cup {OfPasskey(k) : k \in Passkeys}
MethodRequest == [kind : {"none", "unlink", "remove", "removing", "detach", "link", "merge", "merging", "claim", "join"},
            by : Accounts \cup {0}, of : Things, seen : Things, held : SUBSET Lock, wants : Seq(Lock)]

\* The rows and the requests.
MethodsTypes ==
    /\ accounts \in [Accounts -> [state : {"free", "alive", "gone"}, email : Things, owner : Things,
                                  sealed : BOOLEAN, rotating : BOOLEAN, generation : Nat]]
    /\ identities \in [Subjects -> Accounts \cup {0}]
    /\ passkeys \in [Passkeys -> Accounts \cup {0}]
    /\ requests \in [Requests -> MethodRequest]

\* How far a request got that takes one lock, or one and then another.
TakesOne(q, x) == (q.held = {} /\ q.wants = <<x>>) \/ (q.held = {x} /\ q.wants = <<>>)
TakesTwo(q, x, y) ==
    \/ (q.held = {} /\ q.wants = <<x, y>>)
    \/ (q.held = {x} /\ q.wants = <<y>>)
    \/ (q.held = {x, y} /\ q.wants = <<>>)
Wanted(q) == {q.wants[i] : i \in DOMAIN q.wants}

\* What each kind of request holds and still wants.
LocksByKind(q) ==
    /\ q.kind = "none" => q = NoRequest
    /\ q.kind = "join" => q.by \in Accounts /\ q.of \in Subjects /\ q.held = {} /\ q.wants = <<>>
    /\ q.kind \in {"unlink", "detach", "claim"} => q.by \in Accounts /\ TakesTwo(q, OfAccount(q.by), OfMethods(q.by))
    /\ q.kind = "link" => q.by \in Accounts /\ q.of \in Subjects /\ TakesOne(q, OfAccount(q.by))
    /\ q.kind = "remove" => q.by \in Accounts /\ q.of \in Passkeys /\ TakesOne(q, OfMethods(q.by))
    /\ q.kind = "removing" =>
         /\ q.by \in Accounts /\ q.of \in Passkeys /\ OfMethods(q.by) \in q.held
         /\ q.wants \in {<<>>, <<OfPasskey(q.of)>>}
    /\ q.kind \in {"merge", "merging"} => q.by \in Accounts /\ q.seen \in Accounts /\ q.by # q.seen /\ q.of \in Subjects
    /\ q.kind = "merge" =>
         /\ q.by < q.seen => TakesTwo(q, OfAccount(q.by), OfAccount(q.seen))
         /\ q.seen < q.by => TakesTwo(q, OfAccount(q.seen), OfAccount(q.by))
    /\ q.kind = "merging" =>
         /\ OfAccount(q.by) \in q.held /\ OfAccount(q.seen) \in q.held
         /\ OfMethods(q.seen) \in q.held \cup Wanted(q)
         /\ \A i \in DOMAIN q.wants : q.wants[i] \notin {OfAccount(a) : a \in Accounts}

LocksAreInOrder == \A r \in Requests : LocksByKind(requests[r])

\* No two requests hold one lock.
LocksExclude == \A r, q \in Requests : r # q => requests[r].held \cap requests[q].held = {}

\* A removal that has been checked leaves a way in, and stays true until it is made.
RemovalsLeaveOne ==
    \A r \in Requests, a \in Accounts : requests[r].kind = "removing" /\ requests[r].by = a =>
        passkeys[requests[r].of] = a /\ Methods(a) > 1

\* What a checked merge absorbs is what was proven, and nothing in it is encrypted.
MergesAreChecked ==
    \A r \in Requests : requests[r].kind = "merging" =>
        /\ identities[requests[r].of] = requests[r].seen
        /\ ~accounts[requests[r].seen].sealed /\ ~accounts[requests[r].seen].rotating

MethodsInv == MethodsTypes /\ LocksAreInOrder /\ LocksExclude /\ RemovalsLeaveOne /\ MergesAreChecked

-----------------------------------------------------------------------------
(* Sign-in methods: counting.                                              *)

\* The number of ways in is a number.
LEMMA MethodsAreCounted ==
  ASSUME NEW a \in Accounts
  PROVE /\ Methods(a) \in Nat /\ IsFiniteSet(IdentitiesOf(a)) /\ IsFiniteSet(PasskeysOf(a))
        /\ Cardinality(IdentitiesOf(a)) \in Nat /\ Cardinality(PasskeysOf(a)) \in Nat
<1>1. IsFiniteSet(IdentitiesOf(a)) /\ IsFiniteSet(PasskeysOf(a)) BY FS_Subset, MethodsAssumption DEF IdentitiesOf, PasskeysOf
<1>2. Cardinality(IdentitiesOf(a)) \in Nat /\ Cardinality(PasskeysOf(a)) \in Nat BY <1>1, FS_CardinalityType
<1> QED BY <1>1, <1>2 DEF Methods

\* The same after a step.
LEMMA MethodsAreCountedNext ==
  ASSUME NEW a \in Accounts
  PROVE /\ Methods(a)' \in Nat /\ IsFiniteSet(IdentitiesOf(a)') /\ IsFiniteSet(PasskeysOf(a)')
        /\ Cardinality(IdentitiesOf(a)') \in Nat /\ Cardinality(PasskeysOf(a)') \in Nat
<1>1. IsFiniteSet(IdentitiesOf(a)') /\ IsFiniteSet(PasskeysOf(a)') BY FS_Subset, MethodsAssumption DEF IdentitiesOf, PasskeysOf
<1>2. Cardinality(IdentitiesOf(a)') \in Nat /\ Cardinality(PasskeysOf(a)') \in Nat BY <1>1, FS_CardinalityType
<1> QED BY <1>1, <1>2 DEF Methods

\* An account loses no way in by the step.
Undiminished(a) ==
    /\ IdentitiesOf(a) \subseteq IdentitiesOf(a)' /\ PasskeysOf(a) \subseteq PasskeysOf(a)'
    /\ accounts[a].email # Nobody => accounts'[a].email # Nobody

\* Then it has no fewer.
LEMMA NotFewer ==
  ASSUME NEW a \in Accounts, Undiminished(a)
  PROVE Methods(a) <= Methods(a)'
<1>1. Cardinality(IdentitiesOf(a)) <= Cardinality(IdentitiesOf(a)') /\ Cardinality(PasskeysOf(a)) <= Cardinality(PasskeysOf(a)')
  BY MethodsAreCountedNext, FS_Subset DEF Undiminished
<1> DEFINE i == Cardinality(IdentitiesOf(a))
           j == Cardinality(IdentitiesOf(a)')
           m == Cardinality(PasskeysOf(a))
           n == Cardinality(PasskeysOf(a)')
<1>2. i \in Nat /\ j \in Nat /\ m \in Nat /\ n \in Nat /\ i <= j /\ m <= n BY <1>1, MethodsAreCounted, MethodsAreCountedNext
<1>3. Methods(a) = i + m + (IF accounts[a].email = Nobody THEN 0 ELSE 1)
      /\ Methods(a)' = j + n + (IF accounts'[a].email = Nobody THEN 0 ELSE 1) BY DEF Methods
<1> HIDE DEF i, j, m, n
<1> QED BY <1>2, <1>3 DEF Undiminished

\* An account with an identity, a passkey or an address has a way in.
LEMMA SomeWayIn ==
  ASSUME NEW a \in Accounts,
         (\E s \in Subjects : identities'[s] = a) \/ (\E k \in Passkeys : passkeys'[k] = a) \/ accounts'[a].email # Nobody
  PROVE Methods(a)' > 0
<1>1. IdentitiesOf(a)' # {} => Cardinality(IdentitiesOf(a)') # 0 BY MethodsAreCountedNext, FS_EmptySet
<1>2. PasskeysOf(a)' # {} => Cardinality(PasskeysOf(a)') # 0 BY MethodsAreCountedNext, FS_EmptySet
<1> DEFINE j == Cardinality(IdentitiesOf(a)')
           n == Cardinality(PasskeysOf(a)')
<1>3. j \in Nat /\ n \in Nat /\ (j # 0 \/ n # 0 \/ accounts'[a].email # Nobody)
  BY <1>1, <1>2, MethodsAreCountedNext DEF IdentitiesOf, PasskeysOf
<1>4. Methods(a)' = j + n + (IF accounts'[a].email = Nobody THEN 0 ELSE 1) BY DEF Methods
<1> HIDE DEF j, n
<1> QED BY <1>3, <1>4

\* Locks of different rows are different.
LEMMA LocksDiffer ==
  /\ \A a, b : OfAccount(a) # OfMethods(b) /\ OfAccount(a) # OfPasskey(b) /\ OfMethods(a) # OfPasskey(b)
  /\ \A a, b : (OfAccount(a) = OfAccount(b) => a = b) /\ (OfMethods(a) = OfMethods(b) => a = b)
  /\ \A a : OfAccount(a)[1] = "account" /\ OfAccount(a)[2] = a /\ OfMethods(a)[1] = "methods" /\ OfPasskey(a)[1] = "passkey"
  BY DEF OfAccount, OfMethods, OfPasskey

\* Sequences of one or two locks.
LEMMA ShortWants ==
  ASSUME NEW x, NEW y
  PROVE /\ Head(<<x, y>>) = x /\ Tail(<<x, y>>) = <<y>> /\ <<x, y>> # <<>>
        /\ Head(<<x>>) = x /\ Tail(<<x>>) = <<>> /\ <<x>> # <<>> OBVIOUS


-----------------------------------------------------------------------------
(* Sign-in methods: what becomes of the requests.                          *)

\* A request that is over, or holds no more than it did.
LEMMA RequestMoves ==
  ASSUME MethodsInv, NEW r \in Requests, NEW new \in MethodRequest, requests' = [requests EXCEPT ![r] = new],
         LocksByKind(new), new.held \subseteq requests[r].held
  PROVE /\ requests' \in [Requests -> MethodRequest] /\ \A q \in Requests : requests'[q] = IF q = r THEN new ELSE requests[q]
        /\ LocksAreInOrder' /\ LocksExclude'
<1>1. requests' \in [Requests -> MethodRequest] /\ \A q \in Requests : requests'[q] = IF q = r THEN new ELSE requests[q]
  BY DEF MethodsInv, MethodsTypes
<1>2. \A q \in Requests : LocksByKind(requests'[q]) BY <1>1 DEF MethodsInv, LocksAreInOrder
<1>3. LocksAreInOrder' BY <1>2 DEF LocksAreInOrder
<1>4. LocksExclude' BY <1>1 DEF MethodsInv, LocksExclude
<1> QED BY <1>1, <1>3, <1>4

\* No request at all.
LEMMA OverIsWhole == NoRequest \in MethodRequest /\ LocksByKind(NoRequest) /\ NoRequest.held = {} /\ NoRequest.kind = "none"
<1>1. NoRequest \in MethodRequest BY DEF NoRequest, MethodRequest, Things
<1> QED BY <1>1 DEF NoRequest, LocksByKind

\* What the step may not take from the requests that are under way after it.
OthersKept ==
    /\ \A a \in Accounts :
          (\E r \in Requests : requests'[r].kind = "removing" /\ requests'[r].by = a) => Undiminished(a)
    /\ \A r \in Requests : requests'[r].kind = "merging" =>
          /\ identities'[requests[r].of] = identities[requests[r].of]
          /\ accounts'[requests[r].seen].sealed = accounts[requests[r].seen].sealed
          /\ accounts'[requests[r].seen].rotating = accounts[requests[r].seen].rotating

\* The request after the step is the one it was.
SameWork(q, new) == q.kind = new.kind /\ q.by = new.by /\ q.of = new.of /\ q.seen = new.seen

\* What the requests under way have looked at still holds.
LEMMA KeptIsSafe ==
  ASSUME MethodsInv, OthersKept, MethodsTypes', LocksAreInOrder', LocksExclude',
         \A r \in Requests : requests'[r].kind \in {"removing", "merging"} => SameWork(requests[r], requests'[r])
  PROVE MethodsInv'
<1>1. ASSUME NEW r \in Requests, NEW a \in Accounts, requests'[r].kind = "removing", requests'[r].by = a
      PROVE passkeys'[requests'[r].of] = a /\ Methods(a)' > 1
 <2>1. requests[r].kind = "removing" /\ requests[r].by = a /\ requests'[r].of = requests[r].of BY <1>1 DEF SameWork
 <2>2. requests[r].of \in Passkeys BY <2>1 DEF MethodsInv, LocksAreInOrder, LocksByKind
 <2>3. passkeys[requests[r].of] = a /\ Methods(a) > 1 BY <2>1 DEF MethodsInv, RemovalsLeaveOne
 <2>4. Undiminished(a) BY <1>1 DEF OthersKept
 <2>5. \A k \in Passkeys : passkeys[k] = a => passkeys'[k] = a BY <2>4 DEF Undiminished, PasskeysOf
 <2>6. passkeys'[requests'[r].of] = a BY <2>1, <2>2, <2>3, <2>5
 <2>7. Methods(a) <= Methods(a)' /\ Methods(a) \in Nat /\ Methods(a)' \in Nat
   BY <2>4, NotFewer, MethodsAreCounted, MethodsAreCountedNext
 <2>8. Methods(a)' > 1 BY <2>3, <2>7
 <2> QED BY <2>6, <2>8
<1>2. RemovalsLeaveOne' BY <1>1 DEF RemovalsLeaveOne
<1>3. MergesAreChecked' BY DEF MethodsInv, MergesAreChecked, OthersKept, SameWork
<1> QED BY <1>2, <1>3 DEF MethodsInv

\* The rows are rows after the step.
RowsNext ==
    /\ accounts' \in [Accounts -> [state : {"free", "alive", "gone"}, email : Things, owner : Things,
                                   sealed : BOOLEAN, rotating : BOOLEAN, generation : Nat]]
    /\ identities' \in [Subjects -> Accounts \cup {0}]
    /\ passkeys' \in [Passkeys -> Accounts \cup {0}]

\* A request that begins, goes on or ends by a step that takes nothing from the others.
LEMMA RequestIsSafe ==
  ASSUME MethodsInv, OthersKept, RowsNext, NEW r \in Requests, NEW new \in MethodRequest,
         requests' = [requests EXCEPT ![r] = new], LocksByKind(new), new.held \subseteq requests[r].held,
         new.kind \notin {"removing", "merging"}
  PROVE MethodsInv'
<1>1. /\ requests' \in [Requests -> MethodRequest] /\ \A q \in Requests : requests'[q] = IF q = r THEN new ELSE requests[q]
      /\ LocksAreInOrder' /\ LocksExclude' BY RequestMoves
<1>2. MethodsTypes' BY <1>1 DEF MethodsTypes, RowsNext
<1> QED BY <1>1, <1>2, KeptIsSafe DEF SameWork

\* A step that takes no way in from anybody, nor what a merge has looked at.
LEMMA NothingLostIsKept ==
  ASSUME MethodsInv, \A a \in Accounts : Undiminished(a),
         \A r \in Requests : requests'[r].kind = "merging" => SameWork(requests[r], requests'[r]),
         \A s \in Subjects : identities[s] # 0 => identities'[s] = identities[s],
         \A a \in Accounts : Holding(OfAccount(a)) # {} =>
             accounts'[a].sealed = accounts[a].sealed /\ accounts'[a].rotating = accounts[a].rotating
  PROVE OthersKept
<1>1. ASSUME NEW r \in Requests, requests'[r].kind = "merging"
      PROVE /\ identities'[requests[r].of] = identities[requests[r].of]
            /\ accounts'[requests[r].seen].sealed = accounts[requests[r].seen].sealed
            /\ accounts'[requests[r].seen].rotating = accounts[requests[r].seen].rotating
  BY <1>1, MethodsAssumption DEF SameWork, MethodsInv, LocksAreInOrder, LocksByKind, Holding, MergesAreChecked
<1> QED BY <1>1 DEF OthersKept

\* The same where the rows stay as they are.
LEMMA RowsUnchangedAreKept ==
  ASSUME MethodsInv, UNCHANGED <<accounts, identities, passkeys>>
  PROVE RowsNext /\ \A a \in Accounts : Undiminished(a)
  BY DEF MethodsInv, MethodsTypes, RowsNext, Undiminished, IdentitiesOf, PasskeysOf

\* A new request: its locks are still to be taken.
LEMMA AskIsSafe ==
  ASSUME MethodsInv, RowsNext, \A a \in Accounts : Undiminished(a),
         \A s \in Subjects : identities[s] # 0 => identities'[s] = identities[s],
         \A a \in Accounts : accounts'[a].sealed = accounts[a].sealed /\ accounts'[a].rotating = accounts[a].rotating,
         NEW r \in Requests, NEW kind \in {"unlink", "remove", "detach", "link", "merge", "claim", "join"},
         NEW a \in Accounts, NEW of \in Things, NEW seen \in Things, NEW wants \in Seq(Lock),
         Ask(r, kind, a, of, seen, wants),
         LocksByKind([kind |-> kind, by |-> a, of |-> of, seen |-> seen, held |-> {}, wants |-> wants])
  PROVE MethodsInv'
<1> DEFINE new == [kind |-> kind, by |-> a, of |-> of, seen |-> seen, held |-> {}, wants |-> wants]
<1>1. new \in MethodRequest /\ new.held = {} /\ new.kind \notin {"removing", "merging"} BY DEF MethodRequest
<1>2. requests' = [requests EXCEPT ![r] = new] /\ LocksByKind(new) BY DEF Ask
<1> HIDE DEF new
<1>3. \A q \in Requests : requests'[q] = IF q = r THEN new ELSE requests[q] BY <1>2 DEF MethodsInv, MethodsTypes
<1>4. OthersKept BY <1>1, <1>3, NothingLostIsKept DEF SameWork
<1> QED BY <1>1, <1>2, <1>4, RequestIsSafe

\* A request that ends by a step that takes nothing from the others.
LEMMA OverIsSafe ==
  ASSUME MethodsInv, RowsNext, NEW r \in Requests, Over(r),
         (\A q \in Requests : requests'[q] = IF q = r THEN NoRequest ELSE requests[q]) => OthersKept
  PROVE MethodsInv'
<1>1. \A q \in Requests : requests'[q] = IF q = r THEN NoRequest ELSE requests[q] BY DEF MethodsInv, MethodsTypes, Over
<1> QED BY <1>1, OverIsWhole, RequestIsSafe DEF Over


\* The locks that two accounts, or an account and its methods, are asked for by.
LEMMA LocksAreLocks ==
  /\ \A a \in Accounts : OfAccount(a) \in Lock /\ OfMethods(a) \in Lock
  /\ \A k \in Passkeys : OfPasskey(k) \in Lock
  /\ \A x, y \in Lock : <<x>> \in Seq(Lock) /\ <<x, y>> \in Seq(Lock)
  /\ <<>> \in Seq(Lock)
<1>1. \A a \in Accounts : OfAccount(a) \in Lock /\ OfMethods(a) \in Lock BY DEF Lock
<1>2. \A k \in Passkeys : OfPasskey(k) \in Lock BY DEF Lock
<1>3. \A x, y \in Lock : <<x>> \in Seq(Lock) /\ <<x, y>> \in Seq(Lock) OBVIOUS
<1> QED BY <1>1, <1>2, <1>3

\* A removal, a release or a claim is asked for: the account first, then its methods.
LEMMA AskTwoIsSafe ==
  ASSUME MethodsInv, RowsNext, \A a \in Accounts : Undiminished(a),
         \A s \in Subjects : identities[s] # 0 => identities'[s] = identities[s],
         \A a \in Accounts : accounts'[a].sealed = accounts[a].sealed /\ accounts'[a].rotating = accounts[a].rotating,
         NEW r \in Requests, NEW kind \in {"unlink", "detach", "claim"},
         NEW a \in Accounts, NEW of \in Things, NEW seen \in Things,
         Ask(r, kind, a, of, seen, <<OfAccount(a), OfMethods(a)>>)
  PROVE MethodsInv'
<1> DEFINE w == <<OfAccount(a), OfMethods(a)>>
           new == [kind |-> kind, by |-> a, of |-> of, seen |-> seen, held |-> {}, wants |-> w]
<1>1. w \in Seq(Lock) BY LocksAreLocks
<1>2. TakesTwo(new, OfAccount(a), OfMethods(a)) BY DEF TakesTwo
<1>3. LocksByKind(new) BY <1>2 DEF LocksByKind
<1> QED BY <1>1, <1>3, AskIsSafe

\* Asking to unlink a provider.
LEMMA AskUnlinkIsSafe ==
  ASSUME MethodsInv, NEW r \in Requests, NEW a \in Accounts, NEW p \in {"google", "siwe"}, AskUnlink(r, a, p)
  PROVE MethodsInv'
<1>1. RowsNext /\ (\A b \in Accounts : Undiminished(b)) /\ UNCHANGED <<accounts, identities>>
  BY RowsUnchangedAreKept DEF AskUnlink
<1>2. Ask(r, "unlink", a, p, 0, <<OfAccount(a), OfMethods(a)>>) /\ p \in Things /\ 0 \in Things BY DEF AskUnlink, Things
<1> QED BY <1>1, <1>2, AskTwoIsSafe

\* Asking to remove a passkey.
LEMMA AskRemoveIsSafe ==
  ASSUME MethodsInv, NEW r \in Requests, NEW a \in Accounts, NEW k \in Passkeys, AskRemove(r, a, k)
  PROVE MethodsInv'
<1>1. RowsNext /\ (\A b \in Accounts : Undiminished(b)) /\ UNCHANGED <<accounts, identities>>
  BY RowsUnchangedAreKept DEF AskRemove
<1>2. Ask(r, "remove", a, k, 0, <<OfMethods(a)>>) /\ k \in Things /\ 0 \in Things /\ <<OfMethods(a)>> \in Seq(Lock)
  BY LocksAreLocks DEF AskRemove, LocksOfRemoval, Things
<1> DEFINE new == [kind |-> "remove", by |-> a, of |-> k, seen |-> 0, held |-> {}, wants |-> <<OfMethods(a)>>]
<1>3. TakesOne(new, OfMethods(a)) BY DEF TakesOne
<1>4. LocksByKind(new) BY <1>3 DEF LocksByKind
<1> QED BY <1>1, <1>2, <1>4, AskIsSafe

\* Asking to release the address.
LEMMA AskDetachIsSafe ==
  ASSUME MethodsInv, NEW r \in Requests, NEW a \in Accounts, AskDetach(r, a)
  PROVE MethodsInv'
<1>1. RowsNext /\ (\A b \in Accounts : Undiminished(b)) /\ UNCHANGED <<accounts, identities>>
  BY RowsUnchangedAreKept DEF AskDetach
<1>2. Ask(r, "detach", a, Nobody, 0, <<OfAccount(a), OfMethods(a)>>) /\ Nobody \in Things /\ 0 \in Things
  BY DEF AskDetach, Things
<1> QED BY <1>1, <1>2, AskTwoIsSafe

\* Asking to link an identity: one account, or both in their order.
LEMMA AskLinkIsSafe ==
  ASSUME MethodsInv, NEW r \in Requests, NEW a \in Accounts, NEW s \in Subjects, AskLink(r, a, s)
  PROVE MethodsInv'
<1>1. RowsNext /\ (\A b \in Accounts : Undiminished(b)) /\ UNCHANGED <<accounts, identities>>
  BY RowsUnchangedAreKept DEF AskLink
<1>2. s \in Things /\ 0 \in Things /\ identities[s] # a /\ identities[s] \in Accounts \cup {0} /\ identities[s] \in Things
  BY DEF AskLink, MethodsInv, MethodsTypes, Things
<1>3. CASE identities[s] = 0
 <2> DEFINE new == [kind |-> "link", by |-> a, of |-> s, seen |-> 0, held |-> {}, wants |-> <<OfAccount(a)>>]
 <2>1. Ask(r, "link", a, s, 0, <<OfAccount(a)>>) BY <1>3 DEF AskLink
 <2>2. TakesOne(new, OfAccount(a)) BY DEF TakesOne
 <2>3. LocksByKind(new) BY <2>2 DEF LocksByKind
 <2>4. <<OfAccount(a)>> \in Seq(Lock) BY LocksAreLocks
 <2> QED BY <1>1, <1>2, <2>1, <2>3, <2>4, AskIsSafe
<1>4. CASE identities[s] # 0
 <2> PICK b \in Accounts : b = identities[s] BY <1>2, <1>4
 <2> DEFINE w == InOrder(a, b)
            new == [kind |-> "merge", by |-> a, of |-> s, seen |-> b, held |-> {}, wants |-> w]
 <2>1. Ask(r, "merge", a, s, b, w) /\ a # b /\ b \in Things BY <1>2, <1>4 DEF AskLink, LocksOfMerge
 <2>2. a < b => TakesTwo(new, OfAccount(a), OfAccount(b)) BY DEF TakesTwo, InOrder
 <2>3. b < a => TakesTwo(new, OfAccount(b), OfAccount(a))
  <3> HAVE b < a
  <3>1. ~(a < b) BY MethodsAssumption
  <3> QED BY <3>1 DEF TakesTwo, InOrder
 <2>4. LocksByKind(new) BY <2>1, <2>2, <2>3 DEF LocksByKind
 <2>5. w \in Seq(Lock) BY LocksAreLocks DEF InOrder
 <2> QED BY <1>1, <1>2, <2>1, <2>4, <2>5, AskIsSafe
<1> QED BY <1>3, <1>4

\* Asking for an address, by a code or a sign-in.
LEMMA AskClaimIsSafe ==
  ASSUME MethodsInv, NEW r \in Requests, NEW a \in Accounts, NEW e \in Address, AskClaim(r, a, e)
  PROVE MethodsInv'
<1>1. RowsNext /\ (\A b \in Accounts : Undiminished(b)) /\ UNCHANGED <<accounts, identities>>
  BY RowsUnchangedAreKept DEF AskClaim
<1>2. Ask(r, "claim", a, e, Nobody, <<OfAccount(a), OfMethods(a)>>) /\ Nobody \in Things /\ e \in Things
  BY DEF AskClaim, ClaimLocks, Things
<1> QED BY <1>1, <1>2, AskTwoIsSafe

\* A known Google subject signs in.
LEMMA SignInGoogleIsSafe ==
  ASSUME MethodsInv, NEW r \in Requests, NEW s \in Subjects, SignInGoogle(r, s)
  PROVE MethodsInv'
<1>1. RowsNext /\ (\A b \in Accounts : Undiminished(b)) /\ UNCHANGED <<accounts, identities>>
  BY RowsUnchangedAreKept DEF SignInGoogle
<1> PICK a \in Accounts : a = identities[s] BY DEF SignInGoogle, Alive
<1>2. Reported[s] \in Things /\ s \in Things BY MethodsAssumption DEF Things
<1>3. Ask(r, "claim", a, Reported[s], s, <<OfAccount(a), OfMethods(a)>>) BY DEF SignInGoogle, AskClaimFor, ClaimLocks
<1> QED BY <1>1, <1>2, <1>3, AskTwoIsSafe

\* An unknown subject joins the holder of its address.
LEMMA JoinGoogleIsSafe ==
  ASSUME MethodsInv, NEW r \in Requests, NEW s \in Subjects, JoinGoogle(r, s)
  PROVE MethodsInv'
<1>1. RowsNext /\ (\A b \in Accounts : Undiminished(b)) /\ UNCHANGED <<accounts, identities>>
  BY RowsUnchangedAreKept DEF JoinGoogle
<1> PICK a \in Accounts : Ask(r, "join", a, s, a, <<>>) BY DEF JoinGoogle, HolderOf
<1> DEFINE new == [kind |-> "join", by |-> a, of |-> s, seen |-> a, held |-> {}, wants |-> <<>>]
<1>2. LocksByKind(new) /\ s \in Things /\ a \in Things /\ <<>> \in Seq(Lock) BY DEF LocksByKind, Things
<1> QED BY <1>1, <1>2, AskIsSafe

\* A new account opens: everything else about it stays, and no other account changes.
LEMMA OpeningKeeps ==
  ASSUME MethodsInv, NEW a \in Accounts, Opened(a),
         UNCHANGED identities \/ \E s \in Subjects : identities[s] = 0 /\ identities' = [identities EXCEPT ![s] = a],
         UNCHANGED passkeys \/ \E k \in Passkeys : passkeys[k] = 0 /\ passkeys' = [passkeys EXCEPT ![k] = a]
  PROVE /\ RowsNext /\ \A b \in Accounts : Undiminished(b)
        /\ \A s \in Subjects : identities[s] # 0 => identities'[s] = identities[s]
        /\ \A b \in Accounts : accounts'[b].sealed = accounts[b].sealed /\ accounts'[b].rotating = accounts[b].rotating
<1>0. 0 \notin Accounts BY MethodsAssumption
<1>1. /\ accounts' \in [Accounts -> [state : {"free", "alive", "gone"}, email : Things, owner : Things,
                                   sealed : BOOLEAN, rotating : BOOLEAN, generation : Nat]]
      /\ \A b \in Accounts : accounts'[b].sealed = accounts[b].sealed /\ accounts'[b].rotating = accounts[b].rotating
                              /\ accounts'[b].email = accounts[b].email BY DEF Opened, MethodsInv, MethodsTypes
<1>2. identities' \in [Subjects -> Accounts \cup {0}] /\ \A s \in Subjects : identities[s] # 0 => identities'[s] = identities[s]
  BY DEF MethodsInv, MethodsTypes
<1>3. passkeys' \in [Passkeys -> Accounts \cup {0}] /\ \A k \in Passkeys : passkeys[k] # 0 => passkeys'[k] = passkeys[k]
  BY DEF MethodsInv, MethodsTypes
<1>4. \A b \in Accounts : Undiminished(b) BY <1>0, <1>1, <1>2, <1>3 DEF Undiminished, IdentitiesOf, PasskeysOf
<1> QED BY <1>1, <1>2, <1>3, <1>4 DEF RowsNext

\* An unknown Google subject opens an account.
LEMMA SignUpGoogleIsSafe ==
  ASSUME MethodsInv, NEW r \in Requests, NEW s \in Subjects, SignUpGoogle(r, s)
  PROVE MethodsInv'
<1> PICK a \in Accounts : /\ identities[s] = 0 /\ Opened(a) /\ identities' = [identities EXCEPT ![s] = a]
                          /\ AskClaimFor(r, a, s) /\ UNCHANGED passkeys BY DEF SignUpGoogle
<1>1. Reported[s] \in Things /\ s \in Things BY MethodsAssumption DEF Things
<1>2. Ask(r, "claim", a, Reported[s], s, <<OfAccount(a), OfMethods(a)>>) BY DEF AskClaimFor, ClaimLocks
<1> QED BY <1>1, <1>2, OpeningKeeps, AskTwoIsSafe

\* Whatever is asked for.
LEMMA AskStepIsSafe ==
  ASSUME MethodsInv, NEW r \in Requests, AskStep(r)
  PROVE MethodsInv' BY AskUnlinkIsSafe, AskRemoveIsSafe, AskLinkIsSafe, AskClaimIsSafe, AskDetachIsSafe, SignInGoogleIsSafe,
     SignUpGoogleIsSafe, JoinGoogleIsSafe DEF AskStep


-----------------------------------------------------------------------------
(* Sign-in methods: what the requests do.                                  *)

\* Account ids are numbers.
LEMMA AccountsAreOrdered == \A a, b \in Accounts : a # b => a < b \/ b < a BY MethodsAssumption

\* The locks of a request that is at work.
LEMMA WorkingHolds ==
  ASSUME MethodsInv, NEW r \in Requests, requests[r].wants = <<>>
  PROVE /\ requests[r].kind \in {"unlink", "detach", "claim"} =>
              requests[r].by \in Accounts /\ {OfAccount(requests[r].by), OfMethods(requests[r].by)} \subseteq requests[r].held
        /\ requests[r].kind = "link" => requests[r].by \in Accounts /\ requests[r].of \in Subjects /\ OfAccount(requests[r].by) \in requests[r].held
        /\ requests[r].kind \in {"remove", "removing"} =>
              requests[r].by \in Accounts /\ requests[r].of \in Passkeys /\ OfMethods(requests[r].by) \in requests[r].held
        /\ requests[r].kind \in {"merge", "merging"} =>
              /\ requests[r].by \in Accounts /\ requests[r].seen \in Accounts /\ requests[r].by # requests[r].seen
              /\ requests[r].of \in Subjects
              /\ {OfAccount(requests[r].by), OfAccount(requests[r].seen)} \subseteq requests[r].held
        /\ requests[r].kind = "merging" => OfMethods(requests[r].seen) \in requests[r].held
<1> DEFINE q == requests[r]
<1>0. LocksByKind(q) /\ q.wants = <<>> BY DEF MethodsInv, LocksAreInOrder
<1> HIDE DEF q
<1>1. \A x, y : TakesTwo(q, x, y) => {x, y} \subseteq q.held BY <1>0 DEF TakesTwo
<1>2. \A x : TakesOne(q, x) => x \in q.held BY <1>0 DEF TakesOne
<1>3. Wanted(q) = {} BY <1>0 DEF Wanted
<1>4. q.kind \in {"unlink", "detach", "claim"} => q.by \in Accounts /\ {OfAccount(q.by), OfMethods(q.by)} \subseteq q.held
  BY <1>0, <1>1 DEF LocksByKind
<1>5. q.kind = "link" => q.by \in Accounts /\ q.of \in Subjects /\ OfAccount(q.by) \in q.held BY <1>0, <1>2 DEF LocksByKind
<1>6. q.kind \in {"remove", "removing"} => q.by \in Accounts /\ q.of \in Passkeys /\ OfMethods(q.by) \in q.held
  BY <1>0, <1>2 DEF LocksByKind
<1>7. q.kind = "merge" => {OfAccount(q.by), OfAccount(q.seen)} \subseteq q.held
 <2> HAVE q.kind = "merge"
 <2>0. q.by \in Accounts /\ q.seen \in Accounts /\ q.by # q.seen BY <1>0 DEF LocksByKind
 <2>1. q.by < q.seen \/ q.seen < q.by BY <2>0, AccountsAreOrdered
 <2> QED BY <1>0, <1>1, <2>1 DEF LocksByKind
<1>8. q.kind \in {"merge", "merging"} => q.by \in Accounts /\ q.seen \in Accounts /\ q.by # q.seen /\ q.of \in Subjects
  BY <1>0 DEF LocksByKind
<1>9. q.kind = "merging" => {OfAccount(q.by), OfAccount(q.seen)} \subseteq q.held /\ OfMethods(q.seen) \in q.held
  BY <1>0, <1>3 DEF LocksByKind
<1> QED BY <1>4, <1>5, <1>6, <1>7, <1>8, <1>9 DEF q

\* While one request holds a lock, no other does.
LEMMA OneHolder ==
  ASSUME MethodsInv, NEW r \in Requests, NEW q \in Requests, NEW x, x \in requests[r].held, x \in requests[q].held
  PROVE q = r BY DEF MethodsInv, LocksExclude

\* A removal or a merge under way holds the methods, or the account, it looked at.
LEMMA UnderWayHolds ==
  ASSUME MethodsInv, NEW q \in Requests
  PROVE /\ requests[q].kind = "removing" => requests[q].by \in Accounts /\ OfMethods(requests[q].by) \in requests[q].held
        /\ requests[q].kind = "merging" =>
              /\ requests[q].seen \in Accounts /\ OfAccount(requests[q].seen) \in requests[q].held
              /\ requests[q].of \in Subjects /\ identities[requests[q].of] = requests[q].seen
  BY DEF MethodsInv, LocksAreInOrder, LocksByKind, MergesAreChecked

\* An unlinking is made, or refused.
LEMMA UnlinkedIsSafe ==
  ASSUME MethodsInv, NEW r \in Requests, Unlinked(r)
  PROVE MethodsInv'
<1> PICK a : a = requests[r].by OBVIOUS
<1>1. a \in Accounts /\ OfAccount(a) \in requests[r].held /\ OfMethods(a) \in requests[r].held /\ requests[r].kind = "unlink"
  BY WorkingHolds DEF Unlinked, Working
<1>2. Over(r) /\ UNCHANGED passkeys BY DEF Unlinked
<1>3. /\ \A s \in Subjects : identities'[s] = identities[s] \/ (identities[s] = a /\ identities'[s] = 0)
      /\ identities' \in [Subjects -> Accounts \cup {0}]
 <2>1. CASE identities' = identities BY <2>1 DEF MethodsInv, MethodsTypes
 <2>2. CASE identities' # identities
  <3> DEFINE owned == {s \in IdentitiesOf(a) : Provider[s] = requests[r].of}
  <3>1. identities' = [s \in Subjects |-> IF s \in owned THEN 0 ELSE identities[s]] BY <2>2 DEF Unlinked
  <3> QED BY <3>1 DEF IdentitiesOf, MethodsInv, MethodsTypes
 <2> QED BY <2>1, <2>2
<1>4. accounts' = accounts \/ accounts' = [accounts EXCEPT ![a].owner = Nobody] BY DEF Unlinked
<1>5. Nobody \in Things BY DEF Things
<1>6. /\ accounts' \in [Accounts -> [state : {"free", "alive", "gone"}, email : Things, owner : Things,
                                   sealed : BOOLEAN, rotating : BOOLEAN, generation : Nat]]
      /\ \A b \in Accounts : accounts'[b].sealed = accounts[b].sealed /\ accounts'[b].rotating = accounts[b].rotating
                              /\ accounts'[b].email = accounts[b].email BY <1>4, <1>5 DEF MethodsInv, MethodsTypes
<1>7. RowsNext BY <1>2, <1>3, <1>6 DEF RowsNext, MethodsInv, MethodsTypes
<1>8. \A b \in Accounts : b # a => Undiminished(b) BY <1>2, <1>3, <1>6 DEF Undiminished, IdentitiesOf, PasskeysOf
<1>9. ASSUME \A q \in Requests : requests'[q] = IF q = r THEN NoRequest ELSE requests[q]
      PROVE OthersKept
 <2>1. ASSUME NEW q \in Requests, requests'[q].kind = "removing" \/ requests'[q].kind = "merging"
       PROVE q # r /\ requests'[q] = requests[q] BY <1>9, <2>1 DEF NoRequest
 <2>2. ASSUME NEW q \in Requests, requests'[q].kind = "removing" PROVE requests'[q].by # a
   BY <1>1, <2>1, <2>2, UnderWayHolds, OneHolder
 <2>3. ASSUME NEW q \in Requests, requests'[q].kind = "merging" PROVE requests[q].seen # a
   BY <1>1, <2>1, <2>3, UnderWayHolds, OneHolder
 <2>4. ASSUME NEW q \in Requests, requests'[q].kind = "merging"
       PROVE requests[q].seen \in Accounts /\ identities'[requests[q].of] = identities[requests[q].of]
   BY <1>3, <2>1, <2>3, <2>4, UnderWayHolds
 <2> QED BY <1>6, <1>8, <2>2, <2>4 DEF OthersKept
<1> QED BY <1>2, <1>7, <1>9, OverIsSafe

\* A passkey is removed.
LEMMA RemovedIsSafe ==
  ASSUME MethodsInv, NEW r \in Requests, Removed(r)
  PROVE MethodsInv'
<1> PICK a : a = requests[r].by OBVIOUS
<1>1. a \in Accounts /\ OfMethods(a) \in requests[r].held /\ requests[r].kind = "removing" /\ requests[r].of \in Passkeys
  BY WorkingHolds DEF Removed, Working
<1>2. Over(r) /\ UNCHANGED <<accounts, identities>> BY DEF Removed
<1>3. /\ \A k \in Passkeys : passkeys'[k] = passkeys[k] \/ passkeys[k] = a
      /\ passkeys' \in [Passkeys -> Accounts \cup {0}] BY <1>1 DEF Removed, MethodsInv, MethodsTypes
<1>4. RowsNext BY <1>2, <1>3 DEF RowsNext, MethodsInv, MethodsTypes
<1>5. \A b \in Accounts : b # a => Undiminished(b) BY <1>2, <1>3 DEF Undiminished, IdentitiesOf, PasskeysOf
<1>6. ASSUME \A q \in Requests : requests'[q] = IF q = r THEN NoRequest ELSE requests[q]
      PROVE OthersKept
 <2>1. ASSUME NEW q \in Requests, requests'[q].kind = "removing" PROVE requests'[q].by # a
   BY <1>1, <1>6, <2>1, UnderWayHolds, OneHolder DEF NoRequest
 <2> QED BY <1>2, <1>5, <2>1 DEF OthersKept
<1> QED BY <1>2, <1>4, <1>6, OverIsSafe

\* An address is released.
LEMMA DetachedIsSafe ==
  ASSUME MethodsInv, NEW r \in Requests, Detached(r)
  PROVE MethodsInv'
<1> PICK a : a = requests[r].by OBVIOUS
<1>1. a \in Accounts /\ OfMethods(a) \in requests[r].held /\ requests[r].kind = "detach" BY WorkingHolds DEF Detached, Working
<1>2. Over(r) /\ UNCHANGED <<identities, passkeys>> /\ (accounts' = accounts \/ accounts' = [accounts EXCEPT ![a].email = Nobody])
  BY DEF Detached
<1>3. Nobody \in Things BY DEF Things
<1>4. /\ accounts' \in [Accounts -> [state : {"free", "alive", "gone"}, email : Things, owner : Things,
                                   sealed : BOOLEAN, rotating : BOOLEAN, generation : Nat]]
      /\ \A b \in Accounts : accounts'[b].sealed = accounts[b].sealed /\ accounts'[b].rotating = accounts[b].rotating
                              /\ (b # a => accounts'[b].email = accounts[b].email) BY <1>2, <1>3 DEF MethodsInv, MethodsTypes
<1>5. RowsNext BY <1>2, <1>4 DEF RowsNext, MethodsInv, MethodsTypes
<1>6. \A b \in Accounts : b # a => Undiminished(b) BY <1>2, <1>4 DEF Undiminished, IdentitiesOf, PasskeysOf
<1>7. ASSUME \A q \in Requests : requests'[q] = IF q = r THEN NoRequest ELSE requests[q]
      PROVE OthersKept
 <2>1. ASSUME NEW q \in Requests, requests'[q].kind = "removing" PROVE requests'[q].by # a
   BY <1>1, <1>7, <2>1, UnderWayHolds, OneHolder DEF NoRequest
 <2>2. ASSUME NEW q \in Requests, requests'[q].kind = "merging" PROVE requests[q].seen \in Accounts
   BY <1>7, <2>2, UnderWayHolds DEF NoRequest
 <2> QED BY <1>2, <1>4, <1>6, <2>1, <2>2 DEF OthersKept
<1> QED BY <1>2, <1>5, <1>7, OverIsSafe

\* A request ends by a step that takes nothing from anybody.
LEMMA GentleEndIsSafe ==
  ASSUME MethodsInv, RowsNext, NEW r \in Requests, Over(r), \A a \in Accounts : Undiminished(a),
         \A s \in Subjects : identities[s] # 0 => identities'[s] = identities[s],
         \A a \in Accounts : accounts'[a].sealed = accounts[a].sealed /\ accounts'[a].rotating = accounts[a].rotating
  PROVE MethodsInv'
<1>1. ASSUME \A q \in Requests : requests'[q] = IF q = r THEN NoRequest ELSE requests[q]
      PROVE \A q \in Requests : requests'[q].kind = "merging" => SameWork(requests[q], requests'[q])
  BY <1>1 DEF NoRequest, SameWork
<1> QED BY <1>1, NothingLostIsKept, OverIsSafe

\* An identity nobody has is given to an account.
LEMMA GivingKeeps ==
  ASSUME MethodsInv, NEW a \in Accounts, NEW s \in Subjects, UNCHANGED <<accounts, passkeys>>,
         identities' = identities \/ (identities[s] = 0 /\ identities' = [identities EXCEPT ![s] = a])
  PROVE /\ RowsNext /\ \A b \in Accounts : Undiminished(b)
        /\ \A t \in Subjects : identities[t] # 0 => identities'[t] = identities[t]
<1>0. 0 \notin Accounts BY MethodsAssumption
<1>1. identities' \in [Subjects -> Accounts \cup {0}] /\ \A t \in Subjects : identities[t] # 0 => identities'[t] = identities[t]
  BY DEF MethodsInv, MethodsTypes
<1>2. \A b \in Accounts : Undiminished(b) BY <1>0, <1>1 DEF Undiminished, IdentitiesOf, PasskeysOf
<1> QED BY <1>1, <1>2 DEF RowsNext, MethodsInv, MethodsTypes

\* An identity is linked.
LEMMA LinkedIsSafe ==
  ASSUME MethodsInv, NEW r \in Requests, Linked(r)
  PROVE MethodsInv'
<1> PICK a, s : a = requests[r].by /\ s = requests[r].of OBVIOUS
<1>1. a \in Accounts /\ s \in Subjects BY WorkingHolds DEF Linked, Working
<1>2. /\ Over(r) /\ UNCHANGED <<accounts, passkeys>>
      /\ identities' = identities \/ (identities[s] = 0 /\ identities' = [identities EXCEPT ![s] = a]) BY DEF Linked
<1> QED BY <1>1, <1>2, GivingKeeps, GentleEndIsSafe

\* An unknown subject has joined an account.
LEMMA JoinedIsSafe ==
  ASSUME MethodsInv, NEW r \in Requests, Joined(r)
  PROVE MethodsInv'
<1> PICK a, s : a = requests[r].by /\ s = requests[r].of OBVIOUS
<1>1. a \in Accounts /\ s \in Subjects BY DEF Joined, Working, MethodsInv, LocksAreInOrder, LocksByKind
<1>2. /\ Over(r) /\ UNCHANGED <<accounts, passkeys>>
      /\ identities' = identities \/ (identities[s] = 0 /\ identities' = [identities EXCEPT ![s] = a]) BY DEF Joined
<1> QED BY <1>1, <1>2, GivingKeeps, GentleEndIsSafe

\* An address is claimed.
LEMMA ClaimedIsSafe ==
  ASSUME MethodsInv, NEW r \in Requests, Claimed(r)
  PROVE MethodsInv'
<1> PICK a, e, o : a = requests[r].by /\ e = requests[r].of /\ o = requests[r].seen OBVIOUS
<1>1. a \in Accounts /\ e \in Things /\ o \in Things
  BY WorkingHolds DEF Claimed, Working, MethodsInv, MethodsTypes, MethodRequest
<1>2. /\ Over(r) /\ UNCHANGED <<identities, passkeys>>
      /\ accounts' = accounts \/ (accounts[a].email = Nobody /\ accounts' = [accounts EXCEPT ![a].email = e, ![a].owner = o])
  BY DEF Claimed
<1>3. /\ accounts' \in [Accounts -> [state : {"free", "alive", "gone"}, email : Things, owner : Things,
                                   sealed : BOOLEAN, rotating : BOOLEAN, generation : Nat]]
      /\ \A b \in Accounts : accounts'[b].sealed = accounts[b].sealed /\ accounts'[b].rotating = accounts[b].rotating
                              /\ (accounts[b].email # Nobody => accounts'[b].email = accounts[b].email)
  BY <1>1, <1>2 DEF MethodsInv, MethodsTypes
<1>4. RowsNext /\ \A b \in Accounts : Undiminished(b)
  BY <1>2, <1>3 DEF RowsNext, MethodsInv, MethodsTypes, Undiminished, IdentitiesOf, PasskeysOf
<1> QED BY <1>2, <1>3, <1>4, GentleEndIsSafe

\* A transaction fails, and nothing of it is left.
LEMMA FailsIsSafe ==
  ASSUME MethodsInv, NEW r \in Requests, Fails(r)
  PROVE MethodsInv' BY RowsUnchangedAreKept, GentleEndIsSafe DEF Fails


\* One account's rows become another's.
LEMMA MergedIsSafe ==
  ASSUME MethodsInv, NEW r \in Requests, Merged(r)
  PROVE MethodsInv'
<1> PICK a, b : a = requests[r].by /\ b = requests[r].seen OBVIOUS
<1>1. /\ a \in Accounts /\ b \in Accounts /\ a # b /\ requests[r].kind = "merging"
      /\ OfAccount(a) \in requests[r].held /\ OfAccount(b) \in requests[r].held /\ OfMethods(b) \in requests[r].held
  BY WorkingHolds DEF Merged, Working
<1> DEFINE gone == [FreeAccount EXCEPT !.state = "gone", !.generation = accounts[b].generation]
           heir == Heir(a, b)
<1>2. /\ Over(r)
      /\ identities' = [s \in Subjects |-> IF identities[s] = b THEN a ELSE identities[s]]
      /\ passkeys' = [k \in Passkeys |-> IF k \in Moved(r) THEN a ELSE passkeys[k]]
      /\ accounts' = [accounts EXCEPT ![a] = heir, ![b] = gone] BY DEF Merged
<1>3. Nobody \in Things /\ accounts[b].generation \in Nat BY <1>1 DEF Things, MethodsInv, MethodsTypes
<1>4. gone \in [state : {"free", "alive", "gone"}, email : Things, owner : Things,
                sealed : BOOLEAN, rotating : BOOLEAN, generation : Nat] BY <1>3 DEF FreeAccount
<1>5. /\ heir \in [state : {"free", "alive", "gone"}, email : Things, owner : Things,
                   sealed : BOOLEAN, rotating : BOOLEAN, generation : Nat]
      /\ heir.sealed = accounts[a].sealed /\ heir.rotating = accounts[a].rotating
      /\ accounts[a].email # Nobody => heir.email = accounts[a].email
 <2>1. /\ accounts[a] \in [state : {"free", "alive", "gone"}, email : Things, owner : Things,
                  sealed : BOOLEAN, rotating : BOOLEAN, generation : Nat]
       /\ accounts[b].email \in Things /\ accounts[b].owner \in Things BY <1>1 DEF MethodsInv, MethodsTypes
 <2> QED BY <2>1 DEF Heir, Inherited
<1> HIDE DEF gone, heir
<1>6. /\ accounts' \in [Accounts -> [state : {"free", "alive", "gone"}, email : Things, owner : Things,
                                   sealed : BOOLEAN, rotating : BOOLEAN, generation : Nat]]
      /\ \A c \in Accounts : c # b => /\ accounts'[c].sealed = accounts[c].sealed /\ accounts'[c].rotating = accounts[c].rotating
                                      /\ (accounts[c].email # Nobody => accounts'[c].email = accounts[c].email)
  BY <1>1, <1>2, <1>4, <1>5 DEF MethodsInv, MethodsTypes
<1>7. /\ identities' \in [Subjects -> Accounts \cup {0}]
      /\ \A s \in Subjects : identities[s] # b => identities'[s] = identities[s] BY <1>1, <1>2 DEF MethodsInv, MethodsTypes
<1>8. /\ passkeys' \in [Passkeys -> Accounts \cup {0}]
      /\ \A k \in Passkeys : passkeys[k] # b => passkeys'[k] = passkeys[k]
  BY <1>1, <1>2 DEF MethodsInv, MethodsTypes, Moved, PasskeysOf
<1>9. RowsNext BY <1>6, <1>7, <1>8 DEF RowsNext
<1>10. \A c \in Accounts : c # b => Undiminished(c) BY <1>6, <1>7, <1>8 DEF Undiminished, IdentitiesOf, PasskeysOf
<1>11. ASSUME \A q \in Requests : requests'[q] = IF q = r THEN NoRequest ELSE requests[q]
       PROVE OthersKept
 <2>1. ASSUME NEW q \in Requests, requests'[q].kind = "removing" PROVE requests'[q].by # b
   BY <1>1, <1>11, <2>1, UnderWayHolds, OneHolder DEF NoRequest
 <2>2. ASSUME NEW q \in Requests, requests'[q].kind = "merging"
       PROVE /\ requests[q].seen \in Accounts /\ requests[q].seen # b
             /\ identities'[requests[q].of] = identities[requests[q].of]
   BY <1>11, <2>2, UnderWayHolds, <1>1, OneHolder, <1>7 DEF NoRequest
 <2> QED BY <1>6, <1>10, <2>1, <2>2 DEF OthersKept
<1> QED BY <1>2, <1>9, <1>11, OverIsSafe

\* A removal has counted what remains.
LEMMA RemovalCheckedIsSafe ==
  ASSUME MethodsInv, NEW r \in Requests, RemovalChecked(r)
  PROVE MethodsInv'
<1> PICK a, k : a = requests[r].by /\ k = requests[r].of OBVIOUS
<1>1. a \in Accounts /\ k \in Passkeys /\ OfMethods(a) \in requests[r].held BY WorkingHolds DEF RemovalChecked, Working
<1>2. RowsNext /\ (\A c \in Accounts : Undiminished(c)) /\ UNCHANGED <<accounts, identities, passkeys>>
  BY RowsUnchangedAreKept DEF RemovalChecked
<1>3. CASE Over(r) BY <1>2, <1>3, GentleEndIsSafe
<1>4. CASE ~Over(r)
 <2> DEFINE new == [requests[r] EXCEPT !.kind = "removing", !.wants = <<OfPasskey(k)>>]
 <2>1. passkeys[k] = a /\ Methods(a) > 1 /\ requests' = [requests EXCEPT ![r] = new] BY <1>4 DEF RemovalChecked, Over, Keep
 <2>2. requests[r] \in MethodRequest BY DEF MethodsInv, MethodsTypes
 <2>3. OfPasskey(k) \in Lock BY <1>1, LocksAreLocks
 <2>4. <<OfPasskey(k)>> \in Seq(Lock) BY <2>3
 <2>5. /\ new \in MethodRequest /\ new.held = requests[r].held /\ new.kind = "removing" /\ new.by = a /\ new.of = k
       /\ new.wants = <<OfPasskey(k)>> BY <2>2, <2>4 DEF MethodRequest
 <2> HIDE DEF new
 <2>6. LocksByKind(new) BY <1>1, <2>5 DEF LocksByKind
 <2>7. /\ requests' \in [Requests -> MethodRequest] /\ \A q \in Requests : requests'[q] = IF q = r THEN new ELSE requests[q]
       /\ LocksAreInOrder' /\ LocksExclude' BY <2>1, <2>5, <2>6, RequestMoves
 <2>8. MethodsTypes' BY <1>2, <2>7 DEF MethodsTypes, RowsNext
 <2>9. \A c \in Accounts : Methods(c)' = Methods(c) BY <1>2 DEF Methods, IdentitiesOf, PasskeysOf
 <2>10. RemovalsLeaveOne' BY <1>2, <2>1, <2>5, <2>7, <2>9 DEF MethodsInv, RemovalsLeaveOne
 <2>11. MergesAreChecked' BY <1>2, <2>5, <2>7 DEF MethodsInv, MergesAreChecked
 <2> QED BY <2>7, <2>8, <2>10, <2>11 DEF MethodsInv
<1> QED BY <1>3, <1>4

\* The locks a checked merge goes on to take: no account's, and the row that goes among them.
LEMMA MergeRowsAreLocks ==
  ASSUME MethodsInv, NEW a \in Accounts, NEW b \in Accounts
  PROVE /\ MergeRows(a, b) \in Seq(Lock)
        /\ \E i \in DOMAIN MergeRows(a, b) : MergeRows(a, b)[i] = OfMethods(b)
        /\ \A i \in DOMAIN MergeRows(a, b) : MergeRows(a, b)[i] \notin {OfAccount(c) : c \in Accounts}
<1> DEFINE S == PasskeysOf(b)
           n == Cardinality(S)
           keys == CHOOSE f \in [1 .. n -> S] : {f[i] : i \in DOMAIN f} = S
           rows == [i \in DOMAIN keys |-> OfPasskey(keys[i])]
           last == <<OfMethods(b), OfMethods(a)>>
<1>1. IsFiniteSet(S) /\ n \in Nat /\ S \subseteq Passkeys BY MethodsAreCounted DEF PasskeysOf
<1>2. MergeRows(a, b) = rows \o last BY DEF MergeRows
<1> HIDE DEF S, n
<1>3. \E f \in [1 .. n -> S] : {f[i] : i \in DOMAIN f} = S
 <2>1. ExistsBijection(1 .. n, S) BY <1>1, FS_CardinalityType DEF n
 <2>2. PICK f \in Bijection(1 .. n, S) : TRUE BY <2>1 DEF ExistsBijection
 <2>3. f \in [1 .. n -> S] /\ \A t \in S : \E i \in 1 .. n : f[i] = t BY <2>2 DEF Bijection, Surjection, Injection
 <2> QED BY <2>3
<1>4. keys \in [1 .. n -> S] BY <1>3
<1> HIDE DEF keys
<1>5. rows \in Seq(Lock) /\ Len(rows) = n /\ \A i \in 1 .. n : \E k \in Passkeys : rows[i] = OfPasskey(k)
  BY <1>1, <1>4, LocksAreLocks
<1>6. last \in Seq(Lock) /\ Len(last) = 2 /\ last[1] = OfMethods(b) /\ last[2] = OfMethods(a)
  BY LocksAreLocks
<1> HIDE DEF rows, last
<1> DEFINE all == rows \o last
<1>0. /\ all \in Seq(Lock) /\ Len(all) = Len(rows) + Len(last)
      /\ \A i \in 1 .. Len(rows) + Len(last) : all[i] = IF i <= Len(rows) THEN rows[i] ELSE last[i - Len(rows)]
  BY <1>5, <1>6, ConcatProperties
<1>12. MergeRows(a, b) = all BY <1>2
<1> HIDE DEF all
<1>7. all \in Seq(Lock) /\ Len(all) = n + 2 BY <1>0, <1>5, <1>6
<1>8. \A i \in 1 .. (n + 2) : all[i] = IF i <= n THEN rows[i] ELSE last[i - n] BY <1>0, <1>5, <1>6
<1>9. all[n + 1] = OfMethods(b) /\ n + 1 \in 1 .. (n + 2)
  BY <1>1, <1>6, <1>8
<1>10. \A i \in 1 .. (n + 2) : (\E k \in Passkeys : all[i] = OfPasskey(k)) \/ (\E c \in Accounts : all[i] = OfMethods(c))
 <2> TAKE i \in 1 .. (n + 2)
 <2>1. CASE i <= n BY <1>1, <1>5, <1>8, <2>1
 <2>2. CASE ~(i <= n)
   BY <1>1, <2>2, <1>6, <1>8
 <2> QED BY <2>1, <2>2
<1>11. DOMAIN all = 1 .. (n + 2) BY <1>1, <1>7
<1> QED
  BY <1>10, <1>11, LocksDiffer, <1>9, <1>7, <1>12

\* A merge has looked at both accounts.
LEMMA MergeCheckedIsSafe ==
  ASSUME MethodsInv, NEW r \in Requests, MergeChecked(r)
  PROVE MethodsInv'
<1> PICK a, b, s : a = requests[r].by /\ b = requests[r].seen /\ s = requests[r].of OBVIOUS
<1>1. /\ a \in Accounts /\ b \in Accounts /\ a # b /\ s \in Subjects
      /\ OfAccount(a) \in requests[r].held /\ OfAccount(b) \in requests[r].held BY WorkingHolds DEF MergeChecked, Working
<1>2. /\ UNCHANGED <<accounts, passkeys>>
      /\ identities' = identities \/ (identities[s] = 0 /\ identities' = [identities EXCEPT ![s] = a])
  BY DEF MergeChecked, OwnerNow
<1>3. RowsNext /\ (\A c \in Accounts : Undiminished(c)) /\ \A t \in Subjects : identities[t] # 0 => identities'[t] = identities[t]
  BY <1>1, <1>2, GivingKeeps
<1>4. CASE Over(r) BY <1>2, <1>3, <1>4, GentleEndIsSafe
<1>5. CASE ~Over(r)
 <2> DEFINE w == MergeRows(a, b)
            new == [requests[r] EXCEPT !.kind = "merging", !.wants = w]
 <2>1. /\ identities[s] = b /\ ~accounts[b].sealed /\ ~accounts[b].rotating
       /\ requests' = [requests EXCEPT ![r] = new] BY <1>5 DEF MergeChecked, Over, OwnerNow, Blocked, Retains
 <2>2. requests[r] \in MethodRequest BY DEF MethodsInv, MethodsTypes
 <2>3. /\ w \in Seq(Lock) /\ \E i \in DOMAIN w : w[i] = OfMethods(b)
       /\ \A i \in DOMAIN w : w[i] \notin {OfAccount(c) : c \in Accounts} BY <1>1, MergeRowsAreLocks
 <2> HIDE DEF w
 <2>4. /\ new \in MethodRequest /\ new.held = requests[r].held /\ new.kind = "merging" /\ new.by = a /\ new.of = s
       /\ new.seen = b /\ new.wants = w BY <2>2, <2>3 DEF MethodRequest
 <2> HIDE DEF new
 <2>5. LocksByKind(new) BY <1>1, <2>3, <2>4 DEF LocksByKind, Wanted
 <2>6. /\ requests' \in [Requests -> MethodRequest] /\ \A q \in Requests : requests'[q] = IF q = r THEN new ELSE requests[q]
       /\ LocksAreInOrder' /\ LocksExclude' BY <2>1, <2>4, <2>5, RequestMoves
 <2>7. MethodsTypes' BY <1>3, <2>6 DEF MethodsTypes, RowsNext
 <2>8. identities' = identities BY <1>2, <1>1, <2>1, MethodsAssumption
 <2>9. \A c \in Accounts : Methods(c)' = Methods(c) BY <1>2, <2>8 DEF Methods, IdentitiesOf, PasskeysOf
 <2>10. RemovalsLeaveOne' BY <1>2, <2>4, <2>6, <2>9 DEF MethodsInv, RemovalsLeaveOne
 <2>11. MergesAreChecked' BY <1>2, <2>1, <2>4, <2>6, <2>8 DEF MethodsInv, MergesAreChecked
 <2> QED BY <2>6, <2>7, <2>10, <2>11 DEF MethodsInv
<1> QED BY <1>4, <1>5


\* The first lock wanted is held, and the others are wanted still.
LEMMA TakenIsHeld ==
  ASSUME NEW w \in Seq(Lock), w # <<>>
  PROVE /\ Head(w) \in Lock /\ Tail(w) \in Seq(Lock)
        /\ \A i \in DOMAIN Tail(w) : \E j \in DOMAIN w : Tail(w)[i] = w[j]
        /\ \A j \in DOMAIN w : w[j] = Head(w) \/ \E i \in DOMAIN Tail(w) : Tail(w)[i] = w[j]
<1>1. Len(w) \in Nat \ {0} /\ DOMAIN w = 1 .. Len(w) /\ Head(w) = w[1] /\ \A i \in 1 .. Len(w) : w[i] \in Lock OBVIOUS
<1>2. Tail(w) \in Seq(Lock) /\ Len(Tail(w)) = Len(w) - 1 /\ \A i \in 1 .. Len(w) - 1 : Tail(w)[i] = w[i + 1] OBVIOUS
<1> DEFINE t == Tail(w)
           n == Len(w)
<1>3. DOMAIN t = 1 .. (n - 1) BY <1>1, <1>2
<1>4. n \in Nat \ {0} /\ DOMAIN w = 1 .. n /\ \A i \in 1 .. (n - 1) : t[i] = w[i + 1] BY <1>1, <1>2
<1> HIDE DEF t, n
<1>5. \A i \in DOMAIN t : \E j \in DOMAIN w : t[i] = w[j]
 <2> TAKE i \in DOMAIN t
 <2>1. i + 1 \in DOMAIN w /\ t[i] = w[i + 1] BY <1>3, <1>4
 <2> QED BY <2>1
<1>6. \A j \in DOMAIN w : j = 1 \/ \E i \in DOMAIN t : t[i] = w[j]
 <2> TAKE j \in DOMAIN w
 <2>1. CASE j # 1
  <3>1. j - 1 \in 1 .. (n - 1) /\ (j - 1) + 1 = j BY <1>4, <2>1
  <3>2. t[j - 1] = w[(j - 1) + 1] BY <1>4, <3>1
  <3> QED BY <1>3, <3>1, <3>2
 <2> QED BY <2>1
<1> QED BY <1>1, <1>2, <1>5, <1>6 DEF t

\* A request takes the next of its locks.
LEMMA TakeIsSafe ==
  ASSUME MethodsInv, NEW r \in Requests, Take(r)
  PROVE MethodsInv'
<1> PICK q : q = requests[r] OBVIOUS
<1> DEFINE h == Head(q.wants)
           t == Tail(q.wants)
           new == [q EXCEPT !.held = @ \cup {h}, !.wants = t]
<1>1. q \in MethodRequest /\ LocksByKind(q) /\ q.wants # <<>> /\ q.wants \in Seq(Lock)
  BY DEF Take, MethodsInv, MethodsTypes, LocksAreInOrder, MethodRequest
<1>2. requests' = [requests EXCEPT ![r] = new] /\ Holding(h) \subseteq {r} /\ UNCHANGED <<accounts, identities, passkeys>>
  BY DEF Take, LockIsFree, MethodsInv, MethodsTypes
<1>3. /\ h \in Lock /\ t \in Seq(Lock)
      /\ \A i \in DOMAIN t : \E j \in DOMAIN q.wants : t[i] = q.wants[j]
      /\ \A j \in DOMAIN q.wants : q.wants[j] = h \/ \E i \in DOMAIN t : t[i] = q.wants[j] BY <1>1, TakenIsHeld
<1>4. \A x : q.wants = <<x>> => h = x /\ t = <<>> BY ShortWants
<1>5. \A x, y : q.wants = <<x, y>> => h = x /\ t = <<y>> BY ShortWants
<1> HIDE DEF h, t
<1>6. /\ new \in MethodRequest /\ new.kind = q.kind /\ new.by = q.by /\ new.of = q.of /\ new.seen = q.seen
      /\ new.held = q.held \cup {h} /\ new.wants = t BY <1>1, <1>3 DEF MethodRequest
<1> HIDE DEF new
<1>7. \A x, y : TakesTwo(q, x, y) => TakesTwo(new, x, y)
 <2> TAKE x, y
 <2>1. CASE q.held = {} /\ q.wants = <<x, y>> BY <1>5, <1>6, <2>1 DEF TakesTwo
 <2>2. CASE q.held = {x} /\ q.wants = <<y>> BY <1>4, <1>6, <2>2 DEF TakesTwo
 <2> QED BY <1>1, <2>1, <2>2 DEF TakesTwo
<1>8. \A x : TakesOne(q, x) => TakesOne(new, x) BY <1>1, <1>4, <1>6 DEF TakesOne
<1>9. LocksByKind(new)
 <2>1. q.kind \notin {"none", "join"} BY <1>1 DEF LocksByKind, NoRequest
 <2>2. CASE q.kind \in {"unlink", "detach", "claim", "link", "remove", "merge"} BY <1>1, <1>6, <1>7, <1>8, <2>2 DEF LocksByKind
 <2>3. CASE q.kind = "removing" BY <1>1, <1>4, <1>6, <2>3 DEF LocksByKind
 <2>4. CASE q.kind = "merging"
   BY <1>1, <1>3, <2>4, <1>6 DEF LocksByKind, Wanted
 <2> QED BY <1>1, <2>1, <2>2, <2>3, <2>4 DEF MethodRequest
<1>10. requests' \in [Requests -> MethodRequest] /\ \A p \in Requests : requests'[p] = IF p = r THEN new ELSE requests[p]
  BY <1>2, <1>6 DEF MethodsInv, MethodsTypes
<1>11. LocksAreInOrder' BY <1>9, <1>10 DEF MethodsInv, LocksAreInOrder
<1>12. LocksExclude'
  BY <1>2, <1>6, <1>10 DEF Holding, MethodsInv, LocksExclude
<1>13. RowsNext /\ \A a \in Accounts : Undiminished(a) BY <1>2, RowsUnchangedAreKept
<1>14. MethodsTypes' BY <1>10, <1>13 DEF MethodsTypes, RowsNext
<1>15. \A p \in Requests : SameWork(requests[p], requests'[p]) BY <1>6, <1>10 DEF SameWork
<1>16. OthersKept BY <1>2, <1>13, <1>15, NothingLostIsKept
<1> QED BY <1>11, <1>12, <1>14, <1>15, <1>16, KeptIsSafe

\* Whatever a request does.
LEMMA RequestStepIsSafe ==
  ASSUME MethodsInv, NEW r \in Requests, RequestStep(r)
  PROVE MethodsInv'
  BY TakeIsSafe, FailsIsSafe, UnlinkedIsSafe, RemovalCheckedIsSafe, RemovedIsSafe, DetachedIsSafe, LinkedIsSafe,
     MergeCheckedIsSafe, MergedIsSafe, JoinedIsSafe, ClaimedIsSafe DEF RequestStep

-----------------------------------------------------------------------------
(* Sign-in methods: the steps that are no transaction.                     *)

\* The requests stay, and nobody loses anything.
LEMMA AsideIsSafe ==
  ASSUME MethodsInv, RowsNext, UNCHANGED requests, \A a \in Accounts : Undiminished(a),
         \A s \in Subjects : identities[s] # 0 => identities'[s] = identities[s],
         \A a \in Accounts : Holding(OfAccount(a)) # {} =>
             accounts'[a].sealed = accounts[a].sealed /\ accounts'[a].rotating = accounts[a].rotating
  PROVE MethodsInv'
<1>1. MethodsTypes' /\ LocksAreInOrder' /\ LocksExclude'
  BY DEF MethodsInv, MethodsTypes, RowsNext, LocksAreInOrder, LocksExclude
<1>2. \A r \in Requests : SameWork(requests[r], requests'[r]) BY DEF SameWork
<1>3. OthersKept BY <1>2, NothingLostIsKept
<1> QED BY <1>1, <1>2, <1>3, KeptIsSafe

\* A row changes its seal, its rotation or its generation while nobody holds the account.
LEMMA RowAsideIsSafe ==
  ASSUME MethodsInv, NEW a \in Accounts, Unheld(a), UNCHANGED <<identities, passkeys, requests>>,
         NEW sealed \in BOOLEAN, NEW rotating \in BOOLEAN, NEW generation \in Nat,
         accounts' = [accounts EXCEPT ![a] = [@ EXCEPT !.sealed = sealed, !.rotating = rotating, !.generation = generation]]
  PROVE MethodsInv'
<1> DEFINE new == [accounts[a] EXCEPT !.sealed = sealed, !.rotating = rotating, !.generation = generation]
<1>1. accounts[a] \in [state : {"free", "alive", "gone"}, email : Things, owner : Things,
                       sealed : BOOLEAN, rotating : BOOLEAN, generation : Nat] BY DEF MethodsInv, MethodsTypes
<1>2. /\ new \in [state : {"free", "alive", "gone"}, email : Things, owner : Things,
                  sealed : BOOLEAN, rotating : BOOLEAN, generation : Nat]
      /\ new.email = accounts[a].email /\ accounts' = [accounts EXCEPT ![a] = new] BY <1>1
<1> HIDE DEF new
<1>3. /\ accounts' \in [Accounts -> [state : {"free", "alive", "gone"}, email : Things, owner : Things,
                                   sealed : BOOLEAN, rotating : BOOLEAN, generation : Nat]]
      /\ \A b \in Accounts : accounts'[b].email = accounts[b].email
      /\ \A b \in Accounts : b # a => accounts'[b] = accounts[b] BY <1>2 DEF MethodsInv, MethodsTypes
<1>4. RowsNext /\ \A b \in Accounts : Undiminished(b)
  BY <1>3 DEF RowsNext, MethodsInv, MethodsTypes, Undiminished, IdentitiesOf, PasskeysOf
<1>5. \A b \in Accounts : Holding(OfAccount(b)) # {} =>
             accounts'[b].sealed = accounts[b].sealed /\ accounts'[b].rotating = accounts[b].rotating BY <1>3 DEF Unheld
<1> QED BY <1>4, <1>5, AsideIsSafe

\* Somebody writes, or a sealed note goes.
LEMMA WriteIsSafe ==
  ASSUME MethodsInv, NEW a \in Accounts, (\E sealed \in BOOLEAN : Write(a, sealed)) \/ Purge(a)
  PROVE MethodsInv'
<1>1. accounts[a] \in [state : {"free", "alive", "gone"}, email : Things, owner : Things,
                       sealed : BOOLEAN, rotating : BOOLEAN, generation : Nat] BY DEF MethodsInv, MethodsTypes
<1>2. Unheld(a) /\ UNCHANGED <<identities, passkeys, requests>> BY DEF Write, Purge
<1>3. CASE accounts' = accounts
  BY <1>2, <1>3, RowsUnchangedAreKept, AsideIsSafe
<1>4. CASE accounts' # accounts
 <2>1. PICK sealed \in BOOLEAN : accounts' = [accounts EXCEPT ![a].sealed = sealed]
   BY <1>1, <1>4 DEF Write, Purge, MethodsInv, MethodsTypes
 <2>2. accounts' = [accounts EXCEPT ![a] = [@ EXCEPT !.sealed = sealed, !.rotating = accounts[a].rotating,
                                                 !.generation = accounts[a].generation]]
   BY <1>1, <2>1 DEF MethodsInv, MethodsTypes
 <2> QED BY <1>1, <1>2, <2>2, RowAsideIsSafe
<1> QED BY <1>3, <1>4

\* A rotation starts or is over.
LEMMA RekeyIsSafe ==
  ASSUME MethodsInv, NEW a \in Accounts, StartRekey(a) \/ FinishRekey(a)
  PROVE MethodsInv'
<1>1. accounts[a] \in [state : {"free", "alive", "gone"}, email : Things, owner : Things,
                       sealed : BOOLEAN, rotating : BOOLEAN, generation : Nat] BY DEF MethodsInv, MethodsTypes
<1>2. Unheld(a) /\ UNCHANGED <<identities, passkeys, requests>> BY DEF StartRekey, FinishRekey
<1>3. PICK rotating \in BOOLEAN, generation \in Nat :
         accounts' = [accounts EXCEPT ![a] = [@ EXCEPT !.sealed = accounts[a].sealed, !.rotating = rotating,
                                                  !.generation = generation]]
 <2>1. CASE StartRekey(a)
   BY <1>1, <2>1 DEF StartRekey, MethodsInv, MethodsTypes
 <2>2. CASE FinishRekey(a)
  <3>1. accounts' = [accounts EXCEPT ![a] = [@ EXCEPT !.sealed = accounts[a].sealed, !.rotating = FALSE,
                                                !.generation = accounts[a].generation + 1]]
    BY <1>1, <2>2 DEF FinishRekey, MethodsInv, MethodsTypes
  <3>2. FALSE \in BOOLEAN /\ accounts[a].generation + 1 \in Nat BY <1>1
  <3> QED BY <3>1, <3>2
 <2> QED BY <2>1, <2>2
<1> QED BY <1>1, <1>2, <1>3, RowAsideIsSafe

\* An account opens with an address.
LEMMA SignUpEmailIsSafe ==
  ASSUME MethodsInv, NEW e \in Address, SignUpEmail(e)
  PROVE MethodsInv'
<1> PICK a \in Accounts : accounts' = [accounts EXCEPT ![a].state = "alive", ![a].email = e] BY DEF SignUpEmail
<1>1. UNCHANGED <<identities, passkeys, requests>> /\ e \in Things /\ e # Nobody BY MethodsAssumption DEF SignUpEmail, Things
<1>2. /\ accounts' \in [Accounts -> [state : {"free", "alive", "gone"}, email : Things, owner : Things,
                                   sealed : BOOLEAN, rotating : BOOLEAN, generation : Nat]]
      /\ \A b \in Accounts : accounts[b].email # Nobody => accounts'[b].email # Nobody
      /\ \A b \in Accounts : accounts'[b].sealed = accounts[b].sealed /\ accounts'[b].rotating = accounts[b].rotating
  BY <1>1 DEF MethodsInv, MethodsTypes
<1>3. RowsNext /\ \A b \in Accounts : Undiminished(b)
  BY <1>1, <1>2 DEF RowsNext, MethodsInv, MethodsTypes, Undiminished, IdentitiesOf, PasskeysOf
<1> QED BY <1>1, <1>2, <1>3, AsideIsSafe

\* An account opens with a wallet or a passkey.
LEMMA SignUpAsideIsSafe ==
  ASSUME MethodsInv, (\E s \in Subjects : SignUpSiwe(s)) \/ (\E k \in Passkeys : SignUpPasskey(k))
  PROVE MethodsInv'
<1>1. UNCHANGED requests BY DEF SignUpSiwe, SignUpPasskey
<1>2. PICK a \in Accounts :
         /\ Opened(a)
         /\ UNCHANGED identities \/ \E s \in Subjects : identities[s] = 0 /\ identities' = [identities EXCEPT ![s] = a]
         /\ UNCHANGED passkeys \/ \E k \in Passkeys : passkeys[k] = 0 /\ passkeys' = [passkeys EXCEPT ![k] = a]
 <2>1. CASE \E s \in Subjects : SignUpSiwe(s) BY <2>1 DEF SignUpSiwe
 <2>2. CASE \E k \in Passkeys : SignUpPasskey(k) BY <2>2 DEF SignUpPasskey
 <2> QED BY <2>1, <2>2
<1> QED BY <1>1, <1>2, OpeningKeeps, AsideIsSafe

\* A passkey is added.
LEMMA AddPasskeyIsSafe ==
  ASSUME MethodsInv, NEW a \in Accounts, NEW k \in Passkeys, AddPasskey(a, k)
  PROVE MethodsInv'
<1>1. passkeys[k] = 0 /\ passkeys' = [passkeys EXCEPT ![k] = a] /\ UNCHANGED <<accounts, identities, requests>> /\ 0 \notin Accounts
  BY MethodsAssumption DEF AddPasskey
<1>2. passkeys' \in [Passkeys -> Accounts \cup {0}] /\ \A l \in Passkeys : passkeys[l] # 0 => passkeys'[l] = passkeys[l]
  BY <1>1 DEF MethodsInv, MethodsTypes
<1>3. RowsNext /\ \A b \in Accounts : Undiminished(b)
  BY <1>1, <1>2 DEF RowsNext, MethodsInv, MethodsTypes, Undiminished, IdentitiesOf, PasskeysOf
<1> QED BY <1>1, <1>3, AsideIsSafe

\* Whatever else happens.
LEMMA OtherStepIsSafe ==
  ASSUME MethodsInv, OtherStep
  PROVE MethodsInv' BY SignUpEmailIsSafe, SignUpAsideIsSafe, AddPasskeyIsSafe, WriteIsSafe, RekeyIsSafe DEF OtherStep

\* In the beginning nothing is asked.
LEMMA MethodsBegin ==
  ASSUME MethodsInit
  PROVE MethodsInv
<1>1. \A r \in Requests : requests[r] = NoRequest BY DEF MethodsInit
<1>2. FreeAccount \in [state : {"free", "alive", "gone"}, email : Things, owner : Things,
                       sealed : BOOLEAN, rotating : BOOLEAN, generation : Nat] BY DEF FreeAccount, Things
<1>3. [FreeAccount EXCEPT !.state = "alive"] \in [state : {"free", "alive", "gone"}, email : Things, owner : Things,
                       sealed : BOOLEAN, rotating : BOOLEAN, generation : Nat] BY <1>2 DEF FreeAccount
<1>4. MethodsTypes BY <1>2, <1>3, OverIsWhole DEF MethodsInit, MethodsTypes
<1> QED BY <1>1, <1>4, OverIsWhole DEF MethodsInv, LocksAreInOrder, LocksExclude, RemovalsLeaveOne, MergesAreChecked

\* Every step of the specification keeps the invariant.
LEMMA MethodsStay ==
  ASSUME MethodsInv, [MethodsNext]_methodsVars
  PROVE MethodsInv'
<1>1. CASE MethodsNext BY <1>1, AskStepIsSafe, RequestStepIsSafe, OtherStepIsSafe DEF MethodsNext
<1>2. CASE UNCHANGED methodsVars
  BY <1>2 DEF methodsVars, MethodsInv, MethodsTypes, LocksAreInOrder, LocksExclude, RemovalsLeaveOne, MergesAreChecked,
     Methods, IdentitiesOf, PasskeysOf
<1> QED BY <1>1, <1>2


-----------------------------------------------------------------------------
(* Sign-in methods: what follows.                                          *)

\* A request that waits for an account holds nothing, or an account of a smaller id.
LEMMA AccountsAreTakenInOrder ==
  ASSUME MethodsInv, NEW r \in Requests, requests[r].wants # <<>>, Head(requests[r].wants)[1] = "account"
  PROVE \/ requests[r].held = {}
        \/ \E lo, hi \in Accounts : lo < hi /\ requests[r].held = {OfAccount(lo)} /\ Head(requests[r].wants) = OfAccount(hi)
<1> PICK q : q = requests[r] OBVIOUS
<1>1. LocksByKind(q) /\ q \in MethodRequest /\ q.wants # <<>> /\ q.wants \in Seq(Lock) /\ Head(q.wants)[1] = "account"
  BY DEF MethodsInv, MethodsTypes, LocksAreInOrder, MethodRequest
<1>2. \A x, y : Head(<<x, y>>) = x /\ Head(<<x>>) = x OBVIOUS
<1>3. \A x : TakesOne(q, x) => q.held = {} BY <1>1 DEF TakesOne
<1>4. \A x, y : TakesTwo(q, x, y) => q.held = {} \/ (q.held = {x} /\ Head(q.wants) = y) BY <1>1, <1>2 DEF TakesTwo
<1>5. q.kind \notin {"none", "join"} BY <1>1 DEF LocksByKind, NoRequest
<1>6. CASE q.kind \in {"unlink", "detach", "claim"} BY <1>1, <1>4, <1>6, LocksDiffer DEF LocksByKind
<1>7. CASE q.kind \in {"link", "remove"} BY <1>1, <1>3, <1>7 DEF LocksByKind
<1>8. CASE q.kind = "removing" BY <1>1, <1>2, <1>8, LocksDiffer DEF LocksByKind
<1>9. CASE q.kind = "merging"
  BY <1>1, <1>9, LocksDiffer DEF LocksByKind, Lock
<1>10. CASE q.kind = "merge"
  BY <1>1, <1>10, <1>4, AccountsAreOrdered DEF LocksByKind
<1> QED BY <1>1, <1>5, <1>6, <1>7, <1>8, <1>9, <1>10 DEF MethodRequest

\* So merges take turns.
LEMMA TurnsAreTaken ==
  ASSUME MethodsInv
  PROVE MergesTakeTurns
<1>1. ASSUME NEW r \in Requests, requests[r].wants # <<>>, OutOfOrder(r) PROVE FALSE
 <2>1. Head(requests[r].wants)[1] = "account" BY <1>1 DEF OutOfOrder
 <2>2. PICK lo, hi \in Accounts : lo < hi /\ requests[r].held = {OfAccount(lo)} /\ Head(requests[r].wants) = OfAccount(hi)
   BY <1>1, <2>1, AccountsAreTakenInOrder DEF OutOfOrder
 <2>3. OfAccount(lo)[2] > OfAccount(hi)[2] BY <1>1, <2>2 DEF OutOfOrder
 <2>4. OfAccount(lo)[2] = lo /\ OfAccount(hi)[2] = hi /\ lo \in Nat /\ hi \in Nat BY LocksDiffer, MethodsAssumption
 <2> QED BY <2>2, <2>3, <2>4
<1>2. ASSUME NEW r \in Requests, NEW q \in Requests, WaitsFor(r, q), WaitsFor(q, r),
             Head(requests[r].wants)[1] = "account", Head(requests[q].wants)[1] = "account"
      PROVE FALSE
 <2>1. PICK lo, hi \in Accounts : lo < hi /\ requests[r].held = {OfAccount(lo)} /\ Head(requests[r].wants) = OfAccount(hi)
   BY <1>2, AccountsAreTakenInOrder DEF WaitsFor
 <2>2. PICK lo2, hi2 \in Accounts : lo2 < hi2 /\ requests[q].held = {OfAccount(lo2)} /\ Head(requests[q].wants) = OfAccount(hi2)
   BY <1>2, AccountsAreTakenInOrder DEF WaitsFor
 <2>3. OfAccount(hi) = OfAccount(lo2) /\ OfAccount(hi2) = OfAccount(lo) BY <1>2, <2>1, <2>2 DEF WaitsFor
 <2>4. hi = lo2 /\ hi2 = lo BY <2>3, LocksDiffer
 <2> QED BY <2>1, <2>2, <2>4, MethodsAssumption
<1> QED BY <1>1, <1>2 DEF MergesTakeTurns

\* An account that opens, or keeps what it had, has a way in.
LEMMA WayInIsKept ==
  ASSUME MethodsInv, NEW a \in Accounts, Undiminished(a), accounts'[a].state = accounts[a].state,
         Alive(a)', Alive(a) => Methods(a) > 0
  PROVE Methods(a)' > 0
<1>1. Methods(a) > 0 BY DEF Alive
<1> QED BY <1>1, NotFewer, MethodsAreCounted, MethodsAreCountedNext

\* No account's state changes and nobody loses anything.
Steady == \A a \in Accounts : Undiminished(a) /\ accounts'[a].state = accounts[a].state

\* What is asked for, counted or taken changes nobody's methods; an account opens by a sign-up.
LEMMA AsksAreSteady ==
  ASSUME MethodsInv, NEW r \in Requests, AskStep(r), ~ \E s \in Subjects : SignUpGoogle(r, s)
  PROVE Steady
<1>1. UNCHANGED <<accounts, identities, passkeys>>
  BY DEF AskStep, AskUnlink, AskRemove, AskLink, AskClaim, AskDetach, SignInGoogle, JoinGoogle
<1> QED BY <1>1, RowsUnchangedAreKept DEF Steady

\* Nor do the requests that take nothing.
LEMMA GentleRequestsAreSteady ==
  ASSUME MethodsInv, NEW r \in Requests,
         Take(r) \/ Fails(r) \/ RemovalChecked(r) \/ Linked(r) \/ MergeChecked(r) \/ Joined(r) \/ Claimed(r)
  PROVE Steady
<1>1. CASE Take(r) \/ Fails(r) \/ RemovalChecked(r)
  BY <1>1, RowsUnchangedAreKept DEF Take, Fails, RemovalChecked, Steady
<1>2. CASE Linked(r) \/ MergeChecked(r) \/ Joined(r)
 <2> PICK a, s : a = requests[r].by /\ s = requests[r].of OBVIOUS
 <2>1. a \in Accounts /\ s \in Subjects
  <3>1. CASE Linked(r) \/ MergeChecked(r) BY <3>1, WorkingHolds DEF Linked, MergeChecked, Working
  <3>2. CASE Joined(r) BY <3>2 DEF Joined, Working, MethodsInv, LocksAreInOrder, LocksByKind
  <3> QED BY <1>2, <3>1, <3>2
 <2>2. /\ UNCHANGED <<accounts, passkeys>>
       /\ identities' = identities \/ (identities[s] = 0 /\ identities' = [identities EXCEPT ![s] = a])
   BY <1>2 DEF Linked, MergeChecked, OwnerNow, Joined
 <2> QED BY <2>1, <2>2, GivingKeeps DEF Steady
<1>3. CASE Claimed(r)
 <2> PICK a, e, o : a = requests[r].by /\ e = requests[r].of /\ o = requests[r].seen OBVIOUS
 <2>1. /\ UNCHANGED <<identities, passkeys>>
       /\ accounts' = accounts \/ (accounts[a].email = Nobody /\ accounts' = [accounts EXCEPT ![a].email = e, ![a].owner = o])
   BY <1>3 DEF Claimed
 <2>2. \A b \in Accounts : accounts'[b].state = accounts[b].state /\ (accounts[b].email # Nobody => accounts'[b].email = accounts[b].email)
   BY <2>1 DEF MethodsInv, MethodsTypes
 <2> QED BY <2>1, <2>2 DEF Steady, Undiminished, IdentitiesOf, PasskeysOf
<1> QED BY <1>1, <1>2, <1>3

\* Nor does the use of an account.
LEMMA UseIsSteady ==
  ASSUME MethodsInv, NEW a \in Accounts,
         (\E sealed \in BOOLEAN : Write(a, sealed)) \/ Purge(a) \/ StartRekey(a) \/ FinishRekey(a)
         \/ \E k \in Passkeys : AddPasskey(a, k)
  PROVE Steady
<1>1. CASE (\E sealed \in BOOLEAN : Write(a, sealed)) \/ Purge(a) \/ StartRekey(a) \/ FinishRekey(a)
 <2>1. UNCHANGED <<identities, passkeys>> BY <1>1 DEF Write, Purge, StartRekey, FinishRekey
 <2>2. \A b \in Accounts : accounts'[b].state = accounts[b].state /\ accounts'[b].email = accounts[b].email
   BY <1>1 DEF Write, Purge, StartRekey, FinishRekey, MethodsInv, MethodsTypes
 <2> QED BY <2>1, <2>2 DEF Steady, Undiminished, IdentitiesOf, PasskeysOf
<1>2. CASE \E k \in Passkeys : AddPasskey(a, k)
 <2>1. PICK k \in Passkeys : AddPasskey(a, k) BY <1>2
 <2>2. passkeys[k] = 0 /\ passkeys' = [passkeys EXCEPT ![k] = a] /\ UNCHANGED <<accounts, identities>> /\ 0 \notin Accounts
   BY <2>1, MethodsAssumption DEF AddPasskey
 <2>3. \A l \in Passkeys : passkeys[l] # 0 => passkeys'[l] = passkeys[l] BY <2>2 DEF MethodsInv, MethodsTypes
 <2> QED BY <2>2, <2>3 DEF Steady, Undiminished, IdentitiesOf, PasskeysOf
<1> QED BY <1>1, <1>2

\* An account that opens has the way in it opened by.
LEMMA SignUpsOpen ==
  ASSUME MethodsInv,
         (\E s \in Subjects : SignUpSiwe(s) \/ \E r \in Requests : SignUpGoogle(r, s))
         \/ (\E e \in Address : SignUpEmail(e)) \/ (\E k \in Passkeys : SignUpPasskey(k))
  PROVE \E a \in Accounts :
          /\ accounts'[a].state = "alive" /\ Methods(a)' > 0
          /\ \A b \in Accounts : b # a => Undiminished(b) /\ accounts'[b].state = accounts[b].state
<1>1. CASE \E s \in Subjects : SignUpSiwe(s) \/ \E r \in Requests : SignUpGoogle(r, s)
 <2>1. PICK s \in Subjects, a \in Accounts :
          Opened(a) /\ identities[s] = 0 /\ identities' = [identities EXCEPT ![s] = a] /\ UNCHANGED passkeys
   BY <1>1 DEF SignUpSiwe, SignUpGoogle
 <2>2. identities'[s] = a /\ accounts'[a].state = "alive" /\ \A b \in Accounts : b # a => accounts'[b].state = accounts[b].state
   BY <2>1 DEF Opened, MethodsInv, MethodsTypes
 <2>3. Methods(a)' > 0 BY <2>2, SomeWayIn
 <2>4. \A b \in Accounts : Undiminished(b) BY <2>1, OpeningKeeps
 <2> QED BY <2>2, <2>3, <2>4
<1>2. CASE \E k \in Passkeys : SignUpPasskey(k)
 <2>1. PICK k \in Passkeys, a \in Accounts :
          Opened(a) /\ passkeys[k] = 0 /\ passkeys' = [passkeys EXCEPT ![k] = a] /\ UNCHANGED identities
   BY <1>2 DEF SignUpPasskey
 <2>2. passkeys'[k] = a /\ accounts'[a].state = "alive" /\ \A b \in Accounts : b # a => accounts'[b].state = accounts[b].state
   BY <2>1 DEF Opened, MethodsInv, MethodsTypes
 <2>3. Methods(a)' > 0 BY <2>2, SomeWayIn
 <2>4. \A b \in Accounts : Undiminished(b) BY <2>1, OpeningKeeps
 <2> QED BY <2>2, <2>3, <2>4
<1>3. CASE \E e \in Address : SignUpEmail(e)
 <2>1. PICK e \in Address, a \in Accounts :
          accounts' = [accounts EXCEPT ![a].state = "alive", ![a].email = e] /\ UNCHANGED <<identities, passkeys>>
   BY <1>3 DEF SignUpEmail
 <2>2. accounts'[a].email = e /\ e # Nobody /\ accounts'[a].state = "alive" /\ \A b \in Accounts : b # a => accounts'[b] = accounts[b]
   BY <2>1, MethodsAssumption DEF MethodsInv, MethodsTypes
 <2>3. Methods(a)' > 0 BY <2>2, SomeWayIn
 <2>4. \A b \in Accounts : b # a => Undiminished(b) BY <2>1, <2>2 DEF Undiminished, IdentitiesOf, PasskeysOf
 <2> QED BY <2>2, <2>3, <2>4
<1> QED BY <1>1, <1>2, <1>3


\* A passkey goes only where another way in remains.
LEMMA RemovedLeavesOne ==
  ASSUME MethodsInv, NEW r \in Requests, Removed(r), NEW a \in Accounts,
         Alive(a)', Alive(a) => Methods(a) > 0
  PROVE accounts'[a].state = accounts[a].state /\ Methods(a)' > 0
<1> PICK k : k = requests[r].of OBVIOUS
<1>1. /\ requests[r].by \in Accounts /\ k \in Passkeys /\ requests[r].kind = "removing" /\ UNCHANGED <<accounts, identities>>
      /\ passkeys' = IF passkeys[k] = requests[r].by THEN [passkeys EXCEPT ![k] = 0] ELSE passkeys
  BY WorkingHolds DEF Removed, Working
<1>2. CASE a # requests[r].by
  BY <1>1, <1>2, WayInIsKept DEF Undiminished, IdentitiesOf, PasskeysOf, MethodsInv, MethodsTypes
<1>3. CASE a = requests[r].by
 <2>1. passkeys[k] = a /\ Methods(a) > 1 BY <1>1, <1>3 DEF MethodsInv, RemovalsLeaveOne
 <2>2. PasskeysOf(a)' = PasskeysOf(a) \ {k} /\ k \in PasskeysOf(a) /\ IdentitiesOf(a)' = IdentitiesOf(a)
   BY <1>1, <1>3, <2>1, MethodsAssumption DEF PasskeysOf, IdentitiesOf, MethodsInv, MethodsTypes
 <2>3. Cardinality(PasskeysOf(a)') = Cardinality(PasskeysOf(a)) - 1
  <3>1. Cardinality(PasskeysOf(a) \ {k}) = Cardinality(PasskeysOf(a)) - 1 BY <2>2, MethodsAreCounted, FS_RemoveElement
  <3> QED BY <2>2, <3>1
 <2> DEFINE i == Cardinality(IdentitiesOf(a))
            m == Cardinality(PasskeysOf(a))
            n == Cardinality(PasskeysOf(a)')
            e == IF accounts[a].email = Nobody THEN 0 ELSE 1
 <2>4. i \in Nat /\ m \in Nat /\ n \in Nat /\ n = m - 1 /\ e \in {0, 1} BY <2>3, MethodsAreCounted, MethodsAreCountedNext
 <2>5. Methods(a) = i + m + e BY DEF Methods
 <2>6. Methods(a)' = i + n + e BY <1>1, <2>2 DEF Methods
 <2> HIDE DEF i, m, n, e
 <2> QED BY <1>1, <2>1, <2>4, <2>5, <2>6
<1> QED BY <1>2, <1>3

\* So does an address.
LEMMA DetachedLeavesOne ==
  ASSUME MethodsInv, NEW r \in Requests, Detached(r), NEW a \in Accounts,
         Alive(a)', Alive(a) => Methods(a) > 0
  PROVE accounts'[a].state = accounts[a].state /\ Methods(a)' > 0
<1> PICK b : b = requests[r].by OBVIOUS
<1>1. /\ b \in Accounts /\ UNCHANGED <<identities, passkeys>>
      /\ accounts' = accounts \/ (Methods(b) > 1 /\ accounts[b].email # Nobody /\ accounts' = [accounts EXCEPT ![b].email = Nobody])
  BY WorkingHolds DEF Detached, Working, Keep
<1>2. accounts'[a].state = accounts[a].state BY <1>1 DEF MethodsInv, MethodsTypes
<1>3. CASE a # b \/ accounts' = accounts
  BY <1>1, <1>3, <1>2, WayInIsKept DEF Undiminished, IdentitiesOf, PasskeysOf, MethodsInv, MethodsTypes
<1>4. CASE a = b /\ accounts' # accounts
 <2>1. IdentitiesOf(a)' = IdentitiesOf(a) /\ PasskeysOf(a)' = PasskeysOf(a) BY <1>1 DEF PasskeysOf, IdentitiesOf
 <2> DEFINE i == Cardinality(IdentitiesOf(a))
            m == Cardinality(PasskeysOf(a))
 <2>2. i \in Nat /\ m \in Nat /\ Methods(a) > 1 BY <1>1, <1>4, MethodsAreCounted
 <2>3. Methods(a) = i + m + 1 BY <1>1, <1>4 DEF Methods
 <2>4. Methods(a)' = i + m + (IF accounts'[a].email = Nobody THEN 0 ELSE 1) BY <2>1 DEF Methods
 <2> HIDE DEF i, m
 <2> QED BY <1>2, <2>2, <2>3, <2>4
<1> QED BY <1>3, <1>4

\* And an unlinking of one identity.
LEMMA UnlinkedLeavesOne ==
  ASSUME MethodsInv, NEW r \in Requests, Unlinked(r), NEW a \in Accounts,
         Alive(a)', Alive(a) => Methods(a) > 0, ~(requests[r].by = a /\ Several(r))
  PROVE accounts'[a].state = accounts[a].state /\ Methods(a)' > 0
<1> PICK b : b = requests[r].by OBVIOUS
<1>1. b \in Accounts /\ UNCHANGED passkeys /\ (accounts' = accounts \/ accounts' = [accounts EXCEPT ![b].owner = Nobody])
  BY WorkingHolds DEF Unlinked, Working
<1>2. accounts'[a].state = accounts[a].state /\ accounts'[a].email = accounts[a].email BY <1>1 DEF MethodsInv, MethodsTypes
<1> DEFINE owned == {s \in IdentitiesOf(b) : Provider[s] = requests[r].of}
<1>3. identities' = identities \/
        (owned # {} /\ Methods(b) > 1 /\ identities' = [s \in Subjects |-> IF s \in owned THEN 0 ELSE identities[s]])
  BY DEF Unlinked, Keep
<1>4. CASE a # b \/ identities' = identities
 <2>1. \A s \in owned : identities[s] = b BY DEF IdentitiesOf
 <2> HIDE DEF owned
 <2>2. Undiminished(a) BY <1>1, <1>2, <1>3, <1>4, <2>1 DEF Undiminished, IdentitiesOf, PasskeysOf
 <2> QED BY <1>2, <2>2, WayInIsKept
<1>5. CASE a = b /\ identities' # identities
 <2>1. IsFiniteSet(owned) /\ owned \subseteq IdentitiesOf(a) BY <1>5, MethodsAreCounted, FS_Subset
 <2>2. Cardinality(owned) \in Nat /\ ~(Cardinality(owned) > 1) BY <1>5, <2>1, FS_CardinalityType DEF Several
 <2>3. Cardinality(owned) # 0 BY <1>3, <1>5, <2>1, FS_EmptySet
 <2>4. Cardinality(owned) = 1 BY <2>2, <2>3
 <2>5. PICK t : owned = {t} BY <2>1, <2>4, FS_Singleton
 <2> HIDE DEF owned
 <2>6. t \in IdentitiesOf(a) /\ IdentitiesOf(a)' = IdentitiesOf(a) \ {t}
   BY <1>3, <1>5, <2>1, <2>5, MethodsAssumption DEF IdentitiesOf
 <2>7. Cardinality(IdentitiesOf(a)') = Cardinality(IdentitiesOf(a)) - 1 BY <2>6, MethodsAreCounted, FS_RemoveElement
 <2>8. PasskeysOf(a)' = PasskeysOf(a) BY <1>1 DEF PasskeysOf
 <2> DEFINE i == Cardinality(IdentitiesOf(a))
            j == Cardinality(IdentitiesOf(a)')
            m == Cardinality(PasskeysOf(a))
            e == IF accounts[a].email = Nobody THEN 0 ELSE 1
 <2>9. i \in Nat /\ j \in Nat /\ m \in Nat /\ j = i - 1 /\ e \in {0, 1} /\ Methods(a) > 1
   BY <1>3, <1>5, <2>7, MethodsAreCounted, MethodsAreCountedNext
 <2>10. Methods(a) = i + m + e BY DEF Methods
 <2>11. Methods(a)' = j + m + e BY <1>2, <2>8 DEF Methods
 <2> HIDE DEF i, j, m, e
 <2> QED BY <1>2, <2>9, <2>10, <2>11
<1> QED BY <1>4, <1>5

\* A merge takes the ways in of the account that goes, and no other's.
LEMMA MergedTakesOne ==
  ASSUME MethodsInv, NEW r \in Requests, Merged(r), NEW c \in Accounts
  PROVE /\ c = requests[r].seen => accounts'[c].state = "gone"
        /\ c # requests[r].seen => Undiminished(c) /\ accounts'[c].state = accounts[c].state
<1> PICK a, b : a = requests[r].by /\ b = requests[r].seen OBVIOUS
<1>1. a \in Accounts /\ b \in Accounts /\ a # b BY WorkingHolds DEF Merged, Working
<1> DEFINE gone == [FreeAccount EXCEPT !.state = "gone", !.generation = accounts[b].generation]
           heir == Heir(a, b)
<1>2. /\ identities' = [s \in Subjects |-> IF identities[s] = b THEN a ELSE identities[s]]
      /\ passkeys' = [k \in Passkeys |-> IF k \in Moved(r) THEN a ELSE passkeys[k]]
      /\ accounts' = [accounts EXCEPT ![a] = heir, ![b] = gone] BY DEF Merged
<1>3. gone.state = "gone" BY DEF FreeAccount
<1>4. heir.state = accounts[a].state /\ (accounts[a].email # Nobody => heir.email = accounts[a].email)
  BY <1>1 DEF MethodsInv, MethodsTypes, Heir, Inherited
<1> HIDE DEF gone, heir
<1>5. /\ accounts'[b].state = "gone"
      /\ \A d \in Accounts : d # b => accounts'[d].state = accounts[d].state
                                       /\ (accounts[d].email # Nobody => accounts'[d].email = accounts[d].email)
  BY <1>1, <1>2, <1>3, <1>4 DEF MethodsInv, MethodsTypes
<1>6. c # b => Undiminished(c) BY <1>1, <1>2, <1>5 DEF Undiminished, IdentitiesOf, PasskeysOf, Moved
<1> QED BY <1>5, <1>6

\* What a step can be.
LEMMA StepsOfMethods ==
  ASSUME MethodsNext
  PROVE \/ \E r \in Requests : AskStep(r) /\ ~ \E s \in Subjects : SignUpGoogle(r, s)
        \/ \E r \in Requests : \/ Take(r) \/ Fails(r) \/ RemovalChecked(r) \/ Linked(r) \/ MergeChecked(r) \/ Joined(r)
                               \/ Claimed(r)
        \/ \E a \in Accounts : \/ \E sealed \in BOOLEAN : Write(a, sealed)
                               \/ Purge(a) \/ StartRekey(a) \/ FinishRekey(a) \/ \E k \in Passkeys : AddPasskey(a, k)
        \/ \E s \in Subjects : SignUpSiwe(s) \/ \E r \in Requests : SignUpGoogle(r, s)
        \/ \E e \in Address : SignUpEmail(e)
        \/ \E k \in Passkeys : SignUpPasskey(k)
        \/ \E r \in Requests : Unlinked(r) \/ Removed(r) \/ Detached(r) \/ Merged(r)
<1>1. CASE \E r \in Requests : AskStep(r) BY <1>1
<1>2. CASE \E r \in Requests : RequestStep(r) BY <1>2 DEF RequestStep
<1>3. CASE OtherStep BY <1>3 DEF OtherStep
<1> QED BY <1>1, <1>2, <1>3 DEF MethodsNext

\* A step that takes an account's last way in is an unlinking of several identities.
LEMMA OnlySeveralLockOut ==
  ASSUME MethodsInv, MethodsNext, NEW a \in Accounts, Alive(a)', Alive(a) => Methods(a) > 0, Methods(a)' = 0
  PROVE \E r \in Requests : requests[r].kind = "unlink" /\ requests[r].by = a /\ Several(r)
<1>1. ~(Methods(a)' > 0) BY MethodsAreCountedNext
<1>2. ~Steady BY <1>1, WayInIsKept DEF Steady
<1>3. CASE \/ \E s \in Subjects : SignUpSiwe(s) \/ \E r \in Requests : SignUpGoogle(r, s)
           \/ \E e \in Address : SignUpEmail(e)
           \/ \E k \in Passkeys : SignUpPasskey(k) BY <1>1, <1>3, SignUpsOpen, WayInIsKept
<1>4. ASSUME NEW r \in Requests, Unlinked(r)
      PROVE requests[r].kind = "unlink" /\ requests[r].by = a /\ Several(r)
  BY <1>1, <1>4, UnlinkedLeavesOne DEF Unlinked, Working
<1>5. ASSUME NEW r \in Requests, Removed(r) \/ Detached(r) PROVE FALSE BY <1>1, <1>5, RemovedLeavesOne, DetachedLeavesOne
<1>6. ASSUME NEW r \in Requests, Merged(r) PROVE FALSE BY <1>1, <1>6, MergedTakesOne, WayInIsKept DEF Alive
<1> QED BY <1>2, <1>3, <1>4, <1>5, <1>6, StepsOfMethods, AsksAreSteady, GentleRequestsAreSteady, UseIsSteady

\* An account goes only by a merge that looked at it.
LEMMA GoneByMerge ==
  ASSUME MethodsInv, MethodsNext, NEW a \in Accounts, accounts[a].state = "alive", accounts'[a].state = "gone"
  PROVE \E r \in Requests : Merged(r) /\ requests[r].seen = a
<1>1. ~Steady BY DEF Steady
<1>2. CASE \/ \E s \in Subjects : SignUpSiwe(s) \/ \E r \in Requests : SignUpGoogle(r, s)
           \/ \E e \in Address : SignUpEmail(e)
           \/ \E k \in Passkeys : SignUpPasskey(k)
 <2>1. PICK b \in Accounts : accounts'[b].state = "alive" /\ \A c \in Accounts : c # b => accounts'[c].state = accounts[c].state
   BY <1>2, SignUpsOpen
 <2> QED BY <2>1
<1>3. ASSUME NEW r \in Requests, Unlinked(r) \/ Removed(r) \/ Detached(r) PROVE FALSE
  BY <1>3, WorkingHolds DEF Unlinked, Removed, Detached, Working, MethodsInv, MethodsTypes
<1>4. ASSUME NEW r \in Requests, Merged(r) PROVE requests[r].seen = a BY <1>4, MergedTakesOne
<1> QED BY <1>1, <1>2, <1>3, <1>4, StepsOfMethods, AsksAreSteady, GentleRequestsAreSteady, UseIsSteady

\* What a merge absorbs is what was proven; its address goes on if it may.
LEMMA MergeAbsorbs ==
  ASSUME MethodsInv, MethodsNext, NEW a \in Accounts, accounts[a].state = "alive", accounts'[a].state = "gone"
  PROVE /\ \E r \in Requests : requests[r].kind = "merging" /\ requests[r].seen = a /\ identities[requests[r].of] = a
        /\ ~accounts[a].sealed /\ ~accounts[a].rotating
        /\ \A r \in Requests : requests[r].kind = "merging" /\ requests[r].seen = a /\ Alive(requests[r].by)
              => accounts[requests[r].by].email # Nobody \/ accounts'[requests[r].by].email = accounts[a].email
<1>1. PICK r \in Requests : Merged(r) /\ requests[r].seen = a BY GoneByMerge
<1>2. requests[r].kind = "merging" /\ requests[r].wants = <<>> BY <1>1 DEF Merged, Working
<1>3. identities[requests[r].of] = a /\ ~accounts[a].sealed /\ ~accounts[a].rotating
  BY <1>1, <1>2 DEF MethodsInv, MergesAreChecked
<1>4. OfAccount(a) \in requests[r].held /\ requests[r].by \in Accounts /\ requests[r].by # a BY <1>1, <1>2, WorkingHolds
<1>5. ASSUME NEW q \in Requests, requests[q].kind = "merging", requests[q].seen = a PROVE q = r
  BY <1>4, <1>5, UnderWayHolds, OneHolder
<1>6. ASSUME Alive(requests[r].by), accounts[requests[r].by].email = Nobody
      PROVE accounts'[requests[r].by].email = accounts[a].email
 <2> PICK b : b = requests[r].by OBVIOUS
 <2>1. Heir(b, a) = [accounts[b] EXCEPT !.email = accounts[a].email, !.owner = accounts[a].owner] BY <1>6 DEF Heir, Inherited
 <2>2. accounts[b] \in [state : {"free", "alive", "gone"}, email : Things, owner : Things,
                  sealed : BOOLEAN, rotating : BOOLEAN, generation : Nat] BY <1>4 DEF MethodsInv, MethodsTypes
 <2>3. Heir(b, a).email = accounts[a].email BY <2>1, <2>2
 <2>4. accounts'[b] = Heir(b, a) BY <1>1, <1>4 DEF Merged, MethodsInv, MethodsTypes
 <2> QED BY <2>3, <2>4
<1> QED BY <1>1, <1>2, <1>3, <1>5, <1>6

\* THE WAYS INTO AN ACCOUNT.  No interleaving of removals, links, claims and merges
\* takes an account's last way in, hangs for the accounts' order, or lets an account go
\* that was not proven, that has sealed notes, or whose address nobody inherits.
THEOREM WaysInAreSound == MethodsSpec => MethodsAreSound
<1>1. MethodsInit => MethodsInv BY MethodsBegin
<1>2. MethodsInv /\ [MethodsNext]_methodsVars => MethodsInv' BY MethodsStay
<1>3. MethodsInv => MergesTakeTurns BY TurnsAreTaken
<1>4. MethodsInv /\ [MethodsNext]_methodsVars =>
        [\A a \in Accounts :
          Alive(a)' /\ (Alive(a) => Methods(a) > 0) /\ Methods(a)' = 0
          => \E r \in Requests : requests[r].kind = "unlink" /\ requests[r].by = a /\ Several(r)]_methodsVars
  BY OnlySeveralLockOut
<1>5. MethodsInv /\ [MethodsNext]_methodsVars =>
        [\A a \in Accounts : accounts[a].state = "alive" /\ accounts'[a].state = "gone"
          => \E r \in Requests : requests[r].kind = "merging" /\ requests[r].seen = a
                                    /\ identities[requests[r].of] = a]_methodsVars BY MergeAbsorbs
<1>6. MethodsInv /\ [MethodsNext]_methodsVars =>
        [\A a \in Accounts : accounts[a].state = "alive" /\ accounts'[a].state = "gone"
          => ~accounts[a].sealed /\ ~accounts[a].rotating]_methodsVars BY MergeAbsorbs
<1>7. MethodsInv /\ [MethodsNext]_methodsVars =>
        [\A a \in Accounts, r \in Requests :
          /\ accounts[a].state = "alive" /\ accounts'[a].state = "gone" /\ accounts[a].email # Nobody
          /\ requests[r].kind = "merging" /\ requests[r].seen = a /\ Alive(requests[r].by)
          => accounts[requests[r].by].email # Nobody
                \/ accounts'[requests[r].by].email = accounts[a].email]_methodsVars BY MergeAbsorbs
<1> QED BY <1>1, <1>2, <1>3, <1>4, <1>5, <1>6, <1>7, PTL
     DEF MethodsSpec, MethodsAreSound, KeepsAWayIn, AbsorbsOnlyTheProven, AbsorbsNothingSealed, AddressesSurvive
=============================================================================
