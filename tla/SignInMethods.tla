--------------------------- MODULE SignInMethods ---------------------------
(***************************************************************************)
(* The ways into an account: identities (a Google subject, a wallet),      *)
(* passkeys and an address, as controllers/users.ts, identities.ts,        *)
(* passkeys.ts, userEmail.ts and signInMethods.ts keep them, with the      *)
(* account merge that linking another account's identity performs.         *)
(*                                                                         *)
(* A request is a transaction: it takes row locks one by one, works, and   *)
(* commits.  Statements that take no lock run between those of others.     *)
(***************************************************************************)
EXTENDS Naturals, Sequences, FiniteSets

CONSTANTS Accounts,     \* 1 .. n: account ids have an order
          Subjects,     \* identities a provider vouches for
          Passkeys,
          Requests,     \* transactions at a time
          Provider,     \* the provider of a subject
          Reported,     \* the address Google reports with a subject
          Address,      \* addresses there are
          MaxActs,      \* what people ever ask
          MaxGenerations, \* key rotations of an account
          Nobody

ASSUME MethodsAssumption ==
    /\ Accounts \subseteq Nat \ {0} /\ {MaxActs, MaxGenerations} \subseteq Nat
    /\ Provider \in [Subjects -> {"google", "siwe"}]
    /\ Reported \in [Subjects -> Address]
    /\ Nobody \notin Address /\ IsFiniteSet(Subjects) /\ IsFiniteSet(Passkeys)

VARIABLES accounts,   \* the users rows, and what matters of each account's vault
          identities, \* whose each subject is
          passkeys,   \* whose each passkey is
          requests,
          acts,
          stray       \* history: notes written to an account that is gone

methodsVars == <<accounts, identities, passkeys, requests, acts, stray>>

Account == [state : {"free", "alive", "gone"}, email : Address \cup {Nobody},
            owner : Subjects \cup {Nobody}, sealed : BOOLEAN,
            rotating : BOOLEAN, generation : 0 .. MaxGenerations]
FreeAccount == [state |-> "free", email |-> Nobody, owner |-> Nobody, sealed |-> FALSE,
                rotating |-> FALSE, generation |-> 0]
NoRequest == [kind |-> "none", by |-> 0, of |-> Nobody, seen |-> 0, held |-> {}, wants |-> <<>>]

\* An account somebody opened: some browser may hold a session of it.
Known(a) == a \in Accounts /\ accounts[a].state # "free"
Alive(a) == a \in Accounts /\ accounts[a].state = "alive"
IdentitiesOf(a) == {s \in Subjects : identities[s] = a}
PasskeysOf(a) == {k \in Passkeys : passkeys[k] = a}
HolderOf(e) == {a \in Accounts : Alive(a) /\ accounts[a].email = e}

\* countSignInMethods: identities, passkeys, and the address.
Methods(a) == Cardinality(IdentitiesOf(a)) + Cardinality(PasskeysOf(a))
                  + (IF accounts[a].email = Nobody THEN 0 ELSE 1)

\* Some accounts exist, each with one way in.
MethodsInit ==
    /\ identities \in [Subjects -> Accounts \cup {0}]
    /\ accounts = [a \in Accounts |->
                      IF \E s \in Subjects : identities[s] = a
                      THEN [FreeAccount EXCEPT !.state = "alive"] ELSE FreeAccount]
    /\ \A a \in Accounts : Cardinality(IdentitiesOf(a)) <= 1
    /\ passkeys = [k \in Passkeys |-> 0]
    /\ stray = {} /\ acts = 0
    /\ requests = [r \in Requests |-> NoRequest]

-----------------------------------------------------------------------------
(* Row locks *)

OfAccount(a) == <<"account", a>>     \* encryption_states: withAccountLock
OfMethods(a) == <<"methods", a>>     \* users: lockSignInMethods, and any write to the row
OfPasskey(k) == <<"passkey", k>>     \* passkey_credentials: a write to the row

Holding(lock) == {r \in Requests : lock \in requests[r].held}
Working(r, kind) == requests[r].kind = kind /\ requests[r].wants = <<>>
Over(r) == requests' = [requests EXCEPT ![r] = NoRequest]
FreeSlots == {r \in Requests : requests[r].kind = "none"}
Acts == acts < MaxActs /\ acts' = acts + 1
Ask(r, kind, a, of, seen, wants) ==
    /\ r \in FreeSlots /\ Acts
    /\ requests' = [requests EXCEPT ![r] = [kind |-> kind, by |-> a, of |-> of, seen |-> seen,
                                            held |-> {}, wants |-> wants]]

\* "Multi-account operations must acquire IDs in ascending order": else LOCK_ORDER.
OutOfOrder(r) ==
    LET lock == Head(requests[r].wants) IN
    lock[1] = "account" /\ \E held \in requests[r].held : held[1] = "account" /\ held[2] > lock[2]

LockIsOpen(r, lock) == TRUE
LockIsFree(r, lock) == Holding(lock) \subseteq {r}

Take(r) ==
    /\ requests[r].wants # <<>> /\ ~OutOfOrder(r) /\ LockIsFree(r, Head(requests[r].wants))
    /\ requests' = [requests EXCEPT ![r].held = @ \cup {Head(requests[r].wants)},
                                    ![r].wants = Tail(@)]
    /\ UNCHANGED <<accounts, identities, passkeys, acts, stray>>

WaitsFor(r, q) == /\ r # q /\ requests[r].wants # <<>>
                  /\ Head(requests[r].wants) \in requests[q].held
\* The database breaks a circle of waits by failing one of its transactions.
Deadlocked(r) == \E q \in Requests : WaitsFor(r, q) /\ WaitsFor(q, r)
Fails(r) ==
    /\ requests[r].wants # <<>> /\ (OutOfOrder(r) \/ Deadlocked(r))
    /\ Over(r)
    /\ UNCHANGED <<accounts, identities, passkeys, acts, stray>>

-----------------------------------------------------------------------------
(* Removing a way in *)

Keep == 1
KeepNone == 0

AskUnlink(r, a, provider) ==
    /\ Known(a) /\ Ask(r, "unlink", a, provider, 0, <<OfAccount(a), OfMethods(a)>>)
    /\ UNCHANGED <<accounts, identities, passkeys, stray>>
\* Every identity of the provider goes; the address one of them proved stays, unowned.
Unlinked(r) ==
    LET a == requests[r].by
        owned == {s \in IdentitiesOf(a) : Provider[s] = requests[r].of}
    IN /\ Working(r, "unlink") /\ Over(r)
       /\ IF Alive(a) /\ ~accounts[a].rotating /\ owned # {} /\ Methods(a) > Keep
          THEN /\ identities' = [s \in Subjects |-> IF s \in owned THEN 0 ELSE identities[s]]
               /\ accounts' = IF accounts[a].owner \in owned
                              THEN [accounts EXCEPT ![a].owner = Nobody] ELSE accounts
          ELSE UNCHANGED <<accounts, identities>>
       /\ UNCHANGED <<passkeys, acts, stray>>

LocksOfRemovalNone(a) == <<>>
\* deletePasskey takes the users row, and no account lock.
LocksOfRemoval(a) == <<OfMethods(a)>>
AskRemove(r, a, k) ==
    /\ Known(a) /\ Ask(r, "remove", a, k, 0, LocksOfRemoval(a))
    /\ UNCHANGED <<accounts, identities, passkeys, stray>>
RemovalChecked(r) ==
    LET a == requests[r].by
        k == requests[r].of
    IN /\ Working(r, "remove")
       /\ requests' = [requests EXCEPT ![r] =
              IF Alive(a) /\ passkeys[k] = a /\ Methods(a) > Keep
              THEN [@ EXCEPT !.kind = "removing", !.wants = <<OfPasskey(k)>>] ELSE NoRequest]
       /\ UNCHANGED <<accounts, identities, passkeys, acts, stray>>
Removed(r) ==
    LET k == requests[r].of IN
    /\ Working(r, "removing") /\ Over(r)
    /\ passkeys' = IF passkeys[k] = requests[r].by THEN [passkeys EXCEPT ![k] = 0] ELSE passkeys
    /\ UNCHANGED <<accounts, identities, acts, stray>>

AskDetach(r, a) ==
    /\ Known(a) /\ Ask(r, "detach", a, Nobody, 0, <<OfAccount(a), OfMethods(a)>>)
    /\ UNCHANGED <<accounts, identities, passkeys, stray>>
\* An address an identity proved is that identity's to release.
Detached(r) ==
    LET a == requests[r].by IN
    /\ Working(r, "detach") /\ Over(r)
    /\ accounts' = IF /\ Alive(a) /\ ~accounts[a].rotating /\ accounts[a].email # Nobody
                      /\ accounts[a].owner = Nobody /\ Methods(a) > Keep
                   THEN [accounts EXCEPT ![a].email = Nobody] ELSE accounts
    /\ UNCHANGED <<identities, passkeys, acts, stray>>

-----------------------------------------------------------------------------
(* Linking an identity, and merging its account *)

InOrder(a, b) == IF a < b THEN <<OfAccount(a), OfAccount(b)>> ELSE <<OfAccount(b), OfAccount(a)>>
AsGiven(a, b) == <<OfAccount(a), OfAccount(b)>>
LocksOfMerge(a, b) == InOrder(a, b)

\* linkIdentity looks the subject up, then locks one account or both.
AskLink(r, a, s) ==
    /\ Known(a) /\ identities[s] # a
    /\ LET other == identities[s] IN
       Ask(r, IF other = 0 THEN "link" ELSE "merge", a, s, other,
           IF other = 0 THEN <<OfAccount(a)>> ELSE LocksOfMerge(a, other))
    /\ UNCHANGED <<accounts, identities, passkeys, stray>>

\* The link routes carry no generation: only an account never rotated takes a link.
Unfenced(a) == ~accounts[a].rotating /\ accounts[a].generation = 0

Linked(r) ==
    LET a == requests[r].by
        s == requests[r].of
    IN /\ Working(r, "link") /\ Over(r)
       /\ identities' = IF Unfenced(a) /\ identities[s] = 0 THEN [identities EXCEPT ![s] = a]
                        ELSE identities
       /\ UNCHANGED <<accounts, passkeys, acts, stray>>

OwnerSeen(r) == requests[r].seen
\* Looked up again once both accounts are held.
OwnerNow(r) == identities[requests[r].of]

Retains(b) == accounts[b].sealed
RetainsNothing(b) == FALSE
\* Every retained encrypted resource blocks a merge.
Blocked(b) == Retains(b)

\* The wants of a checked merge: the passkeys that move, the row that goes, the one that inherits.
MergeRows(a, b) ==
    LET keys == CHOOSE f \in [1 .. Cardinality(PasskeysOf(b)) -> PasskeysOf(b)] :
                    {f[i] : i \in DOMAIN f} = PasskeysOf(b)
    IN [i \in DOMAIN keys |-> OfPasskey(keys[i])] \o <<OfMethods(b), OfMethods(a)>>

MergeChecked(r) ==
    LET a == requests[r].by
        b == requests[r].seen
        go == /\ Unfenced(a) /\ ~accounts[b].rotating
              /\ OwnerNow(r) = b /\ ~Blocked(b)
    IN /\ Working(r, "merge")
       /\ identities' = IF Unfenced(a) /\ ~accounts[b].rotating /\ OwnerNow(r) = 0
                        THEN [identities EXCEPT ![requests[r].of] = a] ELSE identities
       /\ requests' = [requests EXCEPT ![r] =
              IF go THEN [@ EXCEPT !.kind = "merging", !.wants = MergeRows(a, b)] ELSE NoRequest]
       /\ UNCHANGED <<accounts, passkeys, acts, stray>>

\* The update takes the row as it is once the lock is there.
Moved(r) == {k \in PasskeysOf(requests[r].seen) : OfPasskey(k) \in requests[r].held}
Inherited(a, b) ==
    IF Alive(a) /\ accounts[a].email = Nobody
    THEN [accounts[a] EXCEPT !.email = accounts[b].email, !.owner = accounts[b].owner]
    ELSE accounts[a]
NotInherited(a, b) == accounts[a]
Heir(a, b) == Inherited(a, b)

\* Notes, files, tags, identities and passkeys move; the row of the other account goes.
Merged(r) ==
    LET a == requests[r].by
        b == requests[r].seen
    IN /\ Working(r, "merging") /\ Over(r)
       /\ identities' = [s \in Subjects |-> IF identities[s] = b THEN a ELSE identities[s]]
       /\ passkeys' = [k \in Passkeys |-> IF k \in Moved(r) THEN a ELSE passkeys[k]]
       /\ accounts' = [accounts EXCEPT ![a] = Heir(a, b),
                                       ![b] = [FreeAccount EXCEPT !.state = "gone",
                                               !.generation = accounts[b].generation]]
       /\ UNCHANGED <<acts, stray>>

-----------------------------------------------------------------------------
(* Signing in: known methods change nothing here, and any account that was   *)
(* opened may have a session in some browser.                                *)

Newest(a) == accounts[a].state = "free" /\ \A b \in Accounts : b < a => accounts[b].state # "free"
Opened(a) == accounts' = [accounts EXCEPT ![a].state = "alive"]

\* claimEmailForUser: the account lock, then a write to the row.
ClaimLocks(a) == <<OfAccount(a), OfMethods(a)>>
AskClaimFor(r, a, s) == Ask(r, "claim", a, Reported[s], s, ClaimLocks(a))

\* A known subject; its address, if verified, is claimed on every sign-in.
SignInGoogle(r, s) ==
    /\ Provider[s] = "google" /\ Alive(identities[s]) /\ AskClaimFor(r, identities[s], s)
    /\ UNCHANGED <<accounts, identities, passkeys, stray>>
\* An unknown subject whose verified address somebody holds joins that account.
JoinGoogle(r, s) ==
    /\ Provider[s] = "google" /\ identities[s] = 0
    /\ \E a \in HolderOf(Reported[s]) : Ask(r, "join", a, s, a, <<>>)
    /\ UNCHANGED <<accounts, identities, passkeys, stray>>
Joined(r) ==
    LET s == requests[r].of IN
    /\ Working(r, "join") /\ Over(r)
    /\ identities' = IF identities[s] = 0 THEN [identities EXCEPT ![s] = requests[r].by]
                     ELSE identities
    /\ UNCHANGED <<accounts, passkeys, acts, stray>>
\* Otherwise a new account.
SignUpGoogle(r, s) ==
    \E a \in Accounts :
        /\ Newest(a) /\ Provider[s] = "google" /\ identities[s] = 0 /\ HolderOf(Reported[s]) = {}
        /\ Opened(a) /\ identities' = [identities EXCEPT ![s] = a] /\ AskClaimFor(r, a, s)
        /\ UNCHANGED <<passkeys, stray>>
SignUpSiwe(s) ==
    \E a \in Accounts :
        /\ Newest(a) /\ Provider[s] = "siwe" /\ identities[s] = 0
        /\ Acts /\ Opened(a) /\ identities' = [identities EXCEPT ![s] = a]
        /\ UNCHANGED <<passkeys, requests, stray>>
SignUpEmail(e) ==
    \E a \in Accounts :
        /\ Newest(a) /\ HolderOf(e) = {} /\ Acts
        /\ accounts' = [accounts EXCEPT ![a].state = "alive", ![a].email = e]
        /\ UNCHANGED <<identities, passkeys, requests, stray>>
SignUpPasskey(k) ==
    \E a \in Accounts :
        /\ Newest(a) /\ passkeys[k] = 0
        /\ Acts /\ Opened(a) /\ passkeys' = [passkeys EXCEPT ![k] = a]
        /\ UNCHANGED <<identities, requests, stray>>

-----------------------------------------------------------------------------
(* Adding a way in, and using the account *)

\* insertPasskey takes no lock and asks nothing of the account.
AddPasskey(a, k) ==
    /\ Known(a) /\ passkeys[k] = 0 /\ Acts /\ passkeys' = [passkeys EXCEPT ![k] = a]
    /\ UNCHANGED <<accounts, identities, requests, stray>>

\* The address of a one-time code.
AskClaim(r, a, e) ==
    /\ Known(a) /\ Ask(r, "claim", a, e, Nobody, ClaimLocks(a))
    /\ UNCHANGED <<accounts, identities, passkeys, stray>>
Claimed(r) ==
    LET a == requests[r].by
        e == requests[r].of
    IN /\ Working(r, "claim") /\ Over(r)
       /\ accounts' = IF Alive(a) /\ HolderOf(e) = {} /\ accounts[a].email = Nobody
                      THEN [accounts EXCEPT ![a].email = e, ![a].owner = requests[r].seen]
                      ELSE accounts
       /\ UNCHANGED <<identities, passkeys, acts, stray>>

Unheld(a) == Holding(OfAccount(a)) = {}

\* A session goes on after its account is gone: nothing it asks reads the users row.
Write(a, sealed) ==
    /\ Known(a) /\ Unheld(a) /\ ~accounts[a].rotating /\ Acts
    /\ accounts' = IF Alive(a) THEN [accounts EXCEPT ![a].sealed = @ \/ sealed] ELSE accounts
    /\ stray' = IF Alive(a) THEN stray ELSE stray \cup {a}
    /\ UNCHANGED <<identities, passkeys, requests>>
Purge(a) ==
    /\ Alive(a) /\ Unheld(a) /\ ~accounts[a].rotating /\ accounts[a].sealed /\ Acts
    /\ accounts' = [accounts EXCEPT ![a].sealed = FALSE]
    /\ UNCHANGED <<identities, passkeys, requests, stray>>
StartRekey(a) ==
    /\ Alive(a) /\ Unheld(a) /\ ~accounts[a].rotating /\ accounts[a].generation < MaxGenerations
    /\ Acts /\ accounts' = [accounts EXCEPT ![a].rotating = TRUE]
    /\ UNCHANGED <<identities, passkeys, requests, stray>>
FinishRekey(a) ==
    /\ accounts[a].rotating /\ Unheld(a)
    /\ accounts' = [accounts EXCEPT ![a].rotating = FALSE, ![a].generation = @ + 1]
    /\ UNCHANGED <<identities, passkeys, requests, acts, stray>>

-----------------------------------------------------------------------------
RequestStep(r) ==
    Take(r) \/ Fails(r) \/ Unlinked(r) \/ RemovalChecked(r) \/ Removed(r) \/ Detached(r)
        \/ Linked(r) \/ MergeChecked(r) \/ Merged(r) \/ Joined(r) \/ Claimed(r)
AskStep(r) ==
    \/ \E a \in Accounts :
          \/ \E p \in {"google", "siwe"} : AskUnlink(r, a, p)
          \/ \E k \in Passkeys : AskRemove(r, a, k)
          \/ \E s \in Subjects : AskLink(r, a, s)
          \/ \E e \in Address : AskClaim(r, a, e)
          \/ AskDetach(r, a)
    \/ \E s \in Subjects : SignInGoogle(r, s) \/ SignUpGoogle(r, s) \/ JoinGoogle(r, s)
OtherStep ==
    \/ \E s \in Subjects : SignUpSiwe(s)
    \/ \E e \in Address : SignUpEmail(e)
    \/ \E k \in Passkeys : SignUpPasskey(k) \/ \E a \in Accounts : AddPasskey(a, k)
    \/ \E a \in Accounts : \/ \E sealed \in BOOLEAN : Write(a, sealed)
                           \/ Purge(a) \/ StartRekey(a) \/ FinishRekey(a)

MethodsNext == (\E r \in Requests : AskStep(r) \/ RequestStep(r)) \/ OtherStep
MethodsSpec == MethodsInit /\ [][MethodsNext]_methodsVars

-----------------------------------------------------------------------------
(* No two accounts hold one address and no two requests one lock; what is     *)
(* gone holds no address (users_email_unique; row locks).                     *)
MethodsTypeOK ==
    /\ accounts \in [Accounts -> Account]
    /\ identities \in [Subjects -> Accounts \cup {0}]
    /\ passkeys \in [Passkeys -> Accounts \cup {0}]
    /\ \A e \in Address : Cardinality(HolderOf(e)) <= 1
    /\ \A r, q \in Requests : r # q => requests[r].held \cap requests[q].held = {}

(* "So two individually-safe requests cannot jointly lock out the user"       *)
(* (signInMethods.ts): an account opens with a way in, and no interleaving of *)
(* removals and merges takes the last one; only an unlinking of more than one *)
(* identity of a provider does, by itself.                                    *)
Several(r) == Cardinality({s \in IdentitiesOf(requests[r].by) : Provider[s] = requests[r].of}) > 1
KeepsAWayIn ==
    [][\A a \in Accounts :
          Alive(a)' /\ (Alive(a) => Methods(a) > 0) /\ Methods(a)' = 0
          => \E r \in Requests : requests[r].kind = "unlink" /\ requests[r].by = a /\ Several(r)]_methodsVars

(* Not true of the code: an account always keeps a way in (the profile page:  *)
(* "You must keep at least one sign-in method").                              *)
AlwaysAWayIn == \A a \in Accounts : Alive(a) => Methods(a) > 0

(* A merge absorbs an account only while the identity that was proven is that *)
(* account's (identities.ts re-reads it under both locks).                    *)
AbsorbsOnlyTheProven ==
    [][\A a \in Accounts : accounts[a].state = "alive" /\ accounts'[a].state = "gone"
          => \E r \in Requests : requests[r].kind = "merging" /\ requests[r].seen = a
                                    /\ identities[requests[r].of] = a]_methodsVars

(* Encrypted rows never outlive the account that can open them: a merge       *)
(* absorbs no account that has any, or whose key is being rotated.            *)
AbsorbsNothingSealed ==
    [][\A a \in Accounts : accounts[a].state = "alive" /\ accounts'[a].state = "gone"
          => ~accounts[a].sealed /\ ~accounts[a].rotating]_methodsVars

(* An address that opened an account opens the living account that absorbed   *)
(* it, unless that one has an address of its own.                             *)
AddressesSurvive ==
    [][\A a \in Accounts, r \in Requests :
          /\ accounts[a].state = "alive" /\ accounts'[a].state = "gone" /\ accounts[a].email # Nobody
          /\ requests[r].kind = "merging" /\ requests[r].seen = a /\ Alive(requests[r].by)
          => accounts[requests[r].by].email # Nobody
                \/ accounts'[requests[r].by].email = accounts[a].email]_methodsVars

(* Two merges never wait for each other's account, and none is refused for    *)
(* its order (encryptionState.ts: "in ascending order to prevent deadlocks"). *)
MergesTakeTurns ==
    \A r, q \in Requests :
        /\ requests[r].wants # <<>> => ~OutOfOrder(r)
        /\ WaitsFor(r, q) /\ WaitsFor(q, r) =>
              Head(requests[r].wants)[1] # "account" \/ Head(requests[q].wants)[1] # "account"

(* "Once linked, every method reaches the same account and the same encrypted *)
(* notes" (docs/3.sign-in.md): an identity that opens an account opens one    *)
(* until it is removed.                                                       *)
LinkedMethodsReach ==
    [][\A s \in Subjects : Alive(identities[s])
          => identities'[s] = 0 \/ accounts'[identities'[s]].state = "alive"]_methodsVars

(* Nothing is written to, and no method added to, an account that is gone.    *)
NothingIsStranded ==
    \A a \in Accounts : accounts[a].state = "gone"
        => a \notin stray /\ IdentitiesOf(a) = {} /\ PasskeysOf(a) = {}

\* No interleaving of removals, links and merges locks an account out, hangs, or
\* lets somebody else's account, sealed notes or address go.
MethodsAreSound ==
    []MergesTakeTurns /\ KeepsAWayIn /\ AbsorbsOnlyTheProven /\ AbsorbsNothingSealed /\ AddressesSurvive
=============================================================================
