------------------------------ MODULE MCAccounts ------------------------------
(***************************************************************************)
(* The four components that decide who is signed in, each on a small       *)
(* instance: sessions, sign-in methods, the desktop exchange, email codes. *)
(* They share no variable of these models, so their interleavings say      *)
(* nothing: focus picks the one that moves, and the others rest in an      *)
(* initial state.                                                          *)
(***************************************************************************)
EXTENDS AccountSessions, SignInMethods, DesktopSignIn, EmailCodes, TLC

CONSTANTS Parts,                    \* the components a run lets move
          a1, b1, r1, g1, w1, v1, k1, e1

VARIABLE focus

MCProvider == g1 :> "google" @@ w1 :> "siwe" @@ v1 :> "siwe"
MCReported == g1 :> e1 @@ w1 :> e1 @@ v1 :> e1

AccountsInit ==
    /\ focus \in Parts
    /\ Init /\ MethodsInit /\ DesktopInit /\ CodesInit
    /\ focus # "sessions" => token = [s \in Sids |-> None]
    /\ focus # "methods" => identities = [s \in Subjects |-> 0]

AccountsNext ==
    \/ focus = "sessions" /\ Next /\ UNCHANGED <<focus, methodsVars, desktopVars, codesVars>>
    \/ focus = "methods" /\ MethodsNext /\ UNCHANGED <<focus, vars, desktopVars, codesVars>>
    \/ focus = "desktop" /\ DesktopNext /\ UNCHANGED <<focus, vars, methodsVars, codesVars>>
    \/ focus = "codes" /\ CodesNext /\ UNCHANGED <<focus, vars, methodsVars, desktopVars>>

AccountsSpec ==
    AccountsInit /\ [][AccountsNext]_<<focus, vars, methodsVars, desktopVars, codesVars>>

\* a1 and b1 stand for sign-ins, requests and forms alike: only one component moves.
\* Two wallets are alike.
Symmetry == Permutations({a1, b1}) \cup Permutations({w1, v1})

(* Everything the four components keep is of its type: epochs and sessions,  *)
(* accounts and locks, attempts and exchanges, codes and forms.              *)
TypesOK == TypeOK /\ MethodsTypeOK /\ DesktopTypeOK /\ CodesTypeOK
===============================================================================
