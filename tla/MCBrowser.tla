------------------------------ MODULE MCBrowser -------------------------------
(***************************************************************************)
(* Four components of the browser around a rotation, each on a small       *)
(* instance: the offline authenticator vault, the generation marker and    *)
(* its purge, the walk that encrypts everything again, the wizard around   *)
(* it.  They share no variable of these models; focus picks the one that   *)
(* moves, the others rest in an initial state.                             *)
(***************************************************************************)
EXTENDS OtpVault, Generations, RotationWalk, RotationWizard, TLC

CONSTANTS Parts, a1, b1, p1, q1, m1, n1, x1

VARIABLE focus

\* Two pages each in its own browser, named like it, or both in one; the wizard's page is in the first.
MCHomes == {[t \in Tabs |-> t]} \cup {[t \in Tabs |-> d] : d \in Devices}
MCSeats == {[s \in Screens |-> m1]}

\* Every kind once, a hollow record and a hollow Seal; and what a small vault
\* may hold of that.
I(kind, seal, hollow) == [kind |-> kind, seal |-> seal, hollow |-> hollow]
Most ==
    <<I("auth", 0, TRUE), I("file", 0, FALSE), I("seal", 1, FALSE), I("seal-file", 1, FALSE), I("seal-version", 1, FALSE),
      I("seal-wrapper", 1, FALSE), I("seal-wrapper", 2, TRUE), I("secret", 0, FALSE)>>
MCInventories ==
    {inv \in {[i \in 1 .. Cardinality(S) |-> Most[SetToSortSeq(S, LAMBDA j, k : j < k)[i]]]
                : S \in {T \in SUBSET DOMAIN Most : Cardinality(T) <= 4}} : Sound(inv)}

BrowserInit ==
    /\ focus \in Parts
    /\ OtpInit /\ GenInit /\ WalkInit /\ WizardInit
    /\ focus # "otp" => /\ home = [w \in Windows |-> p1]
                        /\ \A d \in Browsers : stores[d].vault.generation = 0
    /\ focus # "pages" => \A t \in Tabs : homes[t] = t
    /\ focus # "walk" => inventory = <<>>
    /\ focus # "wizard" => sids[m1] = 1

\* Of the generations: two pages in either arrangement without a fault, and each in its
\* own browser with one.
BrowserNext ==
    \/ focus = "otp" /\ OtpNext /\ UNCHANGED <<focus, genVars, walkVars, wizardVars>>
    \/ focus = "pages" /\ GenNext /\ faults' = faults /\ UNCHANGED <<focus, otpVars, walkVars, wizardVars>>
    \/ focus = "faults" /\ GenNext /\ UNCHANGED <<focus, otpVars, walkVars, wizardVars>>
    \/ focus = "walk" /\ WalkNext /\ UNCHANGED <<focus, otpVars, genVars, wizardVars>>
    \/ focus = "wizard" /\ WizardNext /\ UNCHANGED <<focus, otpVars, genVars, walkVars>>

BrowserSpec == BrowserInit /\ [][BrowserNext]_<<focus, otpVars, genVars, walkVars, wizardVars>>

\* The windows, pages and browsers of the authenticators and of the generations.
Symmetry == Permutations(Windows) \cup Permutations(Browsers)

(* Everything the four components keep is of its type: credentials and their *)
(* copies, markers and purges, the walk's position, operations and screens.  *)
TypesOK == OtpTypeOK /\ GenTypeOK /\ WalkTypeOK /\ WizardTypeOK
===============================================================================
