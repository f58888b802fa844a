------------------------------ MODULE MCProgress ------------------------------
(***************************************************************************)
(* What has to end, in five components: the desktop exchange, the walk and *)
(* the wizard of a rotation, an import, the trash of attachments.  focus   *)
(* picks the component that moves; each is fair on its own.                *)
(***************************************************************************)
EXTENDS DesktopSignIn, RotationWalk, RotationWizard, VaultImport, NotePromotion, TLC

CONSTANTS a1, m1, r1, f1

VARIABLE focus

progressVars == <<focus, desktopVars, walkVars, wizardVars, importVars, promotionVars>>

MCSeats == {[s \in Screens |-> m1]}
MCOwner == f1 :> r1
I(kind, seal, hollow) == [kind |-> kind, seal |-> seal, hollow |-> hollow]
MCInventories ==
    {<<I("file", 0, FALSE), I("seal", 1, FALSE), I("seal-wrapper", 1, FALSE), I("secret", 0, TRUE)>>}

ProgressInit ==
    /\ focus \in {"desktop", "walk", "wizard", "import", "promotion"}
    /\ DesktopInit /\ WalkInit /\ WizardInit /\ ImportInit /\ PromotionInit
    /\ IF focus = "import" THEN account.key # "other"
                           ELSE account.key = "none" /\ fileRow = [i \in Files |-> "none"]

ProgressNext ==
    \/ focus = "desktop" /\ DesktopNext /\ UNCHANGED <<focus, walkVars, wizardVars, importVars, promotionVars>>
    \/ focus = "walk" /\ WalkNext /\ UNCHANGED <<focus, desktopVars, wizardVars, importVars, promotionVars>>
    \/ focus = "wizard" /\ WizardNext /\ UNCHANGED <<focus, desktopVars, walkVars, importVars, promotionVars>>
    \/ focus = "import" /\ ImportNext /\ UNCHANGED <<focus, desktopVars, walkVars, wizardVars, promotionVars>>
    \/ focus = "promotion" /\ PromotionNext /\ UNCHANGED <<focus, desktopVars, walkVars, wizardVars, importVars>>

(* The server works, the page mounts, and the shell delivers; a walk goes on.  *)
(* In the wizard calls are answered, and the user wants the rotation to end:   *)
(* a button that ends it, offered again and again, is pressed.                 *)
(* The clock runs and the cron runs, a transaction ends, no database fails for *)
(* ever.  A component that rests owes nothing.                                 *)
Fairness ==
    /\ WF_desktopVars(focus = "desktop" /\ ServerStep) /\ WF_desktopVars(focus = "desktop" /\ WindowStep)
    /\ WF_walkVars(focus = "walk" /\ Work)
    /\ \A p \in Screens :
        /\ WF_wizardVars(focus = "wizard" /\ Answer(p)) /\ WF_wizardVars(focus = "wizard" /\ Reads(p))
        /\ WF_wizardVars(focus = "wizard" /\ SignsIn(seats[p]))
        /\ SF_wizardVars(focus = "wizard" /\ Determined(p)) /\ SF_wizardVars(focus = "wizard" /\ Cancel(p))
        /\ SF_wizardVars(focus = "wizard" /\ RevokeAndCancel(p))
    /\ \A i \in Imports :
        WF_importVars(focus = "import" /\ Expire(i)) /\ WF_importVars(focus = "import" /\ CommitClose(i))
    /\ WF_importVars(focus = "import" /\ SweepExpired)
    /\ WF_promotionVars(focus = "promotion" /\ Hour) /\ WF_promotionVars(focus = "promotion" /\ SweepOrphans)
    /\ \A i \in FileIds : WF_promotionVars(focus = "promotion" /\ Purge(i))
    /\ \A n \in Notes, t \in Tiers : WF_promotionVars(focus = "promotion" /\ ReapRow(n, t))

ProgressSpec == ProgressInit /\ [][ProgressNext]_progressVars /\ Fairness

(* The desktop page stops waiting for its exchange; a walk stops; a user who  *)
(* wants to be rid of a rotation is led to the button that cancels it; an     *)
(* import nobody finishes does not block the account for good; and a deleted  *)
(* attachment leaves storage, unless it is brought back.                      *)
EverythingEnds == ExchangesEnd /\ WalksEnd /\ RotationsCanBeEnded /\ UnfinishedImportsEnd /\ TrashIsPurged
===============================================================================
