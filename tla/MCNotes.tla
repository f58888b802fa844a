------------------------------- MODULE MCNotes -------------------------------
(***************************************************************************)
(* Seven components of the notes, each on a small instance: a Seal's key,  *)
(* the promotion of a note with its attachments, drafts, the history, the  *)
(* cached lists, tags, self-destruction.  They share no variable of these  *)
(* models; focus picks the one that moves, the others rest in an initial   *)
(* state.                                                                  *)
(***************************************************************************)
EXTENDS SealNotes, NotePromotion, NoteDrafts, NoteHistory, NoteLists, Tags, SelfDestruct, TLC

CONSTANTS Parts, a1, b1, n1, m1, u1, x1

VARIABLE focus

otherVars == <<promotionVars, draftVars, historyVars, listsVars, tagVars, destructVars>>

\* One browser writes the Seal, and hears of every update.
OneWriter ==
    /\ \A d \in Devices \ {a1} : <<view[d], minted[d], made[d], attached[d], sent[d]>>'
                                    = <<view[d], minted[d], made[d], attached[d], sent[d]>>
    /\ sent[a1] # None /\ sent'[a1] = None => view'[a1] = view[a1]

NotesInit ==
    /\ focus \in Parts
    /\ IF focus = "written" THEN InitWritten ELSE InitHollow
    /\ PromotionInit /\ DraftsInit /\ HistoryInit /\ ListsInit /\ TagsInit /\ DestructInit
    /\ focus # "history" => pageText = 1
    /\ focus # "tags" => noteTags = <<>>
    /\ focus # "destruct" => ~sealed /\ noteRow.exp = Never /\ ~noteRow.burn

NotesNext ==
    \/ focus \in {"written", "hollow"} /\ Next /\ UNCHANGED <<focus, otherVars>>
    \/ focus = "title" /\ Next /\ OneWriter /\ UNCHANGED <<focus, otherVars>>
    \/ focus = "promotion" /\ PromotionNext
         /\ UNCHANGED <<focus, vars, draftVars, historyVars, listsVars, tagVars, destructVars>>
    \/ focus = "drafts" /\ DraftsNext
         /\ UNCHANGED <<focus, vars, promotionVars, historyVars, listsVars, tagVars, destructVars>>
    \/ focus = "history" /\ HistoryNext
         /\ UNCHANGED <<focus, vars, promotionVars, draftVars, listsVars, tagVars, destructVars>>
    \/ focus = "lists" /\ ListsNext
         /\ UNCHANGED <<focus, vars, promotionVars, draftVars, historyVars, tagVars, destructVars>>
    \/ focus = "tags" /\ TagsNext
         /\ UNCHANGED <<focus, vars, promotionVars, draftVars, historyVars, listsVars, destructVars>>
    \/ focus = "destruct" /\ DestructNext
         /\ UNCHANGED <<focus, vars, promotionVars, draftVars, historyVars, listsVars, tagVars>>

NotesSpec == NotesInit /\ [][NotesNext]_<<focus, vars, otherVars>>

\* Two devices of a Seal, two windows with drafts.
Symmetry == Permutations({a1, b1})

(* Everything the components keep is of its type: keys and bodies, rows and  *)
(* files, drafts and saves, versions, lists and writes, tags, timers.        *)
TypesOK ==
    /\ TypeOK /\ PromotionTypeOK /\ DraftsTypeOK /\ HistoryTypeOK
    /\ ListsTypeOK /\ TagsTypeOK /\ DestructTypeOK
===============================================================================
