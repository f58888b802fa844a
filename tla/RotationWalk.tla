----------------------------- MODULE RotationWalk -----------------------------
(***************************************************************************)
(* The browser's walk over a frozen inventory (lib/rotation/engine.ts) with *)
(* its transport (client.ts): pages whose length the byte budget decides,   *)
(* two passes because a Seal's new key sorts after the bodies that need it, *)
(* calls that are repeated when their answer is lost, and a user who pauses  *)
(* it, closes the page and comes back.                                      *)
(***************************************************************************)
EXTENDS Naturals, Sequences, FiniteSets, SequencesExt

CONSTANTS Inventories,  \* the inventories a vault may have, as sequences of items
          Attempts,     \* of one call
          MaxPage,      \* items of one page
          MaxValues,    \* bound: replacements produced
          MaxLosses,    \* bound: answers lost
          MaxWalks      \* bound: walks begun

Order == <<"auth", "file", "seal", "seal-file", "seal-version", "seal-wrapper", "secret", "secret-version">>
Kinds == ToSet(Order)
Rank(k) == CHOOSE r \in DOMAIN Order : Order[r] = k
BodyKinds == {"auth", "file", "secret", "secret-version"}
SealBodyKinds == {"seal", "seal-file", "seal-version"}
FileKinds == {"file", "seal-file"}

\* hollow: there is nothing to encrypt (a tombstone, a Seal never written).
Item == [kind : Kinds, seal : Nat, hollow : BOOLEAN]

\* captureInventory: sorted, and what a Seal's key opens comes with that key.
Sorted(inv) == \A i, j \in DOMAIN inv : i < j => Rank(inv[i].kind) <= Rank(inv[j].kind)
Sound(inv) ==
    \A i \in DOMAIN inv : inv[i].kind \in SealBodyKinds /\ ~inv[i].hollow =>
        \E j \in DOMAIN inv : inv[j].kind = "seal-wrapper" /\ inv[j].seal = inv[i].seal /\ ~inv[j].hollow

ASSUME WalkAssumption ==
    /\ \A inv \in Inventories : inv \in Seq(Item) /\ Sorted(inv) /\ Sound(inv)
    /\ {Attempts, MaxPage} \subseteq Nat \ {0} /\ {MaxValues, MaxLosses, MaxWalks} \subseteq Nat

VARIABLES inventory,
          staged,    \* rotation_items.replacement_digest, 0: none
          checked,   \* rotation_items.verified_digest
          engine,
          paused,    \* the walk's abort signal
          values, losses, walks

walkVars == <<inventory, staged, checked, engine, paused, values, losses, walks>>

Nobody == [at |-> "off", pass |-> 1, after |-> 0, page |-> <<>>, more |-> FALSE, found |-> FALSE, cursor |-> 0,
           keys |-> {}, processed |-> 0, step |-> "none", value |-> 0, tries |-> 0]
Engine == [at : {"off", "page", "item", "done", "failed", "conflict", "nokey", "quiet", "loud"}, pass : 1 .. 2,
           after : Nat, page : Seq(Nat), more : BOOLEAN, found : BOOLEAN, cursor : Nat, keys : SUBSET Nat,
           processed : Nat, step : {"none", "stage", "source", "upload", "finalize", "read", "verify"},
           value : Nat, tries : Nat]
Walking == {"page", "item"}

WalkInit ==
    /\ inventory \in Inventories
    /\ staged = [i \in DOMAIN inventory |-> 0] /\ checked = [i \in DOMAIN inventory |-> 0]
    /\ engine = Nobody /\ paused = FALSE /\ values = 0 /\ losses = 0 /\ walks = 0

-----------------------------------------------------------------------------
(* The walk's own position *)

Total == Len(inventory)
Here == Head(engine.page)
Kind(i) == inventory[i].kind

\* A walk that has stopped is only what it tells.
Ended(how) == engine' = [Nobody EXCEPT !.at = how, !.processed = engine.processed]
ServerVars == <<inventory, staged, checked>>
Counts == <<values, losses, walks>>

StillCounting == [Nobody EXCEPT !.processed = engine.processed]  \* deviation: the counter goes on
StartOver == Nobody

\* process(): everything staged before is found again, nothing is remembered.
BeginWalk ==
    /\ engine.at \notin Walking \cup {"done"} /\ walks < MaxWalks
    /\ engine' = [StartOver EXCEPT !.at = "page"]
    /\ paused' = FALSE /\ walks' = walks + 1
    /\ UNCHANGED <<ServerVars, values, losses>>

Pause ==
    /\ engine.at \in Walking /\ ~paused /\ paused' = TRUE
    /\ UNCHANGED <<ServerVars, engine, Counts>>

\* The page is closed, or the machine goes down.
Crash ==
    /\ engine.at \in Walking /\ engine' = Nobody /\ paused' = FALSE
    /\ UNCHANGED <<ServerVars, Counts>>

PassKinds(pass) == IF pass = 1 THEN BodyKinds \cup {"seal-wrapper"} ELSE SealBodyKinds
OwnsBodies(pass, kind) == kind \in PassKinds(pass) \cup SealBodyKinds  \* deviation: all bodies in the first pass
PassOwns(pass, kind) == kind \in PassKinds(pass)

\* The second pass starts where the Seal range does and stops behind it.
Beyond(e, i) == e.pass = 2 /\ Rank(Kind(i)) > Rank("seal-version")
SealsFromHere(e, i) ==  \* deviation: the cursor is the Seal itself
    IF e.found \/ Kind(i) \notin SealBodyKinds THEN e ELSE [e EXCEPT !.found = TRUE, !.cursor = i]
SealsFrom(e, i) ==
    IF e.found \/ Kind(i) \notin SealBodyKinds THEN e ELSE [e EXCEPT !.found = TRUE, !.cursor = e.after]
Noticed(e, i) == SealsFrom(e, i)

PassOver(e) ==
    IF e.pass = 1 THEN [e EXCEPT !.at = "page", !.pass = 2, !.after = e.cursor, !.page = <<>>]
    ELSE [Nobody EXCEPT !.at = "done", !.processed = e.processed]
PageOver(e) == IF e.more THEN [e EXCEPT !.at = "page"] ELSE PassOver(e)

\* A page ends with the last item that fits; where it ends, the next begins.
FetchPage ==
    /\ engine.at = "page" /\ ~paused
    /\ \E n \in 1 .. MaxPage :
          /\ n <= Total - engine.after \/ (n = 1 /\ engine.after = Total)
          /\ LET last == IF engine.after + n < Total THEN engine.after + n ELSE Total IN
             engine' = [engine EXCEPT !.at = "item", !.page = [k \in 1 .. last - engine.after |-> engine.after + k],
                                      !.more = last < Total, !.tries = 0]
    /\ UNCHANGED <<ServerVars, paused, Counts>>

\* The page is through: the cursor is its last item, skipped or not.
NextPage ==
    /\ engine.at = "item" /\ engine.step = "none" /\ engine.page = <<>>
    /\ engine' = PageOver(engine)
    /\ UNCHANGED <<ServerVars, paused, Counts>>

AdvancedInPlace(e) == [e EXCEPT !.page = Tail(e.page), !.step = "none", !.value = 0, !.tries = 0]  \* deviation: a page skipped moves no cursor
AdvancedOnly(e) == [e EXCEPT !.page = Tail(e.page), !.tries = 0]  \* deviation: the item's step is kept
Advanced(e) == [e EXCEPT !.page = Tail(e.page), !.step = "none", !.value = 0, !.tries = 0,
                         !.after = IF e.more /\ Len(e.page) = 1 THEN Here ELSE e.after]
Skip ==
    /\ engine.at = "item" /\ engine.step = "none" /\ engine.page # <<>> /\ ~paused
    /\ LET e == Noticed(engine, Here) IN
       \/ Beyond(e, Here) /\ engine' = PassOver(e)
       \/ ~Beyond(e, Here) /\ ~PassOwns(e.pass, Kind(Here)) /\ engine' = Advanced(e)
    /\ UNCHANGED <<ServerVars, paused, Counts>>

-----------------------------------------------------------------------------
(* One item *)

SealOf(i) == inventory[i].seal
Plain(i) == Kind(i) \notin SealBodyKinds \/ inventory[i].hollow
KeyAtHand(i) == Plain(i) \/ SealOf(i) \in engine.keys

\* An item that is staged is never encrypted again.
Produces(i) == staged[i] = 0
FirstStep(i) ==
    IF Kind(i) \in FileKinds /\ ~inventory[i].hollow THEN "source" ELSE IF Produces(i) THEN "stage" ELSE "verify"

Start ==
    /\ engine.at = "item" /\ engine.step = "none" /\ engine.page # <<>> /\ ~paused
    /\ LET e == Noticed(engine, Here) IN
       /\ ~Beyond(e, Here) /\ PassOwns(e.pass, Kind(Here))
       /\ IF ~KeyAtHand(Here) THEN Ended("nokey") /\ values' = values
          ELSE /\ engine' = [e EXCEPT !.step = FirstStep(Here), !.tries = 0,
                                      !.value = IF FirstStep(Here) = "stage" THEN values + 1 ELSE 0]
               /\ values' = values + (IF FirstStep(Here) = "stage" THEN 1 ELSE 0) /\ values' <= MaxValues
    /\ UNCHANGED <<ServerVars, paused, losses, walks>>

\* What the server makes of the call: the first value stands.
Stands(i, v) == staged[i] \in {0, v}
Applied(i, step, v) ==
    CASE step \in {"stage", "finalize"} -> [staged EXCEPT ![i] = v]
      [] OTHER -> staged
Acknowledged(i, step) == IF step = "verify" THEN [checked EXCEPT ![i] = staged[i]] ELSE checked

AfterReply(step, i) ==
    CASE step = "source" -> IF Produces(i) THEN "upload" ELSE "read"
      [] step = "upload" -> "finalize"
      [] step = "finalize" -> "read"
      [] OTHER -> "verify"

\* A wrapper that is staged, by this walk or an earlier one, is the Seal's key.
Learns(e, i) ==
    IF Kind(i) = "seal-wrapper" /\ ~inventory[i].hollow THEN [e EXCEPT !.keys = @ \cup {SealOf(i)}] ELSE e
Counted(e) == [e EXCEPT !.processed = @ + 1]

\* Done with the item: only what the server has accepted counts.
Finished(e, i) == [Advanced(Counted(Learns(e, i))) EXCEPT !.after = i]

InCall == engine.at = "item" /\ engine.step # "none"

Call ==
    LET i == Here IN
    LET step == engine.step IN
    /\ InCall /\ ~paused /\ ~(step = "verify" /\ checked[i] # 0)
    /\ IF step \in {"stage", "finalize"} /\ ~Stands(i, engine.value)
       THEN Ended("conflict") /\ UNCHANGED <<staged, checked, values>>
       ELSE /\ staged' = Applied(i, step, engine.value) /\ checked' = Acknowledged(i, step)
            /\ IF step = "verify" THEN engine' = Finished(engine, i) /\ values' = values
               ELSE LET next == AfterReply(step, i) IN
                    /\ engine' = [engine EXCEPT !.step = next, !.tries = 0,
                                                !.value = IF next = "upload" THEN values + 1 ELSE @]
                    /\ values' = values + (IF next = "upload" THEN 1 ELSE 0) /\ values' <= MaxValues
    /\ UNCHANGED <<inventory, paused, losses, walks>>

\* Verified by an earlier walk: counted without a call.
Already ==
    /\ InCall /\ engine.step = "verify" /\ checked[Here] # 0
    /\ engine' = Finished(engine, Here)
    /\ UNCHANGED <<ServerVars, paused, Counts>>

\* The request or its answer is lost, and it is sent again as it was.
Again(e) == [e EXCEPT !.tries = @ + 1]
Reproduced(e) ==  \* deviation: a retry encrypts again
    [e EXCEPT !.tries = @ + 1, !.value = IF e.step \in {"stage", "finalize"} THEN MaxValues + e.tries + 1 ELSE @]
Retried(e) == Again(e)
Lose ==
    LET i == Here IN
    LET step == engine.step IN
    /\ InCall /\ ~paused /\ losses < MaxLosses /\ losses' = losses + 1
    /\ ~(step = "verify" /\ checked[i] # 0)
    /\ \/ UNCHANGED <<staged, checked>>
       \/ /\ ~(step \in {"stage", "finalize"} /\ ~Stands(i, engine.value))
          /\ staged' = Applied(i, step, engine.value) /\ checked' = Acknowledged(i, step)
    /\ IF engine.tries + 1 = Attempts THEN Ended("failed") ELSE engine' = Retried(engine)
    /\ UNCHANGED <<inventory, paused, values, walks>>

\* The signal is looked at before every call.  Between items it stops the walk
\* as itself; within one it is wrapped as that item's failure.
Heeded(e) == IF e.at = "item" /\ e.step # "none" THEN "loud" ELSE "quiet"
Stop ==
    /\ engine.at \in Walking /\ paused
    /\ ~(InCall /\ engine.step = "verify" /\ checked[Here] # 0)
    /\ ~(engine.at = "item" /\ engine.step = "none" /\ engine.page = <<>>)
    /\ Ended(Heeded(engine)) /\ paused' = FALSE
    /\ UNCHANGED <<ServerVars, Counts>>

-----------------------------------------------------------------------------
Work == FetchPage \/ NextPage \/ Skip \/ Start \/ Call \/ Already \/ Stop
WalkNext == BeginWalk \/ Pause \/ Crash \/ Work \/ Lose

WalkSpec == WalkInit /\ [][WalkNext]_walkVars

-----------------------------------------------------------------------------
WalkTypeOK ==
    /\ inventory \in Seq(Item) /\ engine \in Engine /\ paused \in BOOLEAN
    /\ staged \in [1 .. Total -> Nat] /\ checked \in [1 .. Total -> Nat]
    /\ engine.step # "none" => engine.page # <<>>
    /\ engine.after <= Total /\ ToSet(engine.page) \subseteq 1 .. Total

(* A walk that reaches its end has left nothing out: every item is staged and *)
(* what is staged is what was verified - whatever the pages were, and however *)
(* often it was interrupted.                                                 *)
NothingIsLeftOut == engine.at = "done" => \A i \in DOMAIN inventory : staged[i] # 0 /\ checked[i] = staged[i]

(* The counter counts what the server has accepted, each item once.           *)
CountsWhatIsAccepted ==
    /\ engine.processed <= Cardinality({i \in DOMAIN inventory : checked[i] # 0})
    /\ engine.at = "done" => engine.processed = Total

(* No walk finds itself with a Seal's contents and not their key.             *)
KeysComeFirst == engine.at # "nokey"

(* A call that is repeated is the same call: it never meets its own trace as  *)
(* someone else's value.                                                     *)
RetriesAgree == engine.at # "conflict"

(* "labelling it one would imply something went wrong with their data"        *)
(* (wizard.ts:231): a pause is not shown as a failure.                       *)
PausingIsQuiet == engine.at # "loud"

(* A walk ends, unless it is interrupted for ever.                           *)
WalksEnd == engine.at \in Walking ~> engine.at \notin Walking

(* What a walk over the inventory owes: all of it, counted right, keys first, *)
(* and retries that agree with themselves.                                    *)
WalkIsWhole == NothingIsLeftOut /\ CountsWhatIsAccepted /\ KeysComeFirst /\ RetriesAgree
=============================================================================
