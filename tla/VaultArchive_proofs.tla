------------------------- MODULE VaultArchive_proofs -------------------------
(***************************************************************************)
(* The import and the export of an archive, for every number of imports,   *)
(* exports, pages, records, files and edits elsewhere: a commit puts in    *)
(* place exactly the plan its page made of what it saw, on the vault the   *)
(* import was opened for, all at once and once; an import its page gave up *)
(* adds nothing any more; and an archive is the vault of one moment.       *)
(* An archive holds finitely many records and files (ImportAssumption):    *)
(* the commit compares the number of staged rows with the number planned,  *)
(* and the counts decide only for finite sets.                             *)
(***************************************************************************)
EXTENDS VaultImport, VaultExport, FiniteSetTheorems, SequenceTheorems, TLAPS

-----------------------------------------------------------------------------
(* Import: the inductive invariant.                                        *)

\* What an import has before it is begun: nothing.
Empty(row) ==
  /\ row.staged = NoPlan /\ row.pending = {} /\ row.granted = {} /\ row.open = {} /\ row.verified = {}

\* A row stands for no import, or one that knows which vault it was opened for.
RowsAreWhole ==
  \A i \in Imports :
    /\ imports[i].phase = "none" => imports[i] = BlankRow
    /\ imports[i].phase = "review" => Empty(imports[i])
    /\ imports[i].phase # "none" /\ ~imports[i].installs => imports[i].vault.label = "arc"

\* A page and the import it runs belong to each other.
PagesOwnImports ==
  \A p \in Pages :
    /\ pages[p].op # 0 => imports[pages[p].op].owner = p /\ imports[pages[p].op].phase # "none"
    /\ pages[p].phase \in {"choose", "analyzing"} => pages[p].op = 0
    /\ pages[p].phase \notin {"choose", "analyzing"} => pages[p].op # 0
    /\ pages[p].phase \in {"comparing", "comparingFiles", "review", "planned"} => Empty(imports[pages[p].op])
    /\ pages[p].phase \notin {"choose", "analyzing", "committing", "complete"} => imports[pages[p].op].phase # "committed"

\* An import its page gave up is not being committed, and nobody runs it.
CancelledIsOver ==
  \A p \in Pages : pages[p].cancelled # 0 =>
    /\ pages[p].phase = "choose" /\ commits[pages[p].cancelled] = "idle"
    /\ imports[pages[p].cancelled].owner = p
    /\ imports[pages[p].cancelled].phase \in Unfinished \cup {"aborted"}

\* What is staged is what the page planned from what it saw.
Planned(page) == {r \in Records : page.plan[r] # "none"}
Follows(page, row) ==
  /\ \A r \in Records : row.staged[r] # "none" =>
       /\ row.staged[r] = page.plan[r]
       /\ row.staged[r] = "replace" => row.expected[r] = page.seen[r]
  /\ row.records = Cardinality(Planned(page)) /\ row.files = Cardinality(page.uploads)
  /\ row.verified \subseteq row.granted /\ row.granted \subseteq page.uploads
InsertsAreNew(page) == \A r \in Records : page.plan[r] = "insert" => page.seen[r] = Absent

StagingFollowsThePlan ==
  \A p \in Pages :
    /\ pages[p].phase \in {"planned", "staging", "checking", "committing"} => InsertsAreNew(pages[p])
    /\ pages[p].phase \in {"staging", "checking", "committing"} => Follows(pages[p], imports[pages[p].op])

\* A commit is of an import whose page waits for it, or has gone; it holds the
\* account, and has read what that page staged.
CommitsAreWaitedFor ==
  /\ \A i \in Imports, p \in Pages : commits[i] # "idle" /\ pages[p].op = i => pages[p].phase = "committing"
  /\ \A i, j \in Imports : commits[i] = "open" /\ commits[j] = "open" => i = j
  /\ \A i \in Imports : commits[i] # "idle" => imports[i].phase \notin {"none", "review", "staging", "committed"}
  /\ \A i \in Imports : commits[i] = "open" =>
       /\ ~account.rotating /\ (~taken[i].installs => account.key = "arc")
       /\ \A p \in Pages : pages[p].op = i => Follows(pages[p], taken[i])

ImportPlan == RowsAreWhole /\ PagesOwnImports /\ CancelledIsOver /\ StagingFollowsThePlan /\ CommitsAreWaitedFor
ImportInv == ImportTypeOK /\ ImportPlan

-----------------------------------------------------------------------------
(* Import: lemmas about the operators.                                     *)

\* Imports are numbered from one; zero stands for none.
LEMMA ImportNumbers ==
    /\ MaxImports \in Nat /\ MaxEdits \in Nat /\ 0 \notin Imports /\ {0} \cup Imports \subseteq Nat
    /\ Contents \subseteq Nat /\ Absent \in Contents /\ Archived \in Contents /\ 2 \in Contents
    /\ IsFiniteSet(Records) /\ IsFiniteSet(Files)
<1>1. MaxImports \in Nat /\ MaxEdits \in Nat /\ IsFiniteSet(Records) /\ IsFiniteSet(Files) BY ImportAssumption
<1> QED BY <1>1 DEF Imports, Contents, Absent, Archived

\* The rows and pages that stand for nothing are rows and pages.
LEMMA BlanksAreTyped ==
    /\ BlankRow \in ImportRow /\ Empty(BlankRow) /\ BlankRow.phase = "none"
    /\ ClosedPage \in PageRow /\ ClosedPage.op = 0 /\ ClosedPage.phase = "choose" /\ ClosedPage.cancelled = 0 /\ ClosedPage.blocked = FALSE
<1>1. NoPlan \in Plan /\ [r \in Records |-> Absent] \in [Records -> Contents] /\ [f \in Files |-> "none"] \in [Files -> {"none", "same", "other", "deleted"}]
  BY ImportNumbers DEF NoPlan, Plan, Actions
<1> QED BY <1>1, ImportNumbers DEF BlankRow, ImportRow, Empty, NoVault, Unfinished, ClosedPage, PageRow

\* The fields of a row that say what was planned and for which vault.
SamePlan(old, new) ==
  /\ new.owner = old.owner /\ new.vault = old.vault /\ new.installs = old.installs
  /\ new.staged = old.staged /\ new.expected = old.expected /\ new.records = old.records /\ new.files = old.files

\* Time, a cancellation and the cleanup only take away from a row.
Fades(old, new) ==
  \/ new = old
  \/ /\ SamePlan(old, new) /\ old.phase # "none"
     /\ new.phase = old.phase \/ (old.phase \in Unfinished \cup {"aborted"} /\ new.phase = "aborted")
     /\ Empty(old) => Empty(new)
     /\ new.verified \subseteq new.granted /\ new.granted \subseteq old.granted

\* What is left of a row that follows a plan follows it.
LEMMA FadedFollows ==
    ASSUME NEW page, NEW old, NEW new, Fades(old, new), Follows(page, old)
    PROVE  Follows(page, new)
BY DEF Fades, Follows, SamePlan

\* An aborted row is a faded one.
LEMMA AbortedFades ==
    ASSUME NEW row \in ImportRow, row.verified \subseteq row.granted, row.phase \in Unfinished \cup {"aborted"}
    PROVE  LET new == [row EXCEPT !.phase = "aborted"]
           IN  new \in ImportRow /\ new.phase = "aborted" /\ Fades(row, new) /\ new.verified \subseteq new.granted
BY DEF ImportRow, Fades, SamePlan, Empty, Unfinished

\* Marking a row ready changes its phase and nothing else.
LEMMA ReadyRow ==
    ASSUME NEW row \in ImportRow
    PROVE  /\ MarkReady(row) \in ImportRow /\ SamePlan(row, MarkReady(row))
           /\ MarkReady(row).phase = row.phase \/ (row.phase = "staging" /\ MarkReady(row).phase = "ready")
           /\ MarkReady(row).granted = row.granted /\ MarkReady(row).verified = row.verified
<1> DEFINE ready == [row EXCEPT !.phase = "ready"]
<1>1. MarkReady(row) = row \/ (row.phase = "staging" /\ MarkReady(row) = ready) BY DEF MarkReady
<1>2. /\ ready \in ImportRow /\ SamePlan(row, ready) /\ ready.phase = "ready"
      /\ ready.granted = row.granted /\ ready.verified = row.verified BY DEF ImportRow, SamePlan, Unfinished
<1>3. SamePlan(row, row) BY DEF SamePlan
<1> HIDE DEF ready
<1> QED BY <1>1, <1>2, <1>3

-----------------------------------------------------------------------------
(* Import: steps that only take away.                                      *)

\* What a page is left with that has closed, started over, or given up.
Forgotten(p, row) ==
  /\ row.op = 0 /\ row.phase \in {"choose", "analyzing"}
  /\ \/ row.cancelled = 0
     \/ row.cancelled = pages[p].cancelled /\ row.phase = "choose"
     \/ /\ row.cancelled = pages[p].op /\ row.phase = "choose"
        /\ pages[p].phase \in {"planned", "staging", "checking"}

\* Rows that fade and pages that forget keep everything that was agreed.
LEMMA Fading ==
    ASSUME ImportInv, UNCHANGED <<commits, taken>>, account' = account \/ Unlocked,
           \A i \in Imports : Fades(imports[i], imports'[i]),
           \A p \in Pages : pages'[p] = pages[p] \/ Forgotten(p, pages'[p])
    PROVE  ImportPlan'
<1>0. ImportTypeOK /\ RowsAreWhole /\ PagesOwnImports /\ CancelledIsOver /\ StagingFollowsThePlan /\ CommitsAreWaitedFor
  BY DEF ImportInv, ImportPlan
<1>1. \A p \in Pages : pages[p].op \in {0} \cup Imports /\ pages[p].cancelled \in {0} \cup Imports
  BY <1>0 DEF ImportTypeOK, PageRow
<1>2. RowsAreWhole' BY <1>0 DEF RowsAreWhole, Fades, SamePlan, Unfinished
<1>3. PagesOwnImports'
 <2> SUFFICES ASSUME NEW p \in Pages, pages'[p].op # 0
              PROVE  /\ pages'[p] = pages[p] /\ pages[p].op \in Imports
                     /\ imports'[pages[p].op].owner = p /\ imports'[pages[p].op].phase # "none"
                     /\ Empty(imports[pages[p].op]) => Empty(imports'[pages[p].op])
                     /\ imports[pages[p].op].phase # "committed" => imports'[pages[p].op].phase # "committed"
   BY <1>0 DEF PagesOwnImports, Forgotten
 <2>1. pages'[p] = pages[p] /\ pages[p].op \in Imports BY <1>1 DEF Forgotten
 <2>2. Fades(imports[pages[p].op], imports'[pages[p].op]) BY <2>1
 <2> QED BY <1>0, <2>1, <2>2 DEF PagesOwnImports, Fades, SamePlan
<1>4. CancelledIsOver'
 <2> SUFFICES ASSUME NEW p \in Pages, pages'[p].cancelled # 0
              PROVE  /\ pages'[p].phase = "choose" /\ commits[pages'[p].cancelled] = "idle"
                     /\ imports'[pages'[p].cancelled].owner = p
                     /\ imports'[pages'[p].cancelled].phase \in Unfinished \cup {"aborted"} BY DEF CancelledIsOver
 <2>1. CASE pages'[p].cancelled = pages[p].cancelled /\ pages'[p].phase = "choose"
  <3>1. pages[p].cancelled \in Imports BY <1>1, <2>1
  <3> QED BY <1>0, <2>1, <3>1 DEF CancelledIsOver, Fades, SamePlan
 <2>2. CASE pages'[p].cancelled = pages[p].op /\ pages'[p].phase = "choose" /\ pages[p].phase \in {"planned", "staging", "checking"}
  <3>1. pages[p].op \in Imports /\ imports[pages[p].op].phase \notin {"none", "committed"} /\ imports[pages[p].op].owner = p
    BY <1>0, <1>1, <2>2 DEF PagesOwnImports
  <3>2. commits[pages[p].op] = "idle" BY <1>0, <2>2, <3>1 DEF CommitsAreWaitedFor
  <3>3. imports[pages[p].op].phase \in Unfinished \cup {"aborted"} BY <1>0, <3>1 DEF ImportTypeOK, ImportRow
  <3> QED BY <2>2, <3>1, <3>2, <3>3 DEF Fades, SamePlan
 <2>3. pages'[p] = pages[p] => pages'[p].phase = "choose" BY <1>0 DEF CancelledIsOver
 <2> QED BY <2>1, <2>2, <2>3 DEF Forgotten
<1>5. StagingFollowsThePlan'
 <2> SUFFICES ASSUME NEW p \in Pages, pages'[p].phase \in {"planned", "staging", "checking", "committing"}
              PROVE  InsertsAreNew(pages[p])' /\ (pages'[p].phase # "planned" => Follows(pages[p], imports[pages[p].op])')
   BY DEF StagingFollowsThePlan
 <2>1. pages'[p] = pages[p] BY DEF Forgotten
 <2>2. InsertsAreNew(pages[p])' BY <1>0, <2>1 DEF StagingFollowsThePlan, InsertsAreNew
 <2>3. ASSUME pages'[p].phase # "planned" PROVE Follows(pages[p], imports[pages[p].op])'
  <3>1. pages[p].op \in Imports /\ Follows(pages[p], imports[pages[p].op])
    BY <1>0, <1>1, <2>1, <2>3 DEF StagingFollowsThePlan, PagesOwnImports
  <3>2. Follows(pages[p], imports'[pages[p].op]) BY <3>1, FadedFollows
  <3> QED BY <2>1, <3>2 DEF Follows, Planned
 <2> QED BY <2>2, <2>3
<1>6. CommitsAreWaitedFor'
 <2>1. ASSUME NEW i \in Imports, NEW p \in Pages, commits'[i] # "idle", pages'[p].op = i PROVE pages'[p].phase = "committing"
  <3>1. pages'[p] = pages[p] BY <2>1, ImportNumbers DEF Forgotten
  <3> QED BY <1>0, <2>1, <3>1 DEF CommitsAreWaitedFor
 <2>2. ASSUME NEW i \in Imports, commits'[i] # "idle" PROVE imports'[i].phase \notin {"none", "review", "staging", "committed"}
   BY <1>0, <2>2 DEF CommitsAreWaitedFor, Fades
 <2>3. ASSUME NEW i \in Imports, commits'[i] = "open" PROVE account' = account BY <2>3 DEF Unlocked
 <2>4. ASSUME NEW i \in Imports, commits'[i] = "open", NEW p \in Pages, pages'[p].op = i PROVE Follows(pages[p], taken[i])'
  <3>1. pages'[p] = pages[p] BY <2>4, ImportNumbers DEF Forgotten
  <3>2. Follows(pages[p], taken[i]) BY <1>0, <2>4, <3>1 DEF CommitsAreWaitedFor
  <3> QED BY <3>1, <3>2 DEF Follows, Planned
 <2>5. \A i, j \in Imports : commits'[i] = "open" /\ commits'[j] = "open" => i = j BY <1>0 DEF CommitsAreWaitedFor
 <2>6. \A i \in Imports : commits'[i] = "open" => ~account'.rotating /\ (~taken'[i].installs => account'.key = "arc")
   BY <1>0, <2>3 DEF CommitsAreWaitedFor
 <2> QED BY <2>1, <2>2, <2>4, <2>5, <2>6 DEF CommitsAreWaitedFor
<1> QED BY <1>2, <1>3, <1>4, <1>5, <1>6 DEF ImportPlan

\* The types of rows that fade and pages that forget.
RowsFade ==
  /\ imports' \in [Imports -> ImportRow]
  /\ \A i \in Imports : imports'[i].verified \subseteq imports'[i].granted /\ Fades(imports[i], imports'[i])
PagesForget ==
  /\ pages' \in [Pages -> PageRow]
  /\ \A p \in Pages : pages'[p] = pages[p] \/ Forgotten(p, pages'[p])

\* Rows that stay fade.
LEMMA StayingFades == ImportInv /\ imports' = imports => RowsFade
BY DEF ImportInv, ImportTypeOK, RowsFade, Fades

\* A request to cancel aborts the import of its page, or gets lost.
LEMMA AbortingIsFading ==
    ASSUME ImportInv, NEW p \in Pages, imports' \in {Aborting(p, imports), imports}
    PROVE  RowsFade
<1> DEFINE i == pages[p].op
<1>0. ImportTypeOK BY DEF ImportInv
<1>1. CASE imports' = imports BY <1>1, StayingFades
<1>2. CASE i # 0 /\ Owned(p, i, Unfinished \cup {"aborted"}) /\ imports' = [imports EXCEPT ![i].phase = "aborted"]
 <2>1. i \in Imports /\ imports[i] \in ImportRow /\ imports[i].verified \subseteq imports[i].granted
   BY <1>0, <1>2 DEF ImportTypeOK, PageRow
 <2>2. imports[i].phase \in Unfinished \cup {"aborted"} BY <1>2 DEF Owned
 <2>3. \A j \in Imports : imports'[j] = IF j = i THEN [imports[i] EXCEPT !.phase = "aborted"] ELSE imports[j]
   BY <1>0, <1>2, <2>1 DEF ImportTypeOK
 <2>4. imports' \in [Imports -> ImportRow] BY <1>0, <1>2, <2>1, <2>2, AbortedFades DEF ImportTypeOK
 <2> HIDE DEF i
 <2>5. \A j \in Imports : imports'[j].verified \subseteq imports'[j].granted /\ Fades(imports[j], imports'[j])
  <3> SUFFICES ASSUME NEW j \in Imports PROVE imports'[j].verified \subseteq imports'[j].granted /\ Fades(imports[j], imports'[j])
    OBVIOUS
  <3>1. CASE j = i BY <2>1, <2>2, <2>3, <3>1, AbortedFades
  <3>2. CASE j # i BY <1>0, <2>3, <3>2 DEF Fades, ImportTypeOK
  <3> QED BY <3>1, <3>2
 <2> QED BY <2>4, <2>5 DEF RowsFade
<1> QED BY <1>1, <1>2 DEF Aborting

\* A page whose row is that of a closed one, but for a note of what became of it.
LEMMA ClosingIsForgetting ==
    ASSUME ImportInv, NEW p \in Pages, NEW ph \in {"choose", "analyzing"}, NEW b \in BOOLEAN, NEW c,
           SetPage(p, [ClosedPage EXCEPT !.phase = ph, !.blocked = b, !.cancelled = c]),
           \/ c = 0
           \/ ph = "choose" /\ c = pages[p].cancelled
           \/ ph = "choose" /\ c = pages[p].op /\ pages[p].phase \in {"planned", "staging", "checking"}
    PROVE  PagesForget
<1> DEFINE row == [ClosedPage EXCEPT !.phase = ph, !.blocked = b, !.cancelled = c]
<1>0. pages \in [Pages -> PageRow] BY DEF ImportInv, ImportTypeOK
<1>1. c \in {0} \cup Imports BY <1>0 DEF PageRow
<1>2. row \in PageRow /\ row.op = 0 /\ row.phase = ph /\ row.cancelled = c BY <1>1, BlanksAreTyped DEF PageRow
<1>3. pages' = [pages EXCEPT ![p] = row] BY DEF SetPage
<1> HIDE DEF row
<1>4. pages' \in [Pages -> PageRow] /\ pages'[p] = row /\ \A q \in Pages : q # p => pages'[q] = pages[q] BY <1>0, <1>2, <1>3
<1>5. Forgotten(p, row) BY <1>2 DEF Forgotten
<1> QED BY <1>4, <1>5 DEF PagesForget

\* Rows fade and pages forget while the rest of the server stands.
LEMMA FadingStep ==
    ASSUME ImportInv, RowsFade, PagesForget, VaultRests, UNCHANGED <<commits, taken>>,
           bucket' \in [Imports \X Files -> {"none", "good", "bad"}]
    PROVE  ImportInv'
<1>1. ImportPlan' BY Fading DEF RowsFade, PagesForget, VaultRests
<1>2. ImportTypeOK' BY DEF RowsFade, PagesForget, VaultRests, ImportInv, ImportTypeOK
<1> QED BY <1>1, <1>2 DEF ImportInv

\* A page gives up, closes, or starts over.
LEMMA AwayStep ==
    ASSUME ImportInv, NEW p \in Pages,
           Reset(p) \/ CancelImport(p) \/ LeavePage(p) \/ DiscardUnfinished(p) \/ OpenArchive(p) \/ ReviewAgain(p)
    PROVE  ImportInv'
<1>0. bucket \in [Imports \X Files -> {"none", "good", "bad"}] /\ ImportTypeOK BY DEF ImportInv, ImportTypeOK
<1>a. ClosedPage = [ClosedPage EXCEPT !.phase = "choose", !.blocked = FALSE, !.cancelled = 0] BY BlanksAreTyped DEF PageRow
<1>b. \A c : [ClosedPage EXCEPT !.cancelled = c] = [ClosedPage EXCEPT !.phase = "choose", !.blocked = FALSE, !.cancelled = c]
  BY BlanksAreTyped DEF PageRow
<1>c. [ClosedPage EXCEPT !.phase = "analyzing"] = [ClosedPage EXCEPT !.phase = "analyzing", !.blocked = FALSE, !.cancelled = 0]
  BY BlanksAreTyped DEF PageRow
<1>1. CASE Reset(p)
 <2>1. SetPage(p, [ClosedPage EXCEPT !.phase = "choose", !.blocked = FALSE, !.cancelled = pages[p].cancelled])
   BY <1>1, <1>b DEF Reset, Closed
 <2>2. PagesForget BY <2>1, ClosingIsForgetting
 <2>3. RowsFade /\ VaultRests /\ UNCHANGED <<bucket, commits, taken>> BY <1>1, AbortingIsFading DEF Reset
 <2> QED BY <1>0, <2>2, <2>3, FadingStep
<1>2. CASE CancelImport(p)
 <2>1. SetPage(p, [ClosedPage EXCEPT !.phase = "choose", !.blocked = FALSE, !.cancelled = pages[p].op])
   BY <1>2, <1>b DEF CancelImport
 <2>2. PagesForget BY <1>2, <2>1, ClosingIsForgetting DEF CancelImport
 <2>3. RowsFade /\ VaultRests /\ UNCHANGED <<bucket, commits, taken>> BY <1>2, AbortingIsFading DEF CancelImport
 <2> QED BY <1>0, <2>2, <2>3, FadingStep
<1>3. CASE LeavePage(p)
 <2>1. SetPage(p, [ClosedPage EXCEPT !.phase = "choose", !.blocked = FALSE, !.cancelled = 0]) BY <1>3, <1>a DEF LeavePage
 <2>2. PagesForget BY <2>1, ClosingIsForgetting
 <2>3. RowsFade /\ VaultRests /\ UNCHANGED <<bucket, commits, taken>> BY <1>3, AbortingIsFading DEF LeavePage
 <2> QED BY <1>0, <2>2, <2>3, FadingStep
<1>4. CASE OpenArchive(p) \/ ReviewAgain(p) \/ DiscardUnfinished(p)
 <2>1. SetPage(p, [ClosedPage EXCEPT !.phase = "analyzing", !.blocked = FALSE, !.cancelled = 0])
   BY <1>4, <1>c DEF OpenArchive, ReviewAgain, DiscardUnfinished
 <2>2. PagesForget BY <2>1, ClosingIsForgetting
 <2>3. VaultRests /\ UNCHANGED <<bucket, commits, taken>>
   BY <1>4 DEF OpenArchive, ReviewAgain, DiscardUnfinished, ServerRests, VaultRests
 <2>4. RowsFade
  <3>1. CASE OpenArchive(p) BY <3>1, StayingFades DEF OpenArchive, ServerRests
  <3>2. CASE ReviewAgain(p) BY <3>2, AbortingIsFading DEF ReviewAgain
  <3>3. CASE DiscardUnfinished(p)
   <4>1. imports' = [i \in Imports |-> IF imports[i].phase \in Unfinished THEN [imports[i] EXCEPT !.phase = "aborted"] ELSE imports[i]]
     BY <3>3 DEF DiscardUnfinished
   <4>2. ASSUME NEW i \in Imports
         PROVE  imports'[i] \in ImportRow /\ imports'[i].verified \subseteq imports'[i].granted /\ Fades(imports[i], imports'[i])
    <5>1. imports[i] \in ImportRow /\ imports[i].verified \subseteq imports[i].granted BY <1>0 DEF ImportTypeOK
    <5>2. CASE imports[i].phase \in Unfinished BY <4>1, <5>1, <5>2, AbortedFades
    <5>3. CASE imports[i].phase \notin Unfinished BY <4>1, <5>1, <5>3 DEF Fades
    <5> QED BY <5>2, <5>3
   <4> QED BY <4>1, <4>2 DEF RowsFade
  <3> QED BY <1>4, <3>1, <3>2, <3>3
 <2> QED BY <1>0, <2>2, <2>3, <2>4, FadingStep
<1> QED BY <1>1, <1>2, <1>3, <1>4

\* Pages nobody touches forget nothing.
LEMMA StayingForgets == ImportInv /\ pages' = pages => PagesForget
BY DEF ImportInv, ImportTypeOK, PagesForget

\* One row that fades.
LEMMA OneRowFades ==
    ASSUME ImportInv, NEW i \in Imports, NEW row \in ImportRow, row.verified \subseteq row.granted,
           Fades(imports[i], row), SetImport(i, row)
    PROVE  RowsFade
<1>1. imports' = [imports EXCEPT ![i] = row] /\ imports \in [Imports -> ImportRow] BY DEF SetImport, ImportInv, ImportTypeOK
<1>2. \A j \in Imports : imports'[j] = IF j = i THEN row ELSE imports[j] BY <1>1
<1>3. \A j \in Imports : imports[j].verified \subseteq imports[j].granted BY DEF ImportInv, ImportTypeOK
<1> QED BY <1>1, <1>2, <1>3 DEF RowsFade, Fades

\* Time runs out, and the cleanup takes what is left behind.
LEMMA FadeStep ==
    ASSUME ImportInv, Time \/ SweepExpired \/ (\E i \in Imports, f \in Files : SweepObject(i, f))
    PROVE  ImportInv'
<1>0. ImportTypeOK /\ RowsAreWhole BY DEF ImportInv, ImportPlan
<1>1. bucket' \in [Imports \X Files -> {"none", "good", "bad"}] /\ VaultRests /\ UNCHANGED <<commits, taken, pages>>
 <2>0. bucket \in [Imports \X Files -> {"none", "good", "bad"}] BY <1>0 DEF ImportTypeOK
 <2>1. CASE Time BY <2>0, <2>1 DEF Time, Expire, GraceOver
 <2>2. CASE SweepExpired BY <2>0, <2>2 DEF SweepExpired
 <2>3. ASSUME NEW i \in Imports, NEW f \in Files, SweepObject(i, f)
       PROVE  bucket' \in [Imports \X Files -> {"none", "good", "bad"}] /\ VaultRests /\ UNCHANGED <<commits, taken, pages>>
   BY <2>0, <2>3 DEF SweepObject
 <2> QED BY <2>1, <2>2, <2>3
<1>2. \A j \in Imports : imports[j] \in ImportRow /\ imports[j].verified \subseteq imports[j].granted BY <1>0 DEF ImportTypeOK
<1>3. ASSUME NEW i \in Imports, Expire(i) PROVE ImportInv'
 <2> DEFINE row == [imports[i] EXCEPT !.expired = TRUE]
 <2>a. imports[i] \in ImportRow /\ imports[i].verified \subseteq imports[i].granted /\ imports[i].phase \in Unfinished
   BY <1>2, <1>3 DEF Expire
 <2>b. /\ row \in ImportRow /\ SamePlan(imports[i], row) /\ row.phase = imports[i].phase
       /\ row.pending = imports[i].pending /\ row.open = imports[i].open
       /\ row.granted = imports[i].granted /\ row.verified = imports[i].verified BY <2>a DEF ImportRow, SamePlan
 <2>1. row \in ImportRow /\ row.verified \subseteq row.granted /\ Fades(imports[i], row)
   BY <2>a, <2>b DEF Fades, SamePlan, Empty, Unfinished
 <2>2. SetImport(i, row) BY <1>3 DEF Expire
 <2> QED BY <1>1, <2>1, <2>2, OneRowFades, StayingForgets, FadingStep
<1>4. ASSUME NEW i \in Imports, NEW f \in Files, GraceOver(i, f) PROVE ImportInv'
 <2> DEFINE row == [imports[i] EXCEPT !.open = @ \ {f}]
 <2>1. imports[i].phase # "none" BY <1>0, <1>4, BlanksAreTyped DEF GraceOver, RowsAreWhole, Empty
 <2>2. row \in ImportRow /\ row.verified \subseteq row.granted /\ Fades(imports[i], row)
   BY <1>2, <2>1 DEF ImportRow, Fades, SamePlan, Empty
 <2>3. SetImport(i, row) BY <1>4 DEF GraceOver
 <2> QED BY <1>1, <2>2, <2>3, OneRowFades, StayingForgets, FadingStep
<1>5. ASSUME NEW i \in Imports, NEW f \in Files, SweepObject(i, f) PROVE ImportInv'
 <2> DEFINE row == [imports[i] EXCEPT !.granted = @ \ {f}, !.verified = @ \ {f}]
 <2>1. imports[i].phase # "none" BY <1>5 DEF SweepObject, Due
 <2>a. imports[i] \in ImportRow /\ imports[i].verified \subseteq imports[i].granted BY <1>2
 <2>b. /\ row \in ImportRow /\ SamePlan(imports[i], row) /\ row.phase = imports[i].phase
       /\ row.pending = imports[i].pending /\ row.open = imports[i].open
       /\ row.granted = imports[i].granted \ {f} /\ row.verified = imports[i].verified \ {f} BY <2>a DEF ImportRow, SamePlan
 <2> HIDE DEF row
 <2>c. Empty(imports[i]) => Empty(row) BY <2>b DEF Empty, SamePlan
 <2>2. row \in ImportRow /\ row.verified \subseteq row.granted /\ Fades(imports[i], row) BY <2>1, <2>a, <2>b, <2>c DEF Fades
 <2> USE DEF row
 <2>3. SetImport(i, row) BY <1>5 DEF SweepObject
 <2> QED BY <1>1, <2>2, <2>3, OneRowFades, StayingForgets, FadingStep
<1>6. CASE SweepExpired
 <2>1. imports' = [j \in Imports |-> IF imports[j].expired /\ imports[j].phase \in Unfinished
                                     THEN [imports[j] EXCEPT !.phase = "aborted"] ELSE imports[j]]
   BY <1>6 DEF SweepExpired, Swept
 <2>2. ASSUME NEW j \in Imports
       PROVE  imports'[j] \in ImportRow /\ imports'[j].verified \subseteq imports'[j].granted /\ Fades(imports[j], imports'[j])
  <3>1. imports[j] \in ImportRow /\ imports[j].verified \subseteq imports[j].granted BY <1>2
  <3>2. CASE imports[j].expired /\ imports[j].phase \in Unfinished BY <2>1, <3>1, <3>2, AbortedFades
  <3>3. CASE ~(imports[j].expired /\ imports[j].phase \in Unfinished) BY <2>1, <3>1, <3>3 DEF Fades
  <3> QED BY <3>2, <3>3
 <2>3. RowsFade BY <2>1, <2>2 DEF RowsFade
 <2> QED BY <1>1, <2>3, StayingForgets, FadingStep
<1> QED BY <1>3, <1>4, <1>5, <1>6 DEF Time

\* Uploads land, and the rest of the program writes to the account.
LEMMA WorldStep == ASSUME ImportInv, Put \/ Elsewhere PROVE ImportInv'
<1>0. ImportTypeOK BY DEF ImportInv
<1>1. UNCHANGED <<imports, commits, taken, pages>> /\ (account' = account \/ Unlocked)
  BY DEF Put, Elsewhere, PutLands, EditRecord, PurgeRecord, ReleaseFile, ChangeKey
<1>2. RowsFade /\ PagesForget BY <1>1, StayingFades, StayingForgets
<1>3. ImportPlan' BY <1>1, <1>2, Fading DEF RowsFade, PagesForget
<1>4. ImportTypeOK'
 <2>1. CASE Put BY <1>0, <2>1 DEF Put, PutLands, ImportTypeOK
 <2>2. CASE ChangeKey
  <3>1. account' \in [generation : Nat, rotating : BOOLEAN, id : Nat, key : {"none", "arc", "other"}, labelled : BOOLEAN]
   <4>1. account \in [generation : Nat, rotating : BOOLEAN, id : Nat, key : {"none", "arc", "other"}, labelled : BOOLEAN]
     BY <1>0 DEF ImportTypeOK
   <4> QED
    <5> DEFINE T == [generation : Nat, rotating : BOOLEAN, id : Nat, key : {"none", "arc", "other"}, labelled : BOOLEAN]
    <5>1. /\ [account EXCEPT !.id = 1, !.key = "other", !.labelled = TRUE] \in T
          /\ [account EXCEPT !.labelled = TRUE] \in T /\ [account EXCEPT !.id = 0, !.key = "none", !.labelled = FALSE] \in T
          /\ [account EXCEPT !.rotating = TRUE] \in T /\ [account EXCEPT !.rotating = FALSE] \in T BY <4>1
    <5>2. [account EXCEPT !.rotating = FALSE, !.generation = @ + 1, !.key = "other", !.labelled = TRUE] \in T
     <6>1. account.generation + 1 \in Nat BY <4>1
     <6>2. \A n \in Nat : [account EXCEPT !.rotating = FALSE, !.generation = n, !.key = "other", !.labelled = TRUE] \in T
       BY <4>1
     <6> QED BY <6>1, <6>2
    <5> QED BY <2>2, <5>1, <5>2 DEF ChangeKey
  <3> QED BY <1>0, <2>2, <3>1 DEF ChangeKey, ImportTypeOK
 <2>3. ASSUME NEW r \in Records, EditRecord(r) \/ PurgeRecord(r) PROVE ImportTypeOK'
  <3>1. NextText \in Contents /\ edits' \in 0 .. MaxEdits
    BY <1>0, <2>3, ImportNumbers DEF EditRecord, PurgeRecord, CanWrite, NextText, Contents, ImportTypeOK
  <3>2. content' \in [Records -> Contents] /\ fileRow' \in [Files -> {"none", "same", "other", "deleted"}]
    BY <1>0, <2>3, <3>1, ImportNumbers DEF EditRecord, PurgeRecord, ImportTypeOK
  <3> QED BY <1>0, <2>3, <3>1, <3>2 DEF EditRecord, PurgeRecord, ImportTypeOK
 <2>4. ASSUME NEW f \in Files, ReleaseFile(f) PROVE ImportTypeOK' BY <1>0, <2>4 DEF ReleaseFile, ImportTypeOK
 <2> QED BY <2>1, <2>2, <2>3, <2>4 DEF Elsewhere
<1> QED BY <1>3, <1>4 DEF ImportInv

-----------------------------------------------------------------------------
(* Import: steps of a page that runs one.                                  *)

\* What a step of a page may leave in its own row and in the row of its import.
GoesTogether(page, row) ==
  /\ page \in PageRow /\ page.cancelled = 0 /\ page.phase \notin {"choose", "analyzing"}
  /\ row \in ImportRow /\ row.verified \subseteq row.granted /\ row.phase # "none"
  /\ row.phase = "review" => Empty(row)
  /\ page.phase \in {"comparing", "comparingFiles", "review", "planned"} => Empty(row)
  /\ page.phase \notin {"committing", "complete"} => row.phase # "committed"
  /\ page.phase \in {"planned", "staging", "checking", "committing"} => InsertsAreNew(page)
  /\ page.phase \in {"staging", "checking", "committing"} => Follows(page, row)

\* Nobody else runs, or gave up, the import of a page.
LEMMA OwnersDiffer ==
    ASSUME ImportInv, NEW p \in Pages, NEW q \in Pages, p # q, pages[p].op # 0
    PROVE  pages[p].op \in Imports /\ pages[q].op # pages[p].op /\ pages[q].cancelled # pages[p].op
<1>1. PagesOwnImports /\ CancelledIsOver /\ pages[p].op \in Imports BY DEF ImportInv, ImportPlan, ImportTypeOK, PageRow
<1> QED BY <1>1 DEF PagesOwnImports, CancelledIsOver

\* A page and its import move together, and hand over at most to a commit.
LEMMA OwnStep ==
    ASSUME ImportInv, NEW p \in Pages, NEW i \in Imports, i = pages[p].op, NEW page, NEW row, NEW c \in {"idle", "checked"},
           SetPage(p, page), page.op = i, SetImport(i, row), GoesTogether(page, row),
           row.owner = p, row.installs = imports[i].installs, row.vault = imports[i].vault,
           commits[i] = "idle", commits' = [commits EXCEPT ![i] = c],
           c = "checked" => page.phase = "committing" /\ row.phase = "ready",
           VaultRests, UNCHANGED <<bucket, taken>>
    PROVE  ImportInv'
<1>0. ImportTypeOK /\ RowsAreWhole /\ PagesOwnImports /\ CancelledIsOver /\ StagingFollowsThePlan /\ CommitsAreWaitedFor
  BY DEF ImportInv, ImportPlan
<1>1. /\ pages' = [pages EXCEPT ![p] = page] /\ imports' = [imports EXCEPT ![i] = row]
      /\ page \in PageRow /\ row \in ImportRow BY DEF SetPage, SetImport, GoesTogether
<1>2. /\ pages'[p] = page /\ \A q \in Pages : q # p => pages'[q] = pages[q]
      /\ imports'[i] = row /\ \A j \in Imports : j # i => imports'[j] = imports[j]
      /\ commits'[i] = c /\ \A j \in Imports : j # i => commits'[j] = commits[j] BY <1>0, <1>1 DEF ImportTypeOK
<1>3. ImportTypeOK'
 <2>1. \A j \in Imports : imports'[j].verified \subseteq imports'[j].granted BY <1>0, <1>2 DEF ImportTypeOK, GoesTogether
 <2>2. imports' \in [Imports -> ImportRow] /\ pages' \in [Pages -> PageRow] /\ commits' \in [Imports -> {"idle", "checked", "open"}]
   BY <1>0, <1>1 DEF ImportTypeOK
 <2> QED BY <1>0, <2>1, <2>2 DEF ImportTypeOK, VaultRests
<1>4. i # 0 /\ \A q \in Pages : q # p => pages[q].op # i /\ pages[q].cancelled # i BY OwnersDiffer, ImportNumbers
<1>5. \A q \in Pages : pages[q].op \in {0} \cup Imports /\ pages[q].cancelled \in {0} \cup Imports
  BY <1>0 DEF ImportTypeOK, PageRow
<1>6. RowsAreWhole'
 <2>1. imports[i].phase # "none" BY <1>0, <1>4 DEF PagesOwnImports
 <2>2. /\ row.phase # "none" /\ (row.phase = "review" => Empty(row)) /\ (~row.installs => row.vault.label = "arc")
   BY <1>0, <2>1 DEF GoesTogether, RowsAreWhole
 <2> QED BY <1>0, <1>2, <2>2 DEF RowsAreWhole
<1>7. PagesOwnImports'
 <2> SUFFICES ASSUME NEW q \in Pages
              PROVE  /\ pages'[q].op # 0 => imports'[pages'[q].op].owner = q /\ imports'[pages'[q].op].phase # "none"
                     /\ pages'[q].phase \in {"choose", "analyzing"} => pages'[q].op = 0
                     /\ pages'[q].phase \notin {"choose", "analyzing"} => pages'[q].op # 0
                     /\ pages'[q].phase \in {"comparing", "comparingFiles", "review", "planned"} => Empty(imports'[pages'[q].op])
                     /\ pages'[q].phase \notin {"choose", "analyzing", "committing", "complete"}
                           => imports'[pages'[q].op].phase # "committed" BY DEF PagesOwnImports, Empty
 <2>1. CASE q = p BY <1>2, <1>4, <2>1 DEF GoesTogether
 <2>2. CASE q # p
  <3>1. pages'[q] = pages[q] /\ (pages[q].op # 0 => imports'[pages[q].op] = imports[pages[q].op]) BY <1>2, <1>4, <1>5, <2>2
  <3> QED BY <1>0, <3>1 DEF PagesOwnImports
 <2> QED BY <2>1, <2>2
<1>8. CancelledIsOver'
 <2> SUFFICES ASSUME NEW q \in Pages, pages'[q].cancelled # 0
              PROVE  /\ pages'[q].phase = "choose" /\ commits'[pages'[q].cancelled] = "idle"
                     /\ imports'[pages'[q].cancelled].owner = q
                     /\ imports'[pages'[q].cancelled].phase \in Unfinished \cup {"aborted"} BY DEF CancelledIsOver
 <2>1. q # p /\ pages'[q] = pages[q] /\ pages[q].cancelled \in Imports /\ pages[q].cancelled # i
   BY <1>2, <1>4, <1>5 DEF GoesTogether
 <2> QED BY <1>0, <1>2, <2>1 DEF CancelledIsOver
<1>9. StagingFollowsThePlan'
 <2> SUFFICES ASSUME NEW q \in Pages
              PROVE  /\ pages'[q].phase \in {"planned", "staging", "checking", "committing"} => InsertsAreNew(pages'[q])
                     /\ pages'[q].phase \in {"staging", "checking", "committing"} => Follows(pages'[q], imports'[pages'[q].op])
   BY DEF StagingFollowsThePlan, InsertsAreNew, Follows, Planned
 <2>1. CASE q = p BY <1>2, <2>1 DEF GoesTogether
 <2>2. CASE q # p
  <3>1. pages'[q] = pages[q] /\ (pages[q].op # 0 => imports'[pages[q].op] = imports[pages[q].op]) BY <1>2, <1>4, <1>5, <2>2
  <3> QED BY <1>0, <3>1 DEF StagingFollowsThePlan, PagesOwnImports
 <2> QED BY <2>1, <2>2
<1>10. CommitsAreWaitedFor'
 <2>1. ASSUME NEW j \in Imports, NEW q \in Pages, commits'[j] # "idle", pages'[q].op = j PROVE pages'[q].phase = "committing"
  <3>1. CASE j = i BY <1>2, <1>4, <2>1, <3>1
  <3>2. CASE j # i BY <1>0, <1>2, <2>1, <3>2 DEF CommitsAreWaitedFor
  <3> QED BY <3>1, <3>2
 <2>2. ASSUME NEW j \in Imports, commits'[j] # "idle" PROVE imports'[j].phase \notin {"none", "review", "staging", "committed"}
   BY <1>0, <1>2, <2>2 DEF CommitsAreWaitedFor
 <2>3. \A j \in Imports : commits'[j] = "open" => j # i /\ commits[j] = "open" BY <1>2
 <2>4. ASSUME NEW j \in Imports, commits'[j] = "open", NEW q \in Pages, pages'[q].op = j PROVE Follows(pages'[q], taken[j])
  <3>1. pages'[q] = pages[q] BY <1>2, <2>3, <2>4
  <3> QED BY <1>0, <2>3, <2>4, <3>1 DEF CommitsAreWaitedFor
 <2>5. \A j \in Imports, q \in Pages : commits'[j] = "open" /\ pages'[q].op = j => Follows(pages[q], taken[j])'
   BY <2>4 DEF Follows, Planned
 <2>6. \A j \in Imports : commits'[j] = "open" => ~account'.rotating /\ (~taken'[j].installs => account'.key = "arc")
   BY <1>0, <2>3 DEF CommitsAreWaitedFor, VaultRests
 <2>7. \A j, k \in Imports : commits'[j] = "open" /\ commits'[k] = "open" => j = k BY <1>0, <2>3 DEF CommitsAreWaitedFor
 <2> QED BY <2>1, <2>2, <2>5, <2>6, <2>7 DEF CommitsAreWaitedFor
<1> QED BY <1>3, <1>6, <1>7, <1>8, <1>9, <1>10 DEF ImportInv, ImportPlan

\* A page that runs an import has one, and they go together.
LEMMA RunningPage ==
    ASSUME ImportInv, NEW p \in Pages, pages[p].phase \notin {"choose", "analyzing"}
    PROVE  /\ pages[p].op \in Imports /\ pages[p] \in PageRow /\ imports[pages[p].op] \in ImportRow
           /\ imports[pages[p].op].owner = p /\ (pages[p].phase # "complete" => GoesTogether(pages[p], imports[pages[p].op]))
           /\ pages[p].phase # "committing" => commits[pages[p].op] = "idle"
<1>0. ImportTypeOK /\ RowsAreWhole /\ PagesOwnImports /\ CancelledIsOver /\ StagingFollowsThePlan /\ CommitsAreWaitedFor
  BY DEF ImportInv, ImportPlan
<1>1. pages[p].op \in Imports /\ pages[p] \in PageRow /\ pages[p].op # 0 BY <1>0 DEF ImportTypeOK, PageRow, PagesOwnImports
<1>2. imports[pages[p].op] \in ImportRow /\ imports[pages[p].op].verified \subseteq imports[pages[p].op].granted
  BY <1>0, <1>1 DEF ImportTypeOK
<1>3. imports[pages[p].op].owner = p /\ imports[pages[p].op].phase # "none" BY <1>0, <1>1 DEF PagesOwnImports
<1>4. pages[p].cancelled = 0 BY <1>0 DEF CancelledIsOver
<1>5. pages[p].phase # "complete" => GoesTogether(pages[p], imports[pages[p].op])
  BY <1>0, <1>1, <1>2, <1>3, <1>4 DEF GoesTogether, RowsAreWhole, PagesOwnImports, StagingFollowsThePlan
<1>6. pages[p].phase # "committing" => commits[pages[p].op] = "idle" BY <1>0, <1>1 DEF CommitsAreWaitedFor
<1> QED BY <1>1, <1>2, <1>3, <1>5, <1>6

\* The row, the page or the commit a step leaves alone.
LEMMA UntouchedRows ==
    ASSUME ImportInv, NEW p \in Pages, NEW i \in Imports
    PROVE  /\ imports' = imports => SetImport(i, imports[i])
           /\ pages' = pages => SetPage(p, pages[p])
           /\ commits' = commits /\ commits[i] = "idle" => commits' = [commits EXCEPT ![i] = "idle"]
BY DEF ImportInv, ImportTypeOK, SetImport, SetPage

\* Comparing, and what the user decides.
LEMMA ReviewStep ==
    ASSUME ImportInv, NEW p \in Pages, Compare(p) \/ CompareFiles(p) \/ Decide(p)
    PROVE  ImportInv'
<1> DEFINE i == pages[p].op
<1>0. ImportTypeOK BY DEF ImportInv
<1>1. pages[p].phase \in {"comparing", "comparingFiles", "review"} /\ ServerRests BY DEF Compare, CompareFiles, Decide
<1>2. /\ i \in Imports /\ pages[p] \in PageRow /\ imports[i] \in ImportRow /\ imports[i].owner = p
      /\ GoesTogether(pages[p], imports[i]) /\ commits[i] = "idle" BY <1>1, RunningPage
<1>3. SetImport(i, imports[i]) /\ commits' = [commits EXCEPT ![i] = "idle"] /\ VaultRests /\ UNCHANGED <<bucket, taken>>
  BY <1>1, <1>2, UntouchedRows DEF ServerRests, VaultRests
<1>4. Empty(imports[i]) /\ imports[i].phase \notin {"none", "committed"} /\ pages[p].cancelled = 0
  BY <1>1, <1>2 DEF GoesTogether
<1>5. ASSUME NEW page \in PageRow, page.cancelled = 0, page.op = i, SetPage(p, page),
             page.phase \in {"comparingFiles", "review", "planned"}, page.phase = "planned" => InsertsAreNew(page)
      PROVE  ImportInv'
 <2>1. GoesTogether(page, imports[i]) BY <1>2, <1>4, <1>5 DEF GoesTogether
 <2> HIDE DEF i
 <2> QED BY <1>2, <1>3, <1>5, <2>1, OwnStep DEF i
<1>6. CASE Compare(p)
 <2> DEFINE page == [pages[p] EXCEPT !.phase = "comparingFiles", !.seen = content]
 <2>1. page \in PageRow /\ page.cancelled = 0 /\ page.op = i /\ page.phase = "comparingFiles"
   BY <1>0, <1>2, <1>4 DEF PageRow, ImportTypeOK
 <2>2. SetPage(p, page) BY <1>6 DEF Compare
 <2> QED BY <1>5, <2>1, <2>2
<1>7. CASE CompareFiles(p)
 <2> DEFINE page == [pages[p] EXCEPT !.phase = "review", !.seenFile = fileRow]
 <2>1. page \in PageRow /\ page.cancelled = 0 /\ page.op = i /\ page.phase = "review"
   BY <1>0, <1>2, <1>4 DEF PageRow, ImportTypeOK
 <2>2. SetPage(p, page) BY <1>7 DEF CompareFiles
 <2> QED BY <1>5, <2>1, <2>2
<1>8. CASE Decide(p)
 <2>1. PICK plan \in Plan :
         /\ \A r \in Records : plan[r] \in PlansFor(p, r)
         /\ SetPage(p, [pages[p] EXCEPT !.phase = "planned", !.plan = plan, !.uploads = Uploads(p, plan)]) BY <1>8 DEF Decide
 <2> DEFINE page == [pages[p] EXCEPT !.phase = "planned", !.plan = plan, !.uploads = Uploads(p, plan)]
 <2>2. Uploads(p, plan) \subseteq Files BY DEF Uploads, FilesOf
 <2>3. /\ page \in PageRow /\ page.cancelled = 0 /\ page.op = i /\ page.phase = "planned"
       /\ page.plan = plan /\ page.seen = pages[p].seen BY <1>2, <1>4, <2>2 DEF PageRow
 <2>4. ASSUME NEW r \in Records, plan[r] = "insert" PROVE pages[p].seen[r] = Absent
  <3>1. "insert" \in PlansFor(p, r) BY <2>1, <2>4
  <3> QED BY <3>1 DEF PlansFor
 <2> HIDE DEF page
 <2>5. InsertsAreNew(page) BY <2>3, <2>4 DEF InsertsAreNew
 <2>6. SetPage(p, page) BY <2>1 DEF page
 <2> QED BY <1>5, <2>3, <2>5, <2>6
<1> QED BY <1>6, <1>7, <1>8

\* The import is begun: what it must receive is what was planned.
LEMMA BeginStep == ASSUME ImportInv, NEW p \in Pages, BeginImport(p) PROVE ImportInv'
<1> DEFINE i == pages[p].op
           page == [pages[p] EXCEPT !.phase = "staging"]
           row == [imports[i] EXCEPT !.phase = "staging", !.records = Cardinality({r \in Records : pages[p].plan[r] # "none"}),
                                     !.files = Cardinality(pages[p].uploads)]
<1>1. pages[p].phase = "planned" /\ VaultRests /\ UNCHANGED <<bucket, commits, taken>> /\ SetPage(p, page) /\ SetImport(i, row)
  BY DEF BeginImport
<1>2. /\ i \in Imports /\ pages[p] \in PageRow /\ imports[i] \in ImportRow /\ imports[i].owner = p
      /\ GoesTogether(pages[p], imports[i]) /\ commits[i] = "idle" BY <1>1, RunningPage
<1>3. Empty(imports[i]) /\ pages[p].cancelled = 0 /\ InsertsAreNew(pages[p]) /\ pages[p].uploads \subseteq Files
  BY <1>1, <1>2 DEF GoesTogether, PageRow
<1>4. Cardinality({r \in Records : pages[p].plan[r] # "none"}) \in Nat /\ Cardinality(pages[p].uploads) \in Nat
 <2>1. {r \in Records : pages[p].plan[r] # "none"} \in SUBSET Records /\ pages[p].uploads \in SUBSET Files BY <1>3
 <2> QED BY <2>1, ImportNumbers, FS_Subset, FS_CardinalityType
<1>5. /\ page \in PageRow /\ page.cancelled = 0 /\ page.op = i /\ page.phase = "staging"
      /\ page.plan = pages[p].plan /\ page.seen = pages[p].seen /\ page.uploads = pages[p].uploads BY <1>2, <1>3 DEF PageRow
<1>6. /\ row \in ImportRow /\ row.phase = "staging" /\ row.staged = NoPlan /\ row.granted = {} /\ row.verified = {}
      /\ row.records = Cardinality(Planned(pages[p])) /\ row.files = Cardinality(pages[p].uploads)
      /\ row.owner = p /\ row.installs = imports[i].installs /\ row.vault = imports[i].vault
  BY <1>2, <1>3, <1>4 DEF ImportRow, Empty, Unfinished, Planned
<1>7. commits' = [commits EXCEPT ![i] = "idle"] BY <1>1, <1>2, UntouchedRows
<1> HIDE DEF i, page, row
<1>8. Follows(page, row) BY <1>5, <1>6 DEF Follows, Planned, NoPlan
<1>9. GoesTogether(page, row) BY <1>3, <1>5, <1>6, <1>8 DEF GoesTogether, InsertsAreNew
<1> QED BY <1>1, <1>2, <1>5, <1>6, <1>7, <1>9, OwnStep DEF i

\* Records and grants arrive, in the row of a page that is staging.
LEMMA StagedRow ==
    ASSUME ImportInv, NEW p \in Pages, NEW i \in Imports, i = pages[p].op, pages[p].phase = "staging",
           NEW row \in ImportRow, SetImport(i, MarkReady(row)), row.phase = "staging", row.verified \subseteq row.granted,
           row.owner = p, row.installs = imports[i].installs, row.vault = imports[i].vault, Follows(pages[p], row),
           VaultRests, UNCHANGED <<bucket, commits, taken, pages>>
    PROVE  ImportInv'
<1>1. pages[p] \in PageRow /\ GoesTogether(pages[p], imports[i]) /\ commits[i] = "idle" BY RunningPage
<1>2. /\ MarkReady(row) \in ImportRow /\ SamePlan(row, MarkReady(row)) /\ MarkReady(row).phase \in {"staging", "ready"}
      /\ MarkReady(row).granted = row.granted /\ MarkReady(row).verified = row.verified BY ReadyRow
<1>3. Follows(pages[p], MarkReady(row)) BY <1>2 DEF Follows, SamePlan
<1>4. GoesTogether(pages[p], MarkReady(row)) BY <1>1, <1>2, <1>3 DEF GoesTogether
<1>5. SetPage(p, pages[p]) /\ commits' = [commits EXCEPT ![i] = "idle"] BY <1>1, UntouchedRows
<1>6. MarkReady(row).owner = p /\ MarkReady(row).installs = imports[i].installs /\ MarkReady(row).vault = imports[i].vault
  BY <1>2 DEF SamePlan
<1> QED BY <1>1, <1>4, <1>5, <1>6, OwnStep

\* Records and the rest of their history are staged as planned.
LEMMA StageStep ==
    ASSUME ImportInv, NEW p \in Pages, StageRecord(p) \/ AppendHistory(p)
    PROVE  ImportInv'
<1> DEFINE i == pages[p].op
<1>1. /\ pages[p].phase = "staging" /\ imports[i].phase = "staging" /\ VaultRests
      /\ UNCHANGED <<bucket, commits, taken, pages>> BY DEF StageRecord, AppendHistory, Owned
<1>2. /\ i \in Imports /\ pages[p] \in PageRow /\ imports[i] \in ImportRow /\ imports[i].owner = p
      /\ Follows(pages[p], imports[i]) /\ imports[i].verified \subseteq imports[i].granted BY <1>1, RunningPage DEF GoesTogether
<1>3. CASE StageRecord(p)
 <2>1. PICK r \in Records, split \in BOOLEAN :
         SetImport(i, MarkReady([imports[i] EXCEPT
            !.staged[r] = pages[p].plan[r],
            !.expected[r] = IF pages[p].plan[r] = "replace" THEN pages[p].seen[r] ELSE Absent,
            !.pending = Withheld(r, split)])) BY <1>3 DEF StageRecord
 <2> DEFINE e == IF pages[p].plan[r] = "replace" THEN pages[p].seen[r] ELSE Absent
            row == [imports[i] EXCEPT !.staged[r] = pages[p].plan[r], !.expected[r] = e, !.pending = Withheld(r, split)]
            staged == [imports[i].staged EXCEPT ![r] = pages[p].plan[r]]
            expected == [imports[i].expected EXCEPT ![r] = e]
 <2>2. e \in Contents /\ pages[p].plan[r] \in Actions \cup {"none"} /\ Withheld(r, split) \subseteq Records
   BY <1>2, ImportNumbers DEF PageRow, Plan, Withheld
 <2>3. imports[i].staged \in Plan /\ imports[i].expected \in [Records -> Contents] BY <1>2 DEF ImportRow
 <2>4. staged \in Plan /\ expected \in [Records -> Contents] BY <2>2, <2>3 DEF Plan
 <2>5. row = [[[imports[i] EXCEPT !.staged = staged] EXCEPT !.expected = expected] EXCEPT !.pending = Withheld(r, split)]
   BY <1>2 DEF ImportRow
 <2> HIDE DEF row
 <2>6. /\ row \in ImportRow /\ row.staged = staged /\ row.expected = expected /\ row.phase = "staging"
       /\ row.owner = p /\ row.installs = imports[i].installs /\ row.vault = imports[i].vault
       /\ row.records = imports[i].records /\ row.files = imports[i].files
       /\ row.granted = imports[i].granted /\ row.verified = imports[i].verified
  <3> HIDE DEF staged, expected
  <3> QED BY <1>1, <1>2, <2>2, <2>4, <2>5 DEF ImportRow
 <2>7. Follows(pages[p], row)
  <3>1. \A x \in Records : x # r => row.staged[x] = imports[i].staged[x] /\ row.expected[x] = imports[i].expected[x]
    BY <2>3, <2>6 DEF Plan
  <3>2. row.staged[r] = pages[p].plan[r] /\ (row.staged[r] = "replace" => row.expected[r] = pages[p].seen[r])
    BY <2>3, <2>6 DEF Plan
  <3> HIDE DEF i
  <3> QED BY <1>2, <2>6, <3>1, <3>2 DEF Follows
 <2>8. SetImport(i, MarkReady(row)) BY <2>1 DEF row
 <2> HIDE DEF i
 <2> QED BY <1>1, <1>2, <2>6, <2>7, <2>8, StagedRow DEF i
<1>4. CASE AppendHistory(p)
 <2> DEFINE row == [imports[i] EXCEPT !.pending = {}]
 <2>1. SetImport(i, MarkReady(row)) BY <1>4 DEF AppendHistory
 <2>2. row \in ImportRow /\ SamePlan(imports[i], row) /\ row.phase = "staging" /\ row.granted = imports[i].granted /\ row.verified = imports[i].verified
   BY <1>1, <1>2 DEF ImportRow, SamePlan
 <2> HIDE DEF row
 <2>3. Follows(pages[p], row) BY <1>2, <2>2 DEF Follows, SamePlan
 <2>4. row.owner = p /\ row.installs = imports[i].installs /\ row.vault = imports[i].vault BY <1>2, <2>2 DEF SamePlan
 <2> HIDE DEF i
 <2> QED BY <1>1, <1>2, <2>1, <2>2, <2>3, <2>4, StagedRow DEF i
<1> QED BY <1>3, <1>4

\* Attachments are granted, checked and recorded.
LEMMA AttachmentStep ==
    ASSUME ImportInv, NEW p \in Pages, Grant(p) \/ VerifyRead(p) \/ VerifyRecord(p)
    PROVE  ImportInv'
<1> DEFINE i == pages[p].op
<1>1. pages[p].phase \in {"staging", "checking"} /\ imports[i].phase \in {"staging"}
  BY DEF Grant, VerifyRead, VerifyRecord, Owned
<1>2. /\ i \in Imports /\ pages[p] \in PageRow /\ imports[i] \in ImportRow /\ imports[i].owner = p
      /\ GoesTogether(pages[p], imports[i]) /\ commits[i] = "idle" BY <1>1, RunningPage
<1>3. /\ Follows(pages[p], imports[i]) /\ InsertsAreNew(pages[p]) /\ imports[i].verified \subseteq imports[i].granted
      /\ pages[p].cancelled = 0 /\ pages[p].uploads \subseteq Files /\ imports[i].granted \subseteq pages[p].uploads
  BY <1>1, <1>2 DEF GoesTogether, Follows, PageRow
<1>4. commits' = commits => commits' = [commits EXCEPT ![i] = "idle"] BY <1>2, UntouchedRows
<1>5. CASE Grant(p)
 <2>1. PICK f \in pages[p].uploads : SetImport(i, [imports[i] EXCEPT !.granted = @ \cup {f}, !.open = @ \cup {f}])
   BY <1>5 DEF Grant
 <2> DEFINE row == [imports[i] EXCEPT !.granted = @ \cup {f}, !.open = @ \cup {f}]
 <2>2. f \in Files BY <1>3
 <2>3. /\ row \in ImportRow /\ SamePlan(imports[i], row) /\ row.phase = "staging"
       /\ row.granted = imports[i].granted \cup {f} /\ row.verified = imports[i].verified
   BY <1>1, <1>2, <2>2 DEF ImportRow, SamePlan
 <2> HIDE DEF row
 <2>4. Follows(pages[p], row) BY <1>3, <2>3 DEF Follows, SamePlan
 <2>5. GoesTogether(pages[p], row)
  <3>1. pages[p] \in PageRow /\ pages[p].phase \in {"staging", "checking"} /\ pages[p].cancelled = 0 /\ row.verified \subseteq row.granted
    BY <1>1, <1>2, <1>3, <2>3
  <3> HIDE DEF i
  <3> QED BY <1>3, <2>3, <2>4, <3>1 DEF GoesTogether
 <2>6. SetImport(i, row) /\ SetPage(p, pages[p]) /\ VaultRests /\ UNCHANGED <<bucket, commits, taken>>
   BY <1>2, <1>5, <2>1, UntouchedRows DEF Grant, row
 <2>7. row.owner = p /\ row.installs = imports[i].installs /\ row.vault = imports[i].vault BY <1>2, <2>3 DEF SamePlan
 <2> HIDE DEF i
 <2> QED BY <1>2, <1>4, <2>5, <2>6, <2>7, OwnStep DEF i
<1>6. CASE VerifyRead(p)
 <2>1. PICK f \in imports[i].granted : SetPage(p, [pages[p] EXCEPT !.phase = "checking", !.checking = {f}])
   BY <1>6 DEF VerifyRead
 <2> DEFINE page == [pages[p] EXCEPT !.phase = "checking", !.checking = {f}]
 <2>2. f \in Files BY <1>3
 <2>3. /\ page \in PageRow /\ page.cancelled = 0 /\ page.op = i /\ page.phase = "checking"
       /\ page.plan = pages[p].plan /\ page.seen = pages[p].seen /\ page.uploads = pages[p].uploads
   BY <1>2, <1>3, <2>2 DEF PageRow
 <2> HIDE DEF page
 <2>4. Follows(page, imports[i]) /\ InsertsAreNew(page) BY <1>3, <2>3 DEF Follows, Planned, InsertsAreNew
 <2>5. GoesTogether(page, imports[i]) BY <1>1, <1>2, <1>3, <2>3, <2>4 DEF GoesTogether
 <2>6. SetPage(p, page) /\ SetImport(i, imports[i]) /\ VaultRests /\ UNCHANGED <<bucket, commits, taken>>
   BY <1>2, <1>6, <2>1, UntouchedRows DEF VerifyRead, ServerRests, VaultRests, page
 <2> HIDE DEF i
 <2> QED BY <1>2, <1>4, <2>3, <2>5, <2>6, OwnStep DEF i
<1>7. CASE VerifyRecord(p)
 <2> DEFINE base == [imports[i] EXCEPT !.verified = @ \cup pages[p].checking]
            page == [pages[p] EXCEPT !.phase = "staging", !.checking = {}]
 <2>1. SetImport(i, MarkReady(base)) /\ SetPage(p, page) /\ pages[p].checking \subseteq imports[i].granted
       /\ VaultRests /\ UNCHANGED <<bucket, commits, taken>> BY <1>7 DEF VerifyRecord
 <2>2. /\ page \in PageRow /\ page.cancelled = 0 /\ page.op = i /\ page.phase = "staging"
       /\ page.plan = pages[p].plan /\ page.seen = pages[p].seen /\ page.uploads = pages[p].uploads BY <1>2, <1>3 DEF PageRow
 <2>3. pages[p].checking \subseteq Files BY <1>2 DEF PageRow
 <2>4. /\ base \in ImportRow /\ SamePlan(imports[i], base) /\ base.phase = "staging"
       /\ base.granted = imports[i].granted /\ base.verified = imports[i].verified \cup pages[p].checking
   BY <1>1, <1>2, <2>3 DEF ImportRow, SamePlan
 <2> HIDE DEF base, page
 <2>5. /\ MarkReady(base) \in ImportRow /\ SamePlan(base, MarkReady(base)) /\ MarkReady(base).phase \in {"staging", "ready"}
       /\ MarkReady(base).granted = base.granted /\ MarkReady(base).verified = base.verified BY <2>4, ReadyRow
 <2>6. Follows(page, MarkReady(base)) /\ InsertsAreNew(page)
  <3>1. Follows(pages[p], base)
   <4> HIDE DEF i
   <4> QED BY <1>3, <2>1, <2>4 DEF Follows, SamePlan
  <3>2. Follows(page, base) /\ InsertsAreNew(page) BY <1>3, <2>2, <3>1 DEF Follows, Planned, InsertsAreNew
  <3> QED BY <2>5, <3>2 DEF Follows, SamePlan
 <2>7. GoesTogether(page, MarkReady(base)) BY <1>3, <2>1, <2>2, <2>4, <2>5, <2>6 DEF GoesTogether
 <2>8. MarkReady(base).owner = p /\ MarkReady(base).installs = imports[i].installs /\ MarkReady(base).vault = imports[i].vault
   BY <1>2, <2>4, <2>5 DEF SamePlan
 <2> HIDE DEF i
 <2> QED BY <1>2, <1>4, <2>1, <2>2, <2>7, <2>8, OwnStep DEF i
<1> QED BY <1>5, <1>6, <1>7

\* The commit is sent, and its answer comes or does not.
LEMMA CommittingStep ==
    ASSUME ImportInv, NEW p \in Pages, CommitCheck(p) \/ CommitAnswered(p)
    PROVE  ImportInv'
<1> DEFINE i == pages[p].op
<1>0. ImportTypeOK /\ CancelledIsOver BY DEF ImportInv, ImportPlan
<1>1. pages[p].phase \in {"staging", "committing"} BY DEF CommitCheck, CommitAnswered
<1>2. /\ i \in Imports /\ pages[p] \in PageRow /\ imports[i] \in ImportRow /\ imports[i].owner = p
      /\ GoesTogether(pages[p], imports[i]) BY <1>1, RunningPage
<1>3. Follows(pages[p], imports[i]) /\ InsertsAreNew(pages[p]) /\ imports[i].verified \subseteq imports[i].granted /\ pages[p].cancelled = 0
  BY <1>1, <1>2 DEF GoesTogether
<1>4. CASE CommitCheck(p)
 <2> DEFINE page == [pages[p] EXCEPT !.phase = "committing"]
 <2>1. /\ page \in PageRow /\ page.cancelled = 0 /\ page.op = i /\ page.phase = "committing"
       /\ page.plan = pages[p].plan /\ page.seen = pages[p].seen /\ page.uploads = pages[p].uploads BY <1>2, <1>3 DEF PageRow
 <2>2. /\ SetPage(p, page) /\ commits[i] = "idle" /\ commits' = [commits EXCEPT ![i] = "checked"] /\ imports[i].phase = "ready"
       /\ VaultRests /\ UNCHANGED <<bucket, taken, imports>> BY <1>4 DEF CommitCheck, Owned
 <2> HIDE DEF page
 <2>3. Follows(page, imports[i]) /\ InsertsAreNew(page) BY <1>3, <2>1 DEF Follows, Planned, InsertsAreNew
 <2>4. GoesTogether(page, imports[i]) BY <1>2, <1>3, <2>1, <2>2, <2>3 DEF GoesTogether
 <2>5. SetImport(i, imports[i]) BY <1>2, <2>2, UntouchedRows
 <2> HIDE DEF i
 <2> QED BY <1>2, <2>1, <2>2, <2>4, <2>5, OwnStep DEF i
<1>5. CASE CommitAnswered(p)
 <2>1. commits[i] = "idle" /\ pages[p].phase = "committing" /\ VaultRests /\ UNCHANGED <<bucket, commits, taken>>
   BY <1>5 DEF CommitAnswered
 <2>2. CASE imports[i].phase = "committed" /\ SetPage(p, [ClosedPage EXCEPT !.phase = "complete", !.op = i]) /\ UNCHANGED imports
  <3> DEFINE page == [ClosedPage EXCEPT !.phase = "complete", !.op = i]
  <3>1. page \in PageRow /\ page.cancelled = 0 /\ page.op = i /\ page.phase = "complete" BY <1>2, BlanksAreTyped DEF PageRow
  <3>2. SetPage(p, page) /\ SetImport(i, imports[i]) /\ commits' = [commits EXCEPT ![i] = "idle"]
    BY <1>2, <2>1, <2>2, UntouchedRows
  <3> HIDE DEF page
  <3>3. GoesTogether(page, imports[i]) BY <1>2, <1>3, <2>2, <3>1 DEF GoesTogether
  <3> HIDE DEF i
  <3> QED BY <1>2, <2>1, <3>1, <3>2, <3>3, OwnStep DEF i
 <2>3. CASE SetPage(p, Closed(p)) /\ imports' = Aborting(p, imports)
  <3>1. Closed(p) = [ClosedPage EXCEPT !.phase = "choose", !.blocked = FALSE, !.cancelled = pages[p].cancelled]
    BY BlanksAreTyped DEF PageRow, Closed
  <3>a. SetPage(p, [ClosedPage EXCEPT !.phase = "choose", !.blocked = FALSE, !.cancelled = pages[p].cancelled]) BY <2>3, <3>1
  <3>2. PagesForget BY <3>a, ClosingIsForgetting
  <3>3. RowsFade BY <2>3, AbortingIsFading
  <3>4. bucket' \in [Imports \X Files -> {"none", "good", "bad"}] BY <1>0, <2>1 DEF ImportTypeOK
  <3> QED BY <2>1, <3>2, <3>3, <3>4, FadingStep
 <2> QED BY <1>5, <2>2, <2>3 DEF CommitAnswered
<1> QED BY <1>4, <1>5

\* What has expired is closed first.
LEMMA SweptFades ==
    ASSUME ImportInv, NEW j \in Imports
    PROVE  Swept[j] \in ImportRow /\ Swept[j].verified \subseteq Swept[j].granted /\ Fades(imports[j], Swept[j])
<1>1. imports[j] \in ImportRow /\ imports[j].verified \subseteq imports[j].granted BY DEF ImportInv, ImportTypeOK
<1>2. CASE imports[j].expired /\ imports[j].phase \in Unfinished BY <1>1, <1>2, AbortedFades DEF Swept
<1>3. CASE ~(imports[j].expired /\ imports[j].phase \in Unfinished) BY <1>1, <1>3 DEF Swept, Fades
<1> QED BY <1>2, <1>3

\* A row nobody uses is taken for a new import.
LEMMA AnalyzeStep == ASSUME ImportInv, NEW p \in Pages, Analyze(p) PROVE ImportInv'
<1>0. ImportTypeOK /\ RowsAreWhole /\ PagesOwnImports /\ CancelledIsOver /\ StagingFollowsThePlan /\ CommitsAreWaitedFor
  BY DEF ImportInv, ImportPlan
<1>1. pages[p].phase = "analyzing" /\ pages[p].cancelled = 0 /\ VaultRests /\ UNCHANGED <<bucket, commits, taken>>
  BY <1>0 DEF Analyze, CancelledIsOver
<1>2. \A b \in BOOLEAN : [Closed(p) EXCEPT !.blocked = b] = [ClosedPage EXCEPT !.phase = "choose", !.blocked = b, !.cancelled = 0]
  BY <1>1, BlanksAreTyped DEF PageRow, Closed
<1>3. bucket' \in [Imports \X Files -> {"none", "good", "bad"}] BY <1>0, <1>1 DEF ImportTypeOK
<1>4. CASE imports' = imports /\ SetPage(p, [Closed(p) EXCEPT !.blocked = TRUE])
 <2>1. SetPage(p, [ClosedPage EXCEPT !.phase = "choose", !.blocked = TRUE, !.cancelled = 0]) BY <1>2, <1>4
 <2>2. PagesForget BY <2>1, ClosingIsForgetting
 <2> QED BY <1>1, <1>3, <1>4, <2>2, StayingFades, FadingStep
<1>5. ASSUME NEW i \in Imports, KeyFits, imports[i].phase = "none",
             imports' = [Swept EXCEPT ![i] = [@ EXCEPT !.phase = "review", !.owner = p, !.generation = account.generation,
                                                       !.vault = VaultNow, !.installs = (account.id = 0)]],
             \/ SetPage(p, [ClosedPage EXCEPT !.phase = "comparing", !.op = i])
             \/ SetPage(p, Closed(p))
      PROVE  ImportInv'
 <2> DEFINE new == [Swept[i] EXCEPT !.phase = "review", !.owner = p, !.generation = account.generation,
                                    !.vault = VaultNow, !.installs = (account.id = 0)]
 <2>1. Swept[i] = BlankRow BY <1>0, <1>5 DEF Swept, RowsAreWhole, Unfinished
 <2>2. /\ VaultNow \in [id : Nat, label : {"none", "arc", "other"}] /\ account.generation \in Nat /\ (account.id = 0) \in BOOLEAN
       /\ (account.id # 0 => VaultNow.label = "arc")
  <3>1. account \in [generation : Nat, rotating : BOOLEAN, id : Nat, key : {"none", "arc", "other"}, labelled : BOOLEAN]
    BY <1>0 DEF ImportTypeOK
  <3> QED BY <1>5, <3>1 DEF VaultNow, KeyFits
 <2>3. /\ new \in ImportRow /\ new.phase = "review" /\ new.owner = p /\ Empty(new) /\ new.verified \subseteq new.granted
       /\ (~new.installs => new.vault.label = "arc")
  <3>1. new = [BlankRow EXCEPT !.phase = "review", !.owner = p, !.generation = account.generation,
                               !.vault = VaultNow, !.installs = (account.id = 0)] BY <2>1
  <3>2. /\ new \in ImportRow /\ new.phase = "review" /\ new.owner = p /\ new.staged = BlankRow.staged /\ new.pending = BlankRow.pending
        /\ new.granted = BlankRow.granted /\ new.open = BlankRow.open /\ new.verified = BlankRow.verified
        /\ new.installs = (account.id = 0) /\ new.vault = VaultNow
   <4> HIDE DEF new
   <4> QED BY <2>2, <3>1, BlanksAreTyped DEF ImportRow, Unfinished
  <3> HIDE DEF new
  <3> QED BY <2>2, <3>2, BlanksAreTyped DEF Empty
 <2>4. DOMAIN Swept = Imports BY DEF Swept
 <2>5. imports' = [Swept EXCEPT ![i] = new] BY <1>5, <2>4
 <2> HIDE DEF new
 <2>6. Swept = [j \in Imports |-> Swept[j]] BY DEF Swept
 <2>7. imports'[i] = new /\ \A j \in Imports : j # i => imports'[j] = Swept[j] BY <2>5, <2>6
 <2>8. imports' \in [Imports -> ImportRow] /\ \A j \in Imports : imports'[j].verified \subseteq imports'[j].granted
  <3>1. \A j \in Imports : Swept[j] \in ImportRow /\ Swept[j].verified \subseteq Swept[j].granted BY SweptFades
  <3> QED BY <2>3, <2>5, <2>6, <2>7, <3>1
 <2>9. \A j \in Imports : j # i => Fades(imports[j], imports'[j]) BY <2>7, SweptFades
 <2>10. /\ pages' \in [Pages -> PageRow] /\ \A q \in Pages : q # p => pages'[q] = pages[q]
        /\ pages'[p].cancelled = 0
        /\ \/ pages'[p].phase = "comparing" /\ pages'[p].op = i
           \/ pages'[p].phase = "choose" /\ pages'[p].op = 0
  <3>0. pages \in [Pages -> PageRow] BY <1>0 DEF ImportTypeOK
  <3>1. CASE SetPage(p, [ClosedPage EXCEPT !.phase = "comparing", !.op = i])
   <4> DEFINE page == [ClosedPage EXCEPT !.phase = "comparing", !.op = i]
   <4>1. page \in PageRow /\ page.cancelled = 0 /\ page.phase = "comparing" /\ page.op = i BY BlanksAreTyped DEF PageRow
   <4>2. pages' = [pages EXCEPT ![p] = page] BY <3>1 DEF SetPage
   <4> HIDE DEF page
   <4> QED BY <3>0, <4>1, <4>2
  <3>2. CASE SetPage(p, Closed(p))
   <4>1. Closed(p) \in PageRow /\ Closed(p).cancelled = 0 /\ Closed(p).phase = "choose" /\ Closed(p).op = 0
     BY <1>1, BlanksAreTyped DEF PageRow, Closed
   <4>2. pages' = [pages EXCEPT ![p] = Closed(p)] BY <3>2 DEF SetPage
   <4> QED BY <3>0, <4>1, <4>2
  <3> QED BY <1>5, <3>1, <3>2
 <2>11. \A q \in Pages : pages[q].op \in {0} \cup Imports /\ pages[q].cancelled \in {0} \cup Imports
   BY <1>0 DEF ImportTypeOK, PageRow
 <2>12. i # 0 /\ commits[i] = "idle" /\ \A q \in Pages : pages[q].op # i /\ pages[q].cancelled # i
   BY <1>0, <1>5, ImportNumbers DEF PagesOwnImports, CancelledIsOver, CommitsAreWaitedFor, Unfinished
 <2>13. ImportTypeOK' BY <1>0, <1>1, <1>3, <2>8, <2>10 DEF ImportTypeOK, VaultRests
 <2>14. RowsAreWhole'
  <3> SUFFICES ASSUME NEW j \in Imports
               PROVE  /\ imports'[j].phase = "none" => imports'[j] = BlankRow
                      /\ imports'[j].phase = "review" => Empty(imports'[j])
                      /\ imports'[j].phase # "none" /\ ~imports'[j].installs => imports'[j].vault.label = "arc"
    BY DEF RowsAreWhole, Empty, BlankRow
  <3>1. CASE j = i BY <2>3, <2>7, <3>1
  <3>2. CASE j # i BY <1>0, <2>9, <3>2 DEF RowsAreWhole, Fades, SamePlan, Unfinished
  <3> QED BY <3>1, <3>2
 <2>15. PagesOwnImports'
  <3> SUFFICES ASSUME NEW q \in Pages
               PROVE  /\ pages'[q].op # 0 => imports'[pages'[q].op].owner = q /\ imports'[pages'[q].op].phase # "none"
                      /\ pages'[q].phase \in {"choose", "analyzing"} => pages'[q].op = 0
                      /\ pages'[q].phase \notin {"choose", "analyzing"} => pages'[q].op # 0
                      /\ pages'[q].phase \in {"comparing", "comparingFiles", "review", "planned"} => Empty(imports'[pages'[q].op])
                      /\ pages'[q].phase \notin {"choose", "analyzing", "committing", "complete"}
                            => imports'[pages'[q].op].phase # "committed" BY DEF PagesOwnImports, Empty
  <3>1. CASE q = p BY <2>3, <2>7, <2>10, <2>12, <3>1
  <3>2. CASE q # p /\ pages[q].op = 0 BY <1>0, <2>10, <3>2 DEF PagesOwnImports
  <3>3. CASE q # p /\ pages[q].op # 0
   <4>1. pages'[q] = pages[q] /\ pages[q].op \in Imports /\ pages[q].op # i BY <2>10, <2>11, <2>12, <3>3
   <4>2. Fades(imports[pages[q].op], imports'[pages[q].op]) BY <2>9, <4>1
   <4> QED BY <1>0, <3>3, <4>1, <4>2 DEF PagesOwnImports, Fades, SamePlan
  <3> QED BY <3>1, <3>2, <3>3
 <2>16. CancelledIsOver'
  <3> SUFFICES ASSUME NEW q \in Pages, pages'[q].cancelled # 0
               PROVE  /\ pages'[q].phase = "choose" /\ commits'[pages'[q].cancelled] = "idle"
                      /\ imports'[pages'[q].cancelled].owner = q
                      /\ imports'[pages'[q].cancelled].phase \in Unfinished \cup {"aborted"} BY DEF CancelledIsOver
  <3>1. pages'[q] = pages[q] /\ pages[q].cancelled \in Imports /\ pages[q].cancelled # i BY <2>10, <2>11, <2>12
  <3>2. Fades(imports[pages[q].cancelled], imports'[pages[q].cancelled]) BY <2>9, <3>1
  <3> QED BY <1>0, <1>1, <3>1, <3>2 DEF CancelledIsOver, Fades, SamePlan
 <2>17. StagingFollowsThePlan'
  <3> SUFFICES ASSUME NEW q \in Pages, pages'[q].phase \in {"planned", "staging", "checking", "committing"}
               PROVE  /\ InsertsAreNew(pages'[q])
                      /\ pages'[q].phase # "planned" => Follows(pages'[q], imports'[pages'[q].op])
    BY DEF StagingFollowsThePlan, InsertsAreNew, Follows, Planned
  <3>1. q # p /\ pages'[q] = pages[q] BY <2>10
  <3>2. pages[q].op \in Imports /\ pages[q].op # i BY <1>0, <2>11, <2>12, <3>1 DEF PagesOwnImports
  <3>3. Fades(imports[pages[q].op], imports'[pages[q].op]) BY <2>9, <3>2
  <3> QED BY <1>0, <3>1, <3>3, FadedFollows DEF StagingFollowsThePlan
 <2>18. CommitsAreWaitedFor'
  <3>1. \A j \in Imports, q \in Pages : commits[j] # "idle" /\ pages'[q].op = j => pages'[q] = pages[q]
    BY <2>10, <2>12, ImportNumbers
  <3>2. \A j \in Imports : commits[j] # "idle" => imports'[j].phase \notin {"none", "review", "staging", "committed"}
    BY <1>0, <2>9, <2>12 DEF CommitsAreWaitedFor, Fades
  <3>3. \A j \in Imports, q \in Pages : commits[j] = "open" /\ pages'[q].op = j => Follows(pages'[q], taken[j])
    BY <1>0, <3>1 DEF CommitsAreWaitedFor
  <3>4. \A j \in Imports, q \in Pages : commits'[j] = "open" /\ pages'[q].op = j => Follows(pages[q], taken[j])'
    BY <1>1, <3>3 DEF Follows, Planned
  <3> QED BY <1>0, <1>1, <3>1, <3>2, <3>4 DEF CommitsAreWaitedFor, VaultRests
 <2> QED BY <2>13, <2>14, <2>15, <2>16, <2>17, <2>18 DEF ImportInv, ImportPlan
<1> QED BY <1>4, <1>5 DEF Analyze

\* A row is forgotten that no page and no commit refers to.
LEMMA SweepRowStep == ASSUME ImportInv, NEW i \in Imports, SweepRow(i) PROVE ImportInv'
<1>0. ImportTypeOK /\ RowsAreWhole /\ PagesOwnImports /\ CancelledIsOver /\ StagingFollowsThePlan /\ CommitsAreWaitedFor
  BY DEF ImportInv, ImportPlan
<1>1. /\ imports' = [imports EXCEPT ![i] = BlankRow] /\ commits[i] = "idle"
      /\ \A p \in Pages : i \notin {pages[p].op, pages[p].cancelled}
      /\ VaultRests /\ UNCHANGED <<bucket, commits, taken, pages>> BY DEF SweepRow, SetImport
<1>2. imports'[i] = BlankRow /\ \A j \in Imports : j # i => imports'[j] = imports[j] BY <1>0, <1>1 DEF ImportTypeOK
<1>3. \A p \in Pages : pages[p].op \in {0} \cup Imports /\ pages[p].cancelled \in {0} \cup Imports
  BY <1>0 DEF ImportTypeOK, PageRow
<1>4. ImportTypeOK'
 <2>1. BlankRow.verified \subseteq BlankRow.granted BY BlanksAreTyped DEF Empty
 <2>2. \A j \in Imports : imports'[j].verified \subseteq imports'[j].granted BY <1>0, <1>2, <2>1 DEF ImportTypeOK
 <2>3. imports' \in [Imports -> ImportRow] BY <1>0, <1>1, BlanksAreTyped DEF ImportTypeOK
 <2> QED BY <1>0, <1>1, <2>2, <2>3 DEF ImportTypeOK, VaultRests
<1>5. RowsAreWhole'
 <2> SUFFICES ASSUME NEW j \in Imports
              PROVE  /\ imports'[j].phase = "none" => imports'[j] = BlankRow
                     /\ imports'[j].phase = "review" => Empty(imports'[j])
                     /\ imports'[j].phase # "none" /\ ~imports'[j].installs => imports'[j].vault.label = "arc"
   BY DEF RowsAreWhole, Empty, BlankRow
 <2>1. CASE j = i BY <1>2, <2>1, BlanksAreTyped
 <2>2. CASE j # i BY <1>0, <1>2, <2>2 DEF RowsAreWhole
 <2> QED BY <2>1, <2>2
<1>6. \A p \in Pages : pages[p].op # 0 => imports'[pages[p].op] = imports[pages[p].op] BY <1>1, <1>2, <1>3
<1>7. PagesOwnImports'
 <2> SUFFICES ASSUME NEW q \in Pages
              PROVE  /\ pages[q].op # 0 => imports'[pages[q].op].owner = q /\ imports'[pages[q].op].phase # "none"
                     /\ pages[q].phase \in {"choose", "analyzing"} => pages[q].op = 0
                     /\ pages[q].phase \notin {"choose", "analyzing"} => pages[q].op # 0
                     /\ pages[q].phase \in {"comparing", "comparingFiles", "review", "planned"} => Empty(imports'[pages[q].op])
                     /\ pages[q].phase \notin {"choose", "analyzing", "committing", "complete"}
                           => imports'[pages[q].op].phase # "committed" BY <1>1 DEF PagesOwnImports, Empty
 <2> QED BY <1>0, <1>6 DEF PagesOwnImports
<1>8. CancelledIsOver' BY <1>0, <1>1, <1>2, <1>3 DEF CancelledIsOver
<1>9. StagingFollowsThePlan'
 <2> SUFFICES ASSUME NEW q \in Pages
              PROVE  /\ pages[q].phase \in {"planned", "staging", "checking", "committing"} => InsertsAreNew(pages[q])
                     /\ pages[q].phase \in {"staging", "checking", "committing"} => Follows(pages[q], imports'[pages[q].op])
   BY <1>1 DEF StagingFollowsThePlan, InsertsAreNew, Follows, Planned
 <2> QED BY <1>0, <1>6 DEF StagingFollowsThePlan, PagesOwnImports
<1>10. CommitsAreWaitedFor'
 <2>1. \A j \in Imports : commits[j] # "idle" => imports'[j].phase \notin {"none", "review", "staging", "committed"}
   BY <1>0, <1>1, <1>2 DEF CommitsAreWaitedFor
 <2>2. \A j \in Imports, q \in Pages : commits'[j] = "open" /\ pages'[q].op = j => Follows(pages[q], taken[j])'
   BY <1>0, <1>1 DEF CommitsAreWaitedFor, Follows, Planned
 <2> QED BY <1>0, <1>1, <2>1, <2>2 DEF CommitsAreWaitedFor, VaultRests
<1> QED BY <1>4, <1>5, <1>7, <1>8, <1>9, <1>10 DEF ImportInv, ImportPlan

\* The transaction reads, under the account's lock, what the page staged.
LEMMA CommitOpenStep == ASSUME ImportInv, NEW i \in Imports, CommitOpen(i) PROVE ImportInv'
<1>0. ImportTypeOK /\ RowsAreWhole /\ PagesOwnImports /\ CancelledIsOver /\ StagingFollowsThePlan /\ CommitsAreWaitedFor
  BY DEF ImportInv, ImportPlan
<1>1. /\ commits[i] = "checked" /\ \A j \in Imports : commits[j] # "open"
      /\ UNCHANGED <<content, fileRow, account, imports, bucket, served, pages, edits>> BY DEF CommitOpen, Unlocked
<1>2. \A j \in Imports : j # i => commits'[j] = commits[j] /\ taken'[j] = taken[j] BY <1>0 DEF CommitOpen, ImportTypeOK
<1>3. /\ Passes(i) => commits'[i] = "open" /\ taken'[i] = imports[i]
      /\ ~Passes(i) => commits'[i] = "idle" /\ taken'[i] = BlankRow BY <1>0 DEF CommitOpen, ImportTypeOK
<1>4. ImportTypeOK'
 <2>1. imports[i] \in ImportRow BY <1>0 DEF ImportTypeOK
 <2>2. commits' \in [Imports -> {"idle", "checked", "open"}] /\ taken' \in [Imports -> ImportRow]
   BY <1>0, <2>1, BlanksAreTyped DEF CommitOpen, ImportTypeOK
 <2> QED BY <1>0, <1>1, <2>2 DEF ImportTypeOK
<1>5. RowsAreWhole' /\ PagesOwnImports' /\ StagingFollowsThePlan'
 <2>1. RowsAreWhole' BY <1>0, <1>1 DEF RowsAreWhole, Empty, BlankRow
 <2>2. PagesOwnImports' BY <1>0, <1>1 DEF PagesOwnImports, Empty
 <2>3. StagingFollowsThePlan' BY <1>0, <1>1 DEF StagingFollowsThePlan, Follows, Planned, InsertsAreNew
 <2> QED BY <2>1, <2>2, <2>3
<1>6. CancelledIsOver'
 <2>1. \A p \in Pages : pages[p].cancelled # 0 => pages[p].cancelled \in Imports /\ pages[p].cancelled # i
   BY <1>0, <1>1 DEF CancelledIsOver, ImportTypeOK, PageRow
 <2> QED BY <1>0, <1>1, <1>2, <2>1 DEF CancelledIsOver
<1>7. CommitsAreWaitedFor'
 <2>1. \A j \in Imports : commits'[j] # "idle" => commits[j] # "idle" BY <1>1, <1>2
 <2>2. \A j \in Imports : commits'[j] = "open" => j = i /\ Passes(i) /\ taken'[i] = imports[i] BY <1>1, <1>2, <1>3
 <2>3. ASSUME Passes(i), NEW p \in Pages, pages[p].op = i PROVE Follows(pages[p], imports[i])
   BY <1>0, <1>1, <2>3 DEF CommitsAreWaitedFor, StagingFollowsThePlan
 <2>4. \A j \in Imports, p \in Pages : commits'[j] = "open" /\ pages'[p].op = j => Follows(pages[p], taken[j])'
   BY <1>1, <2>2, <2>3 DEF Follows, Planned
 <2>5. Passes(i) => ~account.rotating /\ (~imports[i].installs => account.key = "arc")
  <3> SUFFICES ASSUME Passes(i), ~imports[i].installs PROVE account.key = "arc" BY DEF Passes
  <3>1. imports[i].vault.label = "arc" /\ imports[i].vault = VaultNow BY <1>0 DEF Passes, RowsAreWhole, SameVault
  <3> QED BY <3>1 DEF VaultNow
 <2> QED BY <1>0, <1>1, <2>1, <2>2, <2>4, <2>5 DEF CommitsAreWaitedFor
<1> QED BY <1>4, <1>5, <1>6, <1>7 DEF ImportInv, ImportPlan

\* The transaction ends, with all of the plan or nothing of it.
LEMMA CommitCloseStep == ASSUME ImportInv, NEW i \in Imports, CommitClose(i) PROVE ImportInv'
<1>0. ImportTypeOK /\ RowsAreWhole /\ PagesOwnImports /\ CancelledIsOver /\ StagingFollowsThePlan /\ CommitsAreWaitedFor
  BY DEF ImportInv, ImportPlan
<1>1. /\ commits[i] = "open" /\ \A j \in Imports : j # i => commits[j] # "open"
      /\ UNCHANGED <<bucket, pages, edits>> BY <1>0 DEF CommitClose, CommitsAreWaitedFor
<1>2. commits'[i] = "idle" /\ \A j \in Imports : j # i => commits'[j] = commits[j] BY <1>0 DEF CommitClose, ImportTypeOK
<1>3. imports' = imports \/ imports' = [imports EXCEPT ![i].phase = "committed"] BY DEF CommitClose
<1>a. imports[i] \in ImportRow /\ imports[i].verified \subseteq imports[i].granted /\ taken[i] \in ImportRow
  BY <1>0 DEF ImportTypeOK
<1> DEFINE done == [imports[i] EXCEPT !.phase = "committed"]
<1>b. done \in ImportRow /\ SamePlan(imports[i], done) /\ done.phase = "committed" /\ done.granted = imports[i].granted /\ done.verified = imports[i].verified
  BY <1>a DEF ImportRow, SamePlan
<1>c. imports' = imports \/ imports' = [imports EXCEPT ![i] = done] BY <1>0, <1>3 DEF ImportTypeOK
<1> HIDE DEF done
<1>4. /\ \A j \in Imports : j # i => imports'[j] = imports[j]
      /\ imports'[i] = imports[i] \/ imports'[i] = done
      /\ imports' \in [Imports -> ImportRow] BY <1>0, <1>b, <1>c DEF ImportTypeOK
<1>5. ImportTypeOK'
 <2>1. \A j \in Imports : imports'[j].verified \subseteq imports'[j].granted BY <1>0, <1>4, <1>a, <1>b DEF ImportTypeOK
 <2>2. commits' \in [Imports -> {"idle", "checked", "open"}] /\ taken' \in [Imports -> ImportRow]
   BY <1>0, BlanksAreTyped DEF CommitClose, ImportTypeOK
 <2>3. UNCHANGED <<content, fileRow, served, account>> \/ Landed(i) BY DEF CommitClose
 <2>4. /\ content' \in [Records -> Contents] /\ fileRow' \in [Files -> {"none", "same", "other", "deleted"}]
       /\ served' \subseteq Imports \X Files
       /\ account' \in [generation : Nat, rotating : BOOLEAN, id : Nat, key : {"none", "arc", "other"}, labelled : BOOLEAN]
  <3>1. CASE UNCHANGED <<content, fileRow, served, account>> BY <1>0, <3>1 DEF ImportTypeOK
  <3>2. CASE Landed(i)
   <4>1. content' \in [Records -> Contents] /\ fileRow' \in [Files -> {"none", "same", "other", "deleted"}]
     BY <1>0, <3>2, ImportNumbers DEF Landed, ImportTypeOK
   <4>2. taken[i].verified \subseteq Files BY <1>a DEF ImportRow
   <4>3. served' \subseteq Imports \X Files BY <1>0, <3>2, <4>2 DEF Landed, ImportTypeOK
   <4>4. account' \in [generation : Nat, rotating : BOOLEAN, id : Nat, key : {"none", "arc", "other"}, labelled : BOOLEAN]
     BY <1>0, <3>2 DEF Landed, ImportTypeOK
   <4> QED BY <4>1, <4>3, <4>4
  <3> QED BY <2>3, <3>1, <3>2
 <2> QED BY <1>0, <1>1, <1>4, <2>1, <2>2, <2>4 DEF ImportTypeOK
<1>6. RowsAreWhole'
 <2>1. imports[i].phase # "none" BY <1>0, <1>1 DEF CommitsAreWaitedFor
 <2> SUFFICES ASSUME NEW j \in Imports
              PROVE  /\ imports'[j].phase = "none" => imports'[j] = BlankRow
                     /\ imports'[j].phase = "review" => Empty(imports'[j])
                     /\ imports'[j].phase # "none" /\ ~imports'[j].installs => imports'[j].vault.label = "arc"
   BY DEF RowsAreWhole, Empty, BlankRow
 <2>2. CASE imports'[j] = imports[j] BY <1>0, <2>2 DEF RowsAreWhole
 <2>3. CASE j = i /\ imports'[i] = done BY <1>0, <1>b, <2>1, <2>3 DEF RowsAreWhole, SamePlan
 <2> QED BY <1>4, <2>2, <2>3
<1>7. \A p \in Pages : pages[p].op = i => pages[p].phase = "committing" BY <1>0, <1>1 DEF CommitsAreWaitedFor
<1>8. \A p \in Pages : pages[p].op \in {0} \cup Imports /\ pages[p].cancelled \in {0} \cup Imports
  BY <1>0 DEF ImportTypeOK, PageRow
<1>9. PagesOwnImports'
 <2> SUFFICES ASSUME NEW q \in Pages
              PROVE  /\ pages[q].op # 0 => imports'[pages[q].op].owner = q /\ imports'[pages[q].op].phase # "none"
                     /\ pages[q].phase \in {"choose", "analyzing"} => pages[q].op = 0
                     /\ pages[q].phase \notin {"choose", "analyzing"} => pages[q].op # 0
                     /\ pages[q].phase \in {"comparing", "comparingFiles", "review", "planned"} => Empty(imports'[pages[q].op])
                     /\ pages[q].phase \notin {"choose", "analyzing", "committing", "complete"}
                           => imports'[pages[q].op].phase # "committed" BY <1>1 DEF PagesOwnImports, Empty
 <2>1. CASE pages[q].op = i BY <1>0, <1>4, <1>7, <1>b, <2>1 DEF PagesOwnImports, SamePlan
 <2>2. CASE pages[q].op # i BY <1>0, <1>4, <1>8, <2>2 DEF PagesOwnImports
 <2> QED BY <2>1, <2>2
<1>10. CancelledIsOver'
 <2>1. \A p \in Pages : pages[p].cancelled # 0 => pages[p].cancelled \in Imports /\ pages[p].cancelled # i
   BY <1>0, <1>1, <1>8 DEF CancelledIsOver
 <2> QED BY <1>0, <1>1, <1>2, <1>4, <2>1 DEF CancelledIsOver
<1>11. StagingFollowsThePlan'
 <2> SUFFICES ASSUME NEW q \in Pages
              PROVE  /\ pages[q].phase \in {"planned", "staging", "checking", "committing"} => InsertsAreNew(pages[q])
                     /\ pages[q].phase \in {"staging", "checking", "committing"} => Follows(pages[q], imports'[pages[q].op])
   BY <1>1 DEF StagingFollowsThePlan, InsertsAreNew, Follows, Planned
 <2>1. CASE pages[q].op = i
  <3>1. Follows(pages[q], imports[i]) /\ InsertsAreNew(pages[q]) BY <1>0, <1>7, <2>1 DEF StagingFollowsThePlan
  <3> QED BY <1>4, <1>b, <2>1, <3>1 DEF Follows, SamePlan
 <2>2. CASE pages[q].op # i BY <1>0, <1>4, <1>8, <2>2 DEF StagingFollowsThePlan, PagesOwnImports
 <2> QED BY <2>1, <2>2
<1>12. CommitsAreWaitedFor'
 <2>1. \A j \in Imports : commits'[j] # "open" /\ (commits'[j] # "idle" => j # i /\ commits[j] # "idle") BY <1>1, <1>2
 <2> QED BY <1>0, <1>1, <1>4, <2>1 DEF CommitsAreWaitedFor
<1> QED BY <1>5, <1>6, <1>9, <1>10, <1>11, <1>12 DEF ImportInv, ImportPlan

-----------------------------------------------------------------------------
(* Import: the invariant, and what follows from it.                        *)

\* No import has been opened.
LEMMA ImportInitInv == ImportInit => ImportInv
<1> SUFFICES ASSUME ImportInit PROVE ImportInv OBVIOUS
<1>1. /\ \A i \in Imports : imports[i] = BlankRow /\ commits[i] = "idle" /\ taken[i] = BlankRow
      /\ \A p \in Pages : pages[p] = ClosedPage BY DEF ImportInit
<1>2. ImportTypeOK
 <2>1. content \in [Records -> Contents] /\ edits \in 0 .. MaxEdits BY ImportNumbers DEF ImportInit, Contents
 <2>2. fileRow \in [Files -> {"none", "same", "other", "deleted"}] /\ bucket \in [Imports \X Files -> {"none", "good", "bad"}]
   BY DEF ImportInit
 <2>3. account \in [generation : Nat, rotating : BOOLEAN, id : Nat, key : {"none", "arc", "other"}, labelled : BOOLEAN]
  <3>1. account \in [generation : {0}, rotating : {FALSE}, id : 0..1, key : {"none", "arc", "other"}, labelled : BOOLEAN]
    BY DEF ImportInit
  <3>2. 0 .. 1 \subseteq Nat /\ {0} \subseteq Nat /\ {FALSE} \subseteq BOOLEAN OBVIOUS
  <3>3. PICK a \in [generation : {0}, rotating : {FALSE}, id : 0..1, key : {"none", "arc", "other"}, labelled : BOOLEAN] : account = a
    BY <3>1
  <3>4. account = [generation |-> a.generation, rotating |-> a.rotating, id |-> a.id, key |-> a.key, labelled |-> a.labelled]
    BY <3>3
  <3>5. a.generation \in Nat /\ a.rotating \in BOOLEAN /\ a.id \in Nat /\ a.key \in {"none", "arc", "other"} /\ a.labelled \in BOOLEAN
    BY <3>2, <3>3
  <3> QED BY <3>4, <3>5
 <2>4. imports \in [Imports -> ImportRow] /\ taken \in [Imports -> ImportRow] /\ pages \in [Pages -> PageRow]
   BY BlanksAreTyped DEF ImportInit
 <2>5. \A i \in Imports : imports[i].verified \subseteq imports[i].granted BY <1>1, BlanksAreTyped DEF Empty
 <2> QED BY <2>1, <2>2, <2>3, <2>4, <2>5 DEF ImportInit, ImportTypeOK
<1>3. RowsAreWhole BY <1>1, BlanksAreTyped DEF RowsAreWhole
<1>4. PagesOwnImports /\ CancelledIsOver /\ StagingFollowsThePlan /\ CommitsAreWaitedFor
  BY <1>1, BlanksAreTyped DEF PagesOwnImports, CancelledIsOver, StagingFollowsThePlan, CommitsAreWaitedFor
<1> QED BY <1>2, <1>3, <1>4 DEF ImportInv, ImportPlan

\* The inductive invariant of the import.
LEMMA ImportInvariant == ImportSpec => []ImportInv
<1>1. ASSUME ImportInv, ImportNext PROVE ImportInv'
 <2>1. ASSUME NEW p \in Pages, PageStep(p) PROVE ImportInv'
   BY <1>1, <2>1, AwayStep, ReviewStep, BeginStep, StageStep, AttachmentStep, CommittingStep, AnalyzeStep DEF PageStep
 <2>2. Put \/ Elsewhere => ImportInv' BY <1>1, WorldStep
 <2>3. Commit => ImportInv' BY <1>1, CommitOpenStep, CommitCloseStep DEF Commit
 <2>4. Sweep \/ Time => ImportInv' BY <1>1, SweepRowStep, FadeStep DEF Sweep
 <2> QED BY <1>1, <2>1, <2>2, <2>3, <2>4 DEF ImportNext
<1>2. ASSUME ImportInv, UNCHANGED importVars PROVE ImportInv'
 <2>1. UNCHANGED <<content, fileRow, account, imports, bucket, served, commits, taken, pages, edits>> BY <1>2 DEF importVars
 <2>2. RowsFade /\ PagesForget BY <1>2, <2>1, StayingFades, StayingForgets
 <2>3. VaultRests /\ bucket' \in [Imports \X Files -> {"none", "good", "bad"}]
   BY <1>2, <2>1 DEF VaultRests, ImportInv, ImportTypeOK
 <2> QED BY <1>2, <2>1, <2>2, <2>3, FadingStep
<1> QED BY <1>1, <1>2, ImportInitInv, PTL DEF ImportSpec

\* Only the end of a transaction commits an import.
LEMMA OnlyCommitsCommit ==
    ASSUME ImportInv, ImportNext, NEW i \in Imports, CommitsNow(i)
    PROVE  CommitClose(i) /\ Applicable(i)
<1>0. imports \in [Imports -> ImportRow] /\ pages \in [Pages -> PageRow] BY DEF ImportInv, ImportTypeOK
<1>1. imports[i].phase # "committed" /\ imports'[i].phase = "committed" BY DEF CommitsNow
<1>2. ~RowsFade BY <1>1 DEF RowsFade, Fades
<1>3. imports' # imports BY <1>1
<1>4. \A j \in Imports : \A row : SetImport(j, row) => j = i /\ row.phase = "committed" BY <1>0, <1>1 DEF SetImport
<1>5. ASSUME NEW p \in Pages, PageStep(p) PROVE FALSE
 <2>1. imports' \notin {Aborting(p, imports), imports} BY <1>2, AbortingIsFading
 <2>2. ~Reset(p) /\ ~CancelImport(p) /\ ~LeavePage(p) /\ ~ReviewAgain(p) /\ ~CommitAnswered(p)
   BY <2>1 DEF Reset, CancelImport, LeavePage, ReviewAgain, CommitAnswered
 <2>3. ~OpenArchive(p) /\ ~Compare(p) /\ ~CompareFiles(p) /\ ~Decide(p) /\ ~VerifyRead(p) /\ ~CommitCheck(p)
   BY <1>3 DEF OpenArchive, Compare, CompareFiles, Decide, VerifyRead, CommitCheck, ServerRests
 <2>4. ~DiscardUnfinished(p) BY <1>0, <1>1 DEF DiscardUnfinished, ImportRow
 <2>5. ~Analyze(p)
  <3> SUFFICES ASSUME Analyze(p) PROVE FALSE OBVIOUS
  <3>1. PICK j \in Imports : imports' = [Swept EXCEPT
           ![j] = [@ EXCEPT !.phase = "review", !.owner = p, !.generation = account.generation,
                            !.vault = VaultNow, !.installs = (account.id = 0)]] BY <1>3 DEF Analyze
  <3>2. Swept[i] \in ImportRow /\ Swept[i].phase # "committed" BY <1>1, SweptFades DEF Fades
  <3>3. imports'[i].phase \in {"review", Swept[i].phase}
   <4>1. \A k \in Imports : Swept[k] \in ImportRow BY SweptFades
   <4>2. Swept \in [Imports -> ImportRow] BY <4>1 DEF Swept
   <4> HIDE DEF Swept
   <4> QED BY <3>1, <4>2 DEF ImportRow
  <3> QED BY <1>1, <3>2, <3>3
 <2>6. pages[p].op = 0 \/ pages[p].op \in Imports BY <1>0 DEF PageRow
 <2> DEFINE k == pages[p].op
 <2>7. k # 0 => k \in Imports /\ imports[k] \in ImportRow BY <1>0, <2>6
 <2>8. ~BeginImport(p)
  <3> SUFFICES ASSUME BeginImport(p) PROVE FALSE OBVIOUS
  <3>1. PICK m, n : SetImport(k, [imports[k] EXCEPT !.phase = "staging", !.records = m, !.files = n]) BY DEF BeginImport
  <3>2. k # 0 BY DEF BeginImport, Owned
  <3>3. [imports[k] EXCEPT !.phase = "staging", !.records = m, !.files = n].phase = "staging" BY <2>7, <3>2 DEF ImportRow
  <3> QED BY <1>4, <2>7, <3>1, <3>2, <3>3
 <2>9. ~Grant(p)
  <3> SUFFICES ASSUME Grant(p) PROVE FALSE OBVIOUS
  <3>1. PICK f : SetImport(k, [imports[k] EXCEPT !.granted = @ \cup {f}, !.open = @ \cup {f}]) BY DEF Grant
  <3>2. k # 0 /\ imports[k].phase = "staging" BY DEF Grant, Owned
  <3>3. [imports[k] EXCEPT !.granted = @ \cup {f}, !.open = @ \cup {f}].phase = "staging" BY <2>7, <3>2 DEF ImportRow
  <3> QED BY <1>4, <2>7, <3>1, <3>2, <3>3
 <2>10. ASSUME NEW row \in ImportRow, row.phase = "staging", k # 0, SetImport(k, MarkReady(row)) PROVE FALSE
   BY <1>4, <2>7, <2>10, ReadyRow
 <2>11. ~AppendHistory(p)
  <3> SUFFICES ASSUME AppendHistory(p) PROVE FALSE OBVIOUS
  <3>1. k # 0 /\ imports[k].phase = "staging" /\ SetImport(k, MarkReady([imports[k] EXCEPT !.pending = {}]))
    BY DEF AppendHistory, Owned
  <3>2. [imports[k] EXCEPT !.pending = {}] \in ImportRow /\ [imports[k] EXCEPT !.pending = {}].phase = "staging"
    BY <2>7, <3>1 DEF ImportRow
  <3> QED BY <2>10, <3>1, <3>2
 <2>12. ~VerifyRecord(p)
  <3> SUFFICES ASSUME VerifyRecord(p) PROVE FALSE OBVIOUS
  <3> DEFINE row == [imports[k] EXCEPT !.verified = @ \cup pages[p].checking]
  <3>1. k # 0 /\ imports[k].phase = "staging" /\ SetImport(k, MarkReady(row)) BY DEF VerifyRecord, Owned
  <3>2. row \in ImportRow /\ row.phase = "staging"
   <4>1. pages[p].checking \subseteq Files BY <1>0 DEF PageRow
   <4> QED BY <2>7, <3>1, <4>1 DEF ImportRow
  <3> HIDE DEF row
  <3> QED BY <2>10, <3>1, <3>2
 <2>13. ~StageRecord(p)
  <3> SUFFICES ASSUME StageRecord(p) PROVE FALSE OBVIOUS
  <3>1. /\ pages[p].phase = "staging" /\ imports[k].phase = "staging" /\ k # 0 BY DEF StageRecord, Owned
  <3>2. PICK r \in Records, split \in BOOLEAN :
          SetImport(k, MarkReady([imports[k] EXCEPT
             !.staged[r] = pages[p].plan[r],
             !.expected[r] = IF pages[p].plan[r] = "replace" THEN pages[p].seen[r] ELSE Absent,
             !.pending = Withheld(r, split)])) BY DEF StageRecord
  <3> DEFINE row == [imports[k] EXCEPT !.staged[r] = pages[p].plan[r],
                        !.expected[r] = IF pages[p].plan[r] = "replace" THEN pages[p].seen[r] ELSE Absent,
                        !.pending = Withheld(r, split)]
  <3>3. row.phase = "staging" BY <2>7, <3>1 DEF ImportRow
  <3>4. row.phase = "staging" => MarkReady(row).phase \in {"staging", "ready"}
   <4> HIDE DEF row
   <4>1. CASE MarkReady(row) = row BY <4>1
   <4>2. CASE MarkReady(row) = [row EXCEPT !.phase = "ready"]
    <5>1. "phase" \in DOMAIN row BY <2>7, <3>1 DEF row, ImportRow
    <5> QED BY <4>2, <5>1
   <4> QED BY <4>1, <4>2 DEF MarkReady
  <3> HIDE DEF row
  <3>5. SetImport(k, MarkReady(row)) BY <3>2 DEF row
  <3> QED BY <1>4, <2>7, <3>1, <3>3, <3>4, <3>5
 <2> QED BY <1>5, <2>2, <2>3, <2>4, <2>5, <2>8, <2>9, <2>11, <2>12, <2>13 DEF PageStep
<1>6. ~Put /\ ~Elsewhere BY <1>3 DEF Put, PutLands, Elsewhere, ChangeKey, EditRecord, PurgeRecord, ReleaseFile
<1>7. ~Time
 <2>1. ASSUME NEW j \in Imports, Expire(j) PROVE FALSE
  <3>1. SetImport(j, [imports[j] EXCEPT !.expired = TRUE]) /\ imports[j] \in ImportRow BY <1>0, <2>1 DEF Expire
  <3>2. [imports[j] EXCEPT !.expired = TRUE].phase = imports[j].phase BY <3>1 DEF ImportRow
  <3> QED BY <1>1, <1>4, <3>1, <3>2
 <2>2. ASSUME NEW j \in Imports, NEW f \in Files, GraceOver(j, f) PROVE FALSE
  <3>1. SetImport(j, [imports[j] EXCEPT !.open = @ \ {f}]) /\ imports[j] \in ImportRow BY <1>0, <2>2 DEF GraceOver
  <3>2. [imports[j] EXCEPT !.open = @ \ {f}].phase = imports[j].phase BY <3>1 DEF ImportRow
  <3> QED BY <1>1, <1>4, <3>1, <3>2
 <2> QED BY <2>1, <2>2 DEF Time
<1>8. ~Sweep
 <2>1. ~SweepExpired BY <1>1, SweptFades DEF SweepExpired, Fades
 <2>2. \A j \in Imports : ~SweepRow(j) BY <1>4, BlanksAreTyped DEF SweepRow
 <2>3. \A j \in Imports, f \in Files : ~SweepObject(j, f)
  <3> SUFFICES ASSUME NEW j \in Imports, NEW f \in Files, SweepObject(j, f) PROVE FALSE OBVIOUS
  <3>1. SetImport(j, [imports[j] EXCEPT !.granted = @ \ {f}, !.verified = @ \ {f}]) /\ imports[j] \in ImportRow
    BY <1>0 DEF SweepObject
  <3>2. [imports[j] EXCEPT !.granted = @ \ {f}, !.verified = @ \ {f}].phase = imports[j].phase BY <3>1 DEF ImportRow
  <3> QED BY <1>1, <1>4, <3>1, <3>2
 <2> QED BY <2>1, <2>2, <2>3 DEF Sweep
<1>9. PICK j \in Imports : CommitOpen(j) \/ CommitClose(j) BY <1>5, <1>6, <1>7, <1>8 DEF ImportNext, Commit
<1>10. CommitClose(j) /\ Applicable(j) /\ imports' = [imports EXCEPT ![j].phase = "committed"]
  BY <1>3, <1>9 DEF CommitOpen, CommitClose
<1>11. j = i BY <1>0, <1>1, <1>10
<1> QED BY <1>10, <1>11

\* What a commit lands is exactly what the page of its import planned.
LEMMA CommitIsThePlan ==
    ASSUME ImportInv, NEW p \in Pages, NEW i \in Imports, pages[p].op = i, commits[i] = "open", PlanStaged(taken[i])
    PROVE  /\ \A r \in Records : taken[i].staged[r] = pages[p].plan[r]
           /\ \A r \in Records : pages[p].plan[r] = "replace" => taken[i].expected[r] = pages[p].seen[r]
           /\ taken[i].verified = pages[p].uploads /\ InsertsAreNew(pages[p])
<1>1. /\ Follows(pages[p], taken[i]) /\ pages[p].phase = "committing"
      /\ InsertsAreNew(pages[p]) /\ pages[p] \in PageRow /\ taken[i] \in ImportRow
  BY DEF ImportInv, ImportPlan, CommitsAreWaitedFor, StagingFollowsThePlan, ImportTypeOK
<1>2. StagedRecords(taken[i]) = Planned(pages[p])
 <2>1. StagedRecords(taken[i]) \in SUBSET Planned(pages[p]) /\ Planned(pages[p]) \in SUBSET Records
   BY <1>1 DEF Follows, StagedRecords, Planned
 <2>2. Cardinality(StagedRecords(taken[i])) = Cardinality(Planned(pages[p])) BY <1>1 DEF Follows, PlanStaged
 <2>3. IsFiniteSet(Planned(pages[p])) BY <2>1, ImportNumbers, FS_Subset
 <2> QED BY <2>1, <2>2, <2>3, FS_Subset
<1>3. taken[i].verified = pages[p].uploads
 <2>1. taken[i].verified \in SUBSET pages[p].uploads /\ pages[p].uploads \in SUBSET Files BY <1>1 DEF Follows, PageRow
 <2>2. Cardinality(taken[i].verified) = Cardinality(pages[p].uploads) BY <1>1 DEF Follows, PlanStaged
 <2>3. IsFiniteSet(pages[p].uploads) BY <2>1, ImportNumbers, FS_Subset
 <2> QED BY <2>1, <2>2, <2>3, FS_Subset
<1>4. ASSUME NEW r \in Records PROVE taken[i].staged[r] = pages[p].plan[r]
 <2>1. CASE taken[i].staged[r] # "none" BY <1>1, <2>1 DEF Follows
 <2>2. CASE taken[i].staged[r] = "none" BY <1>2, <2>2 DEF StagedRecords, Planned
 <2> QED BY <2>1, <2>2
<1> QED BY <1>1, <1>3, <1>4 DEF Follows

\* However pages, other devices, uploads, expiry and the cleanup interleave with
\* an import: a commit overwrites only what its page showed, takes the whole plan
\* in one step, and lands under the key the archive was made with.
THEOREM ImportCommitsAreSound == ImportSpec => CommitsAreSound
<1> DEFINE Overwrites == \A p \in Pages : pages[p].op # 0 /\ CommitsNow(pages[p].op) =>
                 \A r \in Records : pages[p].plan[r] \in {"insert", "replace"} => content[r] = pages[p].seen[r]
           Whole == /\ (\E r \in Records : content[r] # Archived /\ content'[r] = Archived) => \E i \in Imports : CommitsNow(i)
                    /\ \A p \in Pages : pages[p].op # 0 /\ CommitsNow(pages[p].op) =>
                         /\ \A r \in Records : pages[p].plan[r] \in {"insert", "replace"} => content'[r] = Archived
                         /\ \A f \in pages[p].uploads : <<pages[p].op, f>> \in served'
           Lands == \A i \in Imports : CommitsNow(i) => account'.key = "arc" /\ ~account.rotating
<1>1. ASSUME ImportInv, ImportNext, NEW p \in Pages, pages[p].op # 0, CommitsNow(pages[p].op)
      PROVE  /\ \A r \in Records : pages[p].plan[r] \in {"insert", "replace"} => content[r] = pages[p].seen[r]
             /\ \A r \in Records : pages[p].plan[r] \in {"insert", "replace"} => content'[r] = Archived
             /\ \A f \in pages[p].uploads : <<pages[p].op, f>> \in served'
 <2>1. PICK i \in Imports : i = pages[p].op BY <1>1 DEF ImportInv, ImportTypeOK, PageRow
 <2>2. CommitClose(i) /\ Applicable(i) BY <1>1, <2>1, OnlyCommitsCommit
 <2>3. Landed(i) /\ commits[i] = "open" /\ PlanStaged(taken[i]) BY <2>2 DEF CommitClose, Applicable
 <2>4. /\ \A r \in Records : taken[i].staged[r] = pages[p].plan[r]
       /\ \A r \in Records : pages[p].plan[r] = "replace" => taken[i].expected[r] = pages[p].seen[r]
       /\ taken[i].verified = pages[p].uploads /\ InsertsAreNew(pages[p]) BY <1>1, <2>1, <2>3, CommitIsThePlan
 <2>5. \A r \in Records : pages[p].plan[r] \in {"insert", "replace"} => content'[r] = Archived BY <2>3, <2>4 DEF Landed
 <2>6. \A f \in pages[p].uploads : <<pages[p].op, f>> \in served' BY <2>1, <2>3, <2>4 DEF Landed
 <2>7. \A r \in Records : DestinationHolds(i, r) BY <2>2 DEF Applicable
 <2>8. \A r \in Records : pages[p].plan[r] \in {"insert", "replace"} => content[r] = pages[p].seen[r]
   BY <2>4, <2>7 DEF DestinationHolds, InsertsAreNew
 <2> QED BY <2>5, <2>6, <2>8
<1>2. ASSUME ImportInv, ImportNext, NEW r \in Records, content[r] # Archived, content'[r] = Archived
      PROVE  \E i \in Imports : CommitsNow(i)
 <2>1. content' # content BY <1>2
 <2>2. ASSUME NEW x \in Records, EditRecord(x) \/ PurgeRecord(x) PROVE FALSE
  <3>0. content \in [Records -> Contents] /\ edits \in Nat BY <1>2, ImportNumbers DEF ImportInv, ImportTypeOK
  <3>1. content \in [Records -> Contents] /\ NextText # Archived /\ Absent # Archived BY <3>0 DEF NextText, Archived, Absent
  <3> QED BY <1>2, <2>2, <3>1 DEF EditRecord, PurgeRecord
 <2>3. PICK i \in Imports : CommitClose(i)
  <3>1. ASSUME NEW p \in Pages, PageStep(p) PROVE content' = content
   <4>1. CASE OpenArchive(p) \/ Compare(p) \/ CompareFiles(p) \/ Decide(p) \/ VerifyRead(p)
     BY <4>1 DEF OpenArchive, Compare, CompareFiles, Decide, VerifyRead, ServerRests
   <4>2. CASE Analyze(p) \/ ReviewAgain(p) \/ Reset(p) \/ CancelImport(p) \/ LeavePage(p) \/ DiscardUnfinished(p)
     BY <4>2 DEF Analyze, ReviewAgain, Reset, CancelImport, LeavePage, DiscardUnfinished, VaultRests
   <4>3. CASE BeginImport(p) \/ StageRecord(p) \/ AppendHistory(p) \/ Grant(p) \/ VerifyRecord(p)
     BY <4>3 DEF BeginImport, StageRecord, AppendHistory, Grant, VerifyRecord, VaultRests
   <4>4. CASE CommitCheck(p) \/ CommitAnswered(p) BY <4>4 DEF CommitCheck, CommitAnswered, VaultRests
   <4> QED BY <3>1, <4>1, <4>2, <4>3, <4>4 DEF PageStep
  <3>2. Put \/ Time \/ Sweep => content' = content
    BY DEF Put, PutLands, Time, Expire, GraceOver, Sweep, SweepExpired, SweepRow, SweepObject, VaultRests
  <3>3. Elsewhere => content' = content BY <2>2 DEF Elsewhere, ChangeKey, ReleaseFile
  <3>4. \A i \in Imports : CommitOpen(i) => content' = content BY DEF CommitOpen
  <3> QED BY <1>2, <2>1, <3>1, <3>2, <3>3, <3>4 DEF ImportNext, Commit
 <2>4. commits[i] = "open" /\ imports' = [imports EXCEPT ![i].phase = "committed"] BY <2>1, <2>3 DEF CommitClose
 <2>5. imports[i] \in ImportRow /\ imports[i].phase # "committed"
   BY <1>2, <2>4 DEF ImportInv, ImportPlan, ImportTypeOK, CommitsAreWaitedFor
 <2>6. imports'[i].phase = "committed" BY <1>2, <2>4, <2>5 DEF ImportInv, ImportTypeOK, ImportRow
 <2> QED BY <2>5, <2>6 DEF CommitsNow
<1>3. ASSUME ImportInv, ImportNext, NEW i \in Imports, CommitsNow(i) PROVE account'.key = "arc" /\ ~account.rotating
 <2>1. CommitClose(i) /\ Applicable(i) BY <1>3, OnlyCommitsCommit
 <2>2. Landed(i) /\ commits[i] = "open" BY <2>1 DEF CommitClose
 <2>3. ~account.rotating /\ (~taken[i].installs => account.key = "arc")
   BY <1>3, <2>2 DEF ImportInv, ImportPlan, CommitsAreWaitedFor
 <2>4. account \in [generation : Nat, rotating : BOOLEAN, id : Nat, key : {"none", "arc", "other"}, labelled : BOOLEAN]
   BY <1>3 DEF ImportInv, ImportTypeOK
 <2> QED BY <2>2, <2>3, <2>4 DEF Landed
<1>4. ImportInv /\ [ImportNext]_importVars => Overwrites /\ Whole /\ Lands
 <2>1. ASSUME ImportInv, UNCHANGED importVars PROVE Overwrites /\ Whole /\ Lands BY <2>1 DEF importVars, CommitsNow
 <2> QED BY <1>1, <1>2, <1>3, <2>1
<1>5. ImportSpec => [][Overwrites]_importVars /\ [][Whole]_importVars /\ [][Lands]_importVars
  BY <1>4, ImportInvariant, PTL DEF ImportSpec
<1> QED BY <1>5 DEF CommitsAreSound, OverwritesWhatWasSeen, WholePlanOrNothing, LandsUnderItsKey

\* A page that said its import was cancelled and nothing was added told the truth,
\* and what it gave up is never committed later, by anybody.
THEOREM CancelledForGood == ImportSpec => []CancelledAddsNothing
<1>1. ImportInv => CancelledAddsNothing BY DEF ImportInv, ImportPlan, CancelledIsOver, CancelledAddsNothing, Unfinished
<1> QED BY <1>1, ImportInvariant, PTL

-----------------------------------------------------------------------------
(* Export: the inductive invariant.                                        *)

\* The workers, the rows and the runs, as far as the argument looks at them.
ExportTypes ==
  /\ live \in [Slots -> Nat]
  /\ exports \in [Runs -> [status : {"none", "active", "completed", "cancelled", "gone"},
                           generation : Nat, snapshot : [Slots -> Nat]]]
  /\ runs \in [Runs -> RunRow]
  /\ refs \in [op : {0} \cup Runs, worker : {0} \cup Runs, sink : {0} \cup Runs,
               abort : {0} \cup Runs, active : BOOLEAN]
  /\ workers \in [Runs -> WorkerRow]
  /\ fence \in [generation : Nat, rotating : BOOLEAN]
  /\ changes \in Nat

\* Nothing but an edit changes a slot, and the index is no slot that is edited.
IndexStands ==
  \A k \in OfKind({"index"}) :
    /\ live[k] = k
    /\ \A i \in Runs : exports[i].status \in {"active", "completed"} => exports[i].snapshot[k] = k

\* What a worker has produced is what begin() fixed; it produces nothing before
\* it is begun, and is done when it has produced everything.
ArchiveFollows ==
  \A i \in Runs :
    /\ runs[i].stage \in {"idle", "preparing", "beginning", "begun"} =>
         workers[i].archive = <<>> /\ workers[i].state # "done"
    /\ exports[i].status \in {"active", "completed"} =>
         \A k \in 1..Len(workers[i].archive) : workers[i].archive[k] = exports[i].snapshot[k]
    /\ workers[i].state = "done" => Len(workers[i].archive) = Len(Entries)
    /\ runs[i].stage \in {"finishing", "success"} => workers[i].state = "done"

ExportInv == ExportTypes /\ IndexStands /\ ArchiveFollows

-----------------------------------------------------------------------------
(* Export: every step keeps it.                                            *)

\* The numbers in use.
LEMMA ExportNumbers == MaxRuns \in Nat /\ Entries \in Seq(Kinds) /\ Len(Entries) \in Nat /\ Slots \subseteq Nat /\ 0 \notin Runs
  BY ExportAssumption DEF Slots, Runs

\* A worker that stops has produced nothing anybody keeps.
LEMMA StoppedIsEmpty ==
  ASSUME workers \in [Runs -> WorkerRow], NEW w \in Runs
  PROVE /\ Stopped(w) \in [Runs -> WorkerRow]
        /\ \A i \in Runs : Stopped(w)[i] = workers[i] \/ (workers[i].state = "running" /\ Stopped(w)[i] = FailedWorker)
<1>1. FailedWorker \in WorkerRow BY DEF FailedWorker, WorkerRow
<1> QED BY <1>1 DEF Stopped

\* Workers only stop, and the vault, the rows and the stages stay as they are.
LEMMA StoppingKeeps ==
  ASSUME ExportInv, ExportTypes', UNCHANGED <<live, exports>>,
         \A i \in Runs : runs'[i].stage = runs[i].stage \/ runs'[i].stage \in {"failing", "failed"},
         \A i \in Runs : workers'[i] = workers[i] \/ (workers[i].state = "running" /\ workers'[i] = FailedWorker)
  PROVE ExportInv'
<1>1. IndexStands' BY DEF ExportInv, IndexStands
<1>2. ASSUME NEW i \in Runs
      PROVE /\ runs'[i].stage \in {"idle", "preparing", "beginning", "begun"} =>
                 workers'[i].archive = <<>> /\ workers'[i].state # "done"
            /\ exports'[i].status \in {"active", "completed"} =>
                 \A k \in 1..Len(workers'[i].archive) : workers'[i].archive[k] = exports'[i].snapshot[k]
            /\ workers'[i].state = "done" => Len(workers'[i].archive) = Len(Entries)
            /\ runs'[i].stage \in {"finishing", "success"} => workers'[i].state = "done"
 <2>1. CASE workers'[i] = workers[i] BY <2>1 DEF ExportInv, ArchiveFollows
 <2>2. CASE workers[i].state = "running" /\ workers'[i] = FailedWorker
  <3>1. FailedWorker.archive = <<>> /\ FailedWorker.state = "failed" /\ Len(FailedWorker.archive) = 0 BY DEF FailedWorker
  <3>2. runs[i].stage \notin {"finishing", "success"} BY <2>2 DEF ExportInv, ArchiveFollows
  <3>3. 1..Len(workers'[i].archive) = {} BY <2>2, <3>1
  <3> QED BY <2>2, <3>1, <3>2, <3>3
 <2> QED BY <2>1, <2>2
<1> QED BY <1>1, <1>2 DEF ExportInv, ArchiveFollows


\* The page's own steps.
LEMMA PageKeeps ==
  ASSUME ExportInv, NEW i \in Runs, Start(i) \/ Prepared(i) \/ SaveEntry(i) \/ Saved(i)
  PROVE ExportInv'
<1>1. UNCHANGED <<live, objects, fence, changes, exports, workers, cancels>>
  BY DEF Start, Prepared, SaveEntry, Saved, VaultStays, Goto
<1>2. PICK row \in RunRow :
        /\ runs' = [runs EXCEPT ![i] = row]
        /\ row.stage \in {"idle", "preparing", "beginning", "begun"} =>
             runs[i].stage \in {"idle", "preparing", "beginning", "begun"}
        /\ row.stage \in {"finishing", "success"} => workers[i].state = "done"
 <2>0. runs[i] \in RunRow /\ refs.sink \in {0} \cup Runs /\ refs.worker \in {0} \cup Runs BY DEF ExportInv, ExportTypes
 <2>1. \A stage \in {"preparing", "beginning", "failing", "finishing"} : [runs[i] EXCEPT !.stage = stage] \in RunRow
                 /\ [runs[i] EXCEPT !.stage = stage].stage = stage BY <2>0 DEF RunRow
 <2>2. [runs[i] EXCEPT !.stage = "saving", !.sink = refs.sink, !.awaited = refs.worker] \in RunRow
       /\ [runs[i] EXCEPT !.stage = "saving", !.sink = refs.sink, !.awaited = refs.worker].stage = "saving" BY <2>0 DEF RunRow
 <2>3. CASE Start(i) BY <2>1, <2>3 DEF Start, Goto
 <2>4. CASE Prepared(i) BY <2>1, <2>4 DEF Prepared, Goto
 <2>5. CASE SaveEntry(i)
  <3>1. CASE Goto(i, "failing") BY <2>1, <3>1 DEF Goto
  <3>2. CASE ~Goto(i, "failing")
   <4>1. runs' = [runs EXCEPT ![i].stage = "saving", ![i].sink = refs.sink, ![i].awaited = refs.worker]
     BY <2>5, <3>2 DEF SaveEntry
   <4>2. runs' = [runs EXCEPT ![i] = [runs[i] EXCEPT !.stage = "saving", !.sink = refs.sink, !.awaited = refs.worker]] BY <4>1
   <4> QED BY <2>2, <4>2
  <3> QED BY <3>1, <3>2
 <2>6. CASE Saved(i) BY <2>1, <2>6 DEF Saved, Goto
 <2> QED BY <2>3, <2>4, <2>5, <2>6
<1>3. runs \in [Runs -> RunRow] /\ runs' \in [Runs -> RunRow] BY <1>2 DEF ExportInv, ExportTypes
<1>4. refs' \in [op : {0} \cup Runs, worker : {0} \cup Runs, sink : {0} \cup Runs,
                 abort : {0} \cup Runs, active : BOOLEAN] BY DEF ExportInv, ExportTypes, Start, Prepared, SaveEntry, Saved, Goto
<1>5. ExportTypes' BY <1>1, <1>3, <1>4 DEF ExportInv, ExportTypes
<1>6. IndexStands' BY <1>1 DEF ExportInv, IndexStands
<1>7. \A j \in Runs : runs'[j] = IF j = i THEN row ELSE runs[j] BY <1>2, <1>3
<1>8. ArchiveFollows' BY <1>1, <1>2, <1>7 DEF ExportInv, ArchiveFollows
<1> QED BY <1>5, <1>6, <1>8 DEF ExportInv

\* Giving a run up, by the page or by the network.
LEMMA GivingUpKeeps ==
  ASSUME ExportInv, CancelExport \/ \E i \in Runs : Catch(i) \/ Interrupted(i)
  PROVE ExportInv'
<1>0. FailedWorker \in WorkerRow /\ NoRefs \in [op : {0} \cup Runs, worker : {0} \cup Runs, sink : {0} \cup Runs,
                                               abort : {0} \cup Runs, active : BOOLEAN] BY DEF FailedWorker, WorkerRow, NoRefs
<1>1. CASE CancelExport
 <2>1. UNCHANGED <<live, objects, fence, changes, exports>> BY <1>1 DEF CancelExport, VaultStays
 <2>2. /\ workers' \in [Runs -> WorkerRow]
       /\ \A i \in Runs : workers'[i] = workers[i] \/ (workers[i].state = "running" /\ workers'[i] = FailedWorker)
  <3>1. refs.worker # 0 => refs.worker \in Runs BY DEF ExportInv, ExportTypes
  <3> QED BY <1>1, <3>1, StoppedIsEmpty DEF CancelExport, ExportInv, ExportTypes
 <2>3. /\ runs' \in [Runs -> RunRow]
       /\ \A i \in Runs : runs'[i].stage = runs[i].stage
  <3>1. refs.abort # 0 => refs.abort \in Runs BY DEF ExportInv, ExportTypes
  <3>2. ASSUME NEW i \in Runs
        PROVE [runs[i] EXCEPT !.aborted = TRUE] \in RunRow /\ [runs[i] EXCEPT !.aborted = TRUE].stage = runs[i].stage
   <4>1. runs[i] \in RunRow BY <3>2 DEF ExportInv, ExportTypes
   <4> QED BY <4>1 DEF RunRow
  <3>3. CASE refs.abort # 0
   <4>1. runs' = [runs EXCEPT ![refs.abort] = [runs[refs.abort] EXCEPT !.aborted = TRUE]] BY <1>1, <3>3 DEF CancelExport
   <4> QED BY <3>1, <3>2, <3>3, <4>1 DEF ExportInv, ExportTypes
  <3>4. CASE refs.abort = 0 BY <1>1, <3>4 DEF CancelExport, ExportInv, ExportTypes
  <3> QED BY <3>3, <3>4
 <2>4. ExportTypes' BY <1>1, <2>1, <2>2, <2>3 DEF CancelExport, ExportInv, ExportTypes
 <2> QED BY <2>1, <2>2, <2>3, <2>4, StoppingKeeps
<1>2. ASSUME NEW i \in Runs, Catch(i) PROVE ExportInv'
 <2>1. UNCHANGED <<live, objects, fence, changes, exports>> BY <1>2 DEF Catch, VaultStays
 <2>2. /\ workers' \in [Runs -> WorkerRow]
       /\ \A j \in Runs : workers'[j] = workers[j] \/ (workers[j].state = "running" /\ workers'[j] = FailedWorker)
  <3>1. refs.worker # 0 => refs.worker \in Runs BY DEF ExportInv, ExportTypes
  <3> QED BY <1>2, <3>1, StoppedIsEmpty DEF Catch, ExportInv, ExportTypes
 <2>3. /\ runs' \in [Runs -> RunRow]
       /\ \A j \in Runs : runs'[j].stage = runs[j].stage \/ runs'[j].stage = "failed"
  <3>1. runs' = [runs EXCEPT ![i] = [runs[i] EXCEPT !.stage = "failed"]] BY <1>2 DEF Catch, Goto
  <3>2. [runs[i] EXCEPT !.stage = "failed"] \in RunRow /\ [runs[i] EXCEPT !.stage = "failed"].stage = "failed"
   <4>1. runs[i] \in RunRow BY <1>2 DEF ExportInv, ExportTypes
   <4> QED BY <4>1 DEF RunRow
  <3> QED BY <3>1, <3>2 DEF ExportInv, ExportTypes
 <2>4. ExportTypes' BY <1>0, <1>2, <2>1, <2>2, <2>3 DEF Catch, ExportInv, ExportTypes
 <2> QED BY <2>1, <2>2, <2>3, <2>4, StoppingKeeps
<1>3. ASSUME NEW i \in Runs, Interrupted(i) PROVE ExportInv'
 <2>1. UNCHANGED <<live, objects, fence, changes, exports, runs, refs>> BY <1>3 DEF Interrupted, VaultStays
 <2>2. /\ workers' \in [Runs -> WorkerRow]
       /\ \A j \in Runs : workers'[j] = workers[j] \/ (workers[j].state = "running" /\ workers'[j] = FailedWorker)
   BY <1>0, <1>3 DEF Interrupted, WorkerFails, ExportInv, ExportTypes
 <2>3. ExportTypes' BY <2>1, <2>2 DEF ExportInv, ExportTypes
 <2> QED BY <2>1, <2>2, <2>3, StoppingKeeps
<1> QED BY <1>1, <1>2, <1>3


\* The rest of the program: edits, rotations and the cleanup leave the index alone.
LEMMA MeanwhileKeeps ==
  ASSUME ExportInv, Meanwhile
  PROVE ExportInv'
<1>1. UNCHANGED <<exports, runs, refs, workers>> BY DEF Meanwhile, BeginRotation, Activate, ChangeSlot, DropObject, Outside
<1>2. \A k \in Slots : NewKey(k) \in Nat
 <2>1. \A m, n \in Nat : m * n \in Nat OBVIOUS
 <2>2. Len(Entries) \in Nat /\ changes + 1 \in Nat BY ExportNumbers DEF ExportInv, ExportTypes
 <2>3. Len(Entries) * (changes + 1) \in Nat BY <2>1, <2>2
 <2> QED BY <2>3, ExportNumbers DEF NewKey
<1>3. fence' \in [generation : Nat, rotating : BOOLEAN] /\ changes' \in Nat
 <2>0. fence \in [generation : Nat, rotating : BOOLEAN] /\ changes \in Nat BY DEF ExportInv, ExportTypes
 <2>1. CASE BeginRotation BY <2>0, <2>1 DEF BeginRotation
 <2>2. CASE Activate
  <3>1. fence.generation + 1 \in Nat /\ changes + 1 \in Nat /\ fence.generation \in Nat BY <2>0
  <3>2. [generation |-> fence.generation + 1, rotating |-> FALSE] \in [generation : Nat, rotating : BOOLEAN]
        /\ [fence EXCEPT !.rotating = FALSE] \in [generation : Nat, rotating : BOOLEAN] BY <2>0, <3>1
  <3> QED BY <2>2, <3>1, <3>2 DEF Activate
 <2>3. CASE \E k \in Slots : ChangeSlot(k) BY <2>0, <2>3 DEF ChangeSlot
 <2>4. CASE \E key \in objects : DropObject(key) BY <2>0, <2>4 DEF DropObject
 <2> QED BY <2>1, <2>2, <2>3, <2>4 DEF Meanwhile
<1>4. live' \in [Slots -> Nat] /\ \A k \in OfKind({"index"}) : live'[k] = live[k]
 <2>0. live \in [Slots -> Nat] /\ OfKind({"index"}) \subseteq Slots BY DEF ExportInv, ExportTypes, OfKind
 <2>1. CASE BeginRotation \/ \E key \in objects : DropObject(key) BY <2>0, <2>1 DEF BeginRotation, DropObject
 <2>2. CASE Activate
  <3>1. \A k \in OfKind({"index"}) : k \notin EncryptedSlots BY DEF OfKind, EncryptedSlots
  <3>2. CASE UNCHANGED live BY <2>0, <3>2
  <3>3. CASE live' = [k \in Slots |-> IF k \in EncryptedSlots /\ live[k] # 0 THEN NewKey(k) ELSE live[k]]
    BY <1>2, <2>0, <3>1, <3>3
  <3> QED BY <2>2, <3>2, <3>3 DEF Activate
 <2>3. ASSUME NEW k \in Slots, ChangeSlot(k) PROVE live' \in [Slots -> Nat] /\ \A j \in OfKind({"index"}) : live'[j] = live[j]
  <3>1. PICK new \in Nat : live' = [live EXCEPT ![k] = new] BY <1>2, <2>3 DEF ChangeSlot
  <3>2. k \notin OfKind({"index"}) BY <2>3 DEF ChangeSlot, OfKind
  <3> QED BY <2>0, <3>1, <3>2
 <2> QED BY <2>1, <2>2, <2>3 DEF Meanwhile
<1>5. ExportTypes' BY <1>1, <1>3, <1>4 DEF ExportInv, ExportTypes
<1>6. IndexStands' BY <1>1, <1>4 DEF ExportInv, IndexStands
<1>7. ArchiveFollows' BY <1>1 DEF ExportInv, ArchiveFollows
<1> QED BY <1>5, <1>6, <1>7 DEF ExportInv

\* A worker begins, with nothing.
LEMMA BeginAnsweredKeeps ==
  ASSUME ExportInv, NEW i \in Runs, BeginAnswered(i)
  PROVE ExportInv'
<1>1. UNCHANGED <<live, objects, fence, changes, exports>> BY DEF BeginAnswered, VaultStays
<1>2. workers[i] \in WorkerRow /\ runs[i] \in RunRow /\ runs[i].stage = "begun" BY DEF ExportInv, ExportTypes, BeginAnswered
<1>3. PICK row \in RunRow : runs' = [runs EXCEPT ![i] = row] /\ row.stage \in {"streaming", "failing"}
 <2>1. \A stage \in {"streaming", "failing"} : [runs[i] EXCEPT !.stage = stage] \in RunRow /\ [runs[i] EXCEPT !.stage = stage].stage = stage
   BY <1>2 DEF RunRow
 <2> QED BY <2>1 DEF BeginAnswered, Goto
<1>4. PICK new \in WorkerRow : workers' = [workers EXCEPT ![i] = new] /\ new.archive = workers[i].archive /\ new.state # "done"
 <2>1. [workers[i] EXCEPT !.state = "running"] \in WorkerRow
       /\ [workers[i] EXCEPT !.state = "running"].archive = workers[i].archive
       /\ [workers[i] EXCEPT !.state = "running"].state = "running" BY <1>2 DEF WorkerRow
 <2>2. CASE workers' = [workers EXCEPT ![i].state = "running"] BY <2>1, <2>2
 <2>3. CASE UNCHANGED workers
  <3>1. workers' = [workers EXCEPT ![i] = workers[i]] BY <2>3 DEF ExportInv, ExportTypes
  <3>2. workers[i].state # "done" BY <1>2 DEF ExportInv, ArchiveFollows
  <3> QED BY <1>2, <3>1, <3>2
 <2> QED BY <2>2, <2>3 DEF BeginAnswered
<1>5. workers \in [Runs -> WorkerRow] /\ runs \in [Runs -> RunRow] BY DEF ExportInv, ExportTypes
<1>6. ExportTypes' BY <1>1, <1>3, <1>4 DEF ExportInv, ExportTypes, BeginAnswered
<1>7. IndexStands' BY <1>1 DEF ExportInv, IndexStands
<1>8. /\ \A j \in Runs : runs'[j] = IF j = i THEN row ELSE runs[j]
      /\ \A j \in Runs : workers'[j] = IF j = i THEN new ELSE workers[j] BY <1>3, <1>4, <1>5
<1>9. ArchiveFollows' BY <1>1, <1>2, <1>3, <1>4, <1>8 DEF ExportInv, ArchiveFollows
<1> QED BY <1>6, <1>7, <1>9 DEF ExportInv

\* The server fixes what the archive will hold before anything is produced.
LEMMA BeginExportKeeps ==
  ASSUME ExportInv, NEW i \in Runs, BeginExport(i)
  PROVE ExportInv'
<1>1. UNCHANGED <<live, objects, fence, changes, refs, workers>> BY DEF BeginExport, VaultStays
<1>2. runs[i] \in RunRow /\ runs[i].stage = "beginning" /\ fence.generation \in Nat /\ live \in [Slots -> Nat]
  BY DEF ExportInv, ExportTypes, BeginExport
<1>3. PICK row \in RunRow : runs' = [runs EXCEPT ![i] = row] /\ row.stage \in {"begun", "failing"}
 <2>1. \A stage \in {"begun", "failing"} : [runs[i] EXCEPT !.stage = stage] \in RunRow /\ [runs[i] EXCEPT !.stage = stage].stage = stage
   BY <1>2 DEF RunRow
 <2> QED BY <2>1 DEF BeginExport, Goto
<1>4. runs' \in [Runs -> RunRow] /\ \A j \in Runs : runs'[j] = IF j = i THEN row ELSE runs[j] BY <1>3 DEF ExportInv, ExportTypes
<1>5. workers[i].archive = <<>> /\ workers[i].state # "done" /\ Len(workers[i].archive) = 0
  BY <1>2 DEF ExportInv, ArchiveFollows
<1>6. CASE UNCHANGED exports
 <2>1. ExportTypes' BY <1>1, <1>4, <1>6 DEF ExportInv, ExportTypes
 <2>2. IndexStands' BY <1>1, <1>6 DEF ExportInv, IndexStands
 <2>3. ArchiveFollows' BY <1>1, <1>3, <1>4, <1>5, <1>6 DEF ExportInv, ArchiveFollows
 <2> QED BY <2>1, <2>2, <2>3 DEF ExportInv
<1>7. CASE exports' = [exports EXCEPT ![i] = [status |-> "active", generation |-> fence.generation, snapshot |-> live]]
 <2>1. ExportTypes' BY <1>1, <1>2, <1>4, <1>7 DEF ExportInv, ExportTypes
 <2>2. \A j \in Runs : exports'[j] = IF j = i THEN [status |-> "active", generation |-> fence.generation, snapshot |-> live] ELSE exports[j]
   BY <1>7 DEF ExportInv, ExportTypes
 <2>3. IndexStands' BY <1>1, <2>2 DEF ExportInv, IndexStands
 <2>4. 1..Len(workers[i].archive) = {} BY <1>5
 <2>5. ArchiveFollows' BY <1>1, <1>3, <1>4, <1>5, <2>2, <2>4 DEF ExportInv, ArchiveFollows
 <2> QED BY <2>1, <2>3, <2>5 DEF ExportInv
<1> QED BY <1>6, <1>7 DEF BeginExport

\* A row is completed, cancelled or deleted.
LEMMA RowEndsKeeps ==
  ASSUME ExportInv, NEW i \in Runs, FinishExport(i) \/ CancelArrives(i) \/ ExportLapses(i)
  PROVE ExportInv'
<1>1. UNCHANGED <<live, objects, fence, changes, workers>> BY DEF FinishExport, CancelArrives, ExportLapses, VaultStays
<1>2. runs[i] \in RunRow /\ exports[i] \in [status : {"none", "active", "completed", "cancelled", "gone"}, generation : Nat, snapshot : [Slots -> Nat]]
  BY DEF ExportInv, ExportTypes
<1>3. PICK row \in RunRow : /\ runs' = [runs EXCEPT ![i] = row]
                            /\ row = runs[i] \/ (runs[i].stage = "finishing" /\ row.stage \in {"success", "failing"})
 <2>1. \A stage \in {"success", "failing"} : [runs[i] EXCEPT !.stage = stage] \in RunRow /\ [runs[i] EXCEPT !.stage = stage].stage = stage
   BY <1>2 DEF RunRow
 <2>2. CASE FinishExport(i) BY <2>1, <2>2 DEF FinishExport, Goto
 <2>3. CASE UNCHANGED runs
  <3>1. runs' = [runs EXCEPT ![i] = runs[i]] BY <2>3 DEF ExportInv, ExportTypes
  <3> QED BY <1>2, <3>1
 <2> QED BY <2>2, <2>3 DEF CancelArrives, ExportLapses
<1>4. PICK new \in [status : {"none", "active", "completed", "cancelled", "gone"}, generation : Nat, snapshot : [Slots -> Nat]] :
        /\ exports' = [exports EXCEPT ![i] = new]
        /\ new.status \in {"active", "completed"} => exports[i].status \in {"active", "completed"} /\ new.snapshot = exports[i].snapshot
 <2>0. NoRow \in [status : {"none", "active", "completed", "cancelled", "gone"}, generation : Nat, snapshot : [Slots -> Nat]]
   BY DEF NoRow
 <2>1. /\ [exports[i] EXCEPT !.status = "completed"] \in [status : {"none", "active", "completed", "cancelled", "gone"}, generation : Nat, snapshot : [Slots -> Nat]]
       /\ [exports[i] EXCEPT !.status = "completed"].snapshot = exports[i].snapshot BY <1>2
 <2>2. \A status \in {"cancelled", "gone"} :
         /\ [NoRow EXCEPT !.status = status] \in [status : {"none", "active", "completed", "cancelled", "gone"}, generation : Nat, snapshot : [Slots -> Nat]]
         /\ [NoRow EXCEPT !.status = status].status = status BY <2>0
 <2>3. exports = [exports EXCEPT ![i] = exports[i]] BY DEF ExportInv, ExportTypes
 <2>4. CASE FinishExport(i)
  <3>1. CASE UNCHANGED exports BY <1>2, <2>3, <3>1
  <3>2. CASE exports' # exports BY <2>1, <2>4, <3>2 DEF FinishExport
  <3> QED BY <3>1, <3>2
 <2>5. CASE CancelArrives(i)
  <3>1. CASE exports[i].status = "active" BY <2>2, <2>5, <3>1 DEF CancelArrives
  <3>2. CASE exports[i].status # "active" BY <1>2, <2>3, <2>5, <3>2 DEF CancelArrives
  <3> QED BY <3>1, <3>2
 <2>6. CASE ExportLapses(i) BY <2>2, <2>6 DEF ExportLapses
 <2> QED BY <2>4, <2>5, <2>6
<1>5. /\ runs' \in [Runs -> RunRow] /\ \A j \in Runs : runs'[j] = IF j = i THEN row ELSE runs[j]
      /\ \A j \in Runs : exports'[j] = IF j = i THEN new ELSE exports[j] BY <1>3, <1>4 DEF ExportInv, ExportTypes
<1>6. ExportTypes'
 <2>1. refs' \in [op : {0} \cup Runs, worker : {0} \cup Runs, sink : {0} \cup Runs,
                  abort : {0} \cup Runs, active : BOOLEAN]
  <3>1. NoRefs \in [op : {0} \cup Runs, worker : {0} \cup Runs, sink : {0} \cup Runs,
                   abort : {0} \cup Runs, active : BOOLEAN] BY DEF NoRefs
  <3>2. refs' \in {refs, NoRefs} BY DEF FinishExport, CancelArrives, ExportLapses
  <3> QED BY <3>1, <3>2 DEF ExportInv, ExportTypes
 <2> QED BY <1>1, <1>4, <1>5, <2>1 DEF ExportInv, ExportTypes
<1>7. IndexStands' BY <1>1, <1>4, <1>5 DEF ExportInv, IndexStands
<1>8. ArchiveFollows' BY <1>1, <1>3, <1>4, <1>5 DEF ExportInv, ArchiveFollows
<1> QED BY <1>6, <1>7, <1>8 DEF ExportInv


\* An entry is read only as begin() fixed it.
LEMMA EntryKeeps ==
  ASSUME ExportInv, NEW i \in Runs, ReadEntry(i) \/ FenceObject(i) \/ ReadObject(i)
  PROVE ExportInv'
<1> DEFINE k == Position(i)
           snapshot == exports[i].snapshot
<1>1. UNCHANGED <<live, objects, fence, changes, exports, runs, refs>> BY DEF ReadEntry, FenceObject, ReadObject, VaultStays
<1>2. /\ workers \in [Runs -> WorkerRow] /\ workers[i] \in WorkerRow /\ snapshot \in [Slots -> Nat] /\ live \in [Slots -> Nat]
      /\ runs[i].stage = "saving" /\ k \in Slots /\ k = Len(workers[i].archive) + 1
  BY DEF ExportInv, ExportTypes, ReadEntry, FenceObject, ReadObject, Pulling, Position
<1>3. workers[i].archive \in Seq(Nat) /\ Len(workers[i].archive) \in Nat BY <1>2 DEF WorkerRow
<1>4. CASE \E value \in Nat : /\ Append1(i, value)
                              /\ exports[i].status \in {"active", "completed"} => value = snapshot[k]
 <2>1. PICK value \in Nat : Append1(i, value) /\ (exports[i].status \in {"active", "completed"} => value = snapshot[k]) BY <1>4
 <2> DEFINE longer == Append(workers[i].archive, value)
            state == IF k = Len(Entries) THEN "done" ELSE workers[i].state
            new == [workers[i] EXCEPT !.archive = longer, !.fenced = FALSE, !.state = state]
 <2>2. /\ longer \in Seq(Nat) /\ Len(longer) = k /\ longer[k] = value
       /\ \A j \in 1..Len(workers[i].archive) : longer[j] = workers[i].archive[j] BY <1>2, <1>3
 <2>3. \A j \in 1..k : j = k \/ j \in 1..Len(workers[i].archive) BY <1>2, <1>3
 <2>4. new \in WorkerRow /\ new.archive = longer /\ new.state = state BY <1>2, <2>2 DEF WorkerRow
 <2>5. workers' = [workers EXCEPT ![i] = new] BY <2>1 DEF Append1
 <2> HIDE DEF new
 <2>6. workers' \in [Runs -> WorkerRow] /\ \A j \in Runs : workers'[j] = IF j = i THEN new ELSE workers[j] BY <1>2, <2>4, <2>5
 <2>7. ExportTypes' BY <1>1, <2>6 DEF ExportInv, ExportTypes
 <2>8. state = "done" => k = Len(Entries)
  <3>1. workers[i].state = "done" => Len(workers[i].archive) = Len(Entries) BY DEF ExportInv, ArchiveFollows
  <3>2. k <= Len(Entries) /\ Len(Entries) \in Nat BY <1>2, ExportNumbers DEF Slots
  <3> QED BY <1>2, <1>3, <3>1, <3>2
 <2>9. exports[i].status \in {"active", "completed"} => \A j \in 1..k : longer[j] = snapshot[j]
   BY <2>1, <2>2, <2>3 DEF ExportInv, ArchiveFollows
 <2> HIDE DEF longer, state, k
 <2>10. ArchiveFollows'
  <3> SUFFICES ASSUME NEW j \in Runs
      PROVE /\ runs'[j].stage \in {"idle", "preparing", "beginning", "begun"} =>
                 workers'[j].archive = <<>> /\ workers'[j].state # "done"
            /\ exports'[j].status \in {"active", "completed"} =>
                 \A n \in 1..Len(workers'[j].archive) : workers'[j].archive[n] = exports'[j].snapshot[n]
            /\ workers'[j].state = "done" => Len(workers'[j].archive) = Len(Entries)
            /\ runs'[j].stage \in {"finishing", "success"} => workers'[j].state = "done" BY DEF ArchiveFollows
  <3>1. CASE j # i BY <1>1, <2>6, <3>1 DEF ExportInv, ArchiveFollows
  <3>2. CASE j = i BY <1>1, <1>2, <2>2, <2>4, <2>6, <2>8, <2>9, <3>2
  <3> QED BY <3>1, <3>2
 <2>11. IndexStands' BY <1>1 DEF ExportInv, IndexStands
 <2> QED BY <2>7, <2>10, <2>11 DEF ExportInv
<1>5. CASE WorkerFails(i)
 <2>1. FailedWorker \in WorkerRow /\ FailedWorker.archive = <<>> /\ FailedWorker.state = "failed" BY DEF FailedWorker, WorkerRow
 <2>2. workers' \in [Runs -> WorkerRow] /\ \A j \in Runs : workers'[j] = IF j = i THEN FailedWorker ELSE workers[j]
   BY <1>2, <1>5, <2>1 DEF WorkerFails
 <2>3. ExportTypes' BY <1>1, <2>2 DEF ExportInv, ExportTypes
 <2>4. 1..Len(FailedWorker.archive) = {} BY <2>1
 <2>5. ArchiveFollows'
  <3> SUFFICES ASSUME NEW j \in Runs
      PROVE /\ runs'[j].stage \in {"idle", "preparing", "beginning", "begun"} =>
                 workers'[j].archive = <<>> /\ workers'[j].state # "done"
            /\ exports'[j].status \in {"active", "completed"} =>
                 \A n \in 1..Len(workers'[j].archive) : workers'[j].archive[n] = exports'[j].snapshot[n]
            /\ workers'[j].state = "done" => Len(workers'[j].archive) = Len(Entries)
            /\ runs'[j].stage \in {"finishing", "success"} => workers'[j].state = "done" BY DEF ArchiveFollows
  <3>1. CASE j # i BY <1>1, <2>2, <3>1 DEF ExportInv, ArchiveFollows
  <3>2. CASE j = i BY <1>1, <1>2, <2>1, <2>2, <2>4, <3>2
  <3> QED BY <3>1, <3>2
 <2>6. IndexStands' BY <1>1 DEF ExportInv, IndexStands
 <2> QED BY <2>3, <2>5, <2>6 DEF ExportInv
<1>6. CASE workers' = [workers EXCEPT ![i].fenced = TRUE]
 <2> DEFINE new == [workers[i] EXCEPT !.fenced = TRUE]
 <2>1. new \in WorkerRow /\ new.archive = workers[i].archive /\ new.state = workers[i].state BY <1>2 DEF WorkerRow
 <2>2. workers' = [workers EXCEPT ![i] = new] BY <1>6
 <2> HIDE DEF new
 <2>3. workers' \in [Runs -> WorkerRow] /\ \A j \in Runs : workers'[j] = IF j = i THEN new ELSE workers[j] BY <1>2, <2>1, <2>2
 <2>4. ExportTypes' BY <1>1, <2>3 DEF ExportInv, ExportTypes
 <2>5. ArchiveFollows' BY <1>1, <2>1, <2>3 DEF ExportInv, ArchiveFollows
 <2>6. IndexStands' BY <1>1 DEF ExportInv, IndexStands
 <2> QED BY <2>4, <2>5, <2>6 DEF ExportInv
<1>7. CASE ReadEntry(i)
 <2>1. ASSUME Exportable(i), Faithful(i, k) PROVE live[k] = snapshot[k]
  <3>1. CASE Entries[k] = "index"
   <4>1. k \in OfKind({"index"}) /\ exports[i].status = "active" BY <1>2, <2>1, <3>1 DEF OfKind, Exportable
   <4> QED BY <4>1 DEF ExportInv, IndexStands
  <3>2. CASE Entries[k] # "index" BY <2>1, <3>2 DEF Faithful, Unchanged
  <3> QED BY <3>1, <3>2
 <2>2. live[k] \in Nat BY <1>2
 <2>3. WorkerFails(i) \/ (Append1(i, live[k]) /\ Exportable(i) /\ Faithful(i, k)) BY <1>7 DEF ReadEntry
 <2> HIDE DEF k
 <2> QED BY <1>4, <1>5, <2>1, <2>2, <2>3
<1>8. CASE FenceObject(i) BY <1>5, <1>6, <1>8 DEF FenceObject
<1>9. CASE ReadObject(i)
 <2>1. snapshot[k] \in Nat BY <1>2
 <2>2. WorkerFails(i) \/ Append1(i, snapshot[k]) BY <1>9 DEF ReadObject
 <2> HIDE DEF k
 <2> QED BY <1>4, <1>5, <2>1, <2>2
<1> QED BY <1>7, <1>8, <1>9

-----------------------------------------------------------------------------
(* Export: the invariant, and what follows from it.                        *)

\* Nothing has been exported.
LEMMA ExportInitInv == ExportInit => ExportInv
<1> SUFFICES ASSUME ExportInit PROVE ExportInv OBVIOUS
<1>1. live \in [Slots -> Nat] /\ \A k \in OfKind({"index"}) : live[k] = k BY ExportNumbers DEF ExportInit, OfKind
<1>2. NoRow \in [status : {"none", "active", "completed", "cancelled", "gone"}, generation : Nat, snapshot : [Slots -> Nat]]
      /\ NoRow.status = "none" BY DEF NoRow
<1>3. [stage |-> "idle", aborted |-> FALSE, sink |-> 0, awaited |-> 0] \in RunRow BY DEF RunRow
<1>4. [state |-> "none", fenced |-> FALSE, archive |-> <<>>] \in WorkerRow BY DEF WorkerRow
<1>5. NoRefs \in [op : {0} \cup Runs, worker : {0} \cup Runs, sink : {0} \cup Runs, abort : {0} \cup Runs, active : BOOLEAN]
  BY DEF NoRefs
<1>6. ExportTypes BY <1>1, <1>2, <1>3, <1>4, <1>5 DEF ExportInit, ExportTypes
<1>7. IndexStands BY <1>1, <1>2 DEF ExportInit, IndexStands
<1>8. ArchiveFollows BY <1>2 DEF ExportInit, ArchiveFollows
<1> QED BY <1>6, <1>7, <1>8 DEF ExportInv

\* The inductive invariant of the export.
LEMMA ExportInvariant == ExportSpec => []ExportInv
<1>1. ASSUME ExportInv, ExportNext PROVE ExportInv'
 <2>1. ASSUME NEW i \in Runs, PageRun(i) PROVE ExportInv'
   BY <1>1, <2>1, PageKeeps, BeginAnsweredKeeps, GivingUpKeeps DEF PageRun
 <2>2. ASSUME NEW i \in Runs, ServerRun(i) PROVE ExportInv'
   BY <1>1, <2>2, BeginExportKeeps, EntryKeeps, GivingUpKeeps, RowEndsKeeps DEF ServerRun
 <2>3. CancelExport \/ Meanwhile => ExportInv' BY <1>1, GivingUpKeeps, MeanwhileKeeps
 <2> QED BY <1>1, <2>1, <2>2, <2>3 DEF ExportNext
<1>2. ASSUME ExportInv, UNCHANGED exportVars PROVE ExportInv'
  BY <1>2 DEF exportVars, ExportInv, ExportTypes, IndexStands, ArchiveFollows
<1> QED BY <1>1, <1>2, ExportInitInv, PTL DEF ExportSpec

\* An archive is the vault as it was at one moment, entry by entry, and a file
\* that is kept is a whole archive (server/vaultExport, the export worker, the page).
THEOREM ArchiveOfOneMoment == ExportSpec => []ArchiveIsOneMoment
<1>1. ExportInv => ArchiveIsOneMoment BY DEF ExportInv, ArchiveFollows, ArchiveIsOneMoment
<1> QED BY <1>1, ExportInvariant, PTL
=============================================================================
