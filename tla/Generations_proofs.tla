--------------------------- MODULE Generations_proofs ---------------------------
(***************************************************************************)
(* The keys that browsers hold, and what they keep, around the activations *)
(* of any number of generations, for any number of browsers and pages,     *)
(* profile changes, lost calls and failing purges.                         *)
(***************************************************************************)
EXTENDS Generations, FiniteSetTheorems, SequenceTheorems, TLAPS

-----------------------------------------------------------------------------
(* Generations: the inductive invariant.                                   *)

TaskForm ==
  [kind : {"none", "list", "save", "unlock", "rehydrate", "verify", "recover", "update", "sync"},
   at : {"idle", "sealing", "sent", "answered", "syncing", "synced", "verified"},
   header : Known, key : Known, ver : Nat, known : BOOLEAN, again : BOOLEAN,
   result : {"none", "ok", "mismatch", "refused", "unauthorized", "failed"}]
WizardForm ==
  [step : {"off", "sessions", "drafts", "credentials", "confirm", "running", "recovery", "commit", "done"},
   gen : Known, op : Nat, fence : Nat, target : Nat]
PurgeForm == [at : 0 .. Steps, ok : BOOLEAN, gen : Known, wizard : BOOLEAN]
TabForm ==
  [open : BOOLEAN, bound : Known, mek : Known, share : Nat, soft : BOOLEAN, edit : Known,
   frozen : BOOLEAN, deaf : BOOLEAN, purge : PurgeForm, wizard : WizardForm, task : TaskForm]
DiskForm   == [marker : Marker, kept : [Kept -> Known], stored : Nat]
ServerForm ==
  [gen : Generation, mek : Known, ver : Nat, row : Known,
   op : [ver : Nat, fence : Nat, staged : BOOLEAN, confirmed : BOOLEAN], done : Nat]

Running(s) == s.op # NoOperation

GenForm ==
  /\ server \in ServerForm /\ sessions \subseteq Devices /\ disks \in [Devices -> DiskForm]
  /\ tabs \in [Tabs -> TabForm] /\ heard \in [Tabs -> SUBSET Known]
  /\ files \subseteq [ver : Nat, pending : BOOLEAN] /\ homes \in [Tabs -> Devices]
  /\ minted \in Nat /\ tasks \in Nat /\ faults \in [calls : Nat, purges : Nat]
  /\ Running(server) => server.gen < MaxGen

\* The numbers of shares in use have been given out.
TargetMinted(wizard, last) == wizard.op <= last /\ wizard.target <= last
SharesWereMinted ==
  /\ server.op.ver <= minted /\ server.done <= minted
  /\ \A t \in Tabs : TargetMinted(tabs[t].wizard, minted)

\* A file that opens what an operation would activate, or did, has been saved.
SavedFor(ver, all) == \E file \in all : file.pending /\ file.ver = ver
WayIn ==
  /\ server.mek = server.gen
  /\ server.done # 0 => SavedFor(server.done, files)
  /\ server.op.confirmed => SavedFor(server.op.ver, files)

Basics == GenForm /\ SharesWereMinted /\ WayIn

\* What a browser keeps, when every purge has worked: keys that were in use, and
\* none older than a reconciled marker, but for drafts when a call was lost.
Young(disk, k, gen) == disk.kept[k] # Unset => disk.kept[k] >= gen
DiskOk(disk, s, quiet) ==
  /\ \A k \in Kept : disk.kept[k] # Unset => disk.kept[k] <= s.gen
  /\ disk.stored # 0 => disk.kept["material"] # Unset
  /\ disk.marker.gen = Unset => disk.marker.reconciled /\ \A k \in Kept : disk.kept[k] = Unset
  /\ disk.marker.gen # Unset => disk.marker.gen <= s.gen
  /\ disk.marker.gen # Unset /\ disk.marker.reconciled =>
       \A k \in Kept : k # "draft" \/ quiet => Young(disk, k, disk.marker.gen)

\* The keys a page shows text with are not older than the generation it claims.
Shows(tab) == tab.mek # Unset \/ tab.edit # Unset
KeysFit(tab, s, in, quiet) ==
  /\ tab.mek # Unset => tab.bound <= tab.mek /\ tab.mek <= s.gen
  /\ tab.edit # Unset => tab.edit <= s.gen
  /\ quiet /\ tab.edit # Unset => tab.bound <= tab.edit
  /\ quiet /\ in /\ Shows(tab) => tab.bound = s.gen
  /\ quiet /\ Shows(tab) => tab.task.result # "mismatch" /\ tab.task.kind # "sync"

\* A page that does not know its generation asks for it, or has lost its session.
UnboundFits(tab, in) ==
  tab.bound = Unset =>
    /\ ~Shows(tab) /\ tab.purge.at = 0 /\ tab.wizard.step = "off"
    /\ in => tab.task.kind = "sync" /\ tab.task.at \in {"syncing", "synced"}
    /\ tab.task.kind # "save" /\ tab.task.at \notin {"sealing", "verified"}
    /\ tab.task.result \notin {"ok", "mismatch"}

\* A purge under way is for the marker's generation; what it has passed is gone.
PurgeFits(tab, disk, s, in, quiet) ==
  /\ tab.purge.at = 0 => disk.marker.reconciled /\ ~tab.deaf
  /\ tab.purge.at # 0 =>
       /\ tab.mek = Unset /\ tab.purge.ok /\ tab.purge.gen = disk.marker.gen /\ tab.purge.gen # Unset
       /\ \A i \in 1 .. 3 : i < tab.purge.at => Young(disk, Items[i], tab.purge.gen)
       /\ quiet => tab.edit = Unset /\ disk.kept["draft"] = Unset
  /\ tab.purge.at # 0 /\ ~tab.purge.wizard =>
       tab.task.at = "idle" \/ (tab.task.at = "answered" /\ tab.task.result = "failed")
  /\ tab.purge.at # 0 /\ tab.purge.wizard =>
       /\ ~tab.deaf /\ tab.wizard.step = "commit" /\ tab.edit = Unset
       /\ in => tab.purge.gen = s.gen /\ ~Running(s)
       /\ tab.task.at = "synced" => tab.task.key = tab.purge.gen

\* A wizard works on the generation its page claims, until it has activated.
WizardFits(tab, s, in) ==
  /\ tab.wizard.step # "off" => tab.task.kind \in {"none", "list"}
  /\ in /\ tab.wizard.step # "off" /\ tab.purge.at = 0 =>
       tab.bound = s.gen \/ (tab.wizard.step = "commit" /\ ~Running(s))
  /\ in /\ tab.wizard.step = "confirm" /\ tab.wizard.op = 0 => tab.wizard.target # s.done
  /\ in /\ tab.wizard.step = "commit" /\ Running(s) => tab.wizard.op # s.done

\* A request names the generation its page claims, unless the page has purged since.
Follows(tab) ==
  \/ tab.task.kind # "list"
  \/ tab.purge.at = 0 /\ (tab.wizard.step \notin {"off", "done"} \/ Shows(tab))
Underway == {"sent", "answered", "syncing", "synced"}
TaskFits(tab, s, in, quiet) ==
  LET task == tab.task
  IN  /\ task.at = "idle" => task = NoTask
      /\ task.kind = "none" => task.at = "idle"
      /\ task.at = "verified" => task.kind = "verify"
      /\ task.at \in {"sent", "sealing", "verified"} => task.result = "none"
      /\ task.kind = "sync" => tab.bound = Unset /\ (task.at \in {"syncing", "synced"} \/ task.result = "failed")
      /\ task.header # Unset => task.header <= s.gen
      /\ task.at \in Underway /\ task.kind # "sync" /\ task.result # "failed" /\ Follows(tab) => task.header = tab.bound
      /\ task.at \in {"syncing", "synced"} /\ task.kind # "sync" => task.result = "mismatch"
      /\ task.result = "mismatch" => task.header = Unset \/ task.header < s.gen
      /\ task.at = "synced" => task.key <= s.gen /\ (in => task.key = s.gen)
      /\ task.again => task.result = "failed"
      /\ task.result = "refused" => task.kind \in {"save", "update"}
      /\ task.at = "answered" => task.result # "none"
      /\ task.at = "sealing" => task.kind = "save" /\ tab.wizard.step = "off" /\ task.key <= s.gen /\ tab.bound <= task.key
      /\ task.at = "sent" /\ task.kind = "save" => task.key <= s.gen /\ task.header <= task.key
      /\ task.at = "answered" /\ task.result = "ok" => task.key <= s.gen /\ (task.header # Unset => task.header <= task.key)
      /\ in /\ task.result = "ok" /\ task.kind # "list" => task.header \in {s.gen, Unset}
      /\ quiet /\ in /\ task.at = "answered" /\ task.result = "failed" /\ task.kind \in {"unlock", "rehydrate"} /\ tab.purge.at = 0
           => tab.bound = s.gen

TabOk(tab, disk, s, in, quiet) ==
  /\ tab.open \/ tab = Shut
  /\ tab.open =>
       /\ tab.bound = disk.marker.gen
       /\ KeysFit(tab, s, in, quiet) /\ UnboundFits(tab, in)
       /\ PurgeFits(tab, disk, s, in, quiet) /\ WizardFits(tab, s, in) /\ TaskFits(tab, s, in, quiet)

Quiet == faults.calls = 0
PagesSound ==
  /\ RowIsCurrent
  /\ Running(server) => server.op.ver # server.done
  /\ \A t \in Tabs : heard[t] = {}
  /\ \A d \in Devices : DiskOk(disks[d], server, Quiet)
  /\ \A t \in Tabs : TabOk(tabs[t], Disk(t), server, SignedIn(t), Quiet)

PurgesWork == OnePageEach /\ faults.purges = 0
GenInv == Basics /\ (PurgesWork => PagesSound)

-----------------------------------------------------------------------------
(* Frames: what one page does leaves the others sound.                     *)

\* Generations are numbers, and the name for none is above them.
LEMMA GenerationNumbers ==
  /\ MaxGen \in Nat /\ Unset = MaxGen + 1 /\ Unset \in Known /\ Unset \notin Generation
  /\ Generation \subseteq Known /\ Known \subseteq Nat /\ Generation \subseteq Nat
  /\ \A g \in Known : g # Unset <=> g \in Generation
  /\ \A g \in Known : g # Unset <=> g <= MaxGen
  /\ \A g \in Nat : g < MaxGen => g + 1 \in Generation
BY GenerationsAssumption DEF Unset, Generation, Known

\* The server's generation is one of them.
LEMMA ServerGeneration ==
  ASSUME GenForm
  PROVE  server \in ServerForm /\ server.gen \in Generation /\ server.gen \in Nat /\ server.gen <= MaxGen /\ server.gen # Unset
<1>1. server \in ServerForm /\ server.gen \in Generation BY DEF GenForm, ServerForm
<1>2. server.gen \in Known /\ server.gen \in Nat BY <1>1, GenerationNumbers
<1> QED BY <1>1, <1>2, GenerationNumbers

\* A page stays sound while the generation grows, if the account only moves on
\* for views that have lost their session.
LEMMA TabStays ==
  ASSUME NEW tab \in TabForm, NEW disk \in DiskForm, NEW s \in ServerForm, NEW later \in ServerForm,
         NEW in, NEW quiet, NEW in2, NEW quiet2,
         TabOk(tab, disk, s, in, quiet), s.gen <= later.gen, quiet2 => quiet,
         in2 => in /\ later.gen = s.gen /\ later.done = s.done /\ (Running(later) => Running(s))
  PROVE  TabOk(tab, disk, later, in2, quiet2)
<1> SUFFICES ASSUME tab.open
             PROVE  /\ KeysFit(tab, later, in2, quiet2) /\ UnboundFits(tab, in2)
                    /\ PurgeFits(tab, disk, later, in2, quiet2) /\ WizardFits(tab, later, in2)
                    /\ TaskFits(tab, later, in2, quiet2) BY DEF TabOk
<1>1. s.gen \in Nat /\ later.gen \in Nat /\ s.gen <= MaxGen /\ later.gen <= MaxGen BY GenerationNumbers DEF ServerForm
<1>2. /\ tab.mek \in Nat /\ tab.edit \in Nat /\ tab.bound \in Nat /\ tab.task.header \in Nat /\ tab.task.key \in Nat
  BY GenerationNumbers DEF TabForm, TaskForm
<1>3. KeysFit(tab, later, in2, quiet2) BY <1>1, <1>2 DEF TabOk, KeysFit, Shows
<1>4. UnboundFits(tab, in2) BY DEF TabOk, UnboundFits, Shows
<1>5. PurgeFits(tab, disk, later, in2, quiet2) BY DEF TabOk, PurgeFits
<1>6. WizardFits(tab, later, in2) BY DEF TabOk, WizardFits
<1>7. TaskFits(tab, later, in2, quiet2) BY <1>1, <1>2 DEF TabOk, TaskFits
<1> QED BY <1>3, <1>4, <1>5, <1>6, <1>7

\* So does what a browser keeps.
LEMMA DiskStays ==
  ASSUME NEW disk \in DiskForm, NEW s \in ServerForm, NEW later \in ServerForm, NEW quiet, NEW quiet2,
         DiskOk(disk, s, quiet), s.gen <= later.gen, quiet2 => quiet
  PROVE  DiskOk(disk, later, quiet2)
<1>1. s.gen \in Nat /\ later.gen \in Nat BY GenerationNumbers DEF ServerForm
<1>2. (\A k \in Kept : disk.kept[k] \in Nat) /\ disk.marker.gen \in Nat BY GenerationNumbers DEF DiskForm, Marker
<1> QED BY <1>1, <1>2 DEF DiskOk

\* What is not under way has the number zero.
LEMMA NoOperationHere == ~NoOperation.confirmed /\ NoOperation.ver = 0
BY DEF NoOperation

\* What a step of page t keeps of all that is not its own.
Keeps(t) ==
  /\ server.gen <= server'.gen /\ RowIsCurrent' /\ (Running(server') => server'.op.ver # server'.done)
  /\ \A s \in Tabs : heard'[s] = {}
  /\ \A s \in Tabs : s # t /\ homes[s] \in sessions' =>
       /\ homes[s] \in sessions
       /\ server'.gen = server.gen /\ server'.done = server.done /\ (Running(server') => Running(server))

\* One page moves, with its browser and the server.
LEMMA Moves ==
  ASSUME GenInv, NEW t \in Tabs, NEW tab \in TabForm, NEW disk \in DiskForm, GenForm', WayIn',
         homes' = homes, tabs'[t] = tab, disks' = [disks EXCEPT ![homes[t]] = disk],
         minted <= minted', server'.op.ver <= minted', server'.done <= minted', TargetMinted(tab.wizard, minted'),
         \A s \in Tabs : s # t => tabs'[s].wizard = tabs[s].wizard,
         OnePageEach => \A s \in Tabs : s # t => tabs'[s] = tabs[s],
         faults.calls <= faults'.calls, faults.purges <= faults'.purges,
         PurgesWork /\ PurgesWork' /\ PagesSound =>
           /\ Keeps(t)
           /\ TabOk(tab, disk, server', homes[t] \in sessions', Quiet') /\ DiskOk(disk, server', Quiet')
  PROVE  GenInv'
<1>0. GenForm BY DEF GenInv, Basics
<1>1. SharesWereMinted'
 <2>1. \A s \in Tabs : TargetMinted(tabs'[s].wizard, minted')
  <3> TAKE s \in Tabs
  <3>1. CASE s = t BY <3>1
  <3>2. CASE s # t
    BY <1>0, <3>2 DEF GenInv, Basics, SharesWereMinted, GenForm, TabForm, WizardForm, TargetMinted
  <3> QED BY <3>1, <3>2
 <2> QED BY <2>1 DEF SharesWereMinted
<1>2. ASSUME PurgesWork' PROVE PagesSound'
 <2>1. PurgesWork BY <1>0, <1>2 DEF PurgesWork, OnePageEach, GenForm
 <2>2. PagesSound /\ OnePageEach /\ Keeps(t) BY <1>2, <2>1 DEF GenInv, PurgesWork
 <2>3. TabOk(tab, disk, server', homes[t] \in sessions', Quiet') /\ DiskOk(disk, server', Quiet') BY <1>2, <2>1, <2>2
 <2>4. server \in ServerForm /\ server' \in ServerForm /\ disks \in [Devices -> DiskForm] /\ tabs \in [Tabs -> TabForm]
       /\ homes \in [Tabs -> Devices] BY <1>0 DEF GenForm
 <2>5. Quiet' => Quiet BY <1>0 DEF Quiet, GenForm
 <2>6. \A d \in Devices : DiskOk(disks'[d], server', Quiet')
  <3> TAKE d \in Devices
  <3>1. CASE d = homes[t] BY <2>3, <2>4, <3>1
  <3>2. CASE d # homes[t]
    BY <2>4, <3>2, <2>2, <2>5, DiskStays DEF PagesSound, Keeps
  <3> QED BY <3>1, <3>2
 <2>7. \A s \in Tabs : TabOk(tabs'[s], disks'[homes[s]], server', homes[s] \in sessions', Quiet')
  <3> TAKE s \in Tabs
  <3>1. CASE s = t
    BY <2>4, <2>3, <3>1
  <3>2. CASE s # t
    BY <2>2, <3>2, <2>4, <2>5, TabStays DEF OnePageEach, PagesSound, Disk, Home, SignedIn, Keeps
  <3> QED BY <3>1, <3>2
 <2>8. \A s \in Tabs : TabOk(tabs[s], Disk(s), server, SignedIn(s), Quiet)' BY <2>7 DEF Disk, Home, SignedIn
 <2> QED BY <2>2, <2>6, <2>8 DEF PagesSound, Keeps
<1> QED BY <1>1, <1>2 DEF GenInv, Basics

\* One page moves, with what its browser keeps; the server does not.
LEMMA PageMoves ==
  ASSUME GenInv, NEW t \in Tabs, NEW tab \in TabForm, NEW disk \in DiskForm,
         tabs' = [tabs EXCEPT ![t] = tab], disks' = [disks EXCEPT ![homes[t]] = disk],
         UNCHANGED <<server, sessions, files, homes>>, heard' \in [Tabs -> SUBSET Known],
         PurgesWork /\ PagesSound => \A s \in Tabs : heard'[s] = {},
         minted' \in Nat, minted <= minted', tasks' \in Nat, TargetMinted(tab.wizard, minted'),
         faults' \in [calls : Nat, purges : Nat], faults.calls <= faults'.calls, faults.purges <= faults'.purges,
         PurgesWork /\ PurgesWork' /\ PagesSound =>
           TabOk(tab, disk, server, homes[t] \in sessions, Quiet') /\ DiskOk(disk, server, Quiet')
  PROVE  GenInv'
<1>0. GenForm BY DEF GenInv, Basics
<1>1. tabs' \in [Tabs -> TabForm] /\ tabs'[t] = tab /\ \A s \in Tabs : s # t => tabs'[s] = tabs[s] BY <1>0 DEF GenForm
<1>2. disks' \in [Devices -> DiskForm] BY <1>0 DEF GenForm
<1>3. GenForm' BY <1>0, <1>1, <1>2 DEF GenForm
<1>4. WayIn' BY DEF GenInv, Basics, WayIn
<1>5. server'.op.ver <= minted' /\ server'.done <= minted'
  BY <1>0 DEF GenForm, ServerForm, GenInv, Basics, SharesWereMinted
<1>6. ASSUME PurgesWork /\ PagesSound PROVE Keeps(t)
 <2>1. server.gen \in Nat BY <1>0, GenerationNumbers DEF GenForm, ServerForm
 <2> QED BY <1>6, <2>1 DEF PagesSound, Keeps, RowIsCurrent
<1> HIDE DEF Keeps
<1> QED BY <1>1, <1>3, <1>4, <1>5, <1>6, Moves

\* One page moves; nothing else does.
LEMMA PageAlone ==
  ASSUME GenInv, NEW t \in Tabs, NEW tab \in TabForm, tabs' = [tabs EXCEPT ![t] = tab],
         UNCHANGED <<server, sessions, files, homes, heard, disks>>,
         minted' \in Nat, minted <= minted', tasks' \in Nat, TargetMinted(tab.wizard, minted'),
         faults' \in [calls : Nat, purges : Nat], faults.calls <= faults'.calls, faults.purges <= faults'.purges,
         PurgesWork /\ PurgesWork' /\ PagesSound =>
           TabOk(tab, disks[homes[t]], server, homes[t] \in sessions, Quiet')
  PROVE  GenInv'
<1>0. GenForm BY DEF GenInv, Basics
<1>1. homes[t] \in Devices /\ disks[homes[t]] \in DiskForm BY <1>0 DEF GenForm
<1>2. disks' = [disks EXCEPT ![homes[t]] = disks[homes[t]]] BY <1>0 DEF GenForm
<1>3. heard' \in [Tabs -> SUBSET Known] /\ (PagesSound => \A s \in Tabs : heard'[s] = {}) BY <1>0 DEF GenForm, PagesSound
<1>4. ASSUME PurgesWork, PurgesWork', PagesSound PROVE DiskOk(disks[homes[t]], server, Quiet')
 <2>1. DiskOk(disks[homes[t]], server, Quiet) BY <1>1, <1>4 DEF PagesSound
 <2>2. Quiet' => Quiet BY <1>0 DEF Quiet, GenForm
 <2>3. server \in ServerForm /\ server.gen <= server.gen BY <1>0, ServerGeneration
 <2> QED BY <1>1, <2>1, <2>2, <2>3, DiskStays
<1> QED BY <1>1, <1>2, <1>3, <1>4, PageMoves

\* What is known of a page and of its browser before a step.
LEMMA Given ==
  ASSUME GenInv, NEW t \in Tabs, PurgesWork, PagesSound, faults' \in [calls : Nat, purges : Nat], faults.calls <= faults'.calls
  PROVE  /\ TabOk(tabs[t], disks[homes[t]], server, homes[t] \in sessions, Quiet')
         /\ DiskOk(disks[homes[t]], server, Quiet')
<1>0. GenForm BY DEF GenInv, Basics
<1>1. server \in ServerForm /\ server.gen <= server.gen BY <1>0, ServerGeneration
<1>2. Quiet' => Quiet BY <1>0 DEF Quiet, GenForm
<1>3. tabs[t] \in TabForm /\ homes[t] \in Devices /\ disks[homes[t]] \in DiskForm BY <1>0 DEF GenForm
<1>4. TabOk(tabs[t], disks[homes[t]], server, homes[t] \in sessions, Quiet) /\ DiskOk(disks[homes[t]], server, Quiet)
  BY <1>3 DEF PagesSound, Disk, Home, SignedIn
<1>5. DiskOk(disks[homes[t]], server, Quiet') BY <1>1, <1>2, <1>3, <1>4, DiskStays
<1>6. TabOk(tabs[t], disks[homes[t]], server, homes[t] \in sessions, Quiet') BY <1>1, <1>2, <1>3, <1>4, TabStays
<1> QED BY <1>5, <1>6

\* The types of what a page has.
LEMMA Typed ==
  ASSUME GenInv, NEW t \in Tabs
  PROVE  /\ tabs[t] \in TabForm /\ homes[t] \in Devices /\ disks[homes[t]] \in DiskForm /\ server \in ServerForm
         /\ TargetMinted(tabs[t].wizard, minted) /\ minted \in Nat /\ minted <= minted /\ tasks \in Nat
         /\ faults \in [calls : Nat, purges : Nat] /\ faults.calls <= faults.calls /\ faults.purges <= faults.purges
         /\ faults.calls \in Nat /\ faults.purges \in Nat
<1>1. GenForm BY DEF GenInv, Basics
<1>2. faults \in [calls : Nat, purges : Nat] /\ minted \in Nat /\ tasks \in Nat BY <1>1 DEF GenForm
<1>3. faults.calls \in Nat /\ faults.purges \in Nat BY <1>2
<1>4. TargetMinted(tabs[t].wizard, minted) BY DEF GenInv, Basics, SharesWereMinted
<1> QED BY <1>1, <1>2, <1>3, <1>4 DEF GenForm

\* Numbers of a page.
LEMMA TabNumbers ==
  ASSUME NEW tab \in TabForm
  PROVE  /\ tab.mek \in Nat /\ tab.edit \in Nat /\ tab.bound \in Nat /\ tab.task.header \in Nat /\ tab.task.key \in Nat
         /\ tab.purge.gen \in Nat /\ tab.purge.at \in 0 .. 4 /\ tab.wizard.gen \in Nat
         /\ tab.mek \in Known /\ tab.edit \in Known /\ tab.bound \in Known /\ tab.task.header \in Known /\ tab.task.key \in Known
         /\ tab.purge.gen \in Known
BY GenerationNumbers DEF TabForm, TaskForm, PurgeForm, WizardForm, Steps

\* Numbers of a browser.
LEMMA DiskNumbers ==
  ASSUME NEW disk \in DiskForm
  PROVE  /\ \A k \in Kept : disk.kept[k] \in Nat /\ disk.kept[k] \in Known
         /\ disk.marker.gen \in Nat /\ disk.marker.gen \in Known /\ disk.stored \in Nat
         /\ disk.marker = NoMarker <=> disk.marker.gen = Unset /\ disk.marker.reconciled
<1>1. disk.kept \in [Kept -> Known] /\ disk.marker \in Marker /\ disk.stored \in Nat BY DEF DiskForm
<1>2. \A k \in Kept : disk.kept[k] \in Nat /\ disk.kept[k] \in Known BY <1>1, GenerationNumbers
<1>3. disk.marker.gen \in Known /\ disk.marker.gen \in Nat BY <1>1, GenerationNumbers DEF Marker
<1>4. disk.marker = NoMarker <=> disk.marker.gen = Unset /\ disk.marker.reconciled
 <2>1. disk.marker = [gen |-> disk.marker.gen, reconciled |-> disk.marker.reconciled] /\ disk.marker.reconciled \in BOOLEAN
   BY <1>1 DEF Marker
 <2>2. disk.marker.gen = Unset /\ disk.marker.reconciled => disk.marker = NoMarker BY <2>1 DEF NoMarker
 <2>3. disk.marker = NoMarker => disk.marker.gen = Unset /\ disk.marker.reconciled BY DEF NoMarker
 <2> QED BY <2>2, <2>3
<1> QED BY <1>1, <1>2, <1>3, <1>4

-----------------------------------------------------------------------------
(* The keys a page holds.                                                  *)

\* A page that shows no more than it did stays sound.
LEMMA ShowsLess ==
  ASSUME NEW tab \in TabForm, NEW less \in TabForm, NEW disk \in DiskForm, NEW s \in ServerForm, NEW in, NEW quiet,
         TabOk(tab, disk, s, in, quiet), tab.open, less.open, less.bound = tab.bound, less.purge = tab.purge, less.deaf = tab.deaf,
         less.wizard = tab.wizard, less.task = tab.task,
         less.mek \in {tab.mek, Unset}, less.edit \in {tab.edit, Unset}
  PROVE  TabOk(less, disk, s, in, quiet)
<1>1. KeysFit(less, s, in, quiet) BY DEF TabOk, KeysFit, Shows
<1>2. UnboundFits(less, in) BY DEF TabOk, UnboundFits, Shows
<1>3. PurgeFits(less, disk, s, in, quiet) BY DEF TabOk, PurgeFits
<1>4. WizardFits(less, s, in) BY DEF TabOk, WizardFits
<1>5. TaskFits(less, s, in, quiet) BY DEF TabOk, TaskFits, Follows, Shows
<1> QED BY <1>1, <1>2, <1>3, <1>4, <1>5 DEF TabOk

\* So does everything, when nothing else happens.
LEMMA ShowingLess ==
  ASSUME GenInv, NEW t \in Tabs, NEW less \in TabForm, tabs' = [tabs EXCEPT ![t] = less], tabs[t].open,
         UNCHANGED <<server, sessions, disks, heard, files, homes, minted, tasks, faults>>,
         less.open, less.bound = tabs[t].bound, less.purge = tabs[t].purge, less.deaf = tabs[t].deaf,
         less.wizard = tabs[t].wizard, less.task = tabs[t].task,
         less.mek \in {tabs[t].mek, Unset}, less.edit \in {tabs[t].edit, Unset}
  PROVE  GenInv'
<1>1. ASSUME PurgesWork, PagesSound PROVE TabOk(less, disks[homes[t]], server, homes[t] \in sessions, Quiet')
  BY <1>1, Given, Typed, ShowsLess
<1> QED BY <1>1, Typed, PageAlone

\* Locks, their escalation and the end of an editor.
LEMMA LocksKeep ==
  ASSUME GenInv, NEW t \in Tabs, Lock(t) \/ SoftLock(t) \/ Escalate(t) \/ CloseEditor(t)
  PROVE  GenInv'
<1>0. tabs[t] \in TabForm /\ Unset \in Known /\ 0 \in Nat BY Typed, GenerationNumbers
<1>1. CASE Lock(t)
 <2> DEFINE less == [tabs[t] EXCEPT !.mek = Unset, !.share = 0, !.soft = FALSE, !.edit = Unset]
 <2>1. less \in TabForm BY <1>0 DEF TabForm
 <2> QED BY <1>0, <1>1, <2>1, ShowingLess DEF Lock, SetTab, Mounted, TabForm
<1>2. CASE SoftLock(t)
 <2> DEFINE less == [tabs[t] EXCEPT !.mek = Unset, !.soft = TRUE]
 <2>1. less \in TabForm BY <1>0 DEF TabForm
 <2> QED BY <1>0, <1>2, <2>1, ShowingLess DEF SoftLock, SetTab, Mounted, TabForm
<1>3. CASE Escalate(t)
 <2> DEFINE less == [tabs[t] EXCEPT !.share = 0, !.soft = FALSE, !.edit = Unset]
 <2>1. less \in TabForm BY <1>0 DEF TabForm
 <2> QED BY <1>0, <1>3, <2>1, ShowingLess DEF Escalate, SetTab, Mounted, TabForm
<1>4. CASE CloseEditor(t)
 <2> DEFINE less == [tabs[t] EXCEPT !.edit = Unset]
 <2>1. less \in TabForm BY <1>0 DEF TabForm
 <2> QED BY <1>0, <1>4, <2>1, ShowingLess DEF CloseEditor, SetTab, TabForm
<1> QED BY <1>1, <1>2, <1>3, <1>4

\* An editor opens with the key the page holds.
LEMMA OpenEditorKeeps ==
  ASSUME GenInv, NEW t \in Tabs, OpenEditor(t)
  PROVE  GenInv'
<1> DEFINE tab == [tabs[t] EXCEPT !.edit = tabs[t].mek]
<1>0. tabs[t] \in TabForm /\ tabs[t].open /\ tabs[t].mek # Unset /\ tabs' = [tabs EXCEPT ![t] = tab]
  BY Typed DEF OpenEditor, SetTab, Mounted
<1>1. /\ tab \in TabForm /\ tab.open /\ tab.bound = tabs[t].bound /\ tab.purge = tabs[t].purge /\ tab.deaf = tabs[t].deaf
      /\ tab.wizard = tabs[t].wizard /\ tab.task = tabs[t].task /\ tab.mek = tabs[t].mek /\ tab.edit = tabs[t].mek
  BY <1>0, TabNumbers DEF TabForm
<1>2. ASSUME PurgesWork, PagesSound
      PROVE  TabOk(tab, disks[homes[t]], server, homes[t] \in sessions, Quiet')
 <2> HIDE DEF tab
 <2>1. TabOk(tabs[t], disks[homes[t]], server, homes[t] \in sessions, Quiet') BY <1>2, Given, Typed DEF OpenEditor
 <2>2. KeysFit(tab, server, homes[t] \in sessions, Quiet') BY <1>0, <1>1, <2>1 DEF TabOk, KeysFit, Shows
 <2>3. UnboundFits(tab, homes[t] \in sessions) BY <1>0, <1>1, <2>1 DEF TabOk, UnboundFits, Shows
 <2>4. PurgeFits(tab, disks[homes[t]], server, homes[t] \in sessions, Quiet') BY <1>0, <1>1, <2>1 DEF TabOk, PurgeFits
 <2>5. WizardFits(tab, server, homes[t] \in sessions) BY <1>0, <1>1, <2>1 DEF TabOk, WizardFits
 <2>6. TaskFits(tab, server, homes[t] \in sessions, Quiet') BY <1>0, <1>1, <2>1 DEF TabOk, TaskFits, Follows, Shows
 <2> QED BY <1>0, <1>1, <2>1, <2>2, <2>3, <2>4, <2>5, <2>6 DEF TabOk
<1>3. minted' \in Nat /\ minted <= minted' /\ tasks' \in Nat /\ TargetMinted(tab.wizard, minted')
      /\ faults' \in [calls : Nat, purges : Nat] /\ faults.calls <= faults'.calls /\ faults.purges <= faults'.purges
      /\ UNCHANGED <<server, sessions, files, homes, heard, disks>> BY <1>1, Typed DEF OpenEditor, Spend
<1> HIDE DEF tab
<1> QED BY <1>0, <1>1, <1>2, <1>3, PageAlone

\* Only what a browser keeps changes, or its page shows less of it.
LEMMA KeptMoves ==
  ASSUME GenInv, NEW t \in Tabs, NEW less \in TabForm, NEW disk \in DiskForm, tabs[t].open,
         tabs' = [tabs EXCEPT ![t] = less], disks' = [disks EXCEPT ![homes[t]] = disk],
         UNCHANGED <<server, sessions, heard, files, homes, minted, tasks, faults>>,
         less.open, less.bound = tabs[t].bound, less.purge = tabs[t].purge, less.deaf = tabs[t].deaf,
         less.wizard = tabs[t].wizard, less.task = tabs[t].task,
         less.mek \in {tabs[t].mek, Unset}, less.edit \in {tabs[t].edit, Unset},
         disk.marker = disks[homes[t]].marker,
         PurgesWork /\ PagesSound =>
           PurgeFits(tabs[t], disk, server, homes[t] \in sessions, Quiet') /\ DiskOk(disk, server, Quiet')
  PROVE  GenInv'
<1>0. GenForm BY DEF GenInv, Basics
<1>1. ASSUME PurgesWork, PagesSound PROVE TabOk(less, disk, server, homes[t] \in sessions, Quiet')
  BY <1>1, Given, Typed, ShowsLess DEF TabOk
<1>2. heard' \in [Tabs -> SUBSET Known] /\ (PagesSound => \A s \in Tabs : heard'[s] = {}) BY <1>0 DEF GenForm, PagesSound
<1> QED BY <1>1, <1>2, Typed, PageMoves

\* A checkpoint keeps a draft under the editor's key.
LEMMA CheckpointKeeps ==
  ASSUME GenInv, NEW t \in Tabs, Checkpoint(t)
  PROVE  GenInv'
<1> DEFINE disk == [disks[homes[t]] EXCEPT !.kept.draft = tabs[t].edit]
<1>0. GenForm /\ tabs[t] \in TabForm /\ disks[homes[t]] \in DiskForm /\ tabs[t].open /\ tabs[t].edit # Unset
  BY Typed DEF Checkpoint, GenInv, Basics
<1>1. disks' = [disks EXCEPT ![homes[t]] = disk] BY DEF Checkpoint, SetDisk, Disk, Home
<1>2. /\ disk \in DiskForm /\ disk.marker = disks[homes[t]].marker /\ disk.stored = disks[homes[t]].stored
      /\ \A k \in Kept : disk.kept[k] = IF k = "draft" THEN tabs[t].edit ELSE disks[homes[t]].kept[k]
  BY <1>0, TabNumbers DEF DiskForm, Kept
<1> HIDE DEF disk
<1>3. ASSUME PurgesWork, PagesSound
      PROVE  PurgeFits(tabs[t], disk, server, homes[t] \in sessions, Quiet') /\ DiskOk(disk, server, Quiet')
 <2>1. TabOk(tabs[t], disks[homes[t]], server, homes[t] \in sessions, Quiet') /\ DiskOk(disks[homes[t]], server, Quiet')
   BY <1>3, Given, Typed DEF Checkpoint
 <2>2. PurgeFits(tabs[t], disk, server, homes[t] \in sessions, Quiet')
   BY <1>0, <1>2, <2>1 DEF TabOk, PurgeFits, Young, Items, Kept
 <2>3. tabs[t].bound # Unset /\ tabs[t].edit <= server.gen /\ (Quiet' => tabs[t].bound <= tabs[t].edit)
   BY <1>0, <2>1 DEF TabOk, KeysFit, UnboundFits, Shows
 <2>4. tabs[t].bound = disk.marker.gen BY <1>0, <1>2, <2>1 DEF TabOk
 <2>5. DiskOk(disk, server, Quiet') BY <1>0, <1>2, <2>1, <2>3, <2>4, TabNumbers DEF DiskOk, Young, Kept
 <2> QED BY <2>2, <2>5
<1>4. CASE UNCHANGED tabs
  BY <1>0, <1>4, <1>1, <1>2, <1>3, KeptMoves DEF GenForm, Checkpoint
<1>5. CASE SetTab(t, [tabs[t] EXCEPT !.edit = Unset])
 <2> DEFINE less == [tabs[t] EXCEPT !.edit = Unset]
 <2>1. /\ less \in TabForm /\ less.open = tabs[t].open /\ less.bound = tabs[t].bound /\ less.purge = tabs[t].purge
       /\ less.deaf = tabs[t].deaf /\ less.wizard = tabs[t].wizard /\ less.task = tabs[t].task
       /\ less.mek = tabs[t].mek /\ less.edit = Unset BY <1>0, GenerationNumbers DEF TabForm
 <2>2. tabs' = [tabs EXCEPT ![t] = less] BY <1>5 DEF SetTab
 <2> HIDE DEF less
 <2> QED BY <1>0, <1>1, <1>2, <1>3, <2>1, <2>2, KeptMoves DEF Checkpoint
<1> QED BY <1>4, <1>5 DEF Checkpoint

\* Discarding a draft and trusting a device.
LEMMA DiscardKeeps ==
  ASSUME GenInv, NEW t \in Tabs, DiscardDraft(t)
  PROVE  GenInv'
<1> DEFINE disk == WithoutDrafts(disks[homes[t]])
<1>0. GenForm /\ tabs[t] \in TabForm /\ disks[homes[t]] \in DiskForm /\ tabs[t].open
  BY Typed DEF DiscardDraft, Mounted, GenInv, Basics
<1>1. disks' = [disks EXCEPT ![homes[t]] = disk] /\ tabs' = [tabs EXCEPT ![t] = tabs[t]]
  BY <1>0 DEF DiscardDraft, SetDisk, Disk, Home, GenForm
<1>2. /\ disk \in DiskForm /\ disk.marker = disks[homes[t]].marker /\ disk.stored = disks[homes[t]].stored
      /\ \A k \in Kept : disk.kept[k] = IF k = "draft" THEN Unset ELSE disks[homes[t]].kept[k]
  BY <1>0, GenerationNumbers DEF WithoutDrafts, DiskForm, Kept
<1> HIDE DEF disk
<1>3. ASSUME PurgesWork, PagesSound
      PROVE  PurgeFits(tabs[t], disk, server, homes[t] \in sessions, Quiet') /\ DiskOk(disk, server, Quiet')
 <2>1. TabOk(tabs[t], disks[homes[t]], server, homes[t] \in sessions, Quiet') /\ DiskOk(disks[homes[t]], server, Quiet')
   BY <1>3, Given, Typed DEF DiscardDraft
 <2>2. PurgeFits(tabs[t], disk, server, homes[t] \in sessions, Quiet')
   BY <1>0, <1>2, <2>1 DEF TabOk, PurgeFits, Young, Items, Kept
 <2>3. DiskOk(disk, server, Quiet') BY <1>2, <2>1 DEF DiskOk, Young, Kept
 <2> QED BY <2>2, <2>3
<1> QED BY <1>0, <1>1, <1>2, <1>3, KeptMoves DEF DiscardDraft

\* A trusting page keeps the key it holds.
LEMMA TrustKeeps ==
  ASSUME GenInv, NEW t \in Tabs, Trust(t)
  PROVE  GenInv'
<1> DEFINE disk == [disks[homes[t]] EXCEPT !.kept.authenticator = tabs[t].mek]
<1>0. GenForm /\ tabs[t] \in TabForm /\ disks[homes[t]] \in DiskForm /\ tabs[t].open /\ tabs[t].mek # Unset
  BY Typed DEF Trust, Mounted, GenInv, Basics
<1>1. disks' = [disks EXCEPT ![homes[t]] = disk] /\ tabs' = [tabs EXCEPT ![t] = tabs[t]]
  BY <1>0 DEF Trust, SetDisk, Disk, Home, GenForm
<1>2. /\ disk \in DiskForm /\ disk.marker = disks[homes[t]].marker /\ disk.stored = disks[homes[t]].stored
      /\ \A k \in Kept : disk.kept[k] = IF k = "authenticator" THEN tabs[t].mek ELSE disks[homes[t]].kept[k]
  BY <1>0, TabNumbers DEF DiskForm, Kept
<1> HIDE DEF disk
<1>3. ASSUME PurgesWork, PagesSound
      PROVE  PurgeFits(tabs[t], disk, server, homes[t] \in sessions, Quiet') /\ DiskOk(disk, server, Quiet')
 <2>1. TabOk(tabs[t], disks[homes[t]], server, homes[t] \in sessions, Quiet') /\ DiskOk(disks[homes[t]], server, Quiet')
   BY <1>3, Given, Typed DEF Trust
 <2>2. PurgeFits(tabs[t], disk, server, homes[t] \in sessions, Quiet')
   BY <1>0, <1>2, <2>1 DEF TabOk, PurgeFits, Young, Items, Kept
 <2>3. tabs[t].bound # Unset /\ tabs[t].mek <= server.gen /\ tabs[t].bound <= tabs[t].mek
   BY <1>0, <2>1 DEF TabOk, KeysFit, UnboundFits, Shows
 <2>4. tabs[t].bound = disk.marker.gen BY <1>0, <1>2, <2>1 DEF TabOk
 <2>5. DiskOk(disk, server, Quiet') BY <1>0, <1>2, <2>1, <2>3, <2>4, TabNumbers DEF DiskOk, Young, Kept
 <2> QED BY <2>2, <2>5
<1> QED BY <1>0, <1>1, <1>2, <1>3, KeptMoves DEF Trust

\* A recovery file more leaves everything as it was.
LEMMA FilesKeep ==
  ASSUME GenInv, NEW t \in Tabs, Backup(t) \/ SaveRecovery(t)
  PROVE  GenInv'
<1>0. GenForm /\ tabs[t] \in TabForm BY Typed DEF GenInv, Basics
<1>1. UNCHANGED <<server, sessions, disks, tabs, heard, homes, minted, tasks, faults>> BY DEF Backup, SaveRecovery
<1>2. files \subseteq files' /\ files' \subseteq [ver : Nat, pending : BOOLEAN]
 <2>1. files \subseteq [ver : Nat, pending : BOOLEAN] /\ tabs[t].share \in Nat /\ tabs[t].wizard.target \in Nat
   BY <1>0 DEF GenForm, TabForm, WizardForm
 <2>2. CASE Backup(t)
  <3>0. [ver |-> tabs[t].share, pending |-> FALSE] \in [ver : Nat, pending : BOOLEAN] BY <2>1
  <3>1. files' = files \cup {[ver |-> tabs[t].share, pending |-> FALSE]} BY <2>2 DEF Backup
  <3> QED BY <2>1, <3>0, <3>1
 <2>3. CASE SaveRecovery(t)
  <3>0. [ver |-> tabs[t].wizard.target, pending |-> TRUE] \in [ver : Nat, pending : BOOLEAN] BY <2>1
  <3>1. files' = files \cup {[ver |-> tabs[t].wizard.target, pending |-> TRUE]} BY <2>3 DEF SaveRecovery
  <3> QED BY <2>1, <3>0, <3>1
 <2> QED BY <2>2, <2>3
<1>3. GenForm' BY <1>0, <1>1, <1>2 DEF GenForm
<1>4. SharesWereMinted' BY <1>1 DEF GenInv, Basics, SharesWereMinted
<1>5. WayIn' BY <1>1, <1>2 DEF GenInv, Basics, WayIn, SavedFor
<1>6. (PurgesWork => PagesSound)'
  BY <1>1 DEF GenInv, PurgesWork, OnePageEach, PagesSound, RowIsCurrent, Disk, Home, SignedIn, Quiet
<1> QED BY <1>3, <1>4, <1>5, <1>6 DEF GenInv, Basics

-----------------------------------------------------------------------------
(* The request of a page.                                                  *)

\* What a page's next request may be.
TaskMayBe(tab, task, s, in, quiet) ==
  /\ quiet /\ Shows(tab) => task.result # "mismatch" /\ task.kind # "sync"
  /\ tab.bound = Unset =>
       /\ in => task.kind = "sync" /\ task.at \in {"syncing", "synced"}
       /\ task.kind # "save" /\ task.at \notin {"sealing", "verified"}
       /\ task.result \notin {"ok", "mismatch"}
  /\ tab.purge.at # 0 /\ ~tab.purge.wizard => task.at = "idle" \/ (task.at = "answered" /\ task.result = "failed")
  /\ tab.purge.at # 0 /\ tab.purge.wizard /\ task.at = "synced" => task.key = tab.purge.gen
  /\ tab.wizard.step # "off" => task.kind \in {"none", "list"}
  /\ TaskFits([tab EXCEPT !.task = task], s, in, quiet)

\* The fields of a page whose request changes.
LEMMA WithTask ==
  ASSUME NEW tab \in TabForm, NEW task \in TaskForm
  PROVE  LET after == [tab EXCEPT !.task = task]
         IN  /\ after \in TabForm /\ after.open = tab.open /\ after.bound = tab.bound /\ after.mek = tab.mek
             /\ after.edit = tab.edit /\ after.purge = tab.purge /\ after.deaf = tab.deaf /\ after.wizard = tab.wizard
             /\ after.task = task
BY DEF TabForm

\* A page whose next request may be that stays sound.
LEMMA TaskStays ==
  ASSUME NEW tab \in TabForm, NEW task \in TaskForm, NEW disk \in DiskForm, NEW s \in ServerForm, NEW in, NEW quiet,
         TabOk(tab, disk, s, in, quiet), tab.open, TaskMayBe(tab, task, s, in, quiet)
  PROVE  TabOk([tab EXCEPT !.task = task], disk, s, in, quiet)
<1> DEFINE after == [tab EXCEPT !.task = task]
<1>1. /\ after \in TabForm /\ after.open = tab.open /\ after.bound = tab.bound /\ after.mek = tab.mek
      /\ after.edit = tab.edit /\ after.purge = tab.purge /\ after.deaf = tab.deaf /\ after.wizard = tab.wizard
      /\ after.task = task BY WithTask
<1>2. TaskFits(after, s, in, quiet) BY DEF TaskMayBe
<1> HIDE DEF after
<1>3. KeysFit(after, s, in, quiet) BY <1>1 DEF TabOk, KeysFit, Shows, TaskMayBe
<1>4. UnboundFits(after, in) BY <1>1 DEF TabOk, UnboundFits, Shows, TaskMayBe
<1>5. PurgeFits(after, disk, s, in, quiet) BY <1>1 DEF TabOk, PurgeFits, TaskMayBe
<1>6. WizardFits(after, s, in) BY <1>1 DEF TabOk, WizardFits, TaskMayBe
<1>7. TabOk(after, disk, s, in, quiet) BY <1>1, <1>2, <1>3, <1>4, <1>5, <1>6 DEF TabOk
<1> QED BY <1>7 DEF after

\* No request is always possible, once the page has a generation or no session.
LEMMA NoTaskIsFine ==
  ASSUME NEW tab \in TabForm, NEW s \in ServerForm, NEW in, NEW quiet, ~(tab.bound = Unset /\ in)
  PROVE  NoTask \in TaskForm /\ TaskMayBe(tab, NoTask, s, in, quiet)
<1>1. NoTask \in TaskForm BY GenerationNumbers DEF NoTask, TaskForm
<1> DEFINE after == [tab EXCEPT !.task = NoTask]
<1>2. after.task = NoTask /\ after.bound = tab.bound /\ after.purge = tab.purge /\ after.wizard = tab.wizard BY <1>1, WithTask
<1> HIDE DEF after
<1>3. TaskFits(after, s, in, quiet) BY <1>2 DEF TaskFits, NoTask, Underway
<1> QED BY <1>1, <1>3 DEF TaskMayBe, NoTask, after

\* Only the request changes.
LEMMA TaskAlone ==
  ASSUME GenInv, NEW t \in Tabs, NEW task \in TaskForm, SetTask(t, task),
         UNCHANGED <<server, sessions, disks, heard, files, homes>>,
         minted' \in Nat, minted <= minted', tasks' \in Nat,
         faults' \in [calls : Nat, purges : Nat], faults.calls <= faults'.calls, faults.purges <= faults'.purges,
         tabs[t].open \/ tabs[t].task.at # "idle",
         ASSUME PagesSound, tabs[t].open, TabOk(tabs[t], disks[homes[t]], server, homes[t] \in sessions, Quiet'),
                DiskOk(disks[homes[t]], server, Quiet')
         PROVE  TaskMayBe(tabs[t], task, server, homes[t] \in sessions, Quiet')
  PROVE  GenInv'
<1> DEFINE after == [tabs[t] EXCEPT !.task = task]
<1>1. after \in TabForm /\ after.wizard = tabs[t].wizard /\ tabs' = [tabs EXCEPT ![t] = after]
  BY Typed, WithTask DEF SetTask, SetTab
<1>2. TargetMinted(after.wizard, minted')
  BY Typed, <1>1 DEF TabForm, WizardForm, TargetMinted
<1>3. ASSUME PurgesWork, PagesSound PROVE TabOk(after, disks[homes[t]], server, homes[t] \in sessions, Quiet')
  BY <1>3, Given, Typed, TaskStays DEF TabOk, Shut, NoTask
<1> HIDE DEF after
<1> QED BY <1>1, <1>2, <1>3, PageAlone

\* A page asks.
LEMMA AskKeeps ==
  ASSUME GenInv, NEW t \in Tabs, Ask(t)
  PROVE  GenInv'
<1>0. /\ tabs[t].open /\ (tabs[t].purge.at = 0 \/ tabs[t].purge.wizard) /\ tabs[t].task.at = "idle"
      /\ UNCHANGED <<server, sessions, disks, heard, files, homes, minted, faults>> /\ tasks' = tasks + 1
  BY DEF Ask, Mounted, Idle, Spend
<1>1. PICK kind \in {"list", "unlock", "rehydrate", "verify", "recover"} :
        /\ kind # "list" => tabs[t].wizard.step = "off"
        /\ SetTask(t, Asking(t, kind)) BY DEF Ask
<1> DEFINE task == Asking(t, kind)
<1>2. /\ task \in TaskForm /\ task.kind = kind /\ task.at = "sent" /\ task.header = tabs[t].bound
      /\ ~task.again /\ task.result = "none" BY Typed, TabNumbers, GenerationNumbers DEF Asking, NoTask, TaskForm
<1> HIDE DEF task
<1>3. ASSUME PagesSound, tabs[t].open, TabOk(tabs[t], disks[homes[t]], server, homes[t] \in sessions, Quiet'),
             DiskOk(disks[homes[t]], server, Quiet')
      PROVE  TaskMayBe(tabs[t], task, server, homes[t] \in sessions, Quiet')
 <2> DEFINE after == [tabs[t] EXCEPT !.task = task]
 <2>1. after.task = task /\ after.bound = tabs[t].bound BY <1>2, Typed, WithTask
 <2>2. tabs[t].bound # Unset => tabs[t].bound <= server.gen BY <1>3 DEF TabOk, DiskOk
 <2>3. TaskFits(after, server, homes[t] \in sessions, Quiet')
  <3> HIDE DEF after
  <3> QED BY <1>2, <2>1, <2>2 DEF TaskFits, Underway
 <2>4. tabs[t].bound = Unset => homes[t] \notin sessions BY <1>0, <1>3 DEF TabOk, UnboundFits
 <2>5. tabs[t].purge.at # 0 /\ ~tabs[t].purge.wizard => FALSE BY <1>0
 <2> QED BY <1>1, <1>2, <2>3, <2>4, <2>5 DEF TaskMayBe, after
<1>4. tasks' \in Nat BY <1>0, Typed
<1> QED BY <1>0, <1>1, <1>2, <1>3, <1>4, Typed, TaskAlone DEF task

\* A save starts to seal.
LEMMA SealKeeps ==
  ASSUME GenInv, NEW t \in Tabs, Seal(t)
  PROVE  GenInv'
<1> DEFINE task == [NoTask EXCEPT !.kind = "save", !.at = "sealing", !.key = tabs[t].mek]
<1>0. /\ tabs[t].open /\ (tabs[t].purge.at = 0 \/ tabs[t].purge.wizard) /\ tabs[t].mek # Unset /\ tabs[t].wizard.step = "off"
      /\ UNCHANGED <<server, sessions, disks, heard, files, homes, minted, faults>> /\ tasks' = tasks + 1
      /\ SetTask(t, task) BY DEF Seal, Mounted, Spend
<1>2. /\ task \in TaskForm /\ task.kind = "save" /\ task.at = "sealing" /\ task.header = Unset /\ task.key = tabs[t].mek
      /\ ~task.again /\ task.result = "none" BY Typed, TabNumbers, GenerationNumbers DEF NoTask, TaskForm
<1> HIDE DEF task
<1>3. ASSUME PagesSound, tabs[t].open, TabOk(tabs[t], disks[homes[t]], server, homes[t] \in sessions, Quiet'),
             DiskOk(disks[homes[t]], server, Quiet')
      PROVE  TaskMayBe(tabs[t], task, server, homes[t] \in sessions, Quiet')
 <2> DEFINE after == [tabs[t] EXCEPT !.task = task]
 <2>1. after.task = task /\ after.bound = tabs[t].bound /\ after.wizard = tabs[t].wizard BY <1>2, Typed, WithTask
 <2>2. tabs[t].bound # Unset /\ tabs[t].bound <= tabs[t].mek /\ tabs[t].mek <= server.gen
   BY <1>0, <1>3 DEF TabOk, KeysFit, UnboundFits, Shows
 <2>3. TaskFits(after, server, homes[t] \in sessions, Quiet')
  <3> HIDE DEF after
  <3> QED BY <1>0, <1>2, <2>1, <2>2 DEF TaskFits, Underway
 <2>5. tabs[t].purge.at = 0 BY <1>0, <1>3 DEF TabOk, PurgeFits
 <2> QED BY <1>0, <1>2, <2>2, <2>3, <2>5 DEF TaskMayBe, after
<1>4. tasks' \in Nat BY <1>0, Typed
<1> QED BY <1>0, <1>2, <1>3, <1>4, Typed, TaskAlone

\* What was sealed is sent with the generation the page claims.
LEMMA SendKeeps ==
  ASSUME GenInv, NEW t \in Tabs, Send(t)
  PROVE  GenInv'
<1> DEFINE old == tabs[t].task
<1> DEFINE task == [old EXCEPT !.at = "sent", !.header = tabs[t].bound]
<1>0. /\ old.at = "sealing" /\ old \in TaskForm
      /\ UNCHANGED <<server, sessions, disks, heard, files, homes, minted, tasks, faults>>
      /\ SetTask(t, task) BY Typed DEF Send, TabForm
<1>2. /\ task \in TaskForm /\ task.kind = old.kind /\ task.at = "sent" /\ task.header = tabs[t].bound /\ task.key = old.key
      /\ task.again = old.again /\ task.result = old.result BY <1>0, Typed, TabNumbers DEF TaskForm
<1> HIDE DEF task
<1>3. ASSUME PagesSound, tabs[t].open, TabOk(tabs[t], disks[homes[t]], server, homes[t] \in sessions, Quiet'),
             DiskOk(disks[homes[t]], server, Quiet')
      PROVE  TaskMayBe(tabs[t], task, server, homes[t] \in sessions, Quiet')
 <2> DEFINE after == [tabs[t] EXCEPT !.task = task]
 <2>1. after.task = task /\ after.bound = tabs[t].bound /\ after.wizard = tabs[t].wizard BY <1>2, Typed, WithTask
 <2>2. /\ old.kind = "save" /\ tabs[t].wizard.step = "off" /\ old.key <= server.gen /\ tabs[t].bound <= old.key
       /\ old.result = "none" /\ ~old.again BY <1>0, <1>3 DEF TabOk, TaskFits
 <2>3. tabs[t].bound # Unset => tabs[t].bound <= server.gen BY <1>3 DEF TabOk, DiskOk
 <2>4. tabs[t].bound # Unset BY <1>0, <1>3 DEF TabOk, UnboundFits
 <2>5. ~(tabs[t].purge.at # 0 /\ ~tabs[t].purge.wizard) BY <1>0, <1>3 DEF TabOk, PurgeFits
 <2>6. TaskFits(after, server, homes[t] \in sessions, Quiet')
  <3> HIDE DEF after
  <3> QED BY <1>2, <2>1, <2>2, <2>3 DEF TaskFits, Underway
 <2> QED BY <1>2, <2>2, <2>4, <2>5, <2>6 DEF TaskMayBe, after
<1> QED BY <1>0, <1>2, <1>3, Typed, TaskAlone

\* New shares for the key that was verified.
LEMMA SubmitKeeps ==
  ASSUME GenInv, NEW t \in Tabs, Submit(t)
  PROVE  GenInv'
<1> DEFINE old == tabs[t].task
<1> DEFINE task == [old EXCEPT !.kind = "update", !.at = "sent", !.header = tabs[t].bound, !.ver = minted + 1]
<1>0. /\ old.at = "verified" /\ old \in TaskForm /\ minted' = minted + 1
      /\ UNCHANGED <<server, sessions, disks, heard, files, homes, tasks, faults>>
      /\ SetTask(t, task) BY Typed DEF Submit, TabForm
<1>1. minted + 1 \in Nat /\ tabs[t].bound \in Known BY Typed, TabNumbers
<1>2. /\ task \in TaskForm /\ task.kind = "update" /\ task.at = "sent" /\ task.header = tabs[t].bound /\ task.key = old.key
      /\ task.again = old.again /\ task.result = old.result BY <1>0, <1>1 DEF TaskForm
<1> HIDE DEF task
<1>3. ASSUME PagesSound, tabs[t].open, TabOk(tabs[t], disks[homes[t]], server, homes[t] \in sessions, Quiet'),
             DiskOk(disks[homes[t]], server, Quiet')
      PROVE  TaskMayBe(tabs[t], task, server, homes[t] \in sessions, Quiet')
 <2> DEFINE after == [tabs[t] EXCEPT !.task = task]
 <2>1. after.task = task /\ after.bound = tabs[t].bound /\ after.wizard = tabs[t].wizard BY <1>2, Typed, WithTask
 <2>2. old.kind = "verify" /\ old.result = "none" /\ ~old.again /\ tabs[t].wizard.step = "off"
   BY <1>0, <1>3 DEF TabOk, TaskFits, WizardFits
 <2>3. tabs[t].bound # Unset => tabs[t].bound <= server.gen BY <1>3 DEF TabOk, DiskOk
 <2>4. tabs[t].bound # Unset BY <1>0, <1>3 DEF TabOk, UnboundFits
 <2>5. ~(tabs[t].purge.at # 0 /\ ~tabs[t].purge.wizard) BY <1>0, <1>3 DEF TabOk, PurgeFits
 <2>6. TaskFits(after, server, homes[t] \in sessions, Quiet')
  <3> HIDE DEF after
  <3> QED BY <1>2, <2>1, <2>2, <2>3 DEF TaskFits, Underway
 <2> QED BY <1>2, <2>2, <2>4, <2>5, <2>6 DEF TaskMayBe, after
<1>4. minted' \in Nat /\ minted <= minted' BY <1>0, Typed
<1> QED BY <1>0, <1>2, <1>3, <1>4, Typed, TaskAlone

\* The key that was verified is not used.
LEMMA GiveUpTaskKeeps ==
  ASSUME GenInv, NEW t \in Tabs, GiveUpTask(t)
  PROVE  GenInv'
<1>0. /\ tabs[t].task.at = "verified" /\ SetTask(t, NoTask)
      /\ UNCHANGED <<server, sessions, disks, heard, files, homes, minted, tasks, faults>> BY DEF GiveUpTask
<1>1. NoTask \in TaskForm BY GenerationNumbers DEF NoTask, TaskForm
<1>2. ASSUME PagesSound, tabs[t].open, TabOk(tabs[t], disks[homes[t]], server, homes[t] \in sessions, Quiet'),
             DiskOk(disks[homes[t]], server, Quiet')
      PROVE  TaskMayBe(tabs[t], NoTask, server, homes[t] \in sessions, Quiet')
  BY <1>0, <1>2, Typed, NoTaskIsFine DEF TabOk, UnboundFits
<1> QED BY <1>0, <1>1, <1>2, Typed, TaskAlone

\* The network fails.
LEMMA LoseRequestKeeps ==
  ASSUME GenInv, NEW t \in Tabs, LoseRequest(t)
  PROVE  GenInv'
<1> DEFINE old == tabs[t].task
<1> DEFINE task == [old EXCEPT !.at = "answered", !.result = "failed"]
<1>0. /\ old.at \in {"sent", "answered"} /\ old.result # "failed" /\ old \in TaskForm
      /\ faults' = [faults EXCEPT !.calls = @ + 1]
      /\ UNCHANGED <<server, sessions, disks, heard, files, homes, minted, tasks>>
      /\ SetTask(t, task) BY Typed DEF LoseRequest, TabForm, Fault
<1>1. /\ faults' \in [calls : Nat, purges : Nat] /\ faults'.calls = faults.calls + 1 /\ faults'.purges = faults.purges
  BY <1>0, Typed
<1>2. /\ task \in TaskForm /\ task.kind = old.kind /\ task.at = "answered" /\ task.header = old.header /\ task.key = old.key
      /\ task.again = old.again /\ task.result = "failed" BY <1>0 DEF TaskForm
<1>3. ~Quiet' /\ faults.calls <= faults'.calls /\ faults.purges <= faults'.purges BY <1>1, Typed DEF Quiet
<1> HIDE DEF task
<1>4. ASSUME PagesSound, tabs[t].open, TabOk(tabs[t], disks[homes[t]], server, homes[t] \in sessions, Quiet'),
             DiskOk(disks[homes[t]], server, Quiet')
      PROVE  TaskMayBe(tabs[t], task, server, homes[t] \in sessions, Quiet')
 <2> DEFINE after == [tabs[t] EXCEPT !.task = task]
 <2>1. after.task = task /\ after.bound = tabs[t].bound /\ after.wizard = tabs[t].wizard /\ after.purge = tabs[t].purge
   BY <1>2, Typed, WithTask
 <2>2. TaskFits(tabs[t], server, homes[t] \in sessions, Quiet') BY <1>4 DEF TabOk
 <2>3. TaskFits(after, server, homes[t] \in sessions, Quiet')
  <3> HIDE DEF after
  <3> QED BY <1>0, <1>2, <1>3, <2>1, <2>2 DEF TaskFits, Underway
 <2>4. tabs[t].bound = Unset => homes[t] \notin sessions /\ old.kind # "save" BY <1>0, <1>4 DEF TabOk, UnboundFits
 <2>5. tabs[t].wizard.step # "off" => old.kind \in {"none", "list"} BY <1>4 DEF TabOk, WizardFits
 <2> QED BY <1>2, <1>3, <2>3, <2>4, <2>5 DEF TaskMayBe, after
<1> QED BY <1>0, <1>1, <1>2, <1>3, <1>4, Typed, TaskAlone

\* A change of the request, with what the server does for it.
LEMMA ServeRequestKeeps ==
  ASSUME GenInv, NEW t \in Tabs, ServeRequest(t)
  PROVE  GenInv'
<1> DEFINE old == tabs[t].task
<1>0. /\ old.at = "sent" /\ old \in TaskForm /\ UNCHANGED <<sessions, disks, heard, files, homes, minted, tasks, faults>>
      /\ GenForm /\ server \in ServerForm BY Typed DEF ServeRequest, TabForm, GenInv, Basics
<1>1. server.mek = server.gen /\ server.gen \in Known /\ server.gen \in Nat /\ server.gen <= MaxGen
  BY <1>0, ServerGeneration, GenerationNumbers DEF GenInv, Basics, WayIn
<1>2. Result(t) \in {"ok", "mismatch", "refused", "unauthorized"} BY DEF Result
<1> DEFINE answer == [old EXCEPT !.at = "answered", !.result = Result(t)]
<1>3. PICK key \in Known, ver \in Nat :
        /\ SetTask(t, [answer EXCEPT !.key = key, !.ver = ver])
        /\ old.kind # "list" \/ Result(t) # "ok" => key = old.key \/ key = server.gen
        /\ Result(t) = "ok" /\ old.kind = "list" => key = server.row
        /\ Result(t) = "ok" /\ old.kind = "save" => key = old.key
        /\ Result(t) = "ok" /\ old.kind \notin {"list", "save"} => key = server.gen
        /\ \/ UNCHANGED server
           \/ Result(t) = "ok" /\ old.kind = "save" /\ server' = [server EXCEPT !.row = old.key]
           \/ server' = [server EXCEPT !.mek = server.gen, !.ver = old.ver]
 <2>1. old.key \in Known /\ old.ver \in Nat /\ server.row \in Known /\ server.ver \in Nat BY <1>0 DEF TaskForm, ServerForm
 <2>2. answer = [answer EXCEPT !.key = old.key, !.ver = old.ver] BY <1>0 DEF TaskForm
 <2>3. \A key \in Known : [answer EXCEPT !.key = key] = [answer EXCEPT !.key = key, !.ver = old.ver] BY <1>0 DEF TaskForm
 <2>4. CASE Result(t) # "ok"
   BY <2>4, <2>1, <2>2 DEF ServeRequest
 <2>5. CASE Result(t) = "ok" /\ old.kind = "list"
   BY <2>5, <2>1, <2>3 DEF ServeRequest
 <2>6. CASE Result(t) = "ok" /\ old.kind = "save"
   BY <2>6, <2>1, <2>2 DEF ServeRequest
 <2>7. CASE Result(t) = "ok" /\ old.kind = "update"
   BY <2>7, <1>1, <2>1, <2>2 DEF ServeRequest, Result, SameKey
 <2>8. CASE Result(t) = "ok" /\ old.kind \notin {"list", "save", "update"}
   BY <2>8, <1>1, <2>1 DEF ServeRequest
 <2> QED BY <2>4, <2>5, <2>6, <2>7, <2>8
<1> DEFINE task == [answer EXCEPT !.key = key, !.ver = ver]
<1>4. /\ task \in TaskForm /\ task.kind = old.kind /\ task.at = "answered" /\ task.header = old.header /\ task.key = key
      /\ task.again = old.again /\ task.result = Result(t) BY <1>0, <1>2, <1>3 DEF TaskForm
<1>5. /\ server' \in ServerForm /\ server'.gen = server.gen /\ server'.op = server.op /\ server'.done = server.done
      /\ server'.mek = server.gen /\ server'.row \in {server.row, old.key} BY <1>0, <1>1, <1>3 DEF ServerForm, TaskForm
<1> DEFINE after == [tabs[t] EXCEPT !.task = task]
<1>6. /\ after \in TabForm /\ after.wizard = tabs[t].wizard /\ tabs' = [tabs EXCEPT ![t] = after]
  BY <1>3, <1>4, Typed, WithTask DEF SetTask, SetTab
<1> HIDE DEF task, answer
<1>7. ASSUME PagesSound
      PROVE  TabOk(after, disks[homes[t]], server, homes[t] \in sessions, Quiet') /\ RowIsCurrent' /\ DiskOk(disks[homes[t]], server, Quiet')
 <2>1. TabOk(tabs[t], disks[homes[t]], server, homes[t] \in sessions, Quiet) /\ DiskOk(disks[homes[t]], server, Quiet)
   BY <1>7, Typed DEF PagesSound, Disk, Home, SignedIn
 <2>2. tabs[t].open BY <1>0, <2>1 DEF TabOk, Shut, NoTask
 <2>3. Quiet' = Quiet BY <1>0 DEF Quiet
 <2>4. server.row = server.gen BY <1>7 DEF PagesSound, RowIsCurrent
 <2>5. /\ old.header # Unset => old.header <= server.gen
       /\ Follows(tabs[t]) => old.header = tabs[t].bound
       /\ old.kind = "save" => old.key <= server.gen /\ old.header <= old.key
       /\ old.kind \notin {"sync", "none"} /\ ~old.again BY <1>0, <2>1, <2>2 DEF TabOk, TaskFits, Underway
 <2>6. Result(t) = "mismatch" => homes[t] \in sessions /\ ~Agrees(old.header) BY DEF Result, SignedIn, Home
 <2>7. Result(t) = "ok" => homes[t] \in sessions /\ Agrees(old.header) BY DEF Result, SignedIn, Home
 <2>8. Result(t) # "unauthorized" => homes[t] \in sessions BY DEF Result, SignedIn, Home
 <2>9. old.header \in Nat /\ old.key \in Nat /\ tabs[t].bound \in Nat /\ old.header \in Known BY Typed, TabNumbers
 <2>10. Result(t) = "ok" /\ old.kind = "save" => old.key = server.gen BY <1>1, <2>5, <2>7, <2>9, GenerationNumbers DEF Agrees
 <2>11. Result(t) = "mismatch" => old.header = Unset \/ old.header < server.gen BY <1>1, <2>5, <2>6, <2>9 DEF Agrees
 <2>12. Result(t) = "ok" => key = server.gen /\ old.header \in {server.gen, Unset} BY <1>3, <2>4, <2>7, <2>10 DEF Agrees
 <2>13. Result(t) = "refused" => old.kind \in {"save", "update"} BY DEF Result
 <2>14. Quiet /\ Shows(tabs[t]) => Result(t) # "mismatch"
  <3> SUFFICES ASSUME Quiet, Shows(tabs[t]), Result(t) = "mismatch" PROVE FALSE OBVIOUS
  <3>1. tabs[t].bound = server.gen BY <2>1, <2>2, <2>6 DEF TabOk, KeysFit
  <3>2. tabs[t].purge.at = 0 BY <2>1, <2>2 DEF TabOk, PurgeFits, Shows
  <3>3. Follows(tabs[t]) BY <3>2 DEF Follows
  <3> QED BY <2>5, <2>6, <3>1, <3>3 DEF Agrees
 <2>15. tabs[t].bound = Unset => homes[t] \notin sessions /\ old.kind # "save" BY <1>0, <2>1, <2>2 DEF TabOk, UnboundFits
 <2>16. ~(tabs[t].purge.at # 0 /\ ~tabs[t].purge.wizard) BY <1>0, <2>1, <2>2 DEF TabOk, PurgeFits
 <2>17. tabs[t].wizard.step # "off" => old.kind \in {"none", "list"} BY <2>1, <2>2 DEF TabOk, WizardFits
 <2>18. /\ after.task = task /\ after.bound = tabs[t].bound /\ after.wizard = tabs[t].wizard /\ after.purge = tabs[t].purge
        /\ (Follows(after) <=> Follows(tabs[t])) BY <1>4, Typed, WithTask DEF Follows, Shows
 <2>19. TaskFits(after, server, homes[t] \in sessions, Quiet)
  <3> HIDE DEF after
  <3> QED BY <1>1, <1>2, <1>4, <2>5, <2>9, <2>11, <2>12, <2>13, <2>18 DEF TaskFits, Underway
 <2>20. TaskMayBe(tabs[t], task, server, homes[t] \in sessions, Quiet)
   BY <1>2, <1>4, <2>5, <2>8, <2>14, <2>15, <2>16, <2>17, <2>19 DEF TaskMayBe, after
 <2>21. TabOk(after, disks[homes[t]], server, homes[t] \in sessions, Quiet) BY <1>4, <2>1, <2>2, <2>20, Typed, TaskStays
 <2>22. server'.row = server.gen BY <1>0, <1>3, <2>4, <2>10 DEF ServerForm
 <2> QED BY <1>5, <2>1, <2>3, <2>21, <2>22 DEF RowIsCurrent
<1> HIDE DEF after
<1>8. GenForm'
  BY <1>0, <1>6, <1>5 DEF GenForm, Running
<1>9. WayIn' BY <1>0, <1>5 DEF GenInv, Basics, WayIn
<1>10. server'.op.ver <= minted' /\ server'.done <= minted' /\ minted <= minted' /\ TargetMinted(after.wizard, minted')
  BY <1>0, <1>5, <1>6, Typed DEF GenInv, Basics, SharesWereMinted
<1>11. disks' = [disks EXCEPT ![homes[t]] = disks[homes[t]]] /\ tabs'[t] = after /\ \A s \in Tabs : s # t => tabs'[s] = tabs[s]
  BY <1>0, <1>6 DEF GenForm
<1>12. ASSUME PurgesWork, PagesSound
       PROVE  Keeps(t) /\ TabOk(after, disks[homes[t]], server', homes[t] \in sessions', Quiet')
                       /\ DiskOk(disks[homes[t]], server', Quiet')
 <2>1. TabOk(after, disks[homes[t]], server, homes[t] \in sessions, Quiet') /\ RowIsCurrent' /\ DiskOk(disks[homes[t]], server, Quiet')
   BY <1>7, <1>12
 <2>2. server.gen <= server'.gen /\ (Running(server') <=> Running(server)) BY <1>1, <1>5 DEF Running
 <2>3. Keeps(t) BY <1>0, <1>5, <1>12, <2>1, <2>2 DEF Keeps, PagesSound
 <2> QED BY <1>0, <1>5, <1>6, <2>1, <2>2, <2>3, Typed, TabStays, DiskStays
<1>13. disks[homes[t]] \in DiskForm /\ faults.calls <= faults'.calls /\ faults.purges <= faults'.purges /\ homes' = homes
  BY <1>0, Typed
<1> HIDE DEF old
<1> QED BY <1>6, <1>8, <1>9, <1>10, <1>11, <1>12, <1>13, Moves

\* A refusal makes the page ask for its generation.
LEMMA RefusedKeeps ==
  ASSUME GenInv, NEW t \in Tabs, Refused(t)
  PROVE  GenInv'
<1> DEFINE old == tabs[t].task
<1> DEFINE task == [old EXCEPT !.at = "syncing", !.known = Disk(t).marker # NoMarker]
<1>0. /\ old.at = "answered" /\ old.result = "mismatch" /\ ~old.again /\ old \in TaskForm
      /\ UNCHANGED <<server, sessions, disks, heard, files, homes, minted, tasks, faults>>
      /\ SetTask(t, task) BY Typed DEF Refused, Answered, TabForm
<1>2. /\ task \in TaskForm /\ task.kind = old.kind /\ task.at = "syncing" /\ task.header = old.header /\ task.key = old.key
      /\ task.again = old.again /\ task.result = old.result BY <1>0 DEF TaskForm
<1> HIDE DEF task
<1>3. ASSUME PagesSound, tabs[t].open, TabOk(tabs[t], disks[homes[t]], server, homes[t] \in sessions, Quiet'),
             DiskOk(disks[homes[t]], server, Quiet')
      PROVE  TaskMayBe(tabs[t], task, server, homes[t] \in sessions, Quiet')
 <2> DEFINE after == [tabs[t] EXCEPT !.task = task]
 <2>1. /\ after.task = task /\ after.bound = tabs[t].bound /\ after.wizard = tabs[t].wizard /\ after.purge = tabs[t].purge
       /\ (Follows(after) <=> Follows(tabs[t])) BY <1>2, Typed, WithTask DEF Follows, Shows
 <2>2. TaskFits(tabs[t], server, homes[t] \in sessions, Quiet') BY <1>3 DEF TabOk
 <2>3. TaskFits(after, server, homes[t] \in sessions, Quiet')
  <3> HIDE DEF after
  <3> QED BY <1>0, <1>2, <2>1, <2>2 DEF TaskFits, Underway
 <2>4. tabs[t].bound # Unset BY <1>0, <1>3 DEF TabOk, UnboundFits
 <2>5. ~(tabs[t].purge.at # 0 /\ ~tabs[t].purge.wizard) BY <1>0, <1>3 DEF TabOk, PurgeFits
 <2>6. Quiet' /\ Shows(tabs[t]) => FALSE BY <1>0, <1>3 DEF TabOk, KeysFit
 <2>7. tabs[t].wizard.step # "off" => old.kind \in {"none", "list"} BY <1>3 DEF TabOk, WizardFits
 <2> QED BY <1>2, <2>3, <2>4, <2>5, <2>6, <2>7 DEF TaskMayBe, after
<1> QED BY <1>0, <1>2, <1>3, Typed, TaskAlone

\* The server says what the generation is, or the call fails.
LEMMA ResolveKeeps ==
  ASSUME GenInv, NEW t \in Tabs, Resolve(t)
  PROVE  GenInv'
<1> DEFINE old == tabs[t].task
<1>0. /\ old.at = "syncing" /\ old \in TaskForm
      /\ UNCHANGED <<server, sessions, disks, heard, files, homes, minted, tasks>> BY Typed DEF Resolve, TabForm
<1>1. server.gen \in Known /\ server.gen \in Nat BY Typed, GenerationNumbers DEF ServerForm
<1>2. CASE SignedIn(t) /\ SetTask(t, [old EXCEPT !.at = "synced", !.key = server.gen]) /\ UNCHANGED faults
 <2> DEFINE task == [old EXCEPT !.at = "synced", !.key = server.gen]
 <2>1. /\ task \in TaskForm /\ task.kind = old.kind /\ task.at = "synced" /\ task.header = old.header /\ task.key = server.gen
       /\ task.again = old.again /\ task.result = old.result BY <1>0, <1>1 DEF TaskForm
 <2> HIDE DEF task
 <2>2. homes[t] \in sessions BY <1>2 DEF SignedIn, Home
 <2>3. ASSUME PagesSound, tabs[t].open, TabOk(tabs[t], disks[homes[t]], server, homes[t] \in sessions, Quiet'),
              DiskOk(disks[homes[t]], server, Quiet')
       PROVE  TaskMayBe(tabs[t], task, server, homes[t] \in sessions, Quiet')
  <3> DEFINE after == [tabs[t] EXCEPT !.task = task]
  <3>1. /\ after.task = task /\ after.bound = tabs[t].bound /\ after.wizard = tabs[t].wizard /\ after.purge = tabs[t].purge
        /\ (Follows(after) <=> Follows(tabs[t])) BY <2>1, Typed, WithTask DEF Follows, Shows
  <3>2. TaskFits(tabs[t], server, homes[t] \in sessions, Quiet') BY <2>3 DEF TabOk
  <3>3. TaskFits(after, server, homes[t] \in sessions, Quiet')
   <4> HIDE DEF after
   <4> QED BY <1>0, <1>1, <2>1, <3>1, <3>2 DEF TaskFits, Underway
  <3>4. tabs[t].bound = Unset => old.kind = "sync" /\ old.result \notin {"ok", "mismatch"} BY <2>2, <2>3 DEF TabOk, UnboundFits
  <3>5. tabs[t].purge.at # 0 => tabs[t].purge.wizard /\ tabs[t].purge.gen = server.gen BY <1>0, <2>2, <2>3 DEF TabOk, PurgeFits
  <3>6. Quiet' /\ Shows(tabs[t]) => old.result # "mismatch" /\ old.kind # "sync" BY <2>3 DEF TabOk, KeysFit
  <3>7. tabs[t].wizard.step # "off" => old.kind \in {"none", "list"} BY <2>3 DEF TabOk, WizardFits
  <3> QED BY <2>1, <3>3, <3>4, <3>5, <3>6, <3>7 DEF TaskMayBe, after
 <2> QED BY <1>0, <1>2, <2>1, <2>3, Typed, TaskAlone DEF task
<1>3. CASE /\ (Fault /\ old.kind # "sync") \/ (~SignedIn(t) /\ UNCHANGED faults)
           /\ SetTask(t, [old EXCEPT !.at = "answered", !.result = "failed", !.again = TRUE])
 <2> DEFINE task == [old EXCEPT !.at = "answered", !.result = "failed", !.again = TRUE]
 <2>1. /\ task \in TaskForm /\ task.kind = old.kind /\ task.at = "answered" /\ task.header = old.header /\ task.key = old.key
       /\ task.again /\ task.result = "failed" BY <1>0 DEF TaskForm
 <2>2. /\ faults' \in [calls : Nat, purges : Nat] /\ faults.calls <= faults'.calls /\ faults.purges <= faults'.purges
       /\ ~Quiet' \/ homes[t] \notin sessions
       /\ old.kind = "sync" => homes[t] \notin sessions
  <3>1. CASE Fault /\ old.kind # "sync"
    BY <3>1, Typed DEF Fault, Quiet
  <3>2. CASE ~SignedIn(t) /\ UNCHANGED faults BY <3>2, Typed DEF SignedIn, Home
  <3> QED BY <1>3, <3>1, <3>2
 <2> HIDE DEF task
 <2>3. ASSUME PagesSound, tabs[t].open, TabOk(tabs[t], disks[homes[t]], server, homes[t] \in sessions, Quiet'),
              DiskOk(disks[homes[t]], server, Quiet')
       PROVE  TaskMayBe(tabs[t], task, server, homes[t] \in sessions, Quiet')
  <3> DEFINE after == [tabs[t] EXCEPT !.task = task]
  <3>1. /\ after.task = task /\ after.bound = tabs[t].bound /\ after.wizard = tabs[t].wizard /\ after.purge = tabs[t].purge
    BY <2>1, Typed, WithTask
  <3>2. TaskFits(tabs[t], server, homes[t] \in sessions, Quiet') BY <2>3 DEF TabOk
  <3>3. TaskFits(after, server, homes[t] \in sessions, Quiet')
   <4> HIDE DEF after
   <4> QED BY <1>0, <2>1, <2>2, <3>1, <3>2 DEF TaskFits, Underway
  <3>4. tabs[t].bound = Unset => (homes[t] \in sessions => old.kind = "sync") /\ old.kind # "save"
    BY <2>3 DEF TabOk, UnboundFits
  <3>6. Quiet' /\ Shows(tabs[t]) => old.kind # "sync" BY <2>3 DEF TabOk, KeysFit
  <3>7. tabs[t].wizard.step # "off" => old.kind \in {"none", "list"} BY <2>3 DEF TabOk, WizardFits
  <3> QED BY <2>1, <2>2, <3>3, <3>4, <3>6, <3>7 DEF TaskMayBe, after
 <2> QED BY <1>0, <1>3, <2>1, <2>2, <2>3, Typed, TaskAlone DEF task
<1> QED BY <1>2, <1>3 DEF Resolve

\* What is known of an answer that the page takes.
LEMMA AnswerTaken ==
  ASSUME NEW tab \in TabForm, NEW disk \in DiskForm, NEW s \in ServerForm, NEW in, NEW quiet,
         TabOk(tab, disk, s, in, quiet), DiskOk(disk, s, quiet),
         tab.task.at = "answered", tab.task.result = "ok", tab.task.kind = "sync" \/ tab.task.header = tab.bound
  PROVE  /\ tab.open /\ tab.task.kind \notin {"sync", "none"} /\ tab.bound # Unset /\ disk.marker.gen = tab.bound
         /\ tab.bound <= tab.task.key /\ tab.task.key <= s.gen /\ tab.task.key # Unset
         /\ in /\ tab.task.kind # "list" => tab.bound = s.gen
         /\ tab.task.kind # "list" => tab.wizard.step = "off" /\ tab.purge.at = 0
         /\ tab.purge.at # 0 => tab.purge.gen = tab.bound
<1>1. tab.open BY DEF TabOk, Shut, NoTask
<1>2. tab.bound # Unset /\ tab.task.kind # "sync" BY <1>1 DEF TabOk, UnboundFits, TaskFits
<1>3. tab.task.kind # "none" /\ tab.task.key <= s.gen /\ tab.bound <= tab.task.key BY <1>1, <1>2 DEF TabOk, TaskFits
<1>4. in /\ tab.task.kind # "list" => tab.bound = s.gen BY <1>1, <1>2 DEF TabOk, TaskFits
<1>5. tab.task.kind # "list" => tab.wizard.step = "off" /\ tab.purge.at = 0 BY <1>1, <1>3 DEF TabOk, WizardFits, PurgeFits
<1>6. tab.purge.at # 0 => tab.purge.gen = tab.bound BY <1>1 DEF TabOk, PurgeFits
<1>7. tab.task.key # Unset
 <2>1. s.gen \in Generation BY DEF ServerForm
 <2>2. s.gen \in Nat /\ s.gen <= MaxGen /\ Unset = MaxGen + 1 /\ MaxGen \in Nat BY <2>1, GenerationNumbers
 <2>3. tab.task.key \in Nat BY TabNumbers
 <2> QED BY <1>3, <2>2, <2>3
<1> QED BY <1>1, <1>2, <1>3, <1>4, <1>5, <1>6, <1>7 DEF TabOk

\* A page whose request is over.
TaskEnded(tab) == [tab EXCEPT !.task = NoTask]

\* What an unlock or a change of the passphrase leaves with the browser.
Refreshed(disk, key, ver) ==
  [disk EXCEPT !.kept.material = IF Stored THEN key ELSE Unset, !.stored = IF Stored THEN ver ELSE 0]

\* What is kept anew was in use, and not before the marker.
LEMMA RefreshedStays ==
  ASSUME NEW disk \in DiskForm, NEW key \in Known, NEW ver \in Nat
  PROVE  /\ Refreshed(disk, key, ver) \in DiskForm /\ Refreshed(disk, key, ver).marker = disk.marker
         /\ \A s \in ServerForm : \A quiet :
              DiskOk(disk, s, quiet) /\ key # Unset /\ key <= s.gen /\ disk.marker.gen # Unset /\ disk.marker.gen <= key =>
                DiskOk(Refreshed(disk, key, ver), s, quiet)
<1> DEFINE after == Refreshed(disk, key, ver)
<1>1. /\ after \in DiskForm /\ after.marker = disk.marker
      /\ after.stored = (IF Stored THEN ver ELSE 0)
      /\ \A k \in Kept : after.kept[k] = IF k = "material" THEN (IF Stored THEN key ELSE Unset) ELSE disk.kept[k]
  BY GenerationNumbers DEF DiskForm, Kept, Refreshed
<1>2. "material" \in Kept BY DEF Kept
<1> HIDE DEF after
<1>3. ASSUME NEW s \in ServerForm, NEW quiet,
             DiskOk(disk, s, quiet), key # Unset, key <= s.gen, disk.marker.gen # Unset, disk.marker.gen <= key
      PROVE  DiskOk(after, s, quiet)
  BY <1>1, <1>2, <1>3 DEF DiskOk, Young
<1>4. \A s \in ServerForm : \A quiet :
        DiskOk(disk, s, quiet) /\ key # Unset /\ key <= s.gen /\ disk.marker.gen # Unset /\ disk.marker.gen <= key =>
          DiskOk(after, s, quiet) BY <1>3
<1> QED BY <1>1, <1>4 DEF after

\* A page that has finished its request, with keys no older than it claims.
LEMMA FreshPage ==
  ASSUME NEW tab \in TabForm, NEW after \in TabForm, NEW disk \in DiskForm, NEW disk2 \in DiskForm, NEW s \in ServerForm,
         NEW in, NEW quiet,
         TabOk(tab, disk, s, in, quiet), tab.open, tab.bound # Unset, disk2.marker = disk.marker,
         tab.purge.at # 0 => PurgeFits(tab, disk2, s, in, quiet),
         after.open, after.bound = tab.bound, after.edit = tab.edit, after.purge = tab.purge, after.deaf = tab.deaf,
         after.wizard = tab.wizard, after.task = NoTask,
         \/ after.mek = tab.mek
         \/ /\ tab.purge.at = 0 /\ tab.bound <= after.mek /\ after.mek <= s.gen
            /\ quiet /\ in => tab.bound = s.gen
  PROVE  TabOk(after, disk2, s, in, quiet)
<1>1. KeysFit(after, s, in, quiet) BY DEF TabOk, KeysFit, Shows, NoTask
<1>2. UnboundFits(after, in) BY DEF UnboundFits
<1>3. PurgeFits(after, disk2, s, in, quiet)
 <2>1. CASE tab.purge.at # 0 BY <2>1 DEF PurgeFits, NoTask
 <2>2. CASE tab.purge.at = 0 BY <2>2 DEF TabOk, PurgeFits
 <2> QED BY <2>1, <2>2
<1>4. WizardFits(after, s, in) BY DEF TabOk, WizardFits, NoTask
<1>5. TaskFits(after, s, in, quiet) BY DEF TaskFits, NoTask, Underway
<1> QED BY <1>1, <1>2, <1>3, <1>4, <1>5 DEF TabOk

\* The list goes to the cache.
LEMMA ListKeeps ==
  ASSUME GenInv, NEW t \in Tabs, Receive(t), tabs[t].task.kind = "list"
  PROVE  GenInv'
<1> DEFINE old == tabs[t].task
<1> DEFINE after == TaskEnded(tabs[t])
<1> DEFINE disk == [disks[homes[t]] EXCEPT !.kept.cache = old.key]
<1>0. /\ tabs' = [tabs EXCEPT ![t] = after] /\ disks' = [disks EXCEPT ![homes[t]] = disk]
      /\ UNCHANGED <<server, sessions, heard, files, homes, minted, tasks, faults>>
      /\ old.at = "answered" /\ old.result = "ok" /\ old.header = tabs[t].bound
  BY DEF Receive, SetDisk, SetTask, SetTab, Disk, Home, TaskEnded, Usable, Late, Answered
<1>1. /\ after \in TabForm /\ after.open = tabs[t].open /\ after.bound = tabs[t].bound /\ after.mek = tabs[t].mek
      /\ after.edit = tabs[t].edit /\ after.purge = tabs[t].purge /\ after.deaf = tabs[t].deaf
      /\ after.wizard = tabs[t].wizard /\ after.task = NoTask
 <2>1. NoTask \in TaskForm BY GenerationNumbers DEF NoTask, TaskForm
 <2> QED BY <2>1, Typed, WithTask DEF TaskEnded
<1>2. /\ disk \in DiskForm /\ disk.marker = disks[homes[t]].marker /\ disk.stored = disks[homes[t]].stored
      /\ \A k \in Kept : disk.kept[k] = IF k = "cache" THEN old.key ELSE disks[homes[t]].kept[k]
  BY Typed, TabNumbers DEF DiskForm, Kept
<1> HIDE DEF after, disk
<1>3. ASSUME PurgesWork, PagesSound
      PROVE  TabOk(after, disk, server, homes[t] \in sessions, Quiet') /\ DiskOk(disk, server, Quiet')
 <2>1. TabOk(tabs[t], disks[homes[t]], server, homes[t] \in sessions, Quiet') /\ DiskOk(disks[homes[t]], server, Quiet')
   BY <1>0, <1>3, Given, Typed
 <2>2. /\ tabs[t].open /\ tabs[t].bound # Unset /\ disks[homes[t]].marker.gen = tabs[t].bound
       /\ tabs[t].bound <= old.key /\ old.key <= server.gen
       /\ tabs[t].purge.at # 0 => tabs[t].purge.gen = tabs[t].bound BY <1>0, <2>1, AnswerTaken, Typed
 <2>3. PurgeFits(tabs[t], disks[homes[t]], server, homes[t] \in sessions, Quiet') BY <2>1, <2>2 DEF TabOk
 <2>4. tabs[t].purge.at # 0 => PurgeFits(tabs[t], disk, server, homes[t] \in sessions, Quiet')
   BY <1>2, <2>2, <2>3 DEF PurgeFits, Young, Items, Kept
 <2>5. DiskOk(disk, server, Quiet') BY <1>2, <2>1, <2>2 DEF DiskOk, Young, Kept
 <2>6. TabOk(after, disk, server, homes[t] \in sessions, Quiet') BY <1>1, <1>2, <2>1, <2>2, <2>4, FreshPage, Typed
 <2> QED BY <2>5, <2>6
<1>4. heard' \in [Tabs -> SUBSET Known] /\ (PagesSound => \A s \in Tabs : heard'[s] = {})
  BY <1>0 DEF GenInv, Basics, GenForm, PagesSound
<1> HIDE DEF old
<1> QED BY <1>0, <1>1, <1>2, <1>3, <1>4, Typed, PageMoves

\* A save is over.
LEMMA SavedKeeps ==
  ASSUME GenInv, NEW t \in Tabs, Receive(t), tabs[t].task.kind = "save"
  PROVE  GenInv'
<1>0. /\ SetTask(t, NoTask)
      /\ UNCHANGED <<server, sessions, disks, heard, files, homes, minted, tasks, faults>>
      /\ tabs[t].task.at = "answered" /\ tabs[t].task.result = "ok" /\ tabs[t].task.header = tabs[t].bound
  BY DEF Receive, Usable, Late, Answered
<1>1. NoTask \in TaskForm BY GenerationNumbers DEF NoTask, TaskForm
<1>2. ASSUME PagesSound, tabs[t].open, TabOk(tabs[t], disks[homes[t]], server, homes[t] \in sessions, Quiet'),
             DiskOk(disks[homes[t]], server, Quiet')
      PROVE  TaskMayBe(tabs[t], NoTask, server, homes[t] \in sessions, Quiet')
  BY <1>0, <1>2, AnswerTaken, Typed, NoTaskIsFine
<1> QED BY <1>0, <1>1, <1>2, Typed, TaskAlone

\* The material that came opens the vault, or a recovery file does.
LEMMA VerifyTaskKeeps ==
  ASSUME GenInv, NEW t \in Tabs, Receive(t), tabs[t].task.kind \in {"verify", "recover"}
  PROVE  GenInv'
<1> DEFINE old == tabs[t].task
<1> DEFINE task == [old EXCEPT !.kind = "verify", !.at = "verified", !.result = "none"]
<1>0. /\ SetTask(t, task) \/ SetTask(t, NoTask)
      /\ UNCHANGED <<server, sessions, disks, heard, files, homes, minted, tasks, faults>>
      /\ old.at = "answered" /\ old.result = "ok" /\ old.header = tabs[t].bound /\ old.kind \in {"verify", "recover"}
  BY DEF Receive, Usable, Late, Answered
<1>1. NoTask \in TaskForm BY GenerationNumbers DEF NoTask, TaskForm
<1>2. /\ task \in TaskForm /\ task.kind = "verify" /\ task.at = "verified" /\ task.header = old.header /\ task.key = old.key
      /\ task.again = old.again /\ task.result = "none"
 <2>1. old \in TaskForm BY Typed DEF TabForm
 <2> QED BY <2>1 DEF TaskForm
<1>3. ASSUME PagesSound, tabs[t].open, TabOk(tabs[t], disks[homes[t]], server, homes[t] \in sessions, Quiet'),
             DiskOk(disks[homes[t]], server, Quiet')
      PROVE  /\ TaskMayBe(tabs[t], NoTask, server, homes[t] \in sessions, Quiet')
             /\ TaskMayBe(tabs[t], task, server, homes[t] \in sessions, Quiet')
 <2>1. tabs[t].bound # Unset /\ tabs[t].wizard.step = "off" /\ tabs[t].purge.at = 0 BY <1>0, <1>3, AnswerTaken, Typed
 <2>2. TaskMayBe(tabs[t], NoTask, server, homes[t] \in sessions, Quiet') BY <2>1, Typed, NoTaskIsFine
 <2> DEFINE after == [tabs[t] EXCEPT !.task = task]
 <2>3. after.task = task /\ after.bound = tabs[t].bound /\ after.wizard = tabs[t].wizard /\ after.purge = tabs[t].purge
   BY <1>2, Typed, WithTask
 <2>4. TaskFits(tabs[t], server, homes[t] \in sessions, Quiet') BY <1>3 DEF TabOk
 <2>5. TaskFits(after, server, homes[t] \in sessions, Quiet')
  <3> HIDE DEF after, task
  <3> QED BY <1>0, <1>2, <2>3, <2>4 DEF TaskFits, Underway
 <2>6. TaskMayBe(tabs[t], task, server, homes[t] \in sessions, Quiet')
  <3> HIDE DEF task
  <3> QED BY <1>2, <2>1, <2>5 DEF TaskMayBe, after
 <2> QED BY <2>2, <2>6
<1> HIDE DEF task, old
<1>4. CASE SetTask(t, task) BY <1>0, <1>2, <1>3, <1>4, Typed, TaskAlone DEF old
<1>5. CASE SetTask(t, NoTask) BY <1>0, <1>1, <1>3, <1>5, Typed, TaskAlone DEF old
<1> QED BY <1>0, <1>4, <1>5

\* The passphrase has changed, and this page has the new shares.
LEMMA UpdatedKeeps ==
  ASSUME GenInv, NEW t \in Tabs, Receive(t), tabs[t].task.kind = "update"
  PROVE  GenInv'
<1> DEFINE old == tabs[t].task
<1> DEFINE after == [tabs[t] EXCEPT !.share = old.ver, !.task = NoTask]
<1> DEFINE disk == Refreshed(disks[homes[t]], old.key, old.ver)
<1>0. /\ tabs' = [tabs EXCEPT ![t] = after] /\ disks' = [disks EXCEPT ![homes[t]] = disk]
      /\ UNCHANGED <<server, sessions, heard, files, homes, minted, tasks, faults>>
      /\ old.at = "answered" /\ old.result = "ok" /\ old.header = tabs[t].bound /\ old.kind = "update"
  BY DEF Receive, SetDisk, SetTab, Disk, Home, Usable, Late, Answered, Refreshed
<1>1. NoTask \in TaskForm /\ old.key \in Known /\ old.ver \in Nat BY Typed, GenerationNumbers DEF NoTask, TaskForm, TabForm
<1>2. /\ after \in TabForm /\ after.open = tabs[t].open /\ after.bound = tabs[t].bound /\ after.mek = tabs[t].mek
      /\ after.edit = tabs[t].edit /\ after.purge = tabs[t].purge /\ after.deaf = tabs[t].deaf
      /\ after.wizard = tabs[t].wizard /\ after.task = NoTask BY <1>1, Typed DEF TabForm
<1>3. disk \in DiskForm /\ disk.marker = disks[homes[t]].marker BY <1>1, Typed, RefreshedStays
<1> HIDE DEF after, disk
<1>4. ASSUME PurgesWork, PagesSound
      PROVE  TabOk(after, disk, server, homes[t] \in sessions, Quiet') /\ DiskOk(disk, server, Quiet')
 <2>1. TabOk(tabs[t], disks[homes[t]], server, homes[t] \in sessions, Quiet') /\ DiskOk(disks[homes[t]], server, Quiet')
   BY <1>0, <1>4, Given, Typed
 <2>2. /\ tabs[t].open /\ tabs[t].bound # Unset /\ disks[homes[t]].marker.gen = tabs[t].bound
       /\ tabs[t].bound <= old.key /\ old.key <= server.gen /\ old.key # Unset /\ tabs[t].purge.at = 0
   BY <1>0, <2>1, AnswerTaken, Typed
 <2>3. DiskOk(disk, server, Quiet') BY <1>1, <2>1, <2>2, RefreshedStays, Typed DEF disk
 <2>4. TabOk(after, disk, server, homes[t] \in sessions, Quiet') BY <1>2, <1>3, <2>1, <2>2, FreshPage, Typed
 <2> QED BY <2>3, <2>4
<1>5. heard' \in [Tabs -> SUBSET Known] /\ (PagesSound => \A s \in Tabs : heard'[s] = {})
  BY <1>0 DEF GenInv, Basics, GenForm, PagesSound
<1> HIDE DEF old
<1> QED BY <1>0, <1>2, <1>3, <1>4, <1>5, Typed, PageMoves

\* A page that unlocked, or could not.
LEMMA UnlockedPage ==
  ASSUME GenInv, NEW t \in Tabs, NEW key \in Known, NEW ver \in Nat, Unlocked(t, tabs[t].task, key, ver)
  PROVE  \E after \in TabForm :
           /\ tabs' = [tabs EXCEPT ![t] = after] /\ after.open = tabs[t].open /\ after.bound = tabs[t].bound
           /\ after.edit = tabs[t].edit /\ after.purge = tabs[t].purge /\ after.deaf = tabs[t].deaf
           /\ after.wizard = tabs[t].wizard /\ after.task = NoTask
           /\ \/ after.mek = tabs[t].mek
              \/ after.mek = key /\ Mounted(t)
<1> DEFINE tab == [tabs[t] EXCEPT !.task = NoTask]
<1> DEFINE mine == tabs[t].task.kind = "unlock" \/ tabs[t].share = ver
<1> DEFINE after == [tab EXCEPT !.mek = IF mine /\ Mounted(t) THEN key ELSE @,
                                !.share = IF mine THEN ver ELSE 0,
                                !.soft = IF mine THEN FALSE ELSE @]
<1>1. NoTask \in TaskForm /\ tabs[t] \in TabForm BY Typed, GenerationNumbers DEF NoTask, TaskForm
<1>2. tab.share = tabs[t].share BY <1>1 DEF TabForm
<1>3. tabs' = [tabs EXCEPT ![t] = after] BY <1>2 DEF Unlocked, SetTab
<1>4. after \in TabForm BY <1>1 DEF TabForm
<1>5. /\ after.open = tabs[t].open /\ after.bound = tabs[t].bound
      /\ after.edit = tabs[t].edit /\ after.purge = tabs[t].purge /\ after.deaf = tabs[t].deaf
      /\ after.wizard = tabs[t].wizard /\ after.task = NoTask
      /\ \/ after.mek = tabs[t].mek
         \/ after.mek = key /\ Mounted(t) BY <1>1 DEF TabForm
<1> HIDE DEF after
<1> QED BY <1>3, <1>4, <1>5

\* The vault is unlocked with what the server sent.
LEMMA UnlockKeeps ==
  ASSUME GenInv, NEW t \in Tabs, Receive(t), tabs[t].task.kind \notin {"list", "save", "verify", "recover", "update"}
  PROVE  GenInv'
<1> DEFINE old == tabs[t].task
<1> DEFINE disk == Refreshed(disks[homes[t]], old.key, old.ver)
<1>0. /\ Unlocked(t, old, old.key, old.ver) /\ disks' = [disks EXCEPT ![homes[t]] = disk]
      /\ UNCHANGED <<server, sessions, heard, files, homes, minted, tasks, faults>>
      /\ old.at = "answered" /\ old.result = "ok" /\ (old.kind = "sync" \/ old.header = tabs[t].bound) /\ old.kind # "list"
  BY DEF Receive, SetDisk, Disk, Home, Usable, Late, Answered, Refreshed
<1>1. old.key \in Known /\ old.ver \in Nat BY Typed DEF TaskForm, TabForm
<1>2. PICK after \in TabForm :
        /\ tabs' = [tabs EXCEPT ![t] = after] /\ after.open = tabs[t].open /\ after.bound = tabs[t].bound
        /\ after.edit = tabs[t].edit /\ after.purge = tabs[t].purge /\ after.deaf = tabs[t].deaf
        /\ after.wizard = tabs[t].wizard /\ after.task = NoTask
        /\ \/ after.mek = tabs[t].mek
           \/ after.mek = old.key /\ Mounted(t) BY <1>0, <1>1, UnlockedPage
<1>3. disk \in DiskForm /\ disk.marker = disks[homes[t]].marker BY <1>1, Typed, RefreshedStays
<1> HIDE DEF disk
<1>4. ASSUME PurgesWork, PagesSound
      PROVE  TabOk(after, disk, server, homes[t] \in sessions, Quiet') /\ DiskOk(disk, server, Quiet')
 <2>1. TabOk(tabs[t], disks[homes[t]], server, homes[t] \in sessions, Quiet') /\ DiskOk(disks[homes[t]], server, Quiet')
   BY <1>0, <1>4, Given, Typed
 <2>2. /\ tabs[t].open /\ tabs[t].bound # Unset /\ disks[homes[t]].marker.gen = tabs[t].bound
       /\ tabs[t].bound <= old.key /\ old.key <= server.gen /\ old.key # Unset /\ tabs[t].purge.at = 0
       /\ homes[t] \in sessions => tabs[t].bound = server.gen
  <3>1. tabs[t].task.kind = "sync" \/ tabs[t].task.header = tabs[t].bound BY <1>0
  <3>2. tabs[t].task.at = "answered" /\ tabs[t].task.result = "ok" /\ tabs[t].task.kind # "list" BY <1>0
  <3> HIDE DEF old
  <3>3. /\ tabs[t].open /\ tabs[t].bound # Unset /\ disks[homes[t]].marker.gen = tabs[t].bound
        /\ tabs[t].bound <= tabs[t].task.key /\ tabs[t].task.key <= server.gen /\ tabs[t].task.key # Unset
        /\ homes[t] \in sessions /\ tabs[t].task.kind # "list" => tabs[t].bound = server.gen
        /\ tabs[t].task.kind # "list" => tabs[t].purge.at = 0 BY <3>1, <3>2, <2>1, AnswerTaken, Typed
  <3> QED BY <3>2, <3>3 DEF old
 <2>3. DiskOk(disk, server, Quiet') BY <1>1, <2>1, <2>2, RefreshedStays, Typed DEF disk
 <2>4. TabOk(after, disk, server, homes[t] \in sessions, Quiet') BY <1>2, <1>3, <2>1, <2>2, FreshPage, Typed
 <2> QED BY <2>3, <2>4
<1>5. heard' \in [Tabs -> SUBSET Known] /\ (PagesSound => \A s \in Tabs : heard'[s] = {})
  BY <1>0 DEF GenInv, Basics, GenForm, PagesSound
<1>6. TargetMinted(after.wizard, minted') BY <1>0, <1>2, Typed
<1> HIDE DEF old
<1> QED BY <1>0, <1>2, <1>3, <1>4, <1>5, <1>6, Typed, PageMoves

\* Whatever a page takes an answer for.
LEMMA ReceiveKeeps ==
  ASSUME GenInv, NEW t \in Tabs, Receive(t)
  PROVE  GenInv'
<1>1. CASE tabs[t].task.kind = "list" BY <1>1, ListKeeps
<1>2. CASE tabs[t].task.kind = "save" BY <1>2, SavedKeeps
<1>3. CASE tabs[t].task.kind \in {"verify", "recover"} BY <1>3, VerifyTaskKeeps
<1>4. CASE tabs[t].task.kind = "update" BY <1>4, UpdatedKeeps
<1>5. CASE tabs[t].task.kind \notin {"list", "save", "verify", "recover", "update"} BY <1>5, UnlockKeeps
<1> QED BY <1>1, <1>2, <1>3, <1>4, <1>5

\* A request failed: what the device kept may do instead.
LEMMA FailTaskKeeps ==
  ASSUME GenInv, NEW t \in Tabs, FailTask(t)
  PROVE  GenInv'
<1> DEFINE old == tabs[t].task
<1>0. /\ UNCHANGED <<server, sessions, disks, heard, files, homes, minted, tasks, faults>>
      /\ old.at = "answered" /\ old.result # "unauthorized"
      /\ old.result = "ok" => old.kind # "sync" /\ old.header # tabs[t].bound
      /\ old.result = "mismatch" => old.again BY DEF FailTask, Answered, Usable, Late
<1>1. CASE SetTask(t, NoTask)
 <2>1. NoTask \in TaskForm BY GenerationNumbers DEF NoTask, TaskForm
 <2>2. ASSUME PagesSound, tabs[t].open, TabOk(tabs[t], disks[homes[t]], server, homes[t] \in sessions, Quiet'),
              DiskOk(disks[homes[t]], server, Quiet')
       PROVE  TaskMayBe(tabs[t], NoTask, server, homes[t] \in sessions, Quiet')
   BY <1>0, <2>2, Typed, NoTaskIsFine DEF TabOk, UnboundFits
 <2> QED BY <1>0, <1>1, <2>1, <2>2, Typed, TaskAlone
<1>2. CASE Resolves(t) /\ Disk(t).stored # 0 /\ Unlocked(t, old, Disk(t).kept.material, Disk(t).stored)
 <2> DEFINE disk == disks[homes[t]]
 <2>1. /\ disk \in DiskForm /\ disk.kept["material"] \in Known /\ disk.stored \in Nat /\ disk.stored # 0
       /\ Unlocked(t, old, disk.kept["material"], disk.stored) /\ old.kind \in {"unlock", "rehydrate"}
       /\ "material" \in Kept BY <1>2, Typed DEF DiskForm, Disk, Home, Resolves, Kept
 <2>2. PICK after \in TabForm :
         /\ tabs' = [tabs EXCEPT ![t] = after] /\ after.open = tabs[t].open /\ after.bound = tabs[t].bound
         /\ after.edit = tabs[t].edit /\ after.purge = tabs[t].purge /\ after.deaf = tabs[t].deaf
         /\ after.wizard = tabs[t].wizard /\ after.task = NoTask
         /\ \/ after.mek = tabs[t].mek
            \/ after.mek = disk.kept["material"] /\ Mounted(t) BY <2>1, UnlockedPage
 <2>3. ASSUME PurgesWork, PagesSound
       PROVE  TabOk(after, disk, server, homes[t] \in sessions, Quiet')
  <3>1. TabOk(tabs[t], disk, server, homes[t] \in sessions, Quiet') /\ DiskOk(disk, server, Quiet') BY <1>0, <2>3, Given, Typed
  <3>2. tabs[t].open BY <1>0, <3>1 DEF TabOk, Shut, NoTask
  <3>3. disk.marker.gen # Unset /\ tabs[t].bound = disk.marker.gen /\ disk.kept["material"] <= server.gen
    BY <2>1, <3>1, <3>2 DEF TabOk, DiskOk
  <3>4. tabs[t].purge.at = 0 => tabs[t].bound <= disk.kept["material"]
    BY <2>1, <3>1, <3>2, <3>3 DEF TabOk, DiskOk, PurgeFits, Young
  <3>5. tabs[t].purge.at = 0 /\ Quiet' /\ homes[t] \in sessions => tabs[t].bound = server.gen
    BY Typed, <1>0, <2>1, <3>1, <3>2 DEF TaskForm, TabForm, TabOk, TaskFits, Follows, Underway
  <3>6. Mounted(t) => tabs[t].purge.at = 0 BY <2>1, <3>1, <3>2 DEF TabOk, WizardFits, PurgeFits, Mounted
  <3>7. tabs[t].purge.at # 0 => PurgeFits(tabs[t], disk, server, homes[t] \in sessions, Quiet') BY <3>1, <3>2 DEF TabOk
  <3>8. \/ after.mek = tabs[t].mek
        \/ /\ tabs[t].purge.at = 0 /\ tabs[t].bound <= after.mek /\ after.mek <= server.gen
           /\ Quiet' /\ homes[t] \in sessions => tabs[t].bound = server.gen BY <2>2, <3>3, <3>4, <3>5, <3>6
  <3> HIDE DEF disk
  <3> QED BY <2>1, <2>2, <3>1, <3>2, <3>3, <3>7, <3>8, FreshPage, Typed
 <2>4. TargetMinted(after.wizard, minted') BY <1>0, <2>2, Typed
 <2> QED BY <1>0, <2>2, <2>3, <2>4, Typed, PageAlone
<1> QED BY <1>1, <1>2 DEF FailTask
-----------------------------------------------------------------------------
(* A page opens and closes; its browser signs in and out.                  *)

\* Nothing is a page without a purge, a wizard or a request.
LEMMA Nothings ==
  /\ NoPurge \in PurgeForm /\ NoWizard \in WizardForm /\ NoTask \in TaskForm /\ Shut \in TabForm
  /\ NoPurge.at = 0 /\ NoWizard.step = "off" /\ ~Shut.open
  /\ \A n \in Nat : TargetMinted(NoWizard, n)
<1>1. NoPurge \in PurgeForm /\ NoWizard \in WizardForm /\ NoTask \in TaskForm
  BY GenerationNumbers DEF NoPurge, PurgeForm, Steps, NoWizard, WizardForm, NoTask, TaskForm
<1>2. Shut \in TabForm BY <1>1, GenerationNumbers DEF Shut, TabForm
<1>3. NoPurge.at = 0 /\ NoWizard.step = "off" /\ ~Shut.open BY DEF NoPurge, NoWizard, Shut
<1>4. \A n \in Nat : TargetMinted(NoWizard, n) BY DEF TargetMinted, NoWizard
<1> QED BY <1>1, <1>2, <1>3, <1>4

\* The drafts of a browser go.
LEMMA DraftsGo ==
  ASSUME NEW disk \in DiskForm
  PROVE  /\ WithoutDrafts(disk) \in DiskForm /\ WithoutDrafts(disk).marker = disk.marker
         /\ WithoutDrafts(disk).stored = disk.stored
         /\ \A k \in Kept : WithoutDrafts(disk).kept[k] = IF k = "draft" THEN Unset ELSE disk.kept[k]
         /\ \A s \in ServerForm : \A quiet : DiskOk(disk, s, quiet) => DiskOk(WithoutDrafts(disk), s, quiet)
<1> DEFINE after == WithoutDrafts(disk)
<1>1. /\ after \in DiskForm /\ after.marker = disk.marker /\ after.stored = disk.stored
      /\ \A k \in Kept : after.kept[k] = IF k = "draft" THEN Unset ELSE disk.kept[k]
  BY GenerationNumbers DEF WithoutDrafts, DiskForm, Kept
<1> HIDE DEF after
<1>2. ASSUME NEW s \in ServerForm, NEW quiet, DiskOk(disk, s, quiet) PROVE DiskOk(after, s, quiet)
  BY <1>1, <1>2 DEF DiskOk, Young, Kept
<1>3. \A s \in ServerForm : \A quiet : DiskOk(disk, s, quiet) => DiskOk(after, s, quiet) BY <1>2
<1> QED BY <1>1, <1>3 DEF after

\* A purge starts.
LEMMA PurgingPage ==
  ASSUME NEW tab \in TabForm, NEW g \in Known, NEW wizard \in BOOLEAN
  PROVE  LET after == Purging(tab, g, wizard)
         IN  /\ after \in TabForm /\ after.open = tab.open /\ after.bound = tab.bound /\ after.mek = Unset
             /\ after.edit = (IF wizard THEN Unset ELSE tab.edit) /\ after.deaf = tab.deaf /\ after.wizard = tab.wizard
             /\ after.task = tab.task /\ after.purge = [at |-> 1, ok |-> TRUE, gen |-> g, wizard |-> wizard]
<1>1. [at |-> 1, ok |-> TRUE, gen |-> g, wizard |-> wizard] \in PurgeForm BY DEF PurgeForm, Steps
<1>2. Unset \in Known /\ tab.edit \in Known BY GenerationNumbers, TabNumbers
<1> QED BY <1>1, <1>2 DEF TabForm, Purging

\* A page as it is loaded.
LEMMA LaunchedPage ==
  ASSUME NEW tab \in TabForm, NEW marker \in Marker
  PROVE  LET after == Launched(tab, marker)
         IN  /\ after \in TabForm /\ after.open /\ after.bound = marker.gen /\ after.mek = Unset /\ after.edit = Unset
             /\ after.wizard = NoWizard /\ after.task = NoTask /\ after.deaf = ~marker.reconciled
             /\ after.purge = IF marker.reconciled THEN NoPurge
                              ELSE [at |-> 1, ok |-> TRUE, gen |-> marker.gen, wizard |-> FALSE]
<1> DEFINE page == [tab EXCEPT !.open = TRUE, !.bound = marker.gen, !.mek = Unset, !.edit = Unset,
                               !.frozen = FALSE, !.deaf = FALSE, !.purge = NoPurge, !.wizard = NoWizard, !.task = NoTask]
<1>1. marker.gen \in Known /\ marker.reconciled \in BOOLEAN BY DEF Marker
<1>2. /\ page \in TabForm /\ page.open /\ page.bound = marker.gen /\ page.mek = Unset /\ page.edit = Unset
      /\ page.wizard = NoWizard /\ page.task = NoTask /\ page.deaf = FALSE /\ page.purge = NoPurge
  BY <1>1, GenerationNumbers, Nothings DEF TabForm
<1>3. CASE marker.reconciled
 <2>1. Launched(tab, marker) = page BY <1>3 DEF Launched
 <2> HIDE DEF page
 <2> QED BY <1>2, <1>3, <2>1
<1>4. CASE ~marker.reconciled
 <2> DEFINE purging == Purging(page, marker.gen, FALSE)
 <2>1. Launched(tab, marker) = [purging EXCEPT !.deaf = TRUE] BY <1>4 DEF Launched
 <2> HIDE DEF page
 <2>2. /\ purging \in TabForm /\ purging.open /\ purging.bound = marker.gen /\ purging.mek = Unset /\ purging.edit = Unset
       /\ purging.wizard = NoWizard /\ purging.task = NoTask
       /\ purging.purge = [at |-> 1, ok |-> TRUE, gen |-> marker.gen, wizard |-> FALSE] BY <1>1, <1>2, PurgingPage
 <2> HIDE DEF purging
 <2> QED BY <1>4, <2>1, <2>2 DEF TabForm
<1> QED BY <1>1, <1>3, <1>4

\* A page that was just loaded is sound.
LEMMA LaunchedOk ==
  ASSUME NEW tab \in TabForm, NEW disk \in DiskForm, NEW disk2 \in DiskForm, NEW s \in ServerForm, NEW in, NEW quiet,
         DiskOk(disk, s, quiet), disk2.marker = disk.marker,
         tab.open, tab.bound = disk.marker.gen, tab.mek = Unset, tab.edit = Unset, tab.wizard = NoWizard,
         tab.deaf = ~disk.marker.reconciled,
         tab.purge = (IF disk.marker.reconciled THEN NoPurge
                      ELSE [at |-> 1, ok |-> TRUE, gen |-> disk.marker.gen, wizard |-> FALSE]),
         ~disk.marker.reconciled => disk2.kept["draft"] = Unset,
         tab.task = (IF disk.marker = NoMarker THEN [NoTask EXCEPT !.kind = "sync", !.at = "syncing", !.known = TRUE] ELSE NoTask)
  PROVE  TabOk(tab, disk2, s, in, quiet)
<1>1. disk.marker.gen = Unset => disk.marker.reconciled BY DEF DiskOk
<1>2. (disk.marker = NoMarker <=> disk.marker.gen = Unset /\ disk.marker.reconciled) /\ disk.marker.reconciled \in BOOLEAN
  BY DiskNumbers DEF DiskForm, Marker
<1>3. tab.purge.at = IF disk.marker.reconciled THEN 0 ELSE 1 BY DEF NoPurge
<1>4. KeysFit(tab, s, in, quiet) BY DEF KeysFit, Shows
<1>5. UnboundFits(tab, in)
 <2>1. CASE tab.bound = Unset BY <1>1, <1>2, <1>3, <2>1 DEF UnboundFits, Shows, NoWizard, NoTask
 <2>2. CASE tab.bound # Unset BY <2>2 DEF UnboundFits
 <2> QED BY <2>1, <2>2
<1>6. PurgeFits(tab, disk2, s, in, quiet)
 <2>1. CASE disk.marker.reconciled BY <1>2, <1>3, <2>1 DEF PurgeFits
 <2>2. CASE ~disk.marker.reconciled
   BY <1>2, <2>2, <1>1 DEF PurgeFits, NoTask
 <2> QED BY <2>1, <2>2
<1>7. WizardFits(tab, s, in) BY DEF WizardFits, NoWizard
<1>8. TaskFits(tab, s, in, quiet)
 <2>1. CASE disk.marker = NoMarker
   BY <1>2, <2>1 DEF NoTask, TaskFits, Underway
 <2>2. CASE disk.marker # NoMarker BY <2>2 DEF TaskFits, NoTask, Underway
 <2> QED BY <2>1, <2>2
<1> QED BY <1>4, <1>5, <1>6, <1>7, <1>8 DEF TabOk

\* A page is loaded.
LEMMA LoadKeeps ==
  ASSUME GenInv, NEW t \in Tabs, Launch(t) \/ Reload(t)
  PROVE  GenInv'
<1> DEFINE disk == disks[homes[t]]
<1>0. PICK tab \in TabForm : Load(t, tab) BY Typed, Nothings DEF Launch, Reload
<1>1. UNCHANGED <<server, sessions, files, homes, minted, faults>> /\ tasks' \in Nat BY Typed DEF Launch, Reload, Spend
<1>2. disk \in DiskForm /\ disk.marker \in Marker BY Typed DEF DiskForm
<1> DEFINE page == Launched(tab, disk.marker)
<1> DEFINE asking == [NoTask EXCEPT !.kind = "sync", !.at = "syncing", !.known = TRUE]
<1> DEFINE after == IF disk.marker = NoMarker THEN [page EXCEPT !.task = asking] ELSE page
<1> DEFINE disk2 == IF disk.marker.reconciled THEN disk ELSE WithoutDrafts(disk)
<1>3. /\ tabs' = [tabs EXCEPT ![t] = after] /\ disks' = [disks EXCEPT ![homes[t]] = disk2]
      /\ heard' = [heard EXCEPT ![t] = {}] BY <1>0 DEF Load, SetTab, SetDisk, Disk, Home
<1>4. asking \in TaskForm BY GenerationNumbers DEF NoTask, TaskForm
<1>5. /\ after \in TabForm /\ after.open /\ after.bound = disk.marker.gen /\ after.mek = Unset /\ after.edit = Unset
      /\ after.wizard = NoWizard /\ after.deaf = ~disk.marker.reconciled
      /\ after.purge = (IF disk.marker.reconciled THEN NoPurge
                        ELSE [at |-> 1, ok |-> TRUE, gen |-> disk.marker.gen, wizard |-> FALSE])
      /\ after.task = IF disk.marker = NoMarker THEN asking ELSE NoTask
 <2>1. /\ page \in TabForm /\ page.open /\ page.bound = disk.marker.gen /\ page.mek = Unset /\ page.edit = Unset
       /\ page.wizard = NoWizard /\ page.deaf = ~disk.marker.reconciled /\ page.task = NoTask
       /\ page.purge = (IF disk.marker.reconciled THEN NoPurge
                        ELSE [at |-> 1, ok |-> TRUE, gen |-> disk.marker.gen, wizard |-> FALSE]) BY <1>2, LaunchedPage
 <2> HIDE DEF page, asking, disk
 <2>2. CASE disk.marker = NoMarker BY <1>4, <2>1, <2>2, WithTask
 <2>3. CASE disk.marker # NoMarker BY <2>1, <2>3
 <2> QED BY <2>2, <2>3
<1>6. /\ disk2 \in DiskForm /\ disk2.marker = disk.marker
      /\ ~disk.marker.reconciled => disk2.kept["draft"] = Unset
      /\ DiskOk(disk, server, Quiet') => DiskOk(disk2, server, Quiet') BY <1>2, DraftsGo, Typed DEF Kept
<1>7. ASSUME PurgesWork, PagesSound
      PROVE  TabOk(after, disk2, server, homes[t] \in sessions, Quiet') /\ DiskOk(disk2, server, Quiet')
 <2>1. DiskOk(disk, server, Quiet') BY <1>1, <1>7, Given, Typed
 <2> HIDE DEF after, disk2, disk
 <2> QED BY <1>2, <1>5, <1>6, <2>1, LaunchedOk, Typed
<1>8. heard' \in [Tabs -> SUBSET Known] /\ (PagesSound => \A s \in Tabs : heard'[s] = {})
  BY <1>3 DEF GenInv, Basics, GenForm, PagesSound
<1>9. TargetMinted(after.wizard, minted') BY <1>1, <1>5, Typed, Nothings
<1> HIDE DEF after, disk2
<1> QED BY <1>1, <1>3, <1>5, <1>6, <1>7, <1>8, <1>9, Typed, PageMoves

\* A page is closed.
LEMMA CloseTabKeeps ==
  ASSUME GenInv, NEW t \in Tabs, CloseTab(t)
  PROVE  GenInv'
<1>1. /\ tabs' = [tabs EXCEPT ![t] = Shut] /\ heard' = [heard EXCEPT ![t] = {}]
      /\ UNCHANGED <<server, sessions, disks, files, homes, minted, tasks, faults>> BY DEF CloseTab, SetTab
<1>2. Shut \in TabForm /\ TargetMinted(Shut.wizard, minted') BY <1>1, Typed, Nothings DEF Shut
<1>3. disks' = [disks EXCEPT ![homes[t]] = disks[homes[t]]] BY <1>1 DEF GenInv, Basics, GenForm
<1>4. heard' \in [Tabs -> SUBSET Known] /\ (PagesSound => \A s \in Tabs : heard'[s] = {})
  BY <1>1 DEF GenInv, Basics, GenForm, PagesSound
<1>5. ASSUME PurgesWork, PagesSound
      PROVE  TabOk(Shut, disks[homes[t]], server, homes[t] \in sessions, Quiet') /\ DiskOk(disks[homes[t]], server, Quiet')
  BY <1>1, <1>5, Given, Typed, Nothings DEF TabOk
<1> QED BY <1>1, <1>2, <1>3, <1>4, <1>5, Typed, PageMoves

\* The views of a browser are closed and what it kept goes, but perhaps drafts.
LEMMA SignedOutKeeps ==
  ASSUME GenInv, NEW d \in Devices, NEW drafts \in BOOLEAN, SignedOut(d, drafts), sessions' \subseteq sessions,
         UNCHANGED <<server, files, homes, minted, tasks, faults>>
  PROVE  GenInv'
<1>0. GenForm /\ server \in ServerForm BY DEF GenInv, Basics, GenForm
<1> DEFINE disk == [disks[d] EXCEPT !.kept = [k \in Kept |-> IF k = "draft" /\ ~drafts THEN @[k] ELSE Unset], !.stored = 0]
<1>1. /\ tabs' = [t \in Tabs |-> IF homes[t] = d THEN Shut ELSE tabs[t]]
      /\ heard' = [t \in Tabs |-> IF homes[t] = d THEN {} ELSE heard[t]]
      /\ disks' = [disks EXCEPT ![d] = disk] BY <1>0 DEF SignedOut, GenForm, DiskForm
<1>2. disks[d] \in DiskForm /\ disks[d].kept \in [Kept -> Known] BY <1>0 DEF GenForm, DiskForm
<1>3. /\ disk \in DiskForm /\ disk.marker = disks[d].marker /\ disk.stored = 0
      /\ \A k \in Kept : disk.kept[k] = IF k = "draft" /\ ~drafts THEN disks[d].kept[k] ELSE Unset
  BY <1>2, GenerationNumbers DEF DiskForm
<1> HIDE DEF disk
<1>4. GenForm'
  BY <1>0, <1>1, <1>3, Nothings DEF GenForm
<1>5. SharesWereMinted'
  BY <1>0, <1>1, Nothings DEF GenInv, Basics, SharesWereMinted, GenForm, Shut
<1>6. WayIn' BY DEF GenInv, Basics, WayIn
<1>7. ASSUME PurgesWork' PROVE PagesSound'
 <2>1. PagesSound BY <1>7 DEF PurgesWork, OnePageEach, GenInv
 <2>2. \A e \in Devices : DiskOk(disks'[e], server, Quiet)
  <3> TAKE e \in Devices
  <3>1. DiskOk(disks[e], server, Quiet) BY <2>1 DEF PagesSound
  <3>2. CASE e = d
    BY <1>0, <1>1, <3>2, <1>3, <3>1 DEF GenForm, DiskOk, Young
  <3>3. CASE e # d BY <1>0, <1>1, <3>1, <3>3 DEF GenForm
  <3> QED BY <3>2, <3>3
 <2>3. \A t \in Tabs : TabOk(tabs'[t], disks'[homes[t]], server, homes[t] \in sessions', Quiet)
  <3> TAKE t \in Tabs
  <3>1. TabOk(tabs[t], disks[homes[t]], server, homes[t] \in sessions, Quiet) BY <2>1 DEF PagesSound, Disk, Home, SignedIn
  <3>2. CASE homes[t] = d
    BY <1>1, <3>2, Nothings DEF TabOk
  <3>3. CASE homes[t] # d
    BY <1>0, <1>1, <3>3, ServerGeneration, <3>1, TabStays DEF GenForm
  <3> QED BY <3>2, <3>3
 <2>4. \A t \in Tabs : heard'[t] = {} BY <1>1, <2>1 DEF PagesSound
 <2>5. \A t \in Tabs : TabOk(tabs[t], Disk(t), server, SignedIn(t), Quiet)' BY <2>3 DEF Disk, Home, SignedIn, Quiet
 <2> QED BY <2>1, <2>2, <2>4, <2>5 DEF PagesSound, RowIsCurrent, Quiet
<1> QED BY <1>4, <1>5, <1>6, <1>7 DEF GenInv, Basics

\* A browser signs out, or is told that it has to.
LEMMA SignOutKeeps ==
  ASSUME GenInv, NEW d \in Devices, SignOut(d)
  PROVE  GenInv'
BY SignedOutKeeps DEF SignOut

\* A page that is refused closes every page of its browser.
LEMMA ExpelledKeeps ==
  ASSUME GenInv, NEW t \in Tabs, Expelled(t)
  PROVE  GenInv'
BY SignedOutKeeps, Typed DEF Expelled, Home

\* A browser signs in with every page of it closed.
LEMMA SignInKeeps ==
  ASSUME GenInv, NEW d \in Devices, SignIn(d)
  PROVE  GenInv'
<1>0. /\ GenForm /\ sessions' = sessions \cup {d} /\ tasks' = tasks + 1
      /\ UNCHANGED <<server, disks, tabs, heard, files, homes, minted, faults>>
      /\ \A t \in Tabs : homes[t] = d => ~tabs[t].open BY DEF SignIn, Spend, GenInv, Basics
<1>1. GenForm' BY <1>0 DEF GenForm
<1>2. SharesWereMinted' /\ WayIn' BY <1>0 DEF GenInv, Basics, SharesWereMinted, WayIn
<1>3. ASSUME PurgesWork' PROVE PagesSound'
 <2>1. PagesSound BY <1>0, <1>3 DEF PurgesWork, OnePageEach, GenInv
 <2>2. \A t \in Tabs : TabOk(tabs[t], disks[homes[t]], server, homes[t] \in sessions', Quiet)
  <3> TAKE t \in Tabs
  <3>1. TabOk(tabs[t], disks[homes[t]], server, homes[t] \in sessions, Quiet) BY <2>1 DEF PagesSound, Disk, Home, SignedIn
  <3>2. CASE homes[t] = d BY <1>0, <3>1, <3>2 DEF TabOk
  <3>3. CASE homes[t] # d
    BY <1>0, <3>3, <3>1
  <3> QED BY <3>2, <3>3
 <2>3. \A t \in Tabs : TabOk(tabs[t], Disk(t), server, SignedIn(t), Quiet)' BY <1>0, <2>2 DEF Disk, Home, SignedIn, Quiet
 <2> QED BY <1>0, <2>1, <2>3 DEF PagesSound, RowIsCurrent, Quiet
<1> QED BY <1>1, <1>2, <1>3 DEF GenInv, Basics
-----------------------------------------------------------------------------
(* A page learns the generation, and purges.                               *)

\* What a page and its browser are when it is told.
LEMMA ToldPage ==
  ASSUME GenInv, NEW t \in Tabs, NEW tab \in TabForm, NEW g \in Known, Told(t, tab, g)
  PROVE  LET marker == disks[homes[t]].marker
             starts == Observation(marker, g) \in {"advanced", "diverged"} /\ ~tab.deaf /\ tab.purge.at = 0
         IN  \E after \in TabForm, disk \in DiskForm :
               /\ tabs' = [tabs EXCEPT ![t] = after] /\ disks' = [disks EXCEPT ![homes[t]] = disk]
               /\ after.open = tab.open /\ after.bound = g /\ after.mek = (IF starts THEN Unset ELSE tab.mek)
               /\ after.edit = tab.edit /\ after.deaf = tab.deaf /\ after.wizard = tab.wizard /\ after.task = tab.task
               /\ after.purge = (IF starts THEN [at |-> 1, ok |-> TRUE, gen |-> g, wizard |-> FALSE] ELSE tab.purge)
               /\ disk.marker = Observed(marker, g) /\ disk.stored = disks[homes[t]].stored
               /\ \A k \in Kept : disk.kept[k] = IF k = "draft" /\ starts THEN Unset ELSE disks[homes[t]].kept[k]
<1> DEFINE old == disks[homes[t]]
<1> DEFINE starts == Observation(old.marker, g) \in {"advanced", "diverged"} /\ ~tab.deaf /\ tab.purge.at = 0
<1> DEFINE bound == [tab EXCEPT !.bound = g]
<1> DEFINE after == IF starts THEN Purging(bound, g, FALSE) ELSE bound
<1> DEFINE noted == [old EXCEPT !.marker = Observed(@, g)]
<1> DEFINE disk == IF starts THEN WithoutDrafts(noted) ELSE noted
<1>1. tabs' = [tabs EXCEPT ![t] = after] /\ disks' = [disks EXCEPT ![homes[t]] = disk] BY DEF Told, SetTab, SetDisk, Disk, Home
<1>2. /\ bound \in TabForm /\ bound.open = tab.open /\ bound.bound = g /\ bound.mek = tab.mek /\ bound.edit = tab.edit
      /\ bound.deaf = tab.deaf /\ bound.wizard = tab.wizard /\ bound.task = tab.task /\ bound.purge = tab.purge BY DEF TabForm
<1>3. Observed(old.marker, g) \in Marker BY Typed DEF Observed, Marker, DiskForm
<1>4. old \in DiskForm BY Typed
<1>5. /\ noted \in DiskForm /\ noted.marker = Observed(old.marker, g) /\ noted.stored = old.stored /\ noted.kept = old.kept
  BY <1>3, <1>4 DEF DiskForm
<1> HIDE DEF bound, noted, old, starts
<1>6. /\ after \in TabForm /\ after.open = tab.open /\ after.bound = g /\ after.mek = (IF starts THEN Unset ELSE tab.mek)
      /\ after.edit = tab.edit /\ after.deaf = tab.deaf /\ after.wizard = tab.wizard /\ after.task = tab.task
      /\ after.purge = (IF starts THEN [at |-> 1, ok |-> TRUE, gen |-> g, wizard |-> FALSE] ELSE tab.purge) BY <1>2, PurgingPage
<1>7. /\ disk \in DiskForm /\ disk.marker = Observed(old.marker, g) /\ disk.stored = old.stored
      /\ \A k \in Kept : disk.kept[k] = IF k = "draft" /\ starts THEN Unset ELSE old.kept[k] BY <1>5, DraftsGo
<1> HIDE DEF after, disk
<1> QED BY <1>1, <1>6, <1>7 DEF old, starts

\* With one page in each browser there is nobody to tell.
LEMMA NobodyToTell ==
  ASSUME GenInv, NEW t \in Tabs, NEW g \in Known
  PROVE  Broadcast(t, g) \in [Tabs -> SUBSET Known] /\ (OnePageEach => Broadcast(t, g) = heard)
<1>1. heard \in [Tabs -> SUBSET Known] BY DEF GenInv, Basics, GenForm
<1>2. Broadcast(t, g) \in [Tabs -> SUBSET Known] BY <1>1 DEF Broadcast
<1>3. OnePageEach => Others(t) = {} BY DEF OnePageEach, Others, Home
<1>4. OnePageEach => Broadcast(t, g) = heard BY <1>1, <1>3 DEF Broadcast
<1> QED BY <1>2, <1>4

\* The server's answer is recorded.
LEMMA LearnGenerationKeeps ==
  ASSUME GenInv, NEW t \in Tabs, LearnGeneration(t)
  PROVE  GenInv'
<1> DEFINE old == tabs[t].task
<1> DEFINE g == old.key
<1> DEFINE disk == disks[homes[t]]
<1> DEFINE what == Observation(disk.marker, g)
<1> DEFINE next == IF old.kind = "sync" THEN NoTask
                   ELSE IF ~old.known /\ what = "adopted"
                        THEN [old EXCEPT !.at = "sent", !.header = g, !.again = TRUE, !.key = Unset, !.result = "none"]
                   ELSE [old EXCEPT !.at = "answered", !.result = "failed", !.again = TRUE]
<1>0. /\ old.at = "synced" /\ Told(t, [tabs[t] EXCEPT !.task = next], g)
      /\ heard' = (IF what \in {"advanced", "diverged"} THEN Broadcast(t, g) ELSE heard)
      /\ UNCHANGED <<server, sessions, files, homes, minted, tasks, faults>> BY DEF LearnGeneration, Disk, Home
<1>1. old \in TaskForm /\ g \in Known /\ next \in TaskForm
 <2>1. old \in TaskForm BY Typed DEF TabForm
 <2>2. g \in Known /\ Unset \in Known BY <2>1, GenerationNumbers DEF TaskForm
 <2> DEFINE again == [old EXCEPT !.at = "sent", !.header = g, !.again = TRUE, !.key = Unset, !.result = "none"]
 <2> DEFINE ended == [old EXCEPT !.at = "answered", !.result = "failed", !.again = TRUE]
 <2>3. again \in TaskForm /\ ended \in TaskForm BY <2>1, <2>2 DEF TaskForm
 <2>4. next \in {NoTask, again, ended} OBVIOUS
 <2> HIDE DEF next, again, ended
 <2> QED BY <2>1, <2>2, <2>3, <2>4, Nothings
<1> DEFINE tab == [tabs[t] EXCEPT !.task = next]
<1>2. /\ tab \in TabForm /\ tab.open = tabs[t].open /\ tab.bound = tabs[t].bound /\ tab.mek = tabs[t].mek
      /\ tab.edit = tabs[t].edit /\ tab.purge = tabs[t].purge /\ tab.deaf = tabs[t].deaf /\ tab.wizard = tabs[t].wizard
      /\ tab.task = next BY <1>1, Typed, WithTask
<1> DEFINE starts == what \in {"advanced", "diverged"} /\ ~tabs[t].deaf /\ tabs[t].purge.at = 0
<1>3. PICK after \in TabForm, disk2 \in DiskForm :
        /\ tabs' = [tabs EXCEPT ![t] = after] /\ disks' = [disks EXCEPT ![homes[t]] = disk2]
        /\ after.open = tabs[t].open /\ after.bound = g /\ after.mek = (IF starts THEN Unset ELSE tabs[t].mek)
        /\ after.edit = tabs[t].edit /\ after.deaf = tabs[t].deaf /\ after.wizard = tabs[t].wizard /\ after.task = next
        /\ after.purge = (IF starts THEN [at |-> 1, ok |-> TRUE, gen |-> g, wizard |-> FALSE] ELSE tabs[t].purge)
        /\ disk2.marker = Observed(disk.marker, g) /\ disk2.stored = disk.stored
        /\ \A k \in Kept : disk2.kept[k] = IF k = "draft" /\ starts THEN Unset ELSE disk.kept[k]
 <2> HIDE DEF next
 <2>1. Told(t, tab, g) BY <1>0
 <2> HIDE DEF tab
 <2> QED BY <1>1, <1>2, <2>1, ToldPage
<1> HIDE DEF tab
<1>4. heard' \in [Tabs -> SUBSET Known] /\ (OnePageEach => heard' = heard)
  BY <1>0, <1>1, NobodyToTell DEF GenInv, Basics, GenForm
<1>5. ASSUME PurgesWork, PagesSound
      PROVE  TabOk(after, disk2, server, homes[t] \in sessions, Quiet') /\ DiskOk(disk2, server, Quiet')
 <2> DEFINE in == homes[t] \in sessions
 <2>1. TabOk(tabs[t], disk, server, in, Quiet') /\ DiskOk(disk, server, Quiet') BY <1>0, <1>5, Given, Typed
 <2>2. tabs[t].open /\ tabs[t].bound = disk.marker.gen BY <1>0, <2>1 DEF TabOk, Shut, NoTask
 <2>3. /\ g <= server.gen /\ (in => g = server.gen) /\ (old.kind = "sync" <=> tabs[t].bound = Unset)
       /\ old.kind # "sync" => old.result = "mismatch"
       /\ old.header # Unset => old.header <= server.gen BY <1>0, <2>1, <2>2 DEF TabOk, TaskFits, UnboundFits
 <2>4. g # Unset
   BY <1>1, GenerationNumbers, Typed, <2>3 DEF ServerForm
 <2>5. disk.marker = NoMarker <=> disk.marker.gen = Unset BY <2>1, DiskNumbers, Typed DEF DiskOk
 <2>6. /\ tabs[t].purge.at = 0 => disk.marker.reconciled /\ ~tabs[t].deaf
       /\ tabs[t].purge.at # 0 => tabs[t].purge.wizard /\ g = disk.marker.gen BY <1>0, <2>1, <2>2 DEF TabOk, PurgeFits
 <2> HIDE DEF disk
 <2>7. CASE disk.marker = NoMarker
  <3>1. disk2.marker = [gen |-> g, reconciled |-> TRUE] /\ ~starts /\ next = NoTask
    BY <1>3, <2>2, <2>3, <2>5, <2>7 DEF Observed, Observation
  <3>2. ~Shows(tabs[t]) /\ tabs[t].purge.at = 0 /\ tabs[t].wizard.step = "off" BY <2>1, <2>2, <2>5, <2>7 DEF TabOk, UnboundFits
  <3>3. \A k \in Kept : disk2.kept[k] = Unset BY <1>3, <2>1, <2>5, <2>7 DEF DiskOk
  <3>4. DiskOk(disk2, server, Quiet') BY <1>3, <2>1, <2>3, <2>4, <3>1, <3>3 DEF DiskOk, Young, Kept
  <3>5. ~Shows(after) /\ after.purge.at = 0 /\ after.wizard.step = "off" /\ after.task = NoTask BY <1>3, <3>1, <3>2 DEF Shows
  <3>6. KeysFit(after, server, in, Quiet') /\ UnboundFits(after, in) /\ WizardFits(after, server, in)
    BY <1>3, <2>4, <3>5 DEF KeysFit, Shows, UnboundFits, WizardFits
  <3>7. PurgeFits(after, disk2, server, in, Quiet') BY <1>3, <2>6, <3>1, <3>2, <3>5 DEF PurgeFits
  <3>8. TaskFits(after, server, in, Quiet') BY <3>5 DEF TaskFits, NoTask, Underway
  <3> QED BY <1>3, <2>2, <3>1, <3>4, <3>6, <3>7, <3>8 DEF TabOk
 <2>8. CASE disk.marker # NoMarker
  <3>1. /\ old.kind # "sync" /\ what # "adopted" /\ old.result = "mismatch" BY <2>2, <2>3, <2>5, <2>8 DEF Observation
  <3>2. next = [old EXCEPT !.at = "answered", !.result = "failed", !.again = TRUE] BY <3>1
  <3>3. /\ after.task.kind = old.kind /\ after.task.at = "answered" /\ after.task.header = old.header
        /\ after.task.key = old.key /\ after.task.again /\ after.task.result = "failed"
   <4> HIDE DEF old, next
   <4> QED BY <1>1, <1>3, <3>2 DEF TaskForm
  <3> HIDE DEF next
  <3>4. Quiet' => ~Shows(tabs[t]) BY <2>1, <2>2, <3>1 DEF TabOk, KeysFit
  <3>5. tabs[t].wizard.step # "off" => old.kind \in {"none", "list"} BY <2>1, <2>2 DEF TabOk, WizardFits
  <3>6. TaskFits(after, server, in, Quiet')
   <4>1. in => after.bound = server.gen BY <1>3, <2>3
   <4>2. old.kind # "none" BY <1>0, <2>1, <2>2 DEF TabOk, TaskFits
   <4> HIDE DEF old
   <4> QED BY <1>3, <2>3, <3>1, <3>3, <4>1, <4>2 DEF TaskFits, Underway, old
  <3>7. CASE disk.marker.gen = g
   <4>1. disk2.marker = disk.marker /\ ~starts BY <1>3, <2>6, <2>8, <3>7 DEF Observed, Observation
   <4>2. DiskOk(disk2, server, Quiet')
     BY <1>3, <4>1, <2>1 DEF DiskOk, Young, Kept
   <4>3. KeysFit(after, server, in, Quiet') BY <1>3, <2>1, <2>2, <3>3, <3>7, <4>1 DEF TabOk, KeysFit, Shows
   <4>4. UnboundFits(after, in) BY <1>3, <2>4 DEF UnboundFits
   <4>5. PurgeFits(after, disk2, server, in, Quiet') BY <1>3, <2>1, <2>2, <3>3, <4>1 DEF TabOk, PurgeFits, Young, Items, Kept
   <4>6. WizardFits(after, server, in) BY <1>3, <2>1, <2>2, <3>3, <3>7, <4>1 DEF TabOk, WizardFits
   <4> QED BY <1>3, <2>2, <3>6, <3>7, <4>1, <4>2, <4>3, <4>4, <4>5, <4>6 DEF TabOk
  <3>8. CASE disk.marker.gen # g
   <4>1. tabs[t].purge.at = 0 /\ ~tabs[t].deaf BY <2>6, <3>8
   <4>2. disk2.marker = [gen |-> g, reconciled |-> FALSE] /\ starts BY <1>3, <2>8, <3>8, <4>1 DEF Observed, Observation
   <4>3. /\ after.mek = Unset /\ after.purge.at = 1 /\ after.purge.ok /\ after.purge.gen = g /\ ~after.purge.wizard
         /\ disk2.kept["draft"] = Unset /\ (Quiet' => after.edit = Unset) BY <1>3, <3>4, <4>2 DEF Shows, Kept
   <4>4. DiskOk(disk2, server, Quiet')
     BY <1>3, <2>1, <2>3, <2>4, <4>2 DEF DiskOk, Kept
   <4>5. KeysFit(after, server, in, Quiet') BY <1>3, <2>1, <2>2, <3>3, <4>3 DEF TabOk, KeysFit, Shows
   <4>6. UnboundFits(after, in) BY <1>3, <2>4 DEF UnboundFits
   <4>7. PurgeFits(after, disk2, server, in, Quiet') BY <2>4, <3>3, <4>2, <4>3 DEF PurgeFits
   <4>8. WizardFits(after, server, in) BY <1>3, <2>1, <2>2, <3>3, <4>3 DEF TabOk, WizardFits
   <4> QED BY <1>3, <2>2, <3>6, <4>2, <4>4, <4>5, <4>6, <4>7, <4>8 DEF TabOk
  <3> QED BY <3>7, <3>8
 <2> QED BY <2>7, <2>8
<1>6. PurgesWork /\ PagesSound => \A s \in Tabs : heard'[s] = {} BY <1>4 DEF PurgesWork, PagesSound
<1>7. TargetMinted(after.wizard, minted') BY <1>0, <1>3, Typed
<1> HIDE DEF starts, next
<1> QED BY <1>0, <1>3, <1>4, <1>5, <1>6, <1>7, Typed, PageMoves

\* Another page told this one; with one page in each browser nobody does.
LEMMA HearGenerationKeeps ==
  ASSUME GenInv, NEW t \in Tabs, HearGeneration(t)
  PROVE  GenInv'
<1>0. PICK g \in heard[t] :
        /\ Told(t, tabs[t], g) /\ heard' = [heard EXCEPT ![t] = @ \ {g}]
        /\ UNCHANGED <<server, sessions, files, homes, minted, tasks, faults>> BY DEF HearGeneration
<1>1. g \in Known /\ heard' \in [Tabs -> SUBSET Known] /\ heard[t] # {} BY <1>0 DEF GenInv, Basics, GenForm
<1> DEFINE starts == Observation(disks[homes[t]].marker, g) \in {"advanced", "diverged"} /\ ~tabs[t].deaf /\ tabs[t].purge.at = 0
<1>2. PICK after \in TabForm, disk2 \in DiskForm :
        /\ tabs' = [tabs EXCEPT ![t] = after] /\ disks' = [disks EXCEPT ![homes[t]] = disk2]
        /\ after.open = tabs[t].open /\ after.bound = g /\ after.mek = (IF starts THEN Unset ELSE tabs[t].mek)
        /\ after.edit = tabs[t].edit /\ after.deaf = tabs[t].deaf /\ after.wizard = tabs[t].wizard
        /\ after.task = tabs[t].task
        /\ after.purge = (IF starts THEN [at |-> 1, ok |-> TRUE, gen |-> g, wizard |-> FALSE] ELSE tabs[t].purge)
        /\ disk2.marker = Observed(disks[homes[t]].marker, g) /\ disk2.stored = disks[homes[t]].stored
        /\ \A k \in Kept : disk2.kept[k] = IF k = "draft" /\ starts THEN Unset ELSE disks[homes[t]].kept[k]
 <2>1. tabs[t] \in TabForm BY Typed
 <2>2. Told(t, tabs[t], g) /\ g \in Known BY <1>0, <1>1
 <2> QED BY <2>1, <2>2, ToldPage
<1>3. ~PagesSound BY <1>1 DEF PagesSound
<1>4. TargetMinted(after.wizard, minted') BY <1>0, <1>2, Typed
<1> QED BY <1>0, <1>1, <1>2, <1>3, <1>4, Typed, PageMoves

\* One step of the purge works, or fails.
LEMMA PurgeItemKeeps ==
  ASSUME GenInv, NEW t \in Tabs, PurgeItem(t)
  PROVE  GenInv'
<1> DEFINE old == tabs[t].purge
<1> DEFINE item == Items[old.at]
<1>0. /\ old \in PurgeForm /\ old.at \in 1 .. 3 /\ item \in Kept /\ disks[homes[t]] \in DiskForm
      /\ UNCHANGED <<server, sessions, heard, files, homes, minted, tasks>> BY Typed DEF PurgeItem, TabForm, Items, Kept
<1>1. heard' \in [Tabs -> SUBSET Known] /\ (PagesSound => \A s \in Tabs : heard'[s] = {})
  BY <1>0 DEF GenInv, Basics, GenForm, PagesSound
<1>2. CASE /\ tabs' = [tabs EXCEPT ![t].purge.at = @ + 1]
           /\ SetDisk(t, [Disk(t) EXCEPT !.kept[item] = Unset, !.stored = IF item = "material" THEN 0 ELSE @])
           /\ UNCHANGED faults
 <2> DEFINE after == [tabs[t] EXCEPT !.purge.at = @ + 1]
 <2> DEFINE disk == [disks[homes[t]] EXCEPT !.kept[item] = Unset, !.stored = IF item = "material" THEN 0 ELSE @]
 <2>1. tabs' = [tabs EXCEPT ![t] = after] /\ disks' = [disks EXCEPT ![homes[t]] = disk]
   BY <1>2 DEF SetDisk, Disk, Home, GenInv, Basics, GenForm
 <2> DEFINE purge == [old EXCEPT !.at = @ + 1]
 <2>2. purge \in PurgeForm /\ purge.at = old.at + 1 /\ purge.ok = old.ok /\ purge.gen = old.gen /\ purge.wizard = old.wizard
   BY <1>0 DEF PurgeForm, Steps
 <2>3. /\ after \in TabForm /\ after.open = tabs[t].open /\ after.bound = tabs[t].bound /\ after.mek = tabs[t].mek
       /\ after.edit = tabs[t].edit /\ after.deaf = tabs[t].deaf /\ after.wizard = tabs[t].wizard /\ after.task = tabs[t].task
       /\ after.purge = purge
  <3> HIDE DEF purge
  <3>1. after = [tabs[t] EXCEPT !.purge = purge] BY DEF purge
  <3> QED BY <2>2, <3>1, Typed DEF TabForm
 <2>4. /\ disk \in DiskForm /\ disk.marker = disks[homes[t]].marker
       /\ disk.stored = (IF item = "material" THEN 0 ELSE disks[homes[t]].stored)
       /\ \A k \in Kept : disk.kept[k] = IF k = item THEN Unset ELSE disks[homes[t]].kept[k]
  <3> HIDE DEF item
  <3> QED BY <1>0, GenerationNumbers DEF DiskForm
 <2> HIDE DEF after, disk, purge
 <2>5. ASSUME PurgesWork, PagesSound
       PROVE  TabOk(after, disk, server, homes[t] \in sessions, Quiet') /\ DiskOk(disk, server, Quiet')
  <3>1. TabOk(tabs[t], disks[homes[t]], server, homes[t] \in sessions, Quiet') /\ DiskOk(disks[homes[t]], server, Quiet')
    BY <1>2, <2>5, Given, Typed
  <3>2. tabs[t].open BY <1>0, <3>1 DEF TabOk, Shut, NoPurge
  <3>3. after.purge.at # 0 /\ old.at # 0 BY <1>0, <2>2, <2>3
  <3>4. PurgeFits(after, disk, server, homes[t] \in sessions, Quiet')
   <4>1. \A i \in 1 .. 3 : i < after.purge.at => Young(disk, Items[i], after.purge.gen)
    <5> TAKE i \in 1 .. 3
    <5>1. CASE i = old.at BY <1>0, <2>4, <5>1 DEF Young
    <5>2. CASE i < old.at
     <6>1. Young(disks[homes[t]], Items[i], old.gen) /\ Items[i] \in Kept
       BY <3>1, <3>2, <3>3, <5>2 DEF TabOk, PurgeFits, Items, Kept
     <6> QED BY <2>2, <2>3, <2>4, <6>1 DEF Young
    <5>3. i < after.purge.at => i = old.at \/ i < old.at BY <1>0, <2>2, <2>3
    <5> QED BY <5>1, <5>2, <5>3
   <4>2. "draft" \in Kept BY DEF Kept
   <4> HIDE DEF old, item
   <4> QED BY <2>2, <2>3, <2>4, <3>1, <3>2, <3>3, <4>1, <4>2 DEF TabOk, PurgeFits, old
  <3>5. KeysFit(after, server, homes[t] \in sessions, Quiet') BY <2>3, <3>1, <3>2 DEF TabOk, KeysFit, Shows
  <3>6. UnboundFits(after, homes[t] \in sessions) BY <2>3, <3>1, <3>2, <3>3 DEF TabOk, UnboundFits, Shows
  <3>7. WizardFits(after, server, homes[t] \in sessions) BY <2>3, <3>1, <3>2, <3>3 DEF TabOk, WizardFits
  <3>8. TaskFits(after, server, homes[t] \in sessions, Quiet') BY <2>3, <3>1, <3>2, <3>3 DEF TabOk, TaskFits, Follows, Shows
  <3>9. TabOk(after, disk, server, homes[t] \in sessions, Quiet')
    BY <2>3, <2>4, <3>1, <3>2, <3>4, <3>5, <3>6, <3>7, <3>8 DEF TabOk
  <3>10. DiskOk(disk, server, Quiet')
    BY <2>4, <3>1 DEF Kept, DiskOk, Young
  <3> QED BY <3>9, <3>10
 <2>6. TargetMinted(after.wizard, minted') BY <1>0, <2>3, Typed
 <2> HIDE DEF old, item
 <2> QED BY <1>0, <1>1, <1>2, <2>1, <2>3, <2>4, <2>5, <2>6, Typed, PageMoves
<1>3. CASE /\ faults' = [faults EXCEPT !.purges = @ + 1]
           /\ tabs' = [tabs EXCEPT ![t].purge.at = @ + 1, ![t].purge.ok = FALSE]
           /\ UNCHANGED disks
 <2> DEFINE after == [tabs[t] EXCEPT !.purge.at = @ + 1, !.purge.ok = FALSE]
 <2> DEFINE purge == [old EXCEPT !.at = @ + 1, !.ok = FALSE]
 <2>1. tabs' = [tabs EXCEPT ![t] = after] BY <1>3 DEF GenInv, Basics, GenForm
 <2>2. purge \in PurgeForm
  <3>1. old.at + 1 \in 0 .. Steps BY <1>0 DEF Steps
  <3> QED BY <1>0, <3>1 DEF PurgeForm
 <2>3. after \in TabForm /\ after.wizard = tabs[t].wizard
  <3>1. after = [tabs[t] EXCEPT !.purge = purge] BY Typed DEF TabForm, PurgeForm
  <3> HIDE DEF purge, after
  <3> QED BY <2>2, <3>1, Typed DEF TabForm
 <2>4. faults' \in [calls : Nat, purges : Nat] /\ faults'.calls = faults.calls /\ faults'.purges = faults.purges + 1
   BY <1>3, Typed
 <2>5. ~PurgesWork' /\ faults.calls <= faults'.calls /\ faults.purges <= faults'.purges BY <2>4, Typed DEF PurgesWork
 <2>6. TargetMinted(after.wizard, minted') BY <1>0, <2>3, Typed
 <2>7. UNCHANGED <<server, sessions, files, homes, heard, disks>> BY <1>0, <1>3
 <2> HIDE DEF after, purge, old, item
 <2> QED BY <1>0, <2>1, <2>3, <2>4, <2>5, <2>6, <2>7, Typed, PageAlone
<1>4. \/ /\ SetTab(t, [tabs[t] EXCEPT !.purge.at = @ + 1])
         /\ SetDisk(t, [Disk(t) EXCEPT !.kept[item] = Unset, !.stored = IF item = "material" THEN 0 ELSE @])
         /\ UNCHANGED faults
      \/ /\ faults' = [faults EXCEPT !.purges = @ + 1]
         /\ SetTab(t, [tabs[t] EXCEPT !.purge.at = @ + 1, !.purge.ok = FALSE])
         /\ UNCHANGED disks BY DEF PurgeItem
<1> QED BY <1>2, <1>3, <1>4 DEF SetTab

\* Two views that differ in nothing that matters here.
SamePage(a, b) ==
  /\ a.open = b.open /\ a.bound = b.bound /\ a.mek = b.mek /\ a.edit = b.edit /\ a.purge = b.purge /\ a.deaf = b.deaf
  /\ a.wizard = b.wizard /\ a.task = b.task

\* The views of a browser freeze together, or thaw.
LEMMA FrozenPages ==
  ASSUME GenInv, NEW t \in Tabs, NEW on \in BOOLEAN, NEW views \in [Tabs -> TabForm]
  PROVE  LET all == Frozen(t, on, views)
         IN  /\ all \in [Tabs -> TabForm] /\ \A s \in Tabs : SamePage(all[s], views[s])
             /\ OnePageEach => \A s \in Tabs : s # t => all[s] = views[s]
<1> DEFINE all == Frozen(t, on, views)
<1>1. \A s \in Tabs : /\ [views[s] EXCEPT !.frozen = on] \in TabForm
                      /\ SamePage([views[s] EXCEPT !.frozen = on], views[s])
 <2> TAKE s \in Tabs
 <2>1. views[s] \in TabForm OBVIOUS
 <2> QED BY <2>1 DEF TabForm, SamePage
<1>2. \A s \in Tabs : all[s] \in {views[s], [views[s] EXCEPT !.frozen = on]} BY DEF Frozen
<1>3. all \in [Tabs -> TabForm]
  BY <1>1, <1>2 DEF Frozen
<1>4. \A s \in Tabs : SamePage(all[s], views[s])
 <2> TAKE s \in Tabs
 <2>1. SamePage(views[s], views[s]) BY DEF SamePage
 <2> QED BY <1>1, <1>2, <2>1
<1>5. OnePageEach => \A s \in Tabs : s # t => all[s] = views[s] BY DEF Frozen, OnePageEach, Home
<1> QED BY <1>3, <1>4, <1>5

\* The purge ends: the page is loaded anew, or its wizard is done.
LEMMA PurgeEndsKeeps ==
  ASSUME GenInv, NEW t \in Tabs, PurgeEnds(t)
  PROVE  GenInv'
<1> DEFINE purge == tabs[t].purge
<1> DEFINE old == disks[homes[t]]
<1> DEFINE disk == [old EXCEPT !.marker = Completed(@, purge.gen)]
<1> DEFINE page == [tabs[t] EXCEPT !.purge = NoPurge,
                                   !.bound = IF Purged(purge) /\ old.marker.gen = purge.gen THEN purge.gen ELSE @]
<1> DEFINE done == [page EXCEPT !.wizard.step = IF @ = "commit" THEN "done" ELSE @]
<1>0. /\ GenForm /\ purge \in PurgeForm /\ old \in DiskForm /\ purge.gen \in Known /\ purge.at = 4
      /\ UNCHANGED <<server, sessions, files, homes, minted, tasks, faults>>
      /\ tabs \in [Tabs -> TabForm] BY Typed DEF PurgeEnds, TabForm, PurgeForm, GenInv, Basics, GenForm, Steps
<1>1. /\ page \in TabForm /\ page.wizard = tabs[t].wizard
      /\ page.open = tabs[t].open /\ page.mek = tabs[t].mek /\ page.edit = tabs[t].edit /\ page.deaf = tabs[t].deaf
      /\ page.task = tabs[t].task /\ page.purge = NoPurge
      /\ Purged(purge) /\ old.marker.gen = purge.gen => page.bound = purge.gen BY <1>0, Typed, Nothings DEF TabForm
<1>2. disk \in DiskForm /\ disk.marker = Completed(old.marker, purge.gen) /\ disk.stored = old.stored /\ disk.kept = old.kept
  BY <1>0 DEF Completed, Marker, DiskForm
<1>3. \/ /\ ~Purged(purge) /\ tabs' = [tabs EXCEPT ![t] = page] /\ UNCHANGED <<disks, heard>>
      \/ /\ Purged(purge) /\ disks' = [disks EXCEPT ![homes[t]] = disk] /\ purge.wizard
         /\ heard' = Broadcast(t, purge.gen) /\ tabs' = Frozen(t, FALSE, [tabs EXCEPT ![t] = done])
      \/ /\ Purged(purge) /\ disks' = [disks EXCEPT ![homes[t]] = disk] /\ ~purge.wizard
         /\ heard' = [heard EXCEPT ![t] = {}] /\ tabs' = [tabs EXCEPT ![t] = Launched(page, disk.marker)]
  BY DEF PurgeEnds, SetTab, SetDisk, Disk, Home
<1> HIDE DEF page, disk, done
<1>4. ASSUME PurgesWork, PagesSound
      PROVE  /\ tabs[t].open /\ purge.ok /\ old.marker.gen = purge.gen /\ purge.gen # Unset
             /\ disk.marker = [gen |-> purge.gen, reconciled |-> TRUE] /\ DiskOk(disk, server, Quiet')
             /\ TabOk(tabs[t], old, server, homes[t] \in sessions, Quiet')
 <2>1. TabOk(tabs[t], old, server, homes[t] \in sessions, Quiet') /\ DiskOk(old, server, Quiet') BY <1>0, <1>4, Given, Typed
 <2>2. tabs[t].open BY <1>0, <2>1 DEF TabOk, Shut, NoPurge
 <2>3. /\ purge.ok /\ old.marker.gen = purge.gen /\ purge.gen # Unset
       /\ \A i \in 1 .. 3 : Young(old, Items[i], purge.gen)
       /\ Quiet' => old.kept["draft"] = Unset
   BY <1>0, <2>1, <2>2 DEF TabOk, PurgeFits
 <2>4. disk.marker = [gen |-> purge.gen, reconciled |-> TRUE] /\ disk.marker.gen = purge.gen BY <1>2, <2>3 DEF Completed
 <2>5. \A k \in Kept : k = "draft" \/ \E i \in 1 .. 3 : k = Items[i] BY DEF Kept, Items
 <2>6. \A k \in Kept : k # "draft" \/ Quiet' => Young(disk, k, purge.gen) BY <1>2, <2>3, <2>5 DEF Young
 <2>7. DiskOk(disk, server, Quiet') BY <1>2, <2>1, <2>3, <2>4, <2>6 DEF DiskOk
 <2> QED BY <2>1, <2>2, <2>3, <2>4, <2>7
<1>5. CASE ~Purged(purge) /\ tabs' = [tabs EXCEPT ![t] = page] /\ UNCHANGED <<disks, heard>>
  BY <1>4, <1>5, <1>0, <1>1, Typed, PageAlone DEF Purged
<1>6. CASE /\ Purged(purge) /\ disks' = [disks EXCEPT ![homes[t]] = disk] /\ ~purge.wizard
           /\ heard' = [heard EXCEPT ![t] = {}] /\ tabs' = [tabs EXCEPT ![t] = Launched(page, disk.marker)]
 <2> DEFINE after == Launched(page, disk.marker)
 <2>1. disk.marker \in Marker BY <1>2 DEF DiskForm
 <2>2. /\ after \in TabForm /\ after.open /\ after.bound = disk.marker.gen /\ after.mek = Unset /\ after.edit = Unset
       /\ after.wizard = NoWizard /\ after.task = NoTask /\ after.deaf = ~disk.marker.reconciled
       /\ after.purge = IF disk.marker.reconciled THEN NoPurge
                        ELSE [at |-> 1, ok |-> TRUE, gen |-> disk.marker.gen, wizard |-> FALSE] BY <1>1, <2>1, LaunchedPage
 <2>3. tabs' = [tabs EXCEPT ![t] = after] BY <1>6
 <2> HIDE DEF after
 <2>4. heard' \in [Tabs -> SUBSET Known] /\ (PagesSound => \A s \in Tabs : heard'[s] = {}) BY <1>0, <1>6 DEF GenForm, PagesSound
 <2>5. ASSUME PurgesWork, PagesSound
       PROVE  TabOk(after, disk, server, homes[t] \in sessions, Quiet') /\ DiskOk(disk, server, Quiet')
  <3>1. disk.marker = [gen |-> purge.gen, reconciled |-> TRUE] /\ DiskOk(disk, server, Quiet') /\ purge.gen # Unset
    BY <1>4, <2>5
  <3>2. disk.marker.reconciled /\ disk.marker # NoMarker BY <3>1 DEF NoMarker
  <3> HIDE DEF purge
  <3> QED BY <1>2, <2>2, <3>1, <3>2, LaunchedOk, Typed
 <2>6. TargetMinted(after.wizard, minted') BY <1>0, <2>2, Typed, Nothings
 <2> QED BY <1>0, <1>2, <1>6, <2>2, <2>3, <2>4, <2>5, <2>6, Typed, PageMoves
<1>7. CASE /\ Purged(purge) /\ disks' = [disks EXCEPT ![homes[t]] = disk] /\ purge.wizard
           /\ heard' = Broadcast(t, purge.gen) /\ tabs' = Frozen(t, FALSE, [tabs EXCEPT ![t] = done])
 <2> DEFINE wizard == [tabs[t].wizard EXCEPT !.step = IF @ = "commit" THEN "done" ELSE @]
 <2>1. /\ wizard \in WizardForm /\ wizard.op = tabs[t].wizard.op /\ wizard.target = tabs[t].wizard.target
       /\ tabs[t].wizard.step = "commit" => wizard.step = "done" BY Typed DEF TabForm, WizardForm
 <2> HIDE DEF wizard
 <2>2. /\ done \in TabForm /\ done.wizard = wizard /\ done.open = page.open /\ done.bound = page.bound /\ done.mek = page.mek
       /\ done.edit = page.edit /\ done.deaf = page.deaf /\ done.task = page.task /\ done.purge = NoPurge
   BY <1>1, <2>1 DEF done, wizard, TabForm
 <2> DEFINE views == [tabs EXCEPT ![t] = done]
 <2>3. views \in [Tabs -> TabForm] /\ views[t] = done /\ \A s \in Tabs : s # t => views[s] = tabs[s] BY <1>0, <2>2
 <2> DEFINE after == tabs'[t]
 <2>4. tabs' = Frozen(t, FALSE, views) BY <1>7
 <2> HIDE DEF views
 <2>5. /\ tabs' \in [Tabs -> TabForm] /\ \A s \in Tabs : SamePage(tabs'[s], views[s])
       /\ OnePageEach => \A s \in Tabs : s # t => tabs'[s] = views[s] BY <2>3, <2>4, FrozenPages
 <2>6. /\ after \in TabForm /\ after.open = tabs[t].open /\ after.bound = page.bound /\ after.mek = tabs[t].mek
       /\ after.edit = tabs[t].edit /\ after.purge = NoPurge /\ after.deaf = tabs[t].deaf /\ after.wizard = wizard
       /\ after.task = tabs[t].task BY <1>1, <2>2, <2>3, <2>5 DEF SamePage
 <2> HIDE DEF after
 <2>7. heard' \in [Tabs -> SUBSET Known] /\ (OnePageEach => heard' = heard) BY <1>0, <1>7, NobodyToTell
 <2>8. GenForm'
   BY <1>0, <1>2, <1>7, <2>5, <2>7 DEF GenForm
 <2>9. WayIn' BY <1>0 DEF GenInv, Basics, WayIn
 <2>10. server'.op.ver <= minted' /\ server'.done <= minted' /\ minted <= minted' /\ TargetMinted(after.wizard, minted')
   BY <1>0, <2>1, <2>6, Typed DEF GenInv, Basics, SharesWereMinted, TargetMinted
 <2>11. ASSUME PurgesWork, PagesSound
        PROVE  TabOk(after, disk, server, homes[t] \in sessions, Quiet')
  <3> DEFINE in == homes[t] \in sessions
  <3>1. /\ tabs[t].open /\ old.marker.gen = purge.gen /\ purge.gen # Unset
        /\ disk.marker = [gen |-> purge.gen, reconciled |-> TRUE]
        /\ TabOk(tabs[t], old, server, homes[t] \in sessions, Quiet') BY <1>4, <2>11
  <3>2. after.bound = purge.gen /\ disk.marker.gen = purge.gen /\ disk.marker.reconciled BY <1>1, <1>7, <2>6, <3>1
  <3>3. /\ tabs[t].mek = Unset /\ tabs[t].edit = Unset /\ ~tabs[t].deaf /\ tabs[t].wizard.step = "commit"
        /\ in => purge.gen = server.gen BY <1>0, <1>7, <3>1 DEF TabOk, PurgeFits
  <3>4. after.wizard.step = "done" /\ after.purge.at = 0 /\ ~Shows(after) BY <2>1, <2>6, <3>3, Nothings DEF Shows
  <3>5. tabs[t].task.kind \in {"none", "list"} BY <3>1, <3>3 DEF TabOk, WizardFits
  <3>6. KeysFit(after, server, in, Quiet') /\ UnboundFits(after, in) BY <3>1, <3>2, <3>4 DEF KeysFit, UnboundFits, Shows
  <3>7. PurgeFits(after, disk, server, in, Quiet') BY <2>6, <3>2, <3>3, <3>4 DEF PurgeFits
  <3>8. WizardFits(after, server, in) BY <2>6, <3>2, <3>3, <3>4, <3>5 DEF WizardFits
  <3>9. TaskFits(after, server, in, Quiet')
    BY <3>1, <2>6, <3>4, <3>5 DEF TabOk, Follows, TaskFits, Underway
  <3> QED BY <2>6, <3>1, <3>2, <3>6, <3>7, <3>8, <3>9 DEF TabOk
 <2>12. ASSUME PurgesWork, PagesSound
        PROVE  Keeps(t) /\ TabOk(after, disk, server', homes[t] \in sessions', Quiet') /\ DiskOk(disk, server', Quiet')
  <3>1. DiskOk(disk, server, Quiet') /\ TabOk(after, disk, server, homes[t] \in sessions, Quiet') BY <1>4, <2>11, <2>12
  <3>2. server.gen <= server.gen BY Typed, ServerGeneration, <1>0
  <3>3. RowIsCurrent' BY <1>0, <2>12 DEF RowIsCurrent, PagesSound
  <3>4. Keeps(t) BY <1>0, <2>7, <2>12, <3>2, <3>3 DEF Keeps, PagesSound, PurgesWork
  <3> QED BY <1>0, <3>1, <3>4
 <2>13. \A s \in Tabs : s # t => tabs'[s].wizard = tabs[s].wizard BY <2>3, <2>5 DEF SamePage
 <2>14. OnePageEach => \A s \in Tabs : s # t => tabs'[s] = tabs[s] BY <2>3, <2>5
 <2>15. homes' = homes /\ faults.calls <= faults'.calls /\ faults.purges <= faults'.purges BY <1>0, Typed
 <2> HIDE DEF purge, old
 <2> QED BY <1>2, <1>7, <2>5, <2>6, <2>8, <2>9, <2>10, <2>12, <2>13, <2>14, <2>15, Moves DEF after
<1> QED BY <1>3, <1>5, <1>6, <1>7
-----------------------------------------------------------------------------
(* The wizard.                                                             *)

\* The fields of a page whose wizard moves.
LEMMA WithWizard ==
  ASSUME NEW tab \in TabForm, NEW wizard \in WizardForm
  PROVE  LET after == [tab EXCEPT !.wizard = wizard]
         IN  /\ after \in TabForm /\ after.open = tab.open /\ after.bound = tab.bound /\ after.mek = tab.mek
             /\ after.edit = tab.edit /\ after.purge = tab.purge /\ after.deaf = tab.deaf /\ after.task = tab.task
             /\ after.wizard = wizard
BY DEF TabForm

\* A page stays sound when its wizard moves, unless that purges.
LEMMA WizardStays ==
  ASSUME NEW tab \in TabForm, NEW after \in TabForm, NEW disk \in DiskForm, NEW s \in ServerForm, NEW in, NEW quiet,
         TabOk(tab, disk, s, in, quiet), tab.open,
         after.open = tab.open, after.bound = tab.bound, after.mek = tab.mek, after.edit = tab.edit,
         after.purge = tab.purge, after.deaf = tab.deaf, after.task = tab.task,
         tab.purge.at = 0 \/ ~tab.purge.wizard,
         after.wizard.step \in {"off", "done"} \/ tab.wizard.step \notin {"off", "done"} \/ tab.task.at = "idle",
         after.wizard.step # "off" => tab.bound # Unset, WizardFits(after, s, in)
  PROVE  TabOk(after, disk, s, in, quiet)
<1>1. KeysFit(after, s, in, quiet) BY DEF TabOk, KeysFit, Shows
<1>2. UnboundFits(after, in) BY DEF TabOk, UnboundFits, Shows
<1>3. PurgeFits(after, disk, s, in, quiet) BY DEF TabOk, PurgeFits
<1>4. TaskFits(after, s, in, quiet)
 <2>1. CASE tab.task.at = "idle" BY <2>1 DEF TabOk, TaskFits, NoTask, Underway
 <2>2. CASE tab.task.at # "idle"
   BY <2>2 DEF Follows, Shows, TabOk, TaskFits, WizardFits
 <2> QED BY <2>1, <2>2
<1> QED BY <1>1, <1>2, <1>3, <1>4 DEF TabOk

\* Only the wizard of a page moves.
LEMMA WizardAlone ==
  ASSUME GenInv, NEW t \in Tabs, NEW wizard \in WizardForm, SetWizard(t, wizard),
         UNCHANGED <<server, sessions, disks, heard, files, homes, faults>>,
         minted' \in Nat, minted <= minted', tasks' \in Nat, TargetMinted(wizard, minted'),
         tabs[t].open \/ tabs[t].wizard.step # "off",
         wizard.step \in {"off", "done"} \/ tabs[t].wizard.step \notin {"off", "done"} \/ tabs[t].task.at = "idle",
         ASSUME PagesSound, tabs[t].open, TabOk(tabs[t], disks[homes[t]], server, homes[t] \in sessions, Quiet')
         PROVE  /\ tabs[t].purge.at = 0 \/ ~tabs[t].purge.wizard
                /\ wizard.step # "off" => tabs[t].bound # Unset
                /\ WizardFits([tabs[t] EXCEPT !.wizard = wizard], server, homes[t] \in sessions)
  PROVE  GenInv'
<1> DEFINE after == [tabs[t] EXCEPT !.wizard = wizard]
<1>1. /\ after \in TabForm /\ after.open = tabs[t].open /\ after.bound = tabs[t].bound /\ after.mek = tabs[t].mek
      /\ after.edit = tabs[t].edit /\ after.purge = tabs[t].purge /\ after.deaf = tabs[t].deaf /\ after.task = tabs[t].task
      /\ after.wizard = wizard BY Typed, WithWizard
<1>2. tabs' = [tabs EXCEPT ![t] = after] BY DEF SetWizard, SetTab
<1>3. ASSUME PurgesWork, PagesSound PROVE TabOk(after, disks[homes[t]], server, homes[t] \in sessions, Quiet')
 <2>1. TabOk(tabs[t], disks[homes[t]], server, homes[t] \in sessions, Quiet') BY <1>3, Given, Typed
 <2>2. tabs[t].open BY <2>1 DEF TabOk, Shut, NoWizard
 <2>3. /\ tabs[t].purge.at = 0 \/ ~tabs[t].purge.wizard
       /\ wizard.step # "off" => tabs[t].bound # Unset
       /\ WizardFits(after, server, homes[t] \in sessions) BY <1>3, <2>1, <2>2
 <2> HIDE DEF after
 <2> QED BY <1>1, <2>1, <2>2, <2>3, Typed, WizardStays
<1> HIDE DEF after
<1> QED BY <1>1, <1>2, <1>3, Typed, PageAlone

\* The wizard opens.
LEMMA OpenWizardKeeps ==
  ASSUME GenInv, NEW t \in Tabs, OpenWizard(t)
  PROVE  GenInv'
<1> DEFINE wizard == [NoWizard EXCEPT !.step = "sessions", !.gen = server.gen, !.op = server.op.ver, !.fence = server.op.fence]
<1>0. /\ tabs[t].open /\ (tabs[t].purge.at = 0 \/ tabs[t].purge.wizard) /\ homes[t] \in sessions /\ Agrees(tabs[t].bound)
      /\ tabs[t].wizard.step \in {"off", "done"} /\ tabs[t].task.at = "idle" /\ SetWizard(t, wizard)
      /\ UNCHANGED <<server, sessions, disks, heard, files, homes, minted, faults>> /\ tasks' = tasks + 1
  BY DEF OpenWizard, Mounted, SignedIn, Home, Idle, Spend
<1>1. /\ wizard \in WizardForm /\ wizard.step = "sessions" /\ wizard.op = server.op.ver /\ wizard.target = 0
  BY Typed, GenerationNumbers DEF NoWizard, WizardForm, ServerForm
<1> HIDE DEF wizard
<1>2. ASSUME PagesSound, tabs[t].open, TabOk(tabs[t], disks[homes[t]], server, homes[t] \in sessions, Quiet')
      PROVE  /\ tabs[t].purge.at = 0 \/ ~tabs[t].purge.wizard
             /\ wizard.step # "off" => tabs[t].bound # Unset
             /\ WizardFits([tabs[t] EXCEPT !.wizard = wizard], server, homes[t] \in sessions)
 <2> DEFINE after == [tabs[t] EXCEPT !.wizard = wizard]
 <2>1. after.wizard = wizard /\ after.task = tabs[t].task /\ after.bound = tabs[t].bound /\ after.purge = tabs[t].purge
   BY <1>1, Typed, WithWizard
 <2>2. tabs[t].task.kind = "none" /\ tabs[t].bound # Unset BY <1>0, <1>2 DEF TabOk, TaskFits, NoTask, UnboundFits
 <2>3. tabs[t].bound = server.gen BY <1>0, <2>2 DEF Agrees
 <2>4. tabs[t].purge.at = 0 BY <1>0, <1>2 DEF TabOk, PurgeFits
 <2>5. WizardFits(after, server, homes[t] \in sessions)
  <3> HIDE DEF after
  <3> QED BY <1>1, <2>1, <2>2, <2>3 DEF WizardFits
 <2> QED BY <2>2, <2>4, <2>5
<1>3. tasks' \in Nat /\ TargetMinted(wizard, minted') BY <1>0, <1>1, Typed DEF TargetMinted, GenInv, Basics, SharesWereMinted
<1> QED BY <1>0, <1>1, <1>2, <1>3, Typed, WizardAlone

\* The page leaves.
LEMMA LeaveWizardKeeps ==
  ASSUME GenInv, NEW t \in Tabs, LeaveWizard(t)
  PROVE  GenInv'
<1>0. /\ tabs[t].wizard.step # "off" /\ tabs[t].purge.at = 0 /\ SetWizard(t, NoWizard)
      /\ UNCHANGED <<server, sessions, disks, heard, files, homes, minted, tasks, faults>> BY DEF LeaveWizard
<1>1. NoWizard \in WizardForm /\ NoWizard.step = "off" /\ TargetMinted(NoWizard, minted') BY <1>0, Typed, Nothings
<1>2. WizardFits([tabs[t] EXCEPT !.wizard = NoWizard], server, homes[t] \in sessions) BY <1>1, Typed, WithWizard DEF WizardFits
<1> QED BY <1>0, <1>1, <1>2, Typed, WizardAlone

\* The drafts are looked for.
LEMMA ScanDraftsKeeps ==
  ASSUME GenInv, NEW t \in Tabs, ScanDrafts(t)
  PROVE  GenInv'
<1> DEFINE wizard == [tabs[t].wizard EXCEPT !.step = "credentials"]
<1>0. /\ tabs[t].wizard.step = "drafts" /\ SetWizard(t, wizard)
      /\ UNCHANGED <<server, sessions, disks, heard, files, homes, minted, tasks, faults>> BY DEF ScanDrafts
<1>1. /\ wizard \in WizardForm /\ wizard.step = "credentials" /\ wizard.op = tabs[t].wizard.op
      /\ wizard.target = tabs[t].wizard.target BY Typed DEF TabForm, WizardForm
<1> HIDE DEF wizard
<1>2. ASSUME PagesSound, tabs[t].open, TabOk(tabs[t], disks[homes[t]], server, homes[t] \in sessions, Quiet')
      PROVE  /\ tabs[t].purge.at = 0 \/ ~tabs[t].purge.wizard
             /\ wizard.step # "off" => tabs[t].bound # Unset
             /\ WizardFits([tabs[t] EXCEPT !.wizard = wizard], server, homes[t] \in sessions)
 <2> DEFINE after == [tabs[t] EXCEPT !.wizard = wizard]
 <2>1. after.wizard = wizard /\ after.task = tabs[t].task /\ after.bound = tabs[t].bound /\ after.purge = tabs[t].purge
   BY <1>1, Typed, WithWizard
 <2>2. WizardFits(after, server, homes[t] \in sessions)
  <3> HIDE DEF after
  <3> QED BY <1>0, <1>1, <1>2, <2>1 DEF TabOk, WizardFits
 <2> QED BY <1>0, <1>2, <2>2 DEF TabOk, PurgeFits, UnboundFits
<1>3. TargetMinted(wizard, minted') BY <1>0, <1>1, Typed DEF TargetMinted
<1> QED BY <1>0, <1>1, <1>2, <1>3, Typed, WizardAlone

\* The present key is verified and a target made, or the operation's taken up.
LEMMA SetCredentialsKeeps ==
  ASSUME GenInv, NEW t \in Tabs, SetCredentials(t)
  PROVE  GenInv'
<1> DEFINE pending == tabs[t].wizard.op
<1> DEFINE target == IF pending = 0 THEN minted + 1 ELSE pending
<1> DEFINE wizard == [tabs[t].wizard EXCEPT !.step = "confirm", !.target = target]
<1>0. /\ tabs[t].wizard.step = "credentials" /\ SetWizard(t, wizard)
      /\ minted' = (IF pending = 0 THEN minted + 1 ELSE minted)
      /\ UNCHANGED <<server, sessions, disks, heard, files, homes, tasks, faults>> BY DEF SetCredentials
<1>1. pending \in Nat /\ pending <= minted /\ minted \in Nat /\ tabs[t].wizard \in WizardForm
  BY Typed DEF TabForm, WizardForm, TargetMinted
<1>2. target \in Nat /\ minted' \in Nat /\ minted <= minted' /\ target <= minted' /\ pending <= minted' BY <1>0, <1>1
<1>3. /\ wizard \in WizardForm /\ wizard.step = "confirm" /\ wizard.op = pending /\ wizard.target = target
  BY <1>1, <1>2 DEF WizardForm
<1>4. pending = 0 => target # server.done
  BY Typed, <1>1 DEF ServerForm, GenInv, Basics, SharesWereMinted
<1> HIDE DEF wizard, target, pending
<1>5. ASSUME PagesSound, tabs[t].open, TabOk(tabs[t], disks[homes[t]], server, homes[t] \in sessions, Quiet')
      PROVE  /\ tabs[t].purge.at = 0 \/ ~tabs[t].purge.wizard
             /\ wizard.step # "off" => tabs[t].bound # Unset
             /\ WizardFits([tabs[t] EXCEPT !.wizard = wizard], server, homes[t] \in sessions)
 <2> DEFINE after == [tabs[t] EXCEPT !.wizard = wizard]
 <2>1. after.wizard = wizard /\ after.task = tabs[t].task /\ after.bound = tabs[t].bound /\ after.purge = tabs[t].purge
   BY <1>3, Typed, WithWizard
 <2>2. WizardFits(after, server, homes[t] \in sessions)
  <3> HIDE DEF after
  <3> QED BY <1>0, <1>3, <1>4, <1>5, <2>1 DEF TabOk, WizardFits
 <2> QED BY <1>0, <1>5, <2>2 DEF TabOk, PurgeFits, UnboundFits
<1>6. TargetMinted(wizard, minted') BY <1>2, <1>3 DEF TargetMinted
<1> QED BY <1>0, <1>2, <1>3, <1>5, <1>6, Typed, WizardAlone

\* A page moves the operation.
LEMMA OperationMoves ==
  ASSUME GenInv, NEW t \in Tabs, tabs' \in [Tabs -> TabForm], TargetMinted(tabs'[t].wizard, minted),
         \A s \in Tabs : s # t => tabs'[s].wizard = tabs[s].wizard,
         OnePageEach => \A s \in Tabs : s # t => tabs'[s] = tabs[s],
         server' \in ServerForm, server'.gen = server.gen, server'.mek = server.mek, server'.row = server.row,
         server'.done = server.done, server'.op.ver <= minted, Running(server') => server.gen < MaxGen,
         server'.op.confirmed => SavedFor(server'.op.ver, files),
         UNCHANGED <<disks, heard, files, homes, minted, tasks>>, sessions' \subseteq sessions,
         faults' \in [calls : Nat, purges : Nat], faults.calls <= faults'.calls, faults.purges <= faults'.purges,
         Alone(t) \/ (Running(server') => Running(server)),
         ASSUME PurgesWork, PagesSound,
                TabOk(tabs[t], disks[homes[t]], server, homes[t] \in sessions, Quiet')
         PROVE  /\ Running(server') => server'.op.ver # server'.done
                /\ TabOk(tabs'[t], disks[homes[t]], server', homes[t] \in sessions', Quiet')
  PROVE  GenInv'
<1>0. GenForm /\ disks[homes[t]] \in DiskForm /\ tabs'[t] \in TabForm BY Typed DEF GenInv, Basics
<1>1. GenForm' BY <1>0 DEF GenForm
<1>2. WayIn' BY DEF GenInv, Basics, WayIn
<1>3. server'.op.ver <= minted' /\ server'.done <= minted' /\ minted <= minted' BY Typed DEF GenInv, Basics, SharesWereMinted
<1>4. disks' = [disks EXCEPT ![homes[t]] = disks[homes[t]]] BY <1>0 DEF GenForm
<1>5. ASSUME PurgesWork, PagesSound
      PROVE  Keeps(t) /\ TabOk(tabs'[t], disks[homes[t]], server', homes[t] \in sessions', Quiet')
                      /\ DiskOk(disks[homes[t]], server', Quiet')
 <2>1. TabOk(tabs[t], disks[homes[t]], server, homes[t] \in sessions, Quiet') /\ DiskOk(disks[homes[t]], server, Quiet')
   BY <1>5, Given
 <2>2. (Running(server') => server'.op.ver # server'.done)
       /\ TabOk(tabs'[t], disks[homes[t]], server', homes[t] \in sessions', Quiet') BY <1>5, <2>1
 <2>3. server.gen <= server'.gen /\ server \in ServerForm BY <1>0, ServerGeneration
 <2>4. DiskOk(disks[homes[t]], server', Quiet') BY <1>0, <2>1, <2>3, DiskStays
 <2>5. \A s \in Tabs : s # t /\ homes[s] \in sessions' => homes[s] \in sessions /\ (Running(server') => Running(server))
  <3> TAKE s \in Tabs
  <3>1. CASE Alone(t) BY <1>5, <3>1 DEF Alone, Home, PurgesWork, OnePageEach
  <3>2. CASE Running(server') => Running(server) BY <3>2
  <3> QED BY <3>1, <3>2
 <2>6. RowIsCurrent' /\ \A s \in Tabs : heard'[s] = {} BY <1>5 DEF RowIsCurrent, PagesSound
 <2>7. Keeps(t) BY <2>2, <2>3, <2>5, <2>6 DEF Keeps
 <2> QED BY <2>2, <2>4, <2>7
<1>6. TargetMinted(tabs'[t].wizard, minted') /\ homes' = homes OBVIOUS
<1> QED BY <1>0, <1>1, <1>2, <1>3, <1>4, <1>5, <1>6, Moves

\* A page that has not activated stays sound while the operation moves.
LEMMA OperationStays ==
  ASSUME NEW tab \in TabForm, NEW disk \in DiskForm, NEW s \in ServerForm, NEW later \in ServerForm, NEW in, NEW quiet,
         TabOk(tab, disk, s, in, quiet), later.gen = s.gen, later.done = s.done,
         tab.wizard.step # "commit" \/ (Running(later) => Running(s))
  PROVE  TabOk(tab, disk, later, in, quiet)
<1> SUFFICES ASSUME tab.open
             PROVE  /\ KeysFit(tab, later, in, quiet) /\ UnboundFits(tab, in)
                    /\ PurgeFits(tab, disk, later, in, quiet) /\ WizardFits(tab, later, in)
                    /\ TaskFits(tab, later, in, quiet) BY DEF TabOk
<1>3. KeysFit(tab, later, in, quiet) BY DEF TabOk, KeysFit, Shows
<1>4. UnboundFits(tab, in) BY DEF TabOk, UnboundFits, Shows
<1>5. PurgeFits(tab, disk, later, in, quiet) BY DEF TabOk, PurgeFits
<1>6. WizardFits(tab, later, in) BY DEF TabOk, WizardFits
<1>7. TaskFits(tab, later, in, quiet) BY DEF TabOk, TaskFits
<1> QED BY <1>3, <1>4, <1>5, <1>6, <1>7

\* So does a page that differs in nothing that matters.
LEMMA SamePageStays ==
  ASSUME NEW tab \in TabForm, NEW after \in TabForm, NEW disk \in DiskForm, NEW s \in ServerForm, NEW in, NEW quiet,
         TabOk(tab, disk, s, in, quiet), tab.open, SamePage(after, tab)
  PROVE  TabOk(after, disk, s, in, quiet)
<1>1. KeysFit(after, s, in, quiet) BY DEF TabOk, KeysFit, Shows, SamePage
<1>2. UnboundFits(after, in) BY DEF TabOk, UnboundFits, Shows, SamePage
<1>3. PurgeFits(after, disk, s, in, quiet) BY DEF TabOk, PurgeFits, SamePage
<1>4. WizardFits(after, s, in) BY DEF TabOk, WizardFits, SamePage
<1>5. TaskFits(after, s, in, quiet) BY DEF TabOk, TaskFits, SamePage, Follows, Shows
<1> QED BY <1>1, <1>2, <1>3, <1>4, <1>5 DEF TabOk, SamePage

\* An operation that is known to run does.
LEMMA OwnedRuns ==
  ASSUME NEW t \in Tabs, Owns(t)
  PROVE  Running(server) /\ server.op.ver = tabs[t].wizard.op
BY DEF Owns, InProgress, Running

\* The other sessions go.
LEMMA RevokeOthersKeeps ==
  ASSUME GenInv, NEW t \in Tabs, RevokeOthers(t)
  PROVE  GenInv'
<1> DEFINE wizard == [tabs[t].wizard EXCEPT !.step = "drafts"]
<1> DEFINE after == [tabs[t] EXCEPT !.wizard = wizard]
<1>0. /\ GenForm /\ tabs[t].wizard.step = "sessions" /\ homes[t] \in sessions /\ tabs' = [tabs EXCEPT ![t] = after]
      /\ sessions' = {homes[t]} /\ UNCHANGED <<server, disks, heard, files, homes, minted, tasks, faults>>
  BY DEF RevokeOthers, SignedIn, Home, SetWizard, SetTab, GenInv, Basics
<1>1. /\ wizard \in WizardForm /\ wizard.step = "drafts" /\ wizard.op = tabs[t].wizard.op
      /\ wizard.target = tabs[t].wizard.target BY Typed DEF TabForm, WizardForm
<1> HIDE DEF wizard
<1>2. /\ after \in TabForm /\ after.open = tabs[t].open /\ after.bound = tabs[t].bound /\ after.mek = tabs[t].mek
      /\ after.edit = tabs[t].edit /\ after.purge = tabs[t].purge /\ after.deaf = tabs[t].deaf /\ after.task = tabs[t].task
      /\ after.wizard = wizard BY <1>1, Typed, WithWizard
<1> HIDE DEF after
<1>3. tabs' \in [Tabs -> TabForm] /\ tabs'[t] = after /\ \A s \in Tabs : s # t => tabs'[s] = tabs[s] BY <1>0, <1>2 DEF GenForm
<1>4. ASSUME PurgesWork, PagesSound, TabOk(tabs[t], disks[homes[t]], server, homes[t] \in sessions, Quiet')
      PROVE  TabOk(after, disks[homes[t]], server, homes[t] \in sessions, Quiet')
 <2>1. tabs[t].open BY <1>0, <1>4 DEF TabOk, Shut, NoWizard
 <2>2. WizardFits(after, server, homes[t] \in sessions) BY <1>0, <1>1, <1>2, <1>4, <2>1 DEF TabOk, WizardFits
 <2>3. (tabs[t].purge.at = 0 \/ ~tabs[t].purge.wizard) /\ tabs[t].bound # Unset
   BY <1>0, <1>4, <2>1 DEF TabOk, PurgeFits, UnboundFits
 <2> QED BY <1>0, <1>1, <1>2, <1>4, <2>1, <2>2, <2>3, Typed, WizardStays
<1>5. (homes[t] \in sessions') = (homes[t] \in sessions) /\ sessions' \subseteq sessions BY <1>0
<1>6. /\ server' \in ServerForm /\ server'.op.ver <= minted /\ (Running(server') => server.gen < MaxGen)
      /\ server'.op.confirmed => SavedFor(server'.op.ver, files)
  BY <1>0 DEF GenForm, GenInv, Basics, SharesWereMinted, WayIn, Running
<1>7. TargetMinted(tabs'[t].wizard, minted) BY <1>1, <1>2, <1>3, Typed DEF TargetMinted
<1>8. Running(server') => Running(server) BY <1>0 DEF Running
<1>9. ASSUME PurgesWork, PagesSound, TabOk(tabs[t], disks[homes[t]], server, homes[t] \in sessions, Quiet')
      PROVE  /\ Running(server') => server'.op.ver # server'.done
             /\ TabOk(tabs'[t], disks[homes[t]], server', homes[t] \in sessions', Quiet')
  BY <1>4, <1>9, <1>0, <1>3, <1>5, <1>8 DEF PagesSound
<1>10. UNCHANGED <<disks, heard, files, homes, minted, tasks>> /\ server'.gen = server.gen /\ server'.mek = server.mek
       /\ server'.row = server.row /\ server'.done = server.done
       /\ faults' \in [calls : Nat, purges : Nat] /\ faults.calls <= faults'.calls /\ faults.purges <= faults'.purges
  BY <1>0, Typed
<1> QED BY <1>3, <1>5, <1>6, <1>7, <1>8, <1>9, <1>10, OperationMoves

\* Only the wizard of a page has moved.
OnlyWizard(t, wizard, views) ==
  /\ views[t].open = tabs[t].open /\ views[t].bound = tabs[t].bound /\ views[t].mek = tabs[t].mek
  /\ views[t].edit = tabs[t].edit /\ views[t].purge = tabs[t].purge /\ views[t].deaf = tabs[t].deaf
  /\ views[t].task = tabs[t].task /\ views[t].wizard = wizard
  /\ \A s \in Tabs : s # t => views[s] = tabs[s]

\* A page whose wizard is replaced.
LEMMA WizardOnly ==
  ASSUME GenInv, NEW t \in Tabs, NEW wizard \in WizardForm
  PROVE  LET views == [tabs EXCEPT ![t] = [tabs[t] EXCEPT !.wizard = wizard]]
         IN  views \in [Tabs -> TabForm] /\ OnlyWizard(t, wizard, views)
<1> DEFINE after == [tabs[t] EXCEPT !.wizard = wizard]
<1>1. /\ after \in TabForm /\ after.open = tabs[t].open /\ after.bound = tabs[t].bound /\ after.mek = tabs[t].mek
      /\ after.edit = tabs[t].edit /\ after.purge = tabs[t].purge /\ after.deaf = tabs[t].deaf /\ after.task = tabs[t].task
      /\ after.wizard = wizard BY Typed, WithWizard
<1> DEFINE views == [tabs EXCEPT ![t] = after]
<1> HIDE DEF after
<1>2. views \in [Tabs -> TabForm] /\ views[t] = after /\ \A s \in Tabs : s # t => views[s] = tabs[s]
  BY <1>1 DEF GenInv, Basics, GenForm
<1> HIDE DEF views
<1>3. views \in [Tabs -> TabForm] /\ OnlyWizard(t, wizard, views) BY <1>1, <1>2 DEF OnlyWizard
<1> QED BY <1>3 DEF views, after

\* A page moves the operation and its wizard, and freezes or thaws its browser.
LEMMA OperationAndWizard ==
  ASSUME GenInv, NEW t \in Tabs, NEW wizard \in WizardForm, NEW views \in [Tabs -> TabForm], NEW on \in BOOLEAN,
         OnlyWizard(t, wizard, views), tabs' = views \/ tabs' = Frozen(t, on, views),
         TargetMinted(wizard, minted), wizard.step \notin {"off", "done"}, tabs[t].wizard.step \notin {"off", "done"},
         server' \in ServerForm, server'.gen = server.gen, server'.mek = server.mek, server'.row = server.row,
         server'.done = server.done, server'.op.ver <= minted, Running(server') => server.gen < MaxGen,
         server'.op.confirmed => SavedFor(server'.op.ver, files),
         UNCHANGED <<disks, heard, files, homes, minted, tasks, sessions>>,
         faults' \in [calls : Nat, purges : Nat], faults.calls <= faults'.calls, faults.purges <= faults'.purges,
         Alone(t) \/ (Running(server') => Running(server)),
         tabs[t].wizard.step # "commit" \/ (Running(server') => Running(server)),
         ASSUME PagesSound, tabs[t].open, TabOk(tabs[t], disks[homes[t]], server, homes[t] \in sessions, Quiet')
         PROVE  /\ Running(server') => server'.op.ver # server'.done
                /\ tabs[t].purge.at = 0 \/ ~tabs[t].purge.wizard
                /\ \A after \in TabForm :
                     after.wizard = wizard /\ after.task = tabs[t].task /\ after.bound = tabs[t].bound /\ after.purge = tabs[t].purge
                       => WizardFits(after, server', homes[t] \in sessions)
  PROVE  GenInv'
<1> DEFINE after == views[t]
<1>0. GenForm BY DEF GenInv, Basics
<1>1. /\ after \in TabForm /\ after.open = tabs[t].open /\ after.bound = tabs[t].bound /\ after.mek = tabs[t].mek
      /\ after.edit = tabs[t].edit /\ after.purge = tabs[t].purge /\ after.deaf = tabs[t].deaf /\ after.task = tabs[t].task
      /\ after.wizard = wizard BY DEF OnlyWizard
<1>2. views[t] = after /\ \A s \in Tabs : s # t => views[s] = tabs[s] BY DEF OnlyWizard
<1> HIDE DEF after
<1>3. /\ tabs' \in [Tabs -> TabForm] /\ \A s \in Tabs : SamePage(tabs'[s], views[s])
      /\ OnePageEach => \A s \in Tabs : s # t => tabs'[s] = views[s]
 <2>1. CASE tabs' = views BY <1>2, <2>1 DEF SamePage
 <2>2. CASE tabs' = Frozen(t, on, views) BY <2>2, FrozenPages
 <2> QED BY <2>1, <2>2
<1>4. ASSUME PurgesWork, PagesSound, TabOk(tabs[t], disks[homes[t]], server, homes[t] \in sessions, Quiet')
      PROVE  /\ Running(server') => server'.op.ver # server'.done
             /\ TabOk(tabs'[t], disks[homes[t]], server', homes[t] \in sessions', Quiet')
 <2>1. tabs[t].open BY <1>4 DEF TabOk, Shut, NoWizard
 <2>2. /\ Running(server') => server'.op.ver # server'.done
       /\ tabs[t].purge.at = 0 \/ ~tabs[t].purge.wizard
       /\ WizardFits(after, server', homes[t] \in sessions) BY <1>1, <1>4, <2>1
 <2>3. TabOk(tabs[t], disks[homes[t]], server', homes[t] \in sessions, Quiet') BY <1>4, OperationStays, Typed
 <2>4. tabs[t].bound # Unset BY <1>4, <2>1 DEF TabOk, UnboundFits
 <2>5. TabOk(after, disks[homes[t]], server', homes[t] \in sessions, Quiet') BY <1>1, <2>1, <2>2, <2>3, <2>4, Typed, WizardStays
 <2>6. TabOk(tabs'[t], disks[homes[t]], server', homes[t] \in sessions, Quiet')
   BY <1>1, <1>2, <1>3, <2>1, <2>5, Typed, SamePageStays
 <2> QED BY <2>2, <2>6
<1>5. TargetMinted(tabs'[t].wizard, minted) BY <1>1, <1>2, <1>3 DEF SamePage
<1>6. \A s \in Tabs : s # t => tabs'[s].wizard = tabs[s].wizard BY <1>2, <1>3 DEF SamePage
<1>7. OnePageEach => \A s \in Tabs : s # t => tabs'[s] = tabs[s] BY <1>2, <1>3
<1>8. sessions' \subseteq sessions OBVIOUS
<1> QED BY <1>3, <1>4, <1>5, <1>6, <1>7, <1>8, OperationMoves

\* What holds of the server, whoever moves it.
LEMMA ServerKnown ==
  ASSUME GenInv
  PROVE  /\ server \in ServerForm /\ server.op \in [ver : Nat, fence : Nat, staged : BOOLEAN, confirmed : BOOLEAN]
         /\ server.op.ver <= minted /\ (Running(server) => server.gen < MaxGen)
         /\ server.op.confirmed => SavedFor(server.op.ver, files)
         /\ server.mek = server.gen
BY DEF GenInv, Basics, GenForm, ServerForm, SharesWereMinted, WayIn

\* Everything is staged.
LEMMA ProcessKeeps ==
  ASSUME GenInv, NEW t \in Tabs, Process(t)
  PROVE  GenInv'
<1> DEFINE wizard == [tabs[t].wizard EXCEPT !.step = "recovery"]
<1>0. /\ tabs[t].wizard.step = "running" /\ Owns(t) /\ Alone(t) /\ server' = [server EXCEPT !.op.staged = TRUE]
      /\ tabs' = [tabs EXCEPT ![t] = [tabs[t] EXCEPT !.wizard = wizard]]
      /\ UNCHANGED <<sessions, disks, heard, files, homes, minted, tasks, faults>> BY DEF Process, SetWizard, SetTab
<1>1. /\ wizard \in WizardForm /\ wizard.step = "recovery" /\ wizard.op = tabs[t].wizard.op
      /\ wizard.target = tabs[t].wizard.target BY Typed DEF TabForm, WizardForm
<1> HIDE DEF wizard
<1>2. /\ server' \in ServerForm /\ server'.gen = server.gen /\ server'.mek = server.mek /\ server'.row = server.row
      /\ server'.done = server.done /\ server'.op.ver = server.op.ver /\ server'.op.confirmed = server.op.confirmed
  BY ServerKnown, <1>0 DEF ServerForm
<1>3. Running(server) BY <1>0, OwnedRuns
<1>4. ASSUME PagesSound, tabs[t].open, TabOk(tabs[t], disks[homes[t]], server, homes[t] \in sessions, Quiet')
      PROVE  /\ Running(server') => server'.op.ver # server'.done
             /\ tabs[t].purge.at = 0 \/ ~tabs[t].purge.wizard
             /\ \A after \in TabForm :
                  after.wizard = wizard /\ after.task = tabs[t].task /\ after.bound = tabs[t].bound /\ after.purge = tabs[t].purge
                    => WizardFits(after, server', homes[t] \in sessions)
 <2>1. server'.op.ver # server'.done BY <1>2, <1>3, <1>4 DEF PagesSound
 <2>2. tabs[t].purge.at = 0 \/ ~tabs[t].purge.wizard BY <1>0, <1>4 DEF TabOk, PurgeFits
 <2>3. WizardFits(tabs[t], server, homes[t] \in sessions) BY <1>4 DEF TabOk
 <2>4. \A after \in TabForm :
         after.wizard = wizard /\ after.task = tabs[t].task /\ after.bound = tabs[t].bound /\ after.purge = tabs[t].purge
           => WizardFits(after, server', homes[t] \in sessions) BY <1>0, <1>1, <1>2, <2>3 DEF WizardFits
 <2> QED BY <2>1, <2>2, <2>4
<1>5. TargetMinted(wizard, minted) BY <1>1, Typed DEF TargetMinted
<1>6. faults' \in [calls : Nat, purges : Nat] /\ faults.calls <= faults'.calls /\ faults.purges <= faults'.purges BY <1>0, Typed
<1>8. tabs' \in [Tabs -> TabForm] /\ OnlyWizard(t, wizard, tabs') BY <1>0, <1>1, WizardOnly
<1>9. UNCHANGED <<disks, heard, files, homes, minted, tasks, sessions>> /\ Alone(t) /\ tabs[t].wizard.step = "running" BY <1>0
<1>7. server'.op.ver <= minted /\ server.gen < MaxGen /\ (server'.op.confirmed => SavedFor(server'.op.ver, files))
  BY <1>2, <1>3, ServerKnown
<1> QED BY <1>1, <1>2, <1>3, <1>4, <1>5, <1>6, <1>7, <1>8, <1>9, OperationAndWizard

\* The file that was saved is the operation's.
LEMMA ConfirmRecoveryKeeps ==
  ASSUME GenInv, NEW t \in Tabs, ConfirmRecovery(t)
  PROVE  GenInv'
<1> DEFINE wizard == [tabs[t].wizard EXCEPT !.step = "commit"]
<1>0. /\ tabs[t].wizard.step = "recovery" /\ Owns(t) /\ Alone(t) /\ server' = [server EXCEPT !.op.confirmed = TRUE]
      /\ tabs' = [tabs EXCEPT ![t] = [tabs[t] EXCEPT !.wizard = wizard]]
      /\ UNCHANGED <<sessions, disks, heard, files, homes, minted, tasks, faults>> BY DEF ConfirmRecovery, SetWizard, SetTab
<1>1. /\ wizard \in WizardForm /\ wizard.step = "commit" /\ wizard.op = tabs[t].wizard.op
      /\ wizard.target = tabs[t].wizard.target BY Typed DEF TabForm, WizardForm
<1> HIDE DEF wizard
<1>2. /\ server' \in ServerForm /\ server'.gen = server.gen /\ server'.mek = server.mek /\ server'.row = server.row
      /\ server'.done = server.done /\ server'.op.ver = server.op.ver
  BY ServerKnown, <1>0 DEF ServerForm
<1>3. Running(server) /\ server.op.ver = tabs[t].wizard.op BY <1>0, OwnedRuns
<1>4. SavedFor(server'.op.ver, files) BY <1>2, <1>3 DEF ConfirmRecovery, BoundFile, SavedFor
<1>5. ASSUME PagesSound, tabs[t].open, TabOk(tabs[t], disks[homes[t]], server, homes[t] \in sessions, Quiet')
      PROVE  /\ Running(server') => server'.op.ver # server'.done
             /\ tabs[t].purge.at = 0 \/ ~tabs[t].purge.wizard
             /\ \A after \in TabForm :
                  after.wizard = wizard /\ after.task = tabs[t].task /\ after.bound = tabs[t].bound /\ after.purge = tabs[t].purge
                    => WizardFits(after, server', homes[t] \in sessions)
 <2>1. server'.op.ver # server'.done BY <1>2, <1>3, <1>5 DEF PagesSound
 <2>2. tabs[t].purge.at = 0 \/ ~tabs[t].purge.wizard BY <1>0, <1>5 DEF TabOk, PurgeFits
 <2>3. WizardFits(tabs[t], server, homes[t] \in sessions) BY <1>5 DEF TabOk
 <2>4. \A after \in TabForm :
         after.wizard = wizard /\ after.task = tabs[t].task /\ after.bound = tabs[t].bound /\ after.purge = tabs[t].purge
           => WizardFits(after, server', homes[t] \in sessions) BY <1>0, <1>1, <1>2, <1>3, <2>1, <2>3 DEF WizardFits
 <2> QED BY <2>1, <2>2, <2>4
<1>6. TargetMinted(wizard, minted) BY <1>1, Typed DEF TargetMinted
<1>7. faults' \in [calls : Nat, purges : Nat] /\ faults.calls <= faults'.calls /\ faults.purges <= faults'.purges BY <1>0, Typed
<1>8. server'.op.ver <= minted /\ server.gen < MaxGen BY <1>2, <1>3, ServerKnown
<1>9. tabs' \in [Tabs -> TabForm] /\ OnlyWizard(t, wizard, tabs') BY <1>0, <1>1, WizardOnly
<1>10. UNCHANGED <<disks, heard, files, homes, minted, tasks, sessions>> /\ Alone(t) /\ tabs[t].wizard.step = "recovery" BY <1>0
<1> QED BY <1>1, <1>2, <1>3, <1>4, <1>5, <1>6, <1>7, <1>8, <1>9, <1>10, OperationAndWizard
-----------------------------------------------------------------------------
(* An operation begins, is claimed, or is given up.                        *)

\* What a claim or a new operation makes of the server.
LEMMA ServerBegins ==
  ASSUME GenInv, NEW t \in Tabs, tabs[t].wizard.step = "confirm", SignedIn(t),
         Claimed(t) \/ Begun(t) \/ UNCHANGED server
  PROVE  /\ server' \in ServerForm /\ server'.gen = server.gen /\ server'.mek = server.mek /\ server'.row = server.row
         /\ server'.done = server.done /\ server'.op.ver <= minted /\ (Running(server') => server.gen < MaxGen)
         /\ server'.op.confirmed => SavedFor(server'.op.ver, files)
         /\ Alone(t) \/ server' = server
         /\ PagesSound /\ tabs[t].open /\ TabOk(tabs[t], disks[homes[t]], server, homes[t] \in sessions, Quiet')
              => (Running(server') => server'.op.ver # server'.done)
<1>0. /\ server \in ServerForm /\ server.op \in [ver : Nat, fence : Nat, staged : BOOLEAN, confirmed : BOOLEAN]
      /\ server.op.ver <= minted /\ (Running(server) => server.gen < MaxGen)
      /\ server.op.confirmed => SavedFor(server.op.ver, files) BY ServerKnown
<1>1. CASE Claimed(t)
 <2>1. server' = [server EXCEPT !.op.fence = @ + 1] /\ Owns(t) /\ Alone(t) BY <1>1 DEF Claimed
 <2>2. /\ server' \in ServerForm /\ server'.gen = server.gen /\ server'.mek = server.mek /\ server'.row = server.row
       /\ server'.done = server.done /\ server'.op.ver = server.op.ver /\ server'.op.confirmed = server.op.confirmed
   BY <1>0, <2>1 DEF ServerForm
 <2>3. Running(server) BY <2>1, OwnedRuns
 <2>4. ASSUME PagesSound PROVE server'.op.ver # server'.done BY <2>2, <2>3, <2>4 DEF PagesSound
 <2> QED BY <1>0, <2>1, <2>2, <2>3, <2>4
<1>2. CASE Begun(t)
 <2>1. /\ server' = [server EXCEPT !.op = [NoOperation EXCEPT !.ver = tabs[t].wizard.target, !.fence = 1]]
       /\ Alone(t) /\ server.gen < MaxGen /\ tabs[t].wizard.op = 0 BY <1>2 DEF Begun
 <2>2. tabs[t].wizard.target \in Nat /\ tabs[t].wizard.target <= minted BY Typed DEF TabForm, WizardForm, TargetMinted
 <2>3. /\ server' \in ServerForm /\ server'.gen = server.gen /\ server'.mek = server.mek /\ server'.row = server.row
       /\ server'.done = server.done /\ server'.op.ver = tabs[t].wizard.target /\ ~server'.op.confirmed
   BY <1>0, <2>1, <2>2 DEF ServerForm, NoOperation
 <2>4. ASSUME tabs[t].open, TabOk(tabs[t], disks[homes[t]], server, homes[t] \in sessions, Quiet')
       PROVE  server'.op.ver # server'.done BY <2>1, <2>3, <2>4 DEF TabOk, WizardFits, SignedIn, Home
 <2> QED BY <2>1, <2>2, <2>3, <2>4
<1>3. CASE UNCHANGED server
 <2>1. ASSUME PagesSound PROVE Running(server') => server'.op.ver # server'.done BY <1>3, <2>1 DEF PagesSound
 <2> QED BY <1>0, <1>3, <2>1
<1> QED BY <1>1, <1>2, <1>3

\* An operation begins or is claimed, and the browser freezes.
LEMMA BeginRotationKeeps ==
  ASSUME GenInv, NEW t \in Tabs, BeginRotation(t)
  PROVE  GenInv'
<1> DEFINE old == tabs[t].wizard
<1> DEFINE going == [old EXCEPT !.step = "running", !.op = server'.op.ver, !.fence = server'.op.fence]
<1>0. /\ old.step = "confirm" /\ SignedIn(t) /\ UNCHANGED <<sessions, disks, heard, files, homes, minted, tasks>>
      /\ Claimed(t) \/ Begun(t) \/ UNCHANGED server
      /\ \/ \E on \in BOOLEAN : tabs' = Frozen(t, on, tabs)
         \/ tabs' = Frozen(t, TRUE, [tabs EXCEPT ![t].wizard = going])
      /\ Fault \/ UNCHANGED faults BY DEF BeginRotation
<1>1. /\ server' \in ServerForm /\ server'.gen = server.gen /\ server'.mek = server.mek /\ server'.row = server.row
      /\ server'.done = server.done /\ server'.op.ver <= minted /\ (Running(server') => server.gen < MaxGen)
      /\ server'.op.confirmed => SavedFor(server'.op.ver, files)
      /\ Alone(t) \/ server' = server
      /\ PagesSound /\ tabs[t].open /\ TabOk(tabs[t], disks[homes[t]], server, homes[t] \in sessions, Quiet')
           => (Running(server') => server'.op.ver # server'.done) BY <1>0, ServerBegins
<1>2. old \in WizardForm /\ server'.op.ver \in Nat /\ server'.op.fence \in Nat BY <1>1, Typed DEF TabForm, ServerForm
<1>3. /\ going \in WizardForm /\ going.step = "running" /\ going.op = server'.op.ver /\ going.target = old.target
  BY <1>2 DEF WizardForm
<1>4. faults' \in [calls : Nat, purges : Nat] /\ faults.calls <= faults'.calls /\ faults.purges <= faults'.purges
 <2>1. CASE Fault BY <2>1, Typed DEF Fault
 <2> QED BY <1>0, <2>1, Typed
<1>5. TargetMinted(old, minted) /\ TargetMinted(going, minted) BY <1>1, <1>3, Typed DEF TargetMinted
<1> HIDE DEF going
<1>6. ASSUME NEW wizard \in {old, going}, PagesSound, tabs[t].open,
             TabOk(tabs[t], disks[homes[t]], server, homes[t] \in sessions, Quiet')
      PROVE  /\ Running(server') => server'.op.ver # server'.done
             /\ tabs[t].purge.at = 0 \/ ~tabs[t].purge.wizard
             /\ \A after \in TabForm :
                  after.wizard = wizard /\ after.task = tabs[t].task /\ after.bound = tabs[t].bound /\ after.purge = tabs[t].purge
                    => WizardFits(after, server', homes[t] \in sessions)
  BY <1>1, <1>6, <1>0, <1>3 DEF TabOk, PurgeFits, WizardFits
<1>7. /\ UNCHANGED <<disks, heard, files, homes, minted, tasks, sessions>> /\ old.step \notin {"off", "done"} /\ old.step # "commit"
      /\ going.step \notin {"off", "done"}
      /\ Alone(t) \/ (Running(server') => Running(server)) BY <1>0, <1>1, <1>3
<1>8. CASE \E on \in BOOLEAN : tabs' = Frozen(t, on, tabs)
 <2>0. PICK on \in BOOLEAN : tabs' = Frozen(t, on, tabs) BY <1>8
 <2>1. tabs \in [Tabs -> TabForm] /\ OnlyWizard(t, old, tabs) BY DEF OnlyWizard, GenInv, Basics, GenForm
 <2>2. ASSUME PagesSound, tabs[t].open, TabOk(tabs[t], disks[homes[t]], server, homes[t] \in sessions, Quiet')
       PROVE  /\ Running(server') => server'.op.ver # server'.done
              /\ tabs[t].purge.at = 0 \/ ~tabs[t].purge.wizard
              /\ \A after \in TabForm :
                   after.wizard = old /\ after.task = tabs[t].task /\ after.bound = tabs[t].bound /\ after.purge = tabs[t].purge
                     => WizardFits(after, server', homes[t] \in sessions) BY <1>6, <2>2
 <2> HIDE DEF old
 <2> QED BY <1>1, <1>2, <1>4, <1>5, <1>7, <2>0, <2>1, <2>2, OperationAndWizard DEF old
<1>9. CASE tabs' = Frozen(t, TRUE, [tabs EXCEPT ![t].wizard = going])
 <2> DEFINE views == [tabs EXCEPT ![t] = [tabs[t] EXCEPT !.wizard = going]]
 <2>0. tabs' = Frozen(t, TRUE, views) BY <1>9
 <2>1. views \in [Tabs -> TabForm] /\ OnlyWizard(t, going, views) BY <1>3, WizardOnly
 <2> HIDE DEF views
 <2>2. ASSUME PagesSound, tabs[t].open, TabOk(tabs[t], disks[homes[t]], server, homes[t] \in sessions, Quiet')
       PROVE  /\ Running(server') => server'.op.ver # server'.done
              /\ tabs[t].purge.at = 0 \/ ~tabs[t].purge.wizard
              /\ \A after \in TabForm :
                   after.wizard = going /\ after.task = tabs[t].task /\ after.bound = tabs[t].bound /\ after.purge = tabs[t].purge
                     => WizardFits(after, server', homes[t] \in sessions) BY <1>6, <2>2
 <2> QED BY <1>1, <1>3, <1>4, <1>5, <1>7, <2>0, <2>1, <2>2, OperationAndWizard
<1> QED BY <1>0, <1>8, <1>9

\* An operation is given up.
LEMMA CancelRotationKeeps ==
  ASSUME GenInv, NEW t \in Tabs, CancelRotation(t)
  PROVE  GenInv'
<1> DEFINE old == tabs[t].wizard
<1> DEFINE back == [NoWizard EXCEPT !.step = "sessions", !.gen = old.gen]
<1>0. /\ old.step \in {"running", "commit"} /\ Owns(t) /\ Alone(t) /\ server' = [server EXCEPT !.op = NoOperation]
      /\ UNCHANGED <<sessions, disks, heard, files, homes, minted, tasks>>
      /\ \/ tabs' = Frozen(t, FALSE, [tabs EXCEPT ![t].wizard = back]) /\ UNCHANGED faults
         \/ Fault /\ UNCHANGED tabs BY DEF CancelRotation
<1>1. /\ server' \in ServerForm /\ server'.gen = server.gen /\ server'.mek = server.mek /\ server'.row = server.row
      /\ server'.done = server.done /\ server'.op = NoOperation
  BY <1>0, ServerKnown DEF NoOperation, ServerForm
<1>2. ~Running(server') /\ ~server'.op.confirmed /\ server'.op.ver <= minted
  BY Typed, <1>1, NoOperationHere DEF Running
<1>3. old \in WizardForm /\ old.gen \in Known BY Typed DEF TabForm, WizardForm
<1>4. back \in WizardForm /\ back.step = "sessions" /\ back.op = 0 /\ back.target = 0 BY <1>3 DEF WizardForm, NoWizard
<1>5. faults' \in [calls : Nat, purges : Nat] /\ faults.calls <= faults'.calls /\ faults.purges <= faults'.purges
 <2>1. CASE Fault BY <2>1, Typed DEF Fault
 <2> QED BY <1>0, <2>1, Typed
<1>6. TargetMinted(old, minted) /\ TargetMinted(back, minted) BY <1>4, Typed DEF TargetMinted
<1>7. Running(server) BY <1>0, OwnedRuns
<1> HIDE DEF back
<1>8. ASSUME NEW wizard \in {old, back}, PagesSound, tabs[t].open,
             TabOk(tabs[t], disks[homes[t]], server, homes[t] \in sessions, Quiet')
      PROVE  /\ tabs[t].purge.at = 0 \/ ~tabs[t].purge.wizard
             /\ \A after \in TabForm :
                  after.wizard = wizard /\ after.task = tabs[t].task /\ after.bound = tabs[t].bound /\ after.purge = tabs[t].purge
                    => WizardFits(after, server', homes[t] \in sessions)
  BY <1>0, <1>7, <1>8, <1>1, <1>2, <1>4 DEF Alone, Home, TabOk, PurgeFits, WizardFits
<1>9. /\ UNCHANGED <<disks, heard, files, homes, minted, tasks, sessions>> /\ old.step \notin {"off", "done"}
      /\ back.step \notin {"off", "done"} /\ (Running(server') => server.gen < MaxGen)
      /\ server'.op.confirmed => SavedFor(server'.op.ver, files)
      /\ Running(server') => Running(server)
      /\ Running(server') => server'.op.ver # server'.done BY <1>0, <1>2, <1>4
<1>10. CASE tabs' = tabs
 <2>1. tabs \in [Tabs -> TabForm] /\ OnlyWizard(t, old, tabs) BY DEF OnlyWizard, GenInv, Basics, GenForm
 <2>2. ASSUME PagesSound, tabs[t].open, TabOk(tabs[t], disks[homes[t]], server, homes[t] \in sessions, Quiet')
       PROVE  /\ Running(server') => server'.op.ver # server'.done
              /\ tabs[t].purge.at = 0 \/ ~tabs[t].purge.wizard
              /\ \A after \in TabForm :
                   after.wizard = old /\ after.task = tabs[t].task /\ after.bound = tabs[t].bound /\ after.purge = tabs[t].purge
                     => WizardFits(after, server', homes[t] \in sessions) BY <1>8, <1>9, <2>2
 <2> HIDE DEF old
 <2> QED BY <1>1, <1>2, <1>3, <1>5, <1>6, <1>9, <1>10, <2>1, <2>2, OperationAndWizard DEF old
<1>11. CASE tabs' = Frozen(t, FALSE, [tabs EXCEPT ![t].wizard = back])
 <2> DEFINE views == [tabs EXCEPT ![t] = [tabs[t] EXCEPT !.wizard = back]]
 <2>0. tabs' = Frozen(t, FALSE, views) BY <1>11
 <2>1. views \in [Tabs -> TabForm] /\ OnlyWizard(t, back, views) BY <1>4, WizardOnly
 <2> HIDE DEF views
 <2>2. ASSUME PagesSound, tabs[t].open, TabOk(tabs[t], disks[homes[t]], server, homes[t] \in sessions, Quiet')
       PROVE  /\ Running(server') => server'.op.ver # server'.done
              /\ tabs[t].purge.at = 0 \/ ~tabs[t].purge.wizard
              /\ \A after \in TabForm :
                   after.wizard = back /\ after.task = tabs[t].task /\ after.bound = tabs[t].bound /\ after.purge = tabs[t].purge
                     => WizardFits(after, server', homes[t] \in sessions) BY <1>8, <1>9, <2>2
 <2> QED BY <1>1, <1>2, <1>4, <1>5, <1>6, <1>9, <2>0, <2>1, <2>2, OperationAndWizard
<1> QED BY <1>0, <1>10, <1>11

-----------------------------------------------------------------------------
(* The activation.                                                         *)

\* While its operation runs, the page that commits knows of no other generation.
LEMMA CommittingPage ==
  ASSUME NEW tab \in TabForm, NEW disk \in DiskForm, NEW s \in ServerForm, NEW in, NEW quiet,
         TabOk(tab, disk, s, in, quiet), tab.wizard.step = "commit", in
  PROVE  /\ tab.open /\ tab.task.kind \in {"none", "list"}
         /\ Running(s) => tab.task.at # "synced" /\ (tab.purge.at = 0 \/ ~tab.purge.wizard)
<1>1. tab.open BY DEF TabOk, Shut, NoWizard
<1>2. PurgeFits(tab, disk, s, in, quiet) /\ WizardFits(tab, s, in) /\ TaskFits(tab, s, in, quiet) BY <1>1 DEF TabOk
<1>3. tab.task.kind \in {"none", "list"} BY <1>2 DEF WizardFits
<1>4. Running(s) => tab.purge.at = 0 \/ ~tab.purge.wizard BY <1>2 DEF PurgeFits
<1>5. ASSUME Running(s), tab.task.at = "synced" PROVE FALSE
 <2>1. tab.purge.at = 0 BY <1>2, <1>4, <1>5 DEF PurgeFits
 <2>2. tab.bound = s.gen BY <1>2, <1>5, <2>1 DEF WizardFits
 <2>3. tab.task.kind = "list" /\ tab.task.result = "mismatch" BY <1>2, <1>3, <1>5 DEF TaskFits
 <2>4. tab.task.header = s.gen BY <1>2, <1>5, <2>1, <2>2, <2>3 DEF TaskFits, Follows, Underway
 <2>5. s.gen # Unset /\ s.gen \in Nat BY GenerationNumbers DEF ServerForm
 <2> QED BY <1>2, <2>3, <2>4, <2>5 DEF TaskFits
<1> QED BY <1>1, <1>3, <1>4, <1>5

\* The reply of an activation is lost.
LEMMA ReplyLost ==
  ASSUME NEW tab \in TabForm, NEW disk \in DiskForm, NEW s \in ServerForm, NEW later \in ServerForm, NEW in, NEW quiet,
         TabOk(tab, disk, s, in, quiet), tab.wizard.step = "commit", in, Running(s), ~Running(later), later.gen = s.gen + 1,
         ~quiet
  PROVE  TabOk(tab, disk, later, in, quiet)
<1>1. /\ tab.open /\ tab.task.kind \in {"none", "list"} /\ tab.task.at # "synced"
      /\ tab.purge.at = 0 \/ ~tab.purge.wizard BY CommittingPage
<1>2. s.gen \in Nat /\ later.gen \in Nat /\ s.gen <= MaxGen /\ later.gen <= MaxGen BY GenerationNumbers DEF ServerForm
<1>3. /\ tab.mek \in Nat /\ tab.edit \in Nat /\ tab.bound \in Nat /\ tab.task.header \in Nat /\ tab.task.key \in Nat
  BY TabNumbers
<1>4. KeysFit(tab, later, in, quiet) BY <1>1, <1>2, <1>3 DEF TabOk, KeysFit, Shows
<1>5. UnboundFits(tab, in) BY <1>1 DEF TabOk, UnboundFits, Shows
<1>6. PurgeFits(tab, disk, later, in, quiet) BY <1>1 DEF TabOk, PurgeFits
<1>7. WizardFits(tab, later, in) BY <1>1 DEF TabOk, WizardFits
<1>8. TaskFits(tab, later, in, quiet)
  BY <1>1, <1>2, <1>3 DEF TabOk, TaskFits, NoTask
<1> QED BY <1>1, <1>4, <1>5, <1>6, <1>7, <1>8 DEF TabOk

\* What a browser keeps when its page purges for the generation it has learnt.
LEMMA ObservedDisk ==
  ASSUME NEW disk \in DiskForm, NEW disk2 \in DiskForm, NEW s \in ServerForm, NEW later \in ServerForm, NEW quiet,
         DiskOk(disk, s, quiet), s.gen <= later.gen,
         disk2.marker = Observed(disk.marker, later.gen), disk2.stored = disk.stored,
         \A k \in Kept : disk2.kept[k] = IF k = "draft" THEN Unset ELSE disk.kept[k]
  PROVE  disk2.marker.gen = later.gen /\ DiskOk(disk2, later, quiet)
<1>0. s.gen \in Nat /\ later.gen \in Nat /\ later.gen # Unset BY GenerationNumbers DEF ServerForm
<1>1. /\ \A k \in Kept : disk.kept[k] \in Nat
      /\ disk.marker.gen \in Nat /\ (disk.marker = NoMarker <=> disk.marker.gen = Unset /\ disk.marker.reconciled)
  BY DiskNumbers
<1>2. disk2.marker.gen = later.gen BY DEF Observed
<1>3. \A k \in Kept : disk2.kept[k] # Unset => disk2.kept[k] <= later.gen BY <1>0, <1>1 DEF DiskOk
<1>4. disk2.stored # 0 => disk2.kept["material"] # Unset BY DEF DiskOk, Kept
<1>5. ASSUME disk2.marker.reconciled, NEW k \in Kept PROVE Young(disk2, k, disk2.marker.gen)
 <2>1. CASE disk.marker = NoMarker BY <1>1, <2>1 DEF DiskOk, Young
 <2>2. CASE disk.marker # NoMarker /\ disk.marker.gen = later.gen
   BY <2>2, <1>0, <1>5 DEF Observed, DiskOk, Young
 <2>3. CASE disk.marker # NoMarker /\ disk.marker.gen # later.gen BY <1>5, <2>3 DEF Observed
 <2> QED BY <2>1, <2>2, <2>3
<1>6. later.gen <= later.gen BY <1>0
<1> QED BY <1>0, <1>2, <1>3, <1>4, <1>5, <1>6 DEF DiskOk

\* The page that has activated purges, and waits for the end of it.
LEMMA CommittedPage ==
  ASSUME NEW tab \in TabForm, NEW page \in TabForm, NEW disk \in DiskForm, NEW disk2 \in DiskForm,
         NEW s \in ServerForm, NEW later \in ServerForm, NEW in, NEW quiet,
         TabOk(tab, disk, s, in, quiet), tab.wizard.step = "commit", in, tab.purge.at = 0, ~Running(later),
         later = s \/ (Running(s) /\ later.gen = s.gen + 1),
         page.open = tab.open, page.bound = later.gen, page.mek = Unset, page.edit = Unset, page.deaf = tab.deaf,
         page.wizard = tab.wizard, page.task = tab.task,
         page.purge = [at |-> 1, ok |-> TRUE, gen |-> later.gen, wizard |-> TRUE],
         disk2.marker.gen = later.gen, disk2.kept["draft"] = Unset
  PROVE  TabOk(page, disk2, later, in, quiet)
<1>1. /\ tab.open /\ tab.task.kind \in {"none", "list"}
      /\ Running(s) => tab.task.at # "synced" /\ (tab.purge.at = 0 \/ ~tab.purge.wizard) BY CommittingPage
<1>2. s.gen \in Nat /\ later.gen \in Nat /\ s.gen <= MaxGen /\ later.gen <= MaxGen /\ later.gen # Unset
  BY GenerationNumbers DEF ServerForm
<1>3. tab.task.header \in Nat /\ tab.task.key \in Nat BY TabNumbers
<1>4. PurgeFits(tab, disk, s, in, quiet) /\ WizardFits(tab, s, in) /\ TaskFits(tab, s, in, quiet) BY <1>1 DEF TabOk
<1>5. page.purge.at = 1 /\ page.purge.ok /\ page.purge.gen = later.gen /\ page.purge.wizard OBVIOUS
<1>6. tab.task.at = "synced" => tab.task.key = later.gen BY <1>1, <1>4 DEF TaskFits
<1>7. KeysFit(page, later, in, quiet) /\ UnboundFits(page, in) BY <1>2 DEF KeysFit, UnboundFits, Shows
<1>8. PurgeFits(page, disk2, later, in, quiet) BY <1>2, <1>4, <1>5, <1>6 DEF PurgeFits
<1>9. WizardFits(page, later, in) BY <1>1, <1>5 DEF WizardFits
<1>10. TaskFits(page, later, in, quiet)
  BY <1>1, <1>5, <1>4, <1>2, <1>3, <1>6 DEF Follows, TaskFits, NoTask, Underway
<1> QED BY <1>1, <1>7, <1>8, <1>9, <1>10 DEF TabOk

\* What the activation makes of the server, once or again.
LEMMA ServerActivated ==
  ASSUME GenInv, NEW t \in Tabs, tabs[t].wizard.step = "commit", Activated(t)
  PROVE  /\ server' \in ServerForm /\ server'.op.ver <= minted /\ server'.done <= minted
         /\ server'.mek = server'.gen /\ server.gen <= server'.gen /\ (Running(server') => server'.gen < MaxGen)
         /\ server'.done # 0 => SavedFor(server'.done, files)
         /\ server'.op.confirmed => SavedFor(server'.op.ver, files)
         /\ homes[t] \in sessions
         /\ \A quiet : PagesSound /\ TabOk(tabs[t], disks[homes[t]], server, TRUE, quiet) =>
              /\ RowIsCurrent' /\ ~Running(server')
              /\ server' = server \/ (Running(server) /\ Alone(t) /\ server'.gen = server.gen + 1)
<1>0. /\ server \in ServerForm /\ server.op \in [ver : Nat, fence : Nat, staged : BOOLEAN, confirmed : BOOLEAN]
      /\ server.op.ver <= minted /\ (Running(server) => server.gen < MaxGen)
      /\ server.op.confirmed => SavedFor(server.op.ver, files)
      /\ server.mek = server.gen /\ minted \in Nat BY ServerKnown, Typed
<1>1. /\ server.done <= minted /\ (server.done # 0 => SavedFor(server.done, files))
      /\ server.gen \in Nat /\ server.gen <= server.gen BY ServerGeneration DEF GenInv, Basics, SharesWereMinted, WayIn
<1>2. CASE server.done = tabs[t].wizard.op /\ SignedIn(t) /\ UNCHANGED server
 <2>1. ASSUME NEW quiet, PagesSound, TabOk(tabs[t], disks[homes[t]], server, TRUE, quiet)
       PROVE  RowIsCurrent' /\ ~Running(server')
   BY <2>1, <1>2 DEF TabOk, Shut, NoWizard, WizardFits, PagesSound, RowIsCurrent
 <2> QED BY <1>0, <1>1, <1>2, <2>1 DEF SignedIn, Home
<1>3. CASE /\ Owns(t) /\ Alone(t) /\ server.op.staged /\ server.op.confirmed
           /\ server' = [gen |-> server.gen + 1, mek |-> server.gen + 1, ver |-> server.op.ver, row |-> server.gen + 1,
                         op |-> NoOperation, done |-> server.op.ver]
 <2>1. Running(server) /\ server.gen < MaxGen BY <1>0, <1>3, OwnedRuns
 <2>2. server.gen + 1 \in Generation /\ server.gen + 1 \in Known /\ server.gen + 1 \in Nat /\ server.gen <= server.gen + 1
   BY <1>1, <2>1, GenerationNumbers
 <2>3. NoOperation \in [ver : Nat, fence : Nat, staged : BOOLEAN, confirmed : BOOLEAN] BY DEF NoOperation
 <2>4. server' \in ServerForm BY <1>0, <1>3, <2>2, <2>3 DEF ServerForm
 <2>5. /\ server'.gen = server.gen + 1 /\ server'.mek = server.gen + 1 /\ server'.row = server.gen + 1
       /\ server'.op = NoOperation /\ server'.done = server.op.ver BY <1>3
 <2>6. ~Running(server') /\ server'.op.ver <= minted /\ ~server'.op.confirmed BY <1>0, <2>5, NoOperationHere DEF Running
 <2>7. RowIsCurrent' BY <2>5 DEF RowIsCurrent
 <2>8. homes[t] \in sessions BY <1>3 DEF Alone, Home
 <2> QED BY <1>0, <1>3, <2>1, <2>2, <2>4, <2>5, <2>6, <2>7, <2>8
<1> QED BY <1>2, <1>3 DEF Activated

\* An activation, whose reply arrives or not.
LEMMA ActivateKeeps ==
  ASSUME GenInv, NEW t \in Tabs, Activate(t)
  PROVE  GenInv'
<1> DEFINE in == homes[t] \in sessions
<1> DEFINE old == disks[homes[t]]
<1>0. /\ GenForm /\ tabs[t] \in TabForm /\ homes[t] \in Devices /\ old \in DiskForm /\ server \in ServerForm
      /\ tabs[t].wizard.step = "commit" /\ Activated(t) /\ UNCHANGED <<sessions, heard, files, homes, minted, tasks>>
  BY Typed DEF Activate, GenInv, Basics
<1>1. /\ server' \in ServerForm /\ server'.op.ver <= minted /\ server'.done <= minted
      /\ server'.mek = server'.gen /\ server.gen <= server'.gen /\ (Running(server') => server'.gen < MaxGen)
      /\ server'.done # 0 => SavedFor(server'.done, files)
      /\ server'.op.confirmed => SavedFor(server'.op.ver, files)
      /\ in BY <1>0, ServerActivated
<1>2. ASSUME NEW quiet, PagesSound, TabOk(tabs[t], old, server, in, quiet)
      PROVE  /\ RowIsCurrent' /\ ~Running(server')
             /\ server' = server \/ (Running(server) /\ Alone(t) /\ server'.gen = server.gen + 1)
 <2>1. TabOk(tabs[t], old, server, TRUE, quiet)
   BY <1>1, <1>2
 <2> HIDE DEF in
 <2> QED BY <1>0, <1>2, <2>1, ServerActivated
<1>3. WayIn' BY <1>0, <1>1 DEF WayIn
<1>4. ASSUME PurgesWork, PagesSound, NEW quiet, TabOk(tabs[t], old, server, in, quiet) PROVE Keeps(t)
 <2>1. /\ RowIsCurrent' /\ ~Running(server')
       /\ server' = server \/ (Running(server) /\ Alone(t) /\ server'.gen = server.gen + 1) BY <1>2, <1>4
 <2>2. \A s \in Tabs : heard'[s] = {} BY <1>0, <1>4 DEF PagesSound
 <2>3. ASSUME NEW s \in Tabs, s # t, homes[s] \in sessions'
       PROVE  homes[s] \in sessions /\ server' = server
   BY <1>0, <1>4, <2>3, <2>1 DEF Alone, Home, PurgesWork, OnePageEach
 <2>4. \A s \in Tabs : s # t /\ homes[s] \in sessions' =>
         /\ homes[s] \in sessions
         /\ server'.gen = server.gen /\ server'.done = server.done /\ (Running(server') => Running(server)) BY <2>3
 <2> QED BY <1>1, <2>1, <2>2, <2>4 DEF Keeps
<1>5. CASE AfterCommit(t) /\ UNCHANGED faults
 <2> DEFINE g == server'.gen
 <2> DEFINE bound == [tabs[t] EXCEPT !.bound = g]
 <2> DEFINE page == Purging(bound, g, TRUE)
 <2> DEFINE seen == [old EXCEPT !.marker = Observed(@, g)]
 <2> DEFINE disk == WithoutDrafts(seen)
 <2>1. tabs' = [tabs EXCEPT ![t] = page] /\ disks' = [disks EXCEPT ![homes[t]] = disk] /\ tabs[t].purge.at = 0
   BY <1>5 DEF AfterCommit, SetTab, SetDisk, Disk, Home
 <2>2. g \in Known BY <1>1, GenerationNumbers DEF ServerForm
 <2>3. /\ bound \in TabForm /\ bound.open = tabs[t].open /\ bound.bound = g /\ bound.deaf = tabs[t].deaf
       /\ bound.wizard = tabs[t].wizard /\ bound.task = tabs[t].task BY <1>0, <2>2 DEF TabForm
 <2>4. Observed(old.marker, g) \in Marker BY <1>0, <2>2 DEF Observed, DiskForm, Marker
 <2>5. /\ seen \in DiskForm /\ seen.marker = Observed(old.marker, g) /\ seen.stored = old.stored
       /\ \A k \in Kept : seen.kept[k] = old.kept[k] BY <1>0, <2>4 DEF DiskForm
 <2> HIDE DEF bound, seen
 <2>6. /\ page \in TabForm /\ page.open = tabs[t].open /\ page.bound = g /\ page.mek = Unset /\ page.edit = Unset
       /\ page.deaf = tabs[t].deaf /\ page.wizard = tabs[t].wizard /\ page.task = tabs[t].task
       /\ page.purge = [at |-> 1, ok |-> TRUE, gen |-> g, wizard |-> TRUE] BY <2>2, <2>3, PurgingPage
 <2>7. /\ disk \in DiskForm /\ disk.marker = Observed(old.marker, g) /\ disk.stored = old.stored
       /\ \A k \in Kept : disk.kept[k] = IF k = "draft" THEN Unset ELSE old.kept[k] BY <2>5, DraftsGo
 <2> HIDE DEF page, disk
 <2>8. GenForm' BY <1>0, <1>1, <1>5, <2>1, <2>6, <2>7 DEF GenForm
 <2>9. TargetMinted(page.wizard, minted') BY <1>0, <2>6, Typed
 <2>10. ASSUME PurgesWork, PagesSound
        PROVE  /\ Keeps(t)
               /\ TabOk(page, disk, server', homes[t] \in sessions', Quiet') /\ DiskOk(disk, server', Quiet')
  <3>1. TabOk(tabs[t], old, server, in, Quiet') /\ DiskOk(old, server, Quiet') BY <1>5, <2>10, Given, Typed
  <3>2. Keeps(t) BY <1>4, <2>10, <3>1
  <3>3. /\ ~Running(server')
        /\ server' = server \/ (Running(server) /\ Alone(t) /\ server'.gen = server.gen + 1) BY <1>2, <2>10, <3>1
  <3>4. disk.marker.gen = g /\ DiskOk(disk, server', Quiet') BY <1>0, <1>1, <2>7, <3>1, ObservedDisk
  <3>5. disk.kept["draft"] = Unset BY <2>7 DEF Kept
  <3>6. TabOk(page, disk, server', in, Quiet') BY <1>0, <1>1, <2>1, <2>6, <2>7, <3>1, <3>3, <3>4, <3>5, CommittedPage
  <3> QED BY <1>0, <3>2, <3>4, <3>6
 <2>11. /\ tabs'[t] = page /\ \A s \in Tabs : s # t => tabs'[s] = tabs[s] BY <1>0, <2>1 DEF GenForm
 <2>12. /\ faults.calls <= faults'.calls /\ faults.purges <= faults'.purges
        /\ minted <= minted' /\ server'.op.ver <= minted' /\ server'.done <= minted' BY <1>0, <1>1, <1>5, Typed
 <2> QED BY <1>0, <1>3, <2>1, <2>6, <2>7, <2>8, <2>9, <2>10, <2>11, <2>12, Moves
<1>6. CASE Fault /\ UNCHANGED <<disks, tabs>>
 <2>1. /\ faults' \in [calls : Nat, purges : Nat] /\ faults.calls <= faults'.calls /\ faults.purges <= faults'.purges
       /\ ~Quiet' BY <1>6, Typed DEF Fault, Quiet
 <2>2. GenForm' BY <1>0, <1>1, <1>6, <2>1 DEF GenForm
 <2>3. ASSUME PurgesWork, PagesSound
       PROVE  /\ Keeps(t)
              /\ TabOk(tabs[t], old, server', homes[t] \in sessions', Quiet') /\ DiskOk(old, server', Quiet')
  <3>1. TabOk(tabs[t], old, server, in, Quiet') /\ DiskOk(old, server, Quiet') BY <2>1, <2>3, Given
  <3>2. Keeps(t) BY <1>4, <2>3, <3>1
  <3>3. /\ ~Running(server')
        /\ server' = server \/ (Running(server) /\ Alone(t) /\ server'.gen = server.gen + 1) BY <1>2, <2>3, <3>1
  <3>4. DiskOk(old, server', Quiet') BY <1>0, <1>1, <3>1, DiskStays
  <3>5. TabOk(tabs[t], old, server', in, Quiet')
   <4>1. CASE server' = server BY <3>1, <4>1
   <4>2. CASE Running(server) /\ server'.gen = server.gen + 1 BY <1>0, <1>1, <2>1, <3>1, <3>3, <4>2, ReplyLost
   <4> QED BY <3>3, <4>1, <4>2
  <3> QED BY <1>0, <3>2, <3>4, <3>5
 <2>4. /\ tabs'[t] = tabs[t] /\ \A s \in Tabs : tabs'[s] = tabs[s]
       /\ disks' = [disks EXCEPT ![homes[t]] = old] BY <1>0, <1>6 DEF GenForm
 <2>5. minted <= minted' /\ server'.op.ver <= minted' /\ server'.done <= minted' /\ TargetMinted(tabs[t].wizard, minted')
   BY <1>0, <1>1, Typed
 <2> QED BY <1>0, <1>3, <2>1, <2>2, <2>3, <2>4, <2>5, Moves
<1> QED BY <1>5, <1>6 DEF Activate

-----------------------------------------------------------------------------
(* Every behaviour.                                                        *)

\* The first state is sound.
LEMMA GenInitSound == GenInit => GenInv
<1> SUFFICES ASSUME GenInit PROVE GenInv OBVIOUS
<1>0. MaxGen \in Nat /\ MaxGen + 1 \in Known /\ 0 \in Known /\ 0 \in Generation
  BY GenerationsAssumption DEF Known, Unset, Generation
<1>1. /\ NoOperation \in [ver : Nat, fence : Nat, staged : BOOLEAN, confirmed : BOOLEAN]
      /\ NoOperation.ver = 0 /\ ~NoOperation.confirmed BY DEF NoOperation
<1>2. server \in ServerForm /\ server.gen = 0 /\ server.mek = 0 /\ server.row = 0 /\ server.op = NoOperation /\ server.done = 0
  BY <1>0, <1>1 DEF GenInit, ServerForm
<1>3. EmptyDisk \in DiskForm BY <1>0 DEF EmptyDisk, DiskForm, NoMarker, Marker, Unset
<1>4. homes \in [Tabs -> Devices] BY GenerationsAssumption DEF GenInit
<1>5. GenForm BY <1>2, <1>3, <1>4, Nothings DEF GenInit, GenForm, Running
<1>6. SharesWereMinted BY <1>1, <1>2, Nothings DEF GenInit, SharesWereMinted, Shut
<1>7. WayIn BY <1>1, <1>2 DEF WayIn
<1>8. ASSUME NEW quiet PROVE DiskOk(EmptyDisk, server, quiet) BY DEF DiskOk, EmptyDisk, NoMarker
<1>9. \A d \in Devices : disks[d] = EmptyDisk BY DEF GenInit
<1>10. \A t \in Tabs : tabs[t] = Shut /\ heard[t] = {} BY DEF GenInit
<1>11. ASSUME NEW disk, NEW in, NEW quiet PROVE TabOk(Shut, disk, server, in, quiet) BY Nothings DEF TabOk
<1>12. RowIsCurrent /\ ~Running(server) BY <1>2 DEF RowIsCurrent, Running
<1>13. PagesSound
  BY <1>8, <1>9, <1>10, <1>11, <1>12 DEF PagesSound
<1> QED BY <1>5, <1>6, <1>7, <1>13 DEF GenInv, Basics

\* Nothing depends on anything else than the variables.
LEMMA GenStutterKeeps ==
  ASSUME GenInv, UNCHANGED genVars
  PROVE  GenInv'
<1>1. UNCHANGED <<server, sessions, disks, tabs, heard, files, homes, minted, tasks, faults>> BY DEF genVars
<1>2. Basics' BY <1>1 DEF GenInv, Basics, GenForm, SharesWereMinted, WayIn
<1>3. PurgesWork' => PurgesWork BY <1>1 DEF PurgesWork, OnePageEach
<1>4. PagesSound => PagesSound' BY <1>1 DEF PagesSound, RowIsCurrent, Quiet, Disk, Home, SignedIn
<1> QED BY <1>2, <1>3, <1>4 DEF GenInv

\* A step of a page keeps everything sound.
LEMMA TabStepKeeps ==
  ASSUME GenInv, NEW t \in Tabs, TabStep(t)
  PROVE  GenInv'
BY LoadKeeps, CloseTabKeeps, LocksKeep, OpenEditorKeeps, CheckpointKeeps, DiscardKeeps, TrustKeeps, FilesKeep DEF TabStep

\* So does a step of its request.
LEMMA RequestStepKeeps ==
  ASSUME GenInv, NEW t \in Tabs, RequestStep(t)
  PROVE  GenInv'
BY AskKeeps, SealKeeps, SendKeeps, SubmitKeeps, GiveUpTaskKeeps, ServeRequestKeeps, LoseRequestKeeps, ReceiveKeeps, RefusedKeeps,
   ExpelledKeeps, FailTaskKeeps, ResolveKeeps, LearnGenerationKeeps, HearGenerationKeeps DEF RequestStep

\* And a step of its purge or of its wizard.
LEMMA WizardSideKeeps ==
  ASSUME GenInv, NEW t \in Tabs, WizardStep(t)
  PROVE  GenInv'
BY PurgeItemKeeps, PurgeEndsKeeps, OpenWizardKeeps, LeaveWizardKeeps, RevokeOthersKeeps, ScanDraftsKeeps, SetCredentialsKeeps,
   BeginRotationKeeps, ProcessKeeps, FilesKeep, ConfirmRecoveryKeeps, ActivateKeeps, CancelRotationKeeps DEF WizardStep

\* What is sound leaves a way in, and no browser with what it made of an older key.
LEMMA SoundLeavesAWayIn ==
  ASSUME GenInv
  PROVE  RotationLeavesAWayIn
<1>1. ProfileKeepsItsKey BY DEF GenInv, Basics, WayIn, ProfileKeepsItsKey
<1>2. RecoveryFileOpens BY DEF GenInv, Basics, WayIn, SavedFor, RecoveryFileOpens, Opening
<1>3. ASSUME OnePageEach, faults.purges = 0
      PROVE  RowIsCurrent /\ \A k \in Kept : k # "draft" \/ faults.calls = 0 => NothingOlder(k)
 <2>1. PagesSound BY <1>3 DEF GenInv, PurgesWork
 <2>2. ASSUME NEW k \in Kept, k # "draft" \/ faults.calls = 0, NEW d \in Devices,
              disks[d].marker.reconciled, disks[d].marker # NoMarker, disks[d].kept[k] # Unset
       PROVE  disks[d].kept[k] >= disks[d].marker.gen
   BY <2>2, DiskNumbers, <2>1 DEF GenInv, Basics, GenForm, PagesSound, DiskOk, Young, Quiet
 <2> QED BY <2>1, <2>2 DEF PagesSound, NothingOlder
<1> QED BY <1>1, <1>2, <1>3 DEF RotationLeavesAWayIn, OnePageIsSafe

\* A rotation never leaves the vault without a way in: the profile gives the
\* key of the generation, a recovery file opens what an activation made, and,
\* with one page in each browser and no failed purge, what is stored is under
\* the present key and a reconciled browser keeps nothing older
\* (src/lib/rotation/wizard.ts, src/lib/encryptionReconcile.ts).
THEOREM RotationsLeaveAWayIn == GenSpec => []RotationLeavesAWayIn
<1>1. GenInv /\ [GenNext]_genVars => GenInv'
 <2> SUFFICES ASSUME GenInv, [GenNext]_genVars PROVE GenInv' OBVIOUS
 <2>1. ASSUME NEW t \in Tabs, TabStep(t) \/ RequestStep(t) \/ WizardStep(t) PROVE GenInv'
   BY <2>1, TabStepKeeps, RequestStepKeeps, WizardSideKeeps
 <2>2. ASSUME NEW d \in Devices, SignOut(d) \/ SignIn(d) PROVE GenInv' BY <2>2, SignOutKeeps, SignInKeeps
 <2>3. CASE UNCHANGED genVars BY <2>3, GenStutterKeeps
 <2> QED BY <2>1, <2>2, <2>3 DEF GenNext
<1> QED BY <1>1, GenInitSound, SoundLeavesAWayIn, PTL DEF GenSpec
=================================================================================
