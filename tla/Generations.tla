------------------------------ MODULE Generations ------------------------------
(***************************************************************************)
(* What a rotation of the keys is to the browser: the wizard that drives   *)
(* it (src/lib/rotation/wizard.ts), the generation each page claims and    *)
(* the marker its browser keeps (src/lib/encryptionGeneration.ts), the     *)
(* purge that follows an activation (src/lib/encryptionReconcile.ts), and  *)
(* the vault key a page holds meanwhile                                    *)
(* (src/contexts/EncryptionContext.tsx).                                   *)
(*                                                                         *)
(* The key of the vault is named by the generation it belongs to.  A pair  *)
(* of shares that gives it is named by a number: the device share of one   *)
(* number and the server share of another give nothing.  What the server   *)
(* does with the records meanwhile is in KeyRotation; here it has one row, *)
(* and its activation re-encrypts it.                                      *)
(***************************************************************************)
EXTENDS Naturals, FiniteSets

CONSTANTS
  Tabs,        \* pages of the app
  Devices,     \* browser profiles, each with one storage and one session
  Homes,       \* the ways the pages may be spread over the browsers
  MaxGen,      \* bound: the last generation
  MaxShares,   \* bound: pairs of shares ever made
  MaxTasks,    \* bound: requests, launches and settings of a page
  MaxFaults,   \* bound: requests, replies and purge steps that fail
  Stored       \* the account opted in to unlocking without a network

ASSUME GenerationsAssumption ==
  /\ Homes \subseteq [Tabs -> Devices] /\ Homes # {}
  /\ MaxGen \in Nat /\ MaxShares \in Nat \ {0} /\ MaxTasks \in Nat /\ MaxFaults \in Nat /\ Stored \in BOOLEAN

VARIABLES
  server,     \* encryptionStates, the profile, one encrypted row and the operation
  sessions,   \* browsers whose session is alive on the server
  disks,      \* what each browser keeps: the marker and what the old key made
  tabs,       \* the pages
  heard,      \* generations announced to a page and not yet handled
  files,      \* recovery files the user has saved
  homes,      \* the browser of each page
  minted,     \* pairs of shares made so far
  tasks,      \* how much of MaxTasks is used
  faults      \* how much of MaxFaults is used, by requests and by purges

genVars == <<server, sessions, disks, tabs, heard, files, homes, minted, tasks, faults>>

Generation == 0..MaxGen
Unset      == MaxGen + 1            \* no generation, no key, nothing kept
Known      == 0..Unset
Share      == 0..MaxShares          \* 0: none
Kept       == {"draft", "material", "authenticator", "cache"}

\* rotation_operations as a page sees it, with the share it would activate.
Operation   == [ver : Share, fence : 0..MaxTasks, staged : BOOLEAN, confirmed : BOOLEAN]
NoOperation == [ver |-> 0, fence |-> 0, staged |-> FALSE, confirmed |-> FALSE]
Server      == [gen : Generation, mek : Generation, ver : Share, row : Generation, op : Operation, done : Share]

Marker   == [gen : Known, reconciled : BOOLEAN]
NoMarker == [gen |-> Unset, reconciled |-> TRUE]
Storage  == [marker : Marker, kept : [Kept -> Known], stored : Share]

Wizard ==
  [step : {"off", "sessions", "drafts", "credentials", "confirm", "running", "recovery", "commit", "done"},
   gen : Known, op : Share, fence : 0..MaxTasks, target : Share]
NoWizard == [step |-> "off", gen |-> Unset, op |-> 0, fence |-> 0, target |-> 0]

\* One request of a page, from what it was made with to what came back.
Task ==
  [kind : {"none", "list", "save", "unlock", "rehydrate", "verify", "recover", "update", "sync"},
   at : {"idle", "sealing", "sent", "answered", "syncing", "synced", "verified"},
   header : Known, key : Known, ver : Share, known : BOOLEAN, again : BOOLEAN,
   result : {"none", "ok", "mismatch", "refused", "unauthorized", "failed"}]
NoTask ==
  [kind |-> "none", at |-> "idle", header |-> Unset, key |-> Unset, ver |-> 0, known |-> FALSE, again |-> FALSE,
   result |-> "none"]

Steps   == 4                        \* material, authenticator, cache, marker
Purge   == [at : 0..Steps, ok : BOOLEAN, gen : Known, wizard : BOOLEAN]
NoPurge == [at |-> 0, ok |-> TRUE, gen |-> Unset, wizard |-> FALSE]

Tab ==
  [open : BOOLEAN, bound : Known, mek : Known, share : Share, soft : BOOLEAN, edit : Known,
   frozen : BOOLEAN, deaf : BOOLEAN, purge : Purge, wizard : Wizard, task : Task]
Shut ==
  [open |-> FALSE, bound |-> Unset, mek |-> Unset, share |-> 0, soft |-> FALSE, edit |-> Unset,
   frozen |-> FALSE, deaf |-> FALSE, purge |-> NoPurge, wizard |-> NoWizard, task |-> NoTask]

GenTypeOK ==
  /\ server \in Server
  /\ sessions \subseteq Devices
  /\ disks \in [Devices -> Storage]
  /\ tabs \in [Tabs -> Tab]
  /\ heard \in [Tabs -> SUBSET Generation]
  /\ \A t \in Tabs : ~tabs[t].open => tabs[t] = Shut /\ heard[t] = {}
  /\ files \subseteq [ver : Share, pending : BOOLEAN]
  /\ homes \in Homes
  /\ minted \in Share
  /\ tasks \in 0..MaxTasks
  /\ faults \in [calls : 0..MaxFaults, purges : 0..MaxFaults]

EmptyDisk == [marker |-> NoMarker, kept |-> [k \in Kept |-> Unset], stored |-> 0]

GenInit ==
  /\ server = [gen |-> 0, mek |-> 0, ver |-> 1, row |-> 0, op |-> NoOperation, done |-> 0]
  /\ sessions = Devices
  /\ disks = [d \in Devices |-> EmptyDisk]
  /\ tabs = [t \in Tabs |-> Shut]
  /\ heard = [t \in Tabs |-> {}]
  /\ files = {}
  /\ homes \in Homes
  /\ minted = 1
  /\ tasks = 0
  /\ faults = [calls |-> 0, purges |-> 0]

-----------------------------------------------------------------------------
(* Pieces *)

Home(t)      == homes[t]
Disk(t)      == disks[Home(t)]
SetTab(t, tab)   == tabs' = [tabs EXCEPT ![t] = tab]
SetTask(t, task) == SetTab(t, [tabs[t] EXCEPT !.task = task])
SetDisk(t, disk) == disks' = [disks EXCEPT ![Home(t)] = disk]
\* The app renders nothing below the provider while a page purges.
Mounted(t)  == tabs[t].open /\ (tabs[t].purge.at = 0 \/ tabs[t].purge.wizard)
Idle(t)     == tabs[t].task.at = "idle"
Spend       == tasks < MaxTasks /\ tasks' = tasks + 1
Failing     == faults.calls + faults.purges < MaxFaults
Fault       == Failing /\ faults' = [faults EXCEPT !.calls = @ + 1]
Alone(t)    == sessions = {Home(t)}
SignedIn(t) == Home(t) \in sessions

\* withVaultRead() and withVaultWrite(); a request without a header is served at
\* generation zero.
Agrees(header) == header = server.gen \/ (header = Unset /\ server.gen = 0)
InProgress     == server.op # NoOperation

\* observeGeneration(): what the marker says of g, and the marker afterwards.
Observation(marker, g) ==
  IF marker = NoMarker THEN "adopted"
  ELSE IF marker.gen # g THEN IF marker.gen > g THEN "diverged" ELSE "advanced"
  ELSE IF marker.reconciled THEN "unchanged" ELSE "advanced"
Observed(marker, g) ==
  IF marker = NoMarker THEN [gen |-> g, reconciled |-> TRUE]
  ELSE IF marker.gen = g THEN marker ELSE [gen |-> g, reconciled |-> FALSE]
\* completeReconciliation()
Completed(marker, g) ==
  IF marker # NoMarker /\ marker.gen # g THEN marker ELSE [gen |-> g, reconciled |-> TRUE]

\* reconcileToGeneration() up to its first await: the shares of this page and
\* the encrypted drafts go at once, what the page shows goes with it.
Purging(tab, g, wizard) ==
  [tab EXCEPT !.share = 0, !.soft = FALSE, !.mek = Unset, !.edit = IF wizard THEN Unset ELSE @,
              !.purge = [at |-> 1, ok |-> TRUE, gen |-> g, wizard |-> wizard]]
WithoutDrafts(disk) == [disk EXCEPT !.kept.draft = Unset]

Launched(tab, marker) ==
  LET page == [tab EXCEPT !.open = TRUE, !.bound = marker.gen, !.mek = Unset, !.edit = Unset,
                          !.frozen = FALSE, !.deaf = FALSE, !.purge = NoPurge, !.wizard = NoWizard, !.task = NoTask]
  IN  IF marker.reconciled THEN page ELSE [Purging(page, marker.gen, FALSE) EXCEPT !.deaf = TRUE]

-----------------------------------------------------------------------------
(* A page opens, reloads and closes; its browser signs in and out *)

\* EncryptionGenerationProvider on a load: the generation is bound while it
\* renders, a purge cut short is resumed, a browser without a marker asks.
Load(t, tab) ==
  LET page == Launched(tab, Disk(t).marker)
  IN  /\ SetTab(t, IF Disk(t).marker = NoMarker
                   THEN [page EXCEPT !.task = [NoTask EXCEPT !.kind = "sync", !.at = "syncing", !.known = TRUE]]
                   ELSE page)
      /\ SetDisk(t, IF Disk(t).marker.reconciled THEN Disk(t) ELSE WithoutDrafts(Disk(t)))
      /\ heard' = [heard EXCEPT ![t] = {}]
Launch(t) ==
  /\ ~tabs[t].open /\ SignedIn(t) /\ Spend
  /\ Load(t, Shut)
  /\ UNCHANGED <<server, sessions, files, homes, minted, faults>>
\* sessionStorage lives through a reload and dies with the page.
Reload(t) ==
  /\ tabs[t].open /\ Spend
  /\ Load(t, tabs[t])
  /\ UNCHANGED <<server, sessions, files, homes, minted, faults>>
CloseTab(t) ==
  /\ tabs[t].open
  /\ SetTab(t, Shut)
  /\ heard' = [heard EXCEPT ![t] = {}]
  /\ UNCHANGED <<server, sessions, disks, files, homes, minted, tasks, faults>>

\* A sign-out reaches every page of the browser and SessionCleanup empties its
\* storage; only one the user asked for takes the drafts.
SignedOut(d, drafts) ==
  /\ tabs' = [t \in Tabs |-> IF homes[t] = d THEN Shut ELSE tabs[t]]
  /\ heard' = [t \in Tabs |-> IF homes[t] = d THEN {} ELSE heard[t]]
  /\ disks' = [disks EXCEPT ![d].kept = [k \in Kept |-> IF k = "draft" /\ ~drafts THEN @[k] ELSE Unset], ![d].stored = 0]
SignOut(d) ==
  /\ d \in sessions
  /\ SignedOut(d, TRUE)
  /\ sessions' = sessions \ {d}
  /\ UNCHANGED <<server, files, homes, minted, tasks, faults>>
SignIn(d) ==
  /\ d \notin sessions /\ Spend
  /\ \A t \in Tabs : homes[t] = d => ~tabs[t].open
  /\ sessions' = sessions \cup {d}
  /\ UNCHANGED <<server, disks, tabs, heard, files, homes, minted, faults>>

-----------------------------------------------------------------------------
(* The vault key of a page, and an editor that is open *)

\* EncryptionContext.lock() and softLock(), and the timers that call them.
Lock(t) ==
  /\ Mounted(t) /\ tabs[t].mek # Unset
  /\ SetTab(t, [tabs[t] EXCEPT !.mek = Unset, !.share = 0, !.soft = FALSE, !.edit = Unset])
  /\ UNCHANGED <<server, sessions, disks, heard, files, homes, minted, tasks, faults>>
SoftLock(t) ==
  /\ Mounted(t) /\ tabs[t].mek # Unset
  /\ SetTab(t, [tabs[t] EXCEPT !.mek = Unset, !.soft = TRUE])
  /\ UNCHANGED <<server, sessions, disks, heard, files, homes, minted, tasks, faults>>
\* A soft lock that lasted too long is a lock.
Escalate(t) ==
  /\ Mounted(t) /\ tabs[t].soft
  /\ SetTab(t, [tabs[t] EXCEPT !.share = 0, !.soft = FALSE, !.edit = Unset])
  /\ UNCHANGED <<server, sessions, disks, heard, files, homes, minted, tasks, faults>>

OpenEditor(t) ==
  /\ Mounted(t) /\ tabs[t].mek # Unset /\ tabs[t].edit = Unset /\ tabs[t].wizard.step = "off" /\ Spend
  /\ SetTab(t, [tabs[t] EXCEPT !.edit = tabs[t].mek])
  /\ UNCHANGED <<server, sessions, disks, heard, files, homes, minted, faults>>
\* saveDraft(): the editor keeps the key it derived, whatever is locked since;
\* it also writes as it unmounts.
Checkpoint(t) ==
  /\ tabs[t].open /\ tabs[t].edit # Unset /\ ~tabs[t].frozen
  /\ SetDisk(t, [Disk(t) EXCEPT !.kept.draft = tabs[t].edit])
  /\ \/ UNCHANGED tabs
     \/ SetTab(t, [tabs[t] EXCEPT !.edit = Unset])
  /\ UNCHANGED <<server, sessions, heard, files, homes, minted, tasks, faults>>
CloseEditor(t) ==
  /\ tabs[t].open /\ tabs[t].edit # Unset
  /\ SetTab(t, [tabs[t] EXCEPT !.edit = Unset])
  /\ UNCHANGED <<server, sessions, disks, heard, files, homes, minted, tasks, faults>>
DiscardDraft(t) ==
  /\ Mounted(t) /\ Disk(t).kept.draft # Unset
  /\ SetDisk(t, WithoutDrafts(Disk(t)))
  /\ UNCHANGED <<server, sessions, tabs, heard, files, homes, minted, tasks, faults>>
\* A page that trusts the device keeps the authenticator's key.
Trust(t) ==
  /\ Mounted(t) /\ tabs[t].mek # Unset /\ tabs[t].wizard.step = "off"
  /\ SetDisk(t, [Disk(t) EXCEPT !.kept.authenticator = tabs[t].mek])
  /\ UNCHANGED <<server, sessions, tabs, heard, files, homes, minted, tasks, faults>>
\* The recovery file of the page for a backup: the share this page holds.
Backup(t) ==
  /\ Mounted(t) /\ Idle(t) /\ tabs[t].mek # Unset /\ tabs[t].share # 0
  /\ files' = files \cup {[ver |-> tabs[t].share, pending |-> FALSE]}
  /\ UNCHANGED <<server, sessions, disks, tabs, heard, homes, minted, tasks, faults>>

-----------------------------------------------------------------------------
(* One request of a page *)

Asking(t, kind) == [NoTask EXCEPT !.kind = kind, !.at = "sent", !.header = tabs[t].bound]
Ask(t) ==
  /\ Mounted(t) /\ Idle(t) /\ Spend
  /\ \E kind \in {"list", "unlock", "rehydrate", "verify", "recover"} :
       /\ kind # "list" => tabs[t].wizard.step = "off"
       /\ kind \in {"unlock", "rehydrate"} => tabs[t].mek = Unset
       /\ kind = "rehydrate" => tabs[t].share # 0
       /\ kind = "recover" => tabs[t].share = 0 /\ files # {}
       /\ SetTask(t, Asking(t, kind))
  /\ UNCHANGED <<server, sessions, disks, heard, files, homes, minted, faults>>
\* A save seals with the key the page holds, and is sent when it has sealed.
Seal(t) ==
  /\ Mounted(t) /\ Idle(t) /\ tabs[t].mek # Unset /\ tabs[t].wizard.step = "off" /\ Spend
  /\ SetTask(t, [NoTask EXCEPT !.kind = "save", !.at = "sealing", !.key = tabs[t].mek])
  /\ UNCHANGED <<server, sessions, disks, heard, files, homes, minted, faults>>
Send(t) ==
  /\ tabs[t].task.at = "sealing"
  /\ SetTask(t, [tabs[t].task EXCEPT !.at = "sent", !.header = tabs[t].bound])
  /\ UNCHANGED <<server, sessions, disks, heard, files, homes, minted, tasks, faults>>
\* updateEncryptionPassphrase(): new shares for the key that was verified.
Submit(t) ==
  /\ Mounted(t) /\ tabs[t].task.at = "verified" /\ minted < MaxShares
  /\ minted' = minted + 1
  /\ SetTask(t, [tabs[t].task EXCEPT !.kind = "update", !.at = "sent", !.header = tabs[t].bound, !.ver = minted + 1])
  /\ UNCHANGED <<server, sessions, disks, heard, files, homes, tasks, faults>>
GiveUpTask(t) ==
  /\ tabs[t].task.at = "verified"
  /\ SetTask(t, NoTask)
  /\ UNCHANGED <<server, sessions, disks, heard, files, homes, minted, tasks, faults>>

\* updateProfile() refuses shares of another key than the profile names.
AnyKey(key)  == TRUE
SameKey(key) == key = server.mek

\* The server's side of a request.
Result(t) ==
  LET task == tabs[t].task
  IN  IF ~SignedIn(t) THEN "unauthorized"
      ELSE IF task.kind \in {"save", "update"} /\ InProgress THEN "refused"
      ELSE IF ~Agrees(task.header) THEN "mismatch"
      ELSE IF task.kind = "update" /\ ~SameKey(task.key) THEN "refused" ELSE "ok"
ServeRequest(t) ==
  /\ tabs[t].task.at = "sent"
  /\ LET task == tabs[t].task
         answer == [task EXCEPT !.at = "answered", !.result = Result(t)]
     IN  IF Result(t) # "ok" THEN SetTask(t, answer) /\ UNCHANGED server
         ELSE CASE task.kind = "list" -> SetTask(t, [answer EXCEPT !.key = server.row]) /\ UNCHANGED server
                [] task.kind = "save" -> SetTask(t, answer) /\ server' = [server EXCEPT !.row = task.key]
                [] task.kind = "update" -> SetTask(t, answer) /\ server' = [server EXCEPT !.mek = task.key, !.ver = task.ver]
                [] OTHER -> SetTask(t, [answer EXCEPT !.key = server.mek, !.ver = server.ver]) /\ UNCHANGED server
  /\ UNCHANGED <<sessions, disks, heard, files, homes, minted, tasks, faults>>
\* The network fails before or after the server has acted.
LoseRequest(t) ==
  /\ tabs[t].task.at \in {"sent", "answered"} /\ tabs[t].task.result # "failed" /\ Fault
  /\ SetTask(t, [tabs[t].task EXCEPT !.at = "answered", !.result = "failed"])
  /\ UNCHANGED <<server, sessions, disks, heard, files, homes, minted, tasks>>

\* reconstructMek(): the two shares have to belong together.  A passphrase
\* gives the device share of the material it is used with.
Unlocked(t, task, key, ver) ==
  LET tab  == [tabs[t] EXCEPT !.task = NoTask]
      mine == task.kind = "unlock" \/ tab.share = ver
  IN  SetTab(t, [tab EXCEPT !.mek = IF mine /\ Mounted(t) THEN key ELSE @,
                            !.share = IF mine THEN ver ELSE 0,
                            !.soft = IF mine THEN FALSE ELSE @])
\* A response made under another generation than the page now claims is dropped.
Late(t)    == tabs[t].task.kind # "sync" /\ tabs[t].task.header # tabs[t].bound
Usable(t)  == tabs[t].task.result = "ok" /\ ~Late(t)
Resolves(t) == tabs[t].task.kind \in {"unlock", "rehydrate"}
Answered(t) == tabs[t].task.at = "answered"

\* The recovery files whose share goes with that of the server.
Opening(ver) == {file \in files : file.ver = ver}

Receive(t) ==
  /\ Answered(t) /\ Usable(t)
  /\ LET task == tabs[t].task
     IN  CASE task.kind = "list" -> SetDisk(t, [Disk(t) EXCEPT !.kept.cache = task.key]) /\ SetTask(t, NoTask)
           [] task.kind = "save" -> SetTask(t, NoTask) /\ UNCHANGED disks
           [] task.kind \in {"verify", "recover"} ->
                /\ SetTask(t, IF task.kind = "verify" \/ Opening(task.ver) # {}
                              THEN [task EXCEPT !.kind = "verify", !.at = "verified", !.result = "none"] ELSE NoTask)
                /\ UNCHANGED disks
           [] task.kind = "update" ->
                /\ SetTab(t, [tabs[t] EXCEPT !.share = task.ver, !.task = NoTask])
                /\ SetDisk(t, [Disk(t) EXCEPT !.kept.material = IF Stored THEN task.key ELSE Unset,
                                              !.stored = IF Stored THEN task.ver ELSE 0])
           [] OTHER ->
                /\ Unlocked(t, task, task.key, task.ver)
                /\ SetDisk(t, [Disk(t) EXCEPT !.kept.material = IF Stored THEN task.key ELSE Unset,
                                              !.stored = IF Stored THEN task.ver ELSE 0])
  /\ UNCHANGED <<server, sessions, heard, files, homes, minted, tasks, faults>>
\* generationLink: the first refusal of its generation makes a page ask for it.
Refused(t) ==
  /\ Answered(t) /\ tabs[t].task.result = "mismatch" /\ ~tabs[t].task.again
  /\ SetTask(t, [tabs[t].task EXCEPT !.at = "syncing", !.known = Disk(t).marker # NoMarker])
  /\ UNCHANGED <<server, sessions, disks, heard, files, homes, minted, tasks, faults>>
\* handleUnauthorized()
Expelled(t) ==
  /\ Answered(t) /\ tabs[t].task.result = "unauthorized"
  /\ SignedOut(Home(t), FALSE)
  /\ UNCHANGED <<server, sessions, files, homes, minted, tasks, faults>>
\* Any other failure ends the request; an unlock falls back on what the device
\* was allowed to keep.
FailTask(t) ==
  /\ Answered(t) /\ tabs[t].task.result # "unauthorized" /\ ~Usable(t)
  /\ ~(tabs[t].task.result = "mismatch" /\ ~tabs[t].task.again)
  /\ IF Resolves(t) /\ Disk(t).stored # 0
     THEN Unlocked(t, tabs[t].task, Disk(t).kept.material, Disk(t).stored)
     ELSE SetTask(t, NoTask)
  /\ UNCHANGED <<server, sessions, disks, heard, files, homes, minted, tasks, faults>>

\* syncGeneration(): the server is asked, and what it said is recorded later.
\* A browser without a marker is assumed to get its answer before it goes on.
Resolve(t) ==
  /\ tabs[t].task.at = "syncing"
  /\ \/ SignedIn(t) /\ SetTask(t, [tabs[t].task EXCEPT !.at = "synced", !.key = server.gen]) /\ UNCHANGED faults
     \/ ((Fault /\ tabs[t].task.kind # "sync") \/ (~SignedIn(t) /\ UNCHANGED faults))
        /\ SetTask(t, [tabs[t].task EXCEPT !.at = "answered", !.result = "failed", !.again = TRUE])
  /\ UNCHANGED <<server, sessions, disks, heard, files, homes, minted, tasks>>

OthersEver(t) == {s \in Tabs \ {t} : homes[s] = Home(t)}
Others(t) == {s \in Tabs \ {t} : homes[s] = Home(t) /\ tabs[s].open /\ ~tabs[s].deaf}
Broadcast(t, g) == [s \in Tabs |-> IF s \in Others(t) THEN heard[s] \cup {g} ELSE heard[s]]

\* A page learns g, from the server or from another page; it purges unless the
\* marker already says that this was done.
Told(t, tab, g) ==
  LET news   == Observation(Disk(t).marker, g) \in {"advanced", "diverged"}
      starts == news /\ ~tab.deaf /\ tab.purge.at = 0
      disk   == [Disk(t) EXCEPT !.marker = Observed(@, g)]
      bound  == [tab EXCEPT !.bound = g]
  IN  /\ SetTab(t, IF starts THEN Purging(bound, g, FALSE) ELSE bound)
      /\ SetDisk(t, IF starts THEN WithoutDrafts(disk) ELSE disk)
LearnGeneration(t) ==
  /\ tabs[t].task.at = "synced"
  /\ LET task == tabs[t].task
         g    == task.key
         what == Observation(Disk(t).marker, g)
         next == IF task.kind = "sync" THEN NoTask
                 ELSE IF ~task.known /\ what = "adopted" THEN [task EXCEPT !.at = "sent", !.header = g, !.again = TRUE,
                                                                          !.key = Unset, !.result = "none"]
                 ELSE [task EXCEPT !.at = "answered", !.result = "failed", !.again = TRUE]
     IN  /\ Told(t, [tabs[t] EXCEPT !.task = next], g)
         /\ heard' = IF what \in {"advanced", "diverged"} THEN Broadcast(t, g) ELSE heard
  /\ UNCHANGED <<server, sessions, files, homes, minted, tasks, faults>>
HearGeneration(t) ==
  \E g \in heard[t] :
    /\ Told(t, tabs[t], g)
    /\ heard' = [heard EXCEPT ![t] = @ \ {g}]
    /\ UNCHANGED <<server, sessions, files, homes, minted, tasks, faults>>

-----------------------------------------------------------------------------
(* The purge *)

Items == <<"material", "authenticator", "cache">>
PurgeItem(t) ==
  LET purge == tabs[t].purge
  IN  /\ purge.at \in DOMAIN Items
      /\ \/ /\ SetTab(t, [tabs[t] EXCEPT !.purge.at = @ + 1])
            /\ SetDisk(t, [Disk(t) EXCEPT !.kept[Items[purge.at]] = Unset,
                                          !.stored = IF Items[purge.at] = "material" THEN 0 ELSE @])
            /\ UNCHANGED faults
         \/ /\ Failing /\ faults' = [faults EXCEPT !.purges = @ + 1]
            /\ SetTab(t, [tabs[t] EXCEPT !.purge.at = @ + 1, !.purge.ok = FALSE])
            /\ UNCHANGED disks
      /\ UNCHANGED <<server, sessions, heard, files, homes, minted, tasks>>
\* The pages that show the wizard hear of a freeze and of its end.
Frozen(t, on, pages) ==
  [s \in Tabs |->
     IF s = t \/ (homes[s] = Home(t) /\ pages[s].open /\ pages[s].wizard.step # "off")
     THEN [pages[s] EXCEPT !.frozen = on] ELSE pages[s]]
\* reconcileToGeneration() completes the marker when every step has worked.
PurgedAnyway(purge) == TRUE
Purged(purge) == purge.ok
\* The marker is completed last.  The provider then reloads its page; the
\* wizard tells the other pages and is done.  A purge that failed leaves it.
PurgeEnds(t) ==
  LET purge == tabs[t].purge
      disk  == [Disk(t) EXCEPT !.marker = Completed(@, purge.gen)]
      page  == [tabs[t] EXCEPT !.purge = NoPurge,
                               !.bound = IF Purged(purge) /\ Disk(t).marker.gen = purge.gen THEN purge.gen ELSE @]
  IN  /\ purge.at = Steps
      /\ IF ~Purged(purge) THEN SetTab(t, page) /\ UNCHANGED <<disks, heard>>
         ELSE /\ SetDisk(t, disk)
              /\ IF purge.wizard
                 THEN /\ heard' = Broadcast(t, purge.gen)
                      /\ tabs' = Frozen(t, FALSE,
                           [tabs EXCEPT ![t] = [page EXCEPT !.wizard.step = IF @ = "commit" THEN "done" ELSE @]])
                 ELSE SetTab(t, Launched(page, disk.marker)) /\ heard' = [heard EXCEPT ![t] = {}]
      /\ UNCHANGED <<server, sessions, files, homes, minted, tasks, faults>>

-----------------------------------------------------------------------------
(* The wizard *)

SetWizard(t, wizard) == SetTab(t, [tabs[t] EXCEPT !.wizard = wizard])
\* The token of a worker call is the one this wizard was given.
Owns(t) == server.op.ver = tabs[t].wizard.op /\ server.op.fence = tabs[t].wizard.fence /\ InProgress

\* load(): an operation that is under way is taken up, prerequisites first.
\* Navigation has closed the editor; what the page asked before is assumed over.
OpenWizard(t) ==
  /\ Mounted(t) /\ SignedIn(t) /\ Agrees(tabs[t].bound) /\ Spend
  /\ tabs[t].wizard.step \in {"off", "done"} /\ tabs[t].edit = Unset /\ Idle(t)
  /\ SetWizard(t, [NoWizard EXCEPT !.step = "sessions", !.gen = server.gen, !.op = server.op.ver, !.fence = server.op.fence])
  /\ UNCHANGED <<server, sessions, disks, heard, files, homes, minted, faults>>
\* dispose(), when the page leaves: nothing thaws.  The purge of an activation
\* is assumed to be over before the user goes elsewhere in the app.
LeaveWizard(t) ==
  /\ tabs[t].wizard.step # "off" /\ tabs[t].purge.at = 0
  /\ SetWizard(t, NoWizard)
  /\ UNCHANGED <<server, sessions, disks, heard, files, homes, minted, tasks, faults>>
RevokeOthers(t) ==
  /\ tabs[t].wizard.step = "sessions" /\ SignedIn(t)
  /\ sessions' = {Home(t)}
  /\ SetWizard(t, [tabs[t].wizard EXCEPT !.step = "drafts"])
  /\ UNCHANGED <<server, disks, heard, files, homes, minted, tasks, faults>>
ScanDrafts(t) ==
  /\ tabs[t].wizard.step = "drafts" /\ Disk(t).kept.draft = Unset
  /\ SetWizard(t, [tabs[t].wizard EXCEPT !.step = "credentials"])
  /\ UNCHANGED <<server, sessions, disks, heard, files, homes, minted, tasks, faults>>
\* setCredentials(): the present key is verified against fresh material, and the
\* target is minted, or reopened when the operation already has one.
SetCredentials(t) ==
  /\ tabs[t].wizard.step = "credentials" /\ SignedIn(t) /\ Agrees(tabs[t].bound)
  /\ LET pending == tabs[t].wizard.op
     IN  /\ IF pending = 0 THEN minted < MaxShares /\ minted' = minted + 1 ELSE UNCHANGED minted
         /\ SetWizard(t, [tabs[t].wizard EXCEPT !.step = "confirm", !.target = IF pending = 0 THEN minted + 1 ELSE pending])
  /\ UNCHANGED <<server, sessions, disks, heard, files, homes, tasks, faults>>

\* begin() on the server: claim what exists, or create it.
Claimed(t) ==
  /\ tabs[t].wizard.op # 0 /\ Owns(t) /\ Alone(t) /\ server.op.fence < MaxTasks
  /\ server' = [server EXCEPT !.op.fence = @ + 1]
Begun(t) ==
  /\ tabs[t].wizard.op = 0 /\ ~InProgress /\ Alone(t) /\ server.gen = tabs[t].wizard.gen /\ server.gen < MaxGen
  /\ server' = [server EXCEPT !.op = [NoOperation EXCEPT !.ver = tabs[t].wizard.target, !.fence = 1]]
BeginRotation(t) ==
  LET wizard == tabs[t].wizard
      going  == [wizard EXCEPT !.step = "running", !.op = server'.op.ver, !.fence = server'.op.fence]
  IN  /\ wizard.step = "confirm" /\ SignedIn(t)
      /\ IF Disk(t).kept.draft # Unset \/ ~Alone(t)
         THEN tabs' = Frozen(t, FALSE, tabs) /\ UNCHANGED <<server, faults>>
         ELSE \/ /\ Claimed(t) \/ Begun(t)
                 /\ \/ tabs' = Frozen(t, TRUE, [tabs EXCEPT ![t].wizard = going]) /\ UNCHANGED faults
                    \/ tabs' = Frozen(t, TRUE, tabs) /\ Fault
              \/ Fault /\ tabs' = Frozen(t, TRUE, tabs) /\ UNCHANGED server
      /\ UNCHANGED <<sessions, disks, heard, files, homes, minted, tasks>>
\* process(): the engine opens everything with the old key and stages it.
Process(t) ==
  /\ tabs[t].wizard.step = "running" /\ Owns(t) /\ Alone(t) /\ server.row = server.mek
  /\ server' = [server EXCEPT !.op.staged = TRUE]
  /\ SetWizard(t, [tabs[t].wizard EXCEPT !.step = "recovery"])
  /\ UNCHANGED <<sessions, disks, heard, files, homes, minted, tasks, faults>>
SaveRecovery(t) ==
  /\ tabs[t].wizard.step = "recovery"
  /\ files' = files \cup {[ver |-> tabs[t].wizard.target, pending |-> TRUE]}
  /\ UNCHANGED <<server, sessions, disks, tabs, heard, homes, minted, tasks, faults>>
\* parseAndValidatePendingRecovery(): the file has to be of this operation.
PendingFile(t, file) == file.pending
BoundFile(t, file) == file.pending /\ file.ver = tabs[t].wizard.op
ConfirmRecovery(t) ==
  /\ tabs[t].wizard.step = "recovery" /\ Owns(t) /\ Alone(t)
  /\ \E file \in files : BoundFile(t, file)
  /\ server' = [server EXCEPT !.op.confirmed = TRUE]
  /\ SetWizard(t, [tabs[t].wizard EXCEPT !.step = "commit"])
  /\ UNCHANGED <<sessions, disks, heard, files, homes, minted, tasks, faults>>

\* commit() on the server, once or again.
Activated(t) ==
  \/ /\ Owns(t) /\ Alone(t) /\ server.op.staged /\ server.op.confirmed
     /\ server' = [gen |-> server.gen + 1, mek |-> server.gen + 1, ver |-> server.op.ver, row |-> server.gen + 1,
                   op |-> NoOperation, done |-> server.op.ver]
  \/ server.done = tabs[t].wizard.op /\ SignedIn(t) /\ UNCHANGED server
\* afterCommit(): record, lock, purge; the other pages are told at its end.
AfterCommit(t) ==
  /\ tabs[t].purge.at = 0
  /\ SetTab(t, Purging([tabs[t] EXCEPT !.bound = server'.gen], server'.gen, TRUE))
  /\ SetDisk(t, WithoutDrafts([Disk(t) EXCEPT !.marker = Observed(@, server'.gen)]))
Activate(t) ==
  /\ tabs[t].wizard.step = "commit"
  /\ Activated(t)
  /\ \/ AfterCommit(t) /\ UNCHANGED faults
     \/ Fault /\ UNCHANGED <<disks, tabs>>
  /\ UNCHANGED <<sessions, heard, files, homes, minted, tasks>>
CancelRotation(t) ==
  /\ tabs[t].wizard.step \in {"running", "commit"} /\ Owns(t) /\ Alone(t)
  /\ server' = [server EXCEPT !.op = NoOperation]
  /\ \/ /\ tabs' = Frozen(t, FALSE, [tabs EXCEPT ![t].wizard = [NoWizard EXCEPT !.step = "sessions", !.gen = tabs[t].wizard.gen]])
        /\ UNCHANGED faults
     \/ Fault /\ UNCHANGED tabs
  /\ UNCHANGED <<sessions, disks, heard, files, homes, minted, tasks>>

-----------------------------------------------------------------------------
TabStep(t) ==
  \/ Launch(t) \/ Reload(t) \/ CloseTab(t) \/ Lock(t) \/ SoftLock(t) \/ Escalate(t)
  \/ OpenEditor(t) \/ Checkpoint(t) \/ CloseEditor(t) \/ DiscardDraft(t) \/ Trust(t) \/ Backup(t)
RequestStep(t) ==
  \/ Ask(t) \/ Seal(t) \/ Send(t) \/ Submit(t) \/ GiveUpTask(t) \/ ServeRequest(t) \/ LoseRequest(t)
  \/ Receive(t) \/ Refused(t) \/ Expelled(t) \/ FailTask(t) \/ Resolve(t) \/ LearnGeneration(t) \/ HearGeneration(t)
WizardStep(t) ==
  \/ PurgeItem(t) \/ PurgeEnds(t) \/ OpenWizard(t) \/ LeaveWizard(t) \/ RevokeOthers(t) \/ ScanDrafts(t)
  \/ SetCredentials(t) \/ BeginRotation(t) \/ Process(t) \/ SaveRecovery(t) \/ ConfirmRecovery(t) \/ Activate(t)
  \/ CancelRotation(t)

GenNext ==
  \/ \E t \in Tabs : TabStep(t) \/ RequestStep(t) \/ WizardStep(t)
  \/ \E d \in Devices : SignOut(d) \/ SignIn(d)
GenSpec == GenInit /\ [][GenNext]_genVars

-----------------------------------------------------------------------------
(* Properties *)

\* Every browser has one page.
OnePageEach == \A s, t \in Tabs : homes[s] = homes[t] => s = t

\* The profile always gives the key the records of the generation are under,
\* whichever page, with whatever it holds, changes the passphrase around an
\* activation (updateProfile(), updateEncryptionPassphrase()).
ProfileKeepsItsKey == server.mek = server.gen

\* A vault that a rotation re-keyed can be recovered: among the files the user
\* was made to save is one that opens it, through cancelled and resumed
\* operations and lost replies (confirmRecoveryFile(), buildRecoveryFile()).
RecoveryFileOpens == server.ver = server.done /\ server.done # 0 => \E file \in Opening(server.ver) : file.pending

\* What is stored is under the key of its generation.
RowIsCurrent == server.row = server.gen
\* A browser whose marker is reconciled keeps no such k of an older key.
NothingOlder(k) ==
  \A d \in Devices : disks[d].marker.reconciled /\ disks[d].marker # NoMarker /\ disks[d].kept[k] # Unset =>
    disks[d].kept[k] >= disks[d].marker.gen

\* With one page in each browser, whatever crashed in between and whichever
\* requests and replies were lost (encryptionReconcile.ts): what is stored is
\* under the key of its generation, and a reconciled browser keeps nothing
\* older.  A draft may be older after a failure: a page unlocked by what the
\* device kept, with the generation it had, writes its draft as it unmounts,
\* after the purge took the drafts.
OnePageIsSafe ==
  OnePageEach /\ faults.purges = 0 =>
    /\ RowIsCurrent
    /\ \A k \in Kept : k # "draft" \/ faults.calls = 0 => NothingOlder(k)

\* A page that claims a generation, and is not purging, holds no older key:
\* news of an activation, from wherever it comes, ends in a purge
\* (EncryptionGenerationProvider, observeGeneration()).
NewsPurges ==
  \A t \in Tabs : tabs[t].open /\ tabs[t].mek # Unset /\ tabs[t].bound # Unset /\ tabs[t].purge.at = 0 =>
    tabs[t].mek >= tabs[t].bound

\* A recovery file saved for backup opens the vault of that moment
\* (backup-recovery/page.tsx).
BackupsOpen == [][\A f \in files' \ files : ~f.pending => f.ver = server.ver]_genVars

\* A rotation never leaves the vault without a way in, nor a browser with what it made of an older key.
RotationLeavesAWayIn == ProfileKeepsItsKey /\ RecoveryFileOpens /\ OnePageIsSafe
================================================================================
