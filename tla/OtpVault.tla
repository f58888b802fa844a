------------------------------- MODULE OtpVault -------------------------------
(***************************************************************************)
(* The authenticator: its rows on the server, the key and the copy of them *)
(* a trusted browser keeps, and the pages that show them                   *)
(* (src/controllers/otpRecords.ts, src/lib/otpStore.ts,                    *)
(* src/contexts/OtpVaultContext.tsx).                                      *)
(*                                                                         *)
(* A request of the server and a transaction of IndexedDB are one step     *)
(* each; between two of them any other page may move.  A key is the pair   *)
(* of the profile and the generation it was derived under, and a payload   *)
(* the number of the write that made it.                                   *)
(***************************************************************************)
EXTENDS Naturals, FiniteSets

CONSTANTS
  Cards,       \* ids of credentials
  Windows,     \* pages
  Browsers,    \* browser profiles, each with one IndexedDB
  MaxWrites,   \* bound: requests that change a row
  MaxTurns,    \* bound: rotations and resets of the encryption profile
  MaxWork,     \* bound: operations started and turns together
  MaxBusy,     \* bound: operations under way at once, over all pages
  Watched      \* the browsers whose forgotten vaults are watched

ASSUME OtpAssumption ==
  MaxWrites \in Nat \ {0} /\ MaxTurns \in Nat /\ MaxWork \in Nat /\ MaxBusy \in Nat \ {0} /\ Watched \subseteq Browsers

VARIABLES
  otpRecords,   \* the table
  purged,       \* ids whose tombstone the cleanup has deleted
  profile,      \* the encryption profile's id and the account's generation
  stores,       \* vaults and records of each browser's IndexedDB
  pages,        \* OtpVaultProvider of each page
  home,         \* the browser a page runs in
  writes,       \* how many writes have been made
  work,         \* how much of MaxWork is used
  forgotten     \* browsers that were told to forget and have not enrolled since

otpVars == <<otpRecords, purged, profile, stores, pages, home, writes, work, forgotten>>

MaxRev == 1 + MaxWrites + MaxTurns
Gens   == 0..MaxTurns
Legacy == MaxTurns + 1            \* a vault saved before the field existed
Unknown == Legacy                 \* a browser with no record of the generation
Keys   == [id : 0..(MaxTurns + 1), gen : Gens]
NoKey  == [id |-> 0, gen |-> 0]

OtpRow == [rev : 0..MaxRev, edit : 0..MaxWrites, live : BOOLEAN, gen : Gens]
NoCard == [rev |-> 0, edit |-> 0, live |-> FALSE, gen |-> 0]
NoCards == [c \in Cards |-> NoCard]

Vault   == [id : 0..(MaxTurns + 1), generation : Gens \cup {Legacy}, key : Keys]
NoVault == [id |-> 0, generation |-> 0, key |-> NoKey]
Store   == [vault : Vault, records : [Cards -> OtpRow]]

\* A sync in flight: what it captured, the two answers, the vault it has read.
Sync ==
  [step : {"idle", "asking", "adopt", "adopting", "replace", "stamp", "stamping", "show", "remove", "announce"},
   key : Keys, id : 0..(MaxTurns + 1), persist : BOOLEAN, header : Gens \cup {Unknown}, answers : SUBSET {"list", "profile"},
   rows : [Cards -> OtpRow], reported : Keys, read : Vault]
NoSync ==
  [step |-> "idle", key |-> NoKey, id |-> 0, persist |-> FALSE, header |-> 0, answers |-> {}, rows |-> NoCards,
   reported |-> NoKey, read |-> NoVault]

\* A mutation in flight, with the list its callback closed over.
Write ==
  [step : {"idle", "sent", "replied", "replaced"}, kind : {"create", "update", "remove", "reorder"}, card : Cards,
   header : Gens, key : Keys, seen : [Cards -> OtpRow], next : [Cards -> OtpRow]]
NoWrite ==
  [step |-> "idle", kind |-> "create", card |-> CHOOSE c \in Cards : TRUE, header |-> 0, key |-> NoKey,
   seen |-> NoCards, next |-> NoCards]

Page ==
  [phase : {"closed", "reading", "not-enrolled", "enrolling", "ready"}, key : Keys, id : 0..(MaxTurns + 1),
   generation : Gens \cup {Legacy}, trusted : BOOLEAN, bound : Gens \cup {Unknown}, cached : [Cards -> OtpRow], synced : BOOLEAN,
   told : BOOLEAN, removal : {"none", "remove", "announce"}, sync : Sync, write : Write]
Closed(bound) ==
  [phase |-> "closed", key |-> NoKey, id |-> 0, generation |-> 0, trusted |-> FALSE, bound |-> bound,
   cached |-> NoCards, synced |-> FALSE, told |-> FALSE, removal |-> "none", sync |-> NoSync, write |-> NoWrite]

OtpTypeOK ==
  /\ otpRecords \in [Cards -> OtpRow]
  /\ \A c \in Cards : ~otpRecords[c].live => otpRecords[c] = [NoCard EXCEPT !.rev = otpRecords[c].rev]
  /\ purged \subseteq Cards
  /\ profile \in Keys
  /\ stores \in [Browsers -> Store]
  /\ pages \in [Windows -> Page]
  /\ home \in [Windows -> Browsers]
  /\ writes \in 0..MaxWrites
  /\ work \in 0..MaxWork
  /\ forgotten \subseteq Browsers

\* An account with one credential, and two kinds of device: enrolled, its page
\* synced and open; or holding a vault saved before generations were recorded.
Opened ==
  [Closed(0) EXCEPT !.phase = "ready", !.key = profile, !.id = 1, !.trusted = TRUE, !.cached = otpRecords, !.synced = TRUE]
OtpInit ==
  /\ otpRecords = [c \in Cards |-> IF c = NoWrite.card THEN [NoCard EXCEPT !.rev = 1, !.live = TRUE] ELSE NoCard]
  /\ purged = {}
  /\ profile = [id |-> 1, gen |-> 0]
  /\ home \in [Windows -> Browsers]
  /\ \E old \in SUBSET Browsers :
       /\ \A v, w \in Windows : home[v] = home[w] /\ home[v] \in old => v = w
       /\ stores = [b \in Browsers |->
            [vault |-> [id |-> 1, generation |-> IF b \in old THEN Legacy ELSE 0, key |-> profile],
             records |-> otpRecords]]
       /\ pages = [w \in Windows |-> IF home[w] \in old THEN Closed(Unknown) ELSE Opened]
  /\ writes = 0
  /\ work = 0
  /\ forgotten = {}

-----------------------------------------------------------------------------
(* Pieces *)

StoreOf(w) == stores[home[w]]
SetPage(w, page) == pages' = [pages EXCEPT ![w] = page]
SetSync(w, sync) == SetPage(w, [pages[w] EXCEPT !.sync = sync])
SetWrite(w, write) == SetPage(w, [pages[w] EXCEPT !.write = write])
ReplaceRecords(b, rows) == stores' = [stores EXCEPT ![b].records = rows]
SaveVault(b, vault) == stores' = [stores EXCEPT ![b].vault = vault]
\* removeVault(): the key and the copy go in one transaction.
RemoveVault(b) == stores' = [stores EXCEPT ![b] = [vault |-> NoVault, records |-> NoCards]]

Disarmed(page) ==
  [page EXCEPT !.phase = IF page.phase \in {"reading", "enrolling"} THEN page.phase ELSE "not-enrolled",
               !.key = NoKey, !.trusted = FALSE, !.cached = NoCards, !.synced = FALSE]
\* announceVaultRemoval() reaches every open page of the browser.
Announced(w, page) ==
  [v \in Windows |-> LET p == IF v = w THEN page ELSE pages[v]
                     IN  IF home[v] = home[w] /\ p.phase # "closed" THEN [p EXCEPT !.told = TRUE] ELSE p]
\* withVaultRead() and withVaultWrite(); no header at all stands for zero.
ServesAnyone(header) == header \in Gens \cup {Unknown}
Serves(header) == header = profile.gen \/ (header = Unknown /\ profile.gen = 0)
OtpBusy ==
  {<<w, "page">> : w \in {v \in Windows : pages[v].phase \in {"reading", "enrolling"} \/ pages[v].removal # "none"}}
    \cup {<<w, "sync">> : w \in {v \in Windows : pages[v].sync.step # "idle"}}
    \cup {<<w, "write">> : w \in {v \in Windows : pages[v].write.step # "idle"}}
OtpWorking == work < MaxWork /\ work' = work + 1
MayStart == Cardinality(OtpBusy) < MaxBusy /\ OtpWorking

-----------------------------------------------------------------------------
(* A page opens, enrolls, forgets *)

OpenPage(w) ==
  /\ pages[w].phase = "closed" /\ pages[w].removal = "none" /\ MayStart
  /\ LET vault == StoreOf(w).vault IN
       SetPage(w, IF vault = NoVault THEN [pages[w] EXCEPT !.phase = "not-enrolled"]
                  ELSE [pages[w] EXCEPT !.phase = "reading", !.key = vault.key, !.id = vault.id,
                                        !.generation = vault.generation, !.trusted = TRUE])
  /\ UNCHANGED <<otpRecords, purged, profile, stores, home, writes, forgotten>>

\* loadVault() and loadRecords() are two transactions; nothing rechecks the first.
ReadRecords(w) ==
  /\ pages[w].phase = "reading"
  /\ SetPage(w, [pages[w] EXCEPT !.phase = "ready", !.cached = StoreOf(w).records])
  /\ UNCHANGED <<otpRecords, purged, profile, stores, home, writes, work, forgotten>>

ClosePage(w) ==
  /\ pages[w].phase \in {"not-enrolled", "ready"}
  /\ SetPage(w, Closed(pages[w].bound))
  /\ UNCHANGED <<otpRecords, purged, profile, stores, home, writes, work, forgotten>>

\* enroll(): the key comes from the MEK of the profile the page has unlocked;
\* the request that names the profile carries the generation of that moment.
Enroll(w) ==
  /\ pages[w].phase = "not-enrolled" \/ (pages[w].phase = "ready" /\ ~pages[w].trusted)
  /\ pages[w].removal = "none"
  /\ Serves(pages[w].bound) /\ MayStart
  /\ \E trust \in BOOLEAN :
       /\ SetPage(w, [pages[w] EXCEPT !.phase = "enrolling", !.key = profile, !.id = profile.id,
                                      !.generation = profile.gen, !.trusted = trust])
  /\ UNCHANGED <<otpRecords, purged, profile, stores, home, writes, forgotten>>

Enrolled(w) ==
  /\ pages[w].phase = "enrolling"
  /\ LET page == pages[w] IN
       /\ SetPage(w, [page EXCEPT !.phase = "ready"])
       /\ IF page.trusted
            THEN /\ SaveVault(home[w], [id |-> page.id, generation |-> page.generation, key |-> page.key])
                 /\ forgotten' = forgotten \ {home[w]}
            ELSE UNCHANGED <<stores, forgotten>>
  /\ UNCHANGED <<otpRecords, purged, profile, home, writes, work>>

\* forgetUser(), and the profile page's button: remove, announce, clear.
ForgetVault(w) ==
  /\ pages[w].phase \in {"not-enrolled", "ready"} /\ pages[w].removal = "none"
  /\ StoreOf(w).vault # NoVault /\ MayStart
  /\ SetPage(w, [pages[w] EXCEPT !.removal = "remove"])
  /\ UNCHANGED <<otpRecords, purged, profile, stores, home, writes, forgotten>>

Removed(w) ==
  /\ pages[w].removal = "remove"
  /\ RemoveVault(home[w])
  /\ SetPage(w, [pages[w] EXCEPT !.removal = "announce"])
  /\ forgotten' = forgotten \cup ({home[w]} \cap Watched)
  /\ UNCHANGED <<otpRecords, purged, profile, home, writes, work>>

\* After a reconciliation the page reloads instead.
Announce(w) ==
  /\ pages[w].removal = "announce"
  /\ pages' = Announced(w, IF pages[w].phase = "closed" THEN Closed(pages[w].bound)
                           ELSE [Disarmed(pages[w]) EXCEPT !.removal = "none"])
  /\ UNCHANGED <<otpRecords, purged, profile, stores, home, writes, work, forgotten>>

\* The listener of the vault channel.
Hear(w) ==
  /\ pages[w].told
  /\ SetPage(w, [Disarmed(pages[w]) EXCEPT !.told = FALSE])
  /\ UNCHANGED <<otpRecords, purged, profile, stores, home, writes, work, forgotten>>

\* A refused request tells the browser of a new generation; the page purges
\* what the old key touched and reloads.
Learn(w) ==
  /\ pages[w].bound \notin {profile.gen, Unknown} /\ pages[w].removal = "none" /\ pages[w].phase # "enrolling"
  /\ SetPage(w, [Closed(profile.gen) EXCEPT !.removal = "remove"])
  /\ UNCHANGED <<otpRecords, purged, profile, stores, home, writes, work, forgotten>>

\* A browser with no record of its own takes the number, and a refused sync is
\* asked again under it.  Assumed: the two requests of a batch are refused
\* together, and the number is known before a page has its first snapshot.
Adopt(w) ==
  /\ pages[w].bound = Unknown /\ pages[w].phase # "closed" /\ Cardinality(pages[w].sync.answers) # 1
  /\ LET refused == pages[w].sync.step = "asking" /\ pages[w].sync.answers = {} /\ ~Serves(Unknown) IN
       SetPage(w, [pages[w] EXCEPT !.bound = profile.gen, !.sync.header = IF refused THEN profile.gen ELSE @])
  /\ UNCHANGED <<otpRecords, purged, profile, stores, home, writes, work, forgotten>>

-----------------------------------------------------------------------------
(* sync() *)

StartSync(w) ==
  /\ pages[w].phase = "ready" /\ pages[w].sync.step = "idle" /\ pages[w].key # NoKey /\ MayStart
  /\ LET page == pages[w] IN
       SetSync(w, [NoSync EXCEPT !.step = "asking", !.key = page.key, !.id = page.id,
                                 !.persist = page.trusted, !.header = page.bound])
  /\ UNCHANGED <<otpRecords, purged, profile, stores, home, writes, forgotten>>

OtpAnswer(w, what) ==
  LET sync == pages[w].sync IN
  /\ sync.step = "asking" /\ what \notin sync.answers
  /\ Serves(sync.header)
  /\ SetSync(w, [sync EXCEPT !.answers = @ \cup {what},
                             !.rows = IF what = "list" THEN otpRecords ELSE @,
                             !.reported = IF what = "profile" THEN profile ELSE @])
  /\ UNCHANGED <<otpRecords, purged, profile, stores, home, writes, work, forgotten>>

\* listOtpRecords() and the profile of one batch, in either order.
List(w) == OtpAnswer(w, "list")
ReadProfile(w) == OtpAnswer(w, "profile")

\* Offline, or refused.
SyncFails(w) ==
  /\ pages[w].sync.step = "asking"
  /\ SetPage(w, [pages[w] EXCEPT !.sync = NoSync, !.synced = FALSE])
  /\ UNCHANGED <<otpRecords, purged, profile, stores, home, writes, work, forgotten>>

\* generationLink drops an answer asked for under another generation.
Named(generation) == IF generation = Unknown THEN 0 ELSE generation
IsReady(w) == pages[w].phase = "ready"
IsCurrent(w) == pages[w].key = pages[w].sync.key /\ pages[w].phase = "ready"
AdoptedAnyway(generation, reported) == generation # Legacy /\ generation # reported
GenerationStale(generation, reported) ==
  IF generation = Legacy THEN reported # 0 ELSE generation # reported

Decide(w) ==
  LET page == pages[w]
      sync == page.sync
      dead == sync.reported.id # sync.id \/ GenerationStale(page.generation, sync.reported.gen)
  IN
  /\ sync.step = "asking" /\ sync.answers = {"list", "profile"} /\ page.bound # Unknown
  /\ IF ~IsCurrent(w) \/ Named(sync.header) # Named(page.bound) THEN SetSync(w, NoSync)
     ELSE IF dead THEN SetSync(w, [NoSync EXCEPT !.step = "remove", !.key = sync.key])
     ELSE SetPage(w, [page EXCEPT !.generation = sync.reported.gen,
            !.sync = [NoSync EXCEPT !.key = sync.key, !.rows = sync.rows, !.reported = sync.reported,
                        !.step = IF ~sync.persist THEN "show"
                                 ELSE IF page.generation = Legacy THEN "adopt" ELSE "replace"]])
  /\ UNCHANGED <<otpRecords, purged, profile, stores, home, writes, work, forgotten>>

\* updateVault(): a read, and a put of what was read.
ReadVault(w) ==
  LET sync == pages[w].sync IN
  /\ sync.step \in {"adopt", "stamp"}
  /\ SetSync(w, [sync EXCEPT !.read = StoreOf(w).vault,
       !.step = IF StoreOf(w).vault = NoVault THEN IF sync.step = "adopt" THEN "replace" ELSE "show"
                ELSE IF sync.step = "adopt" THEN "adopting" ELSE "stamping"])
  /\ UNCHANGED <<otpRecords, purged, profile, stores, home, writes, work, forgotten>>

PutVault(w) ==
  LET sync == pages[w].sync IN
  /\ sync.step \in {"adopting", "stamping"}
  /\ SaveVault(home[w], IF sync.step = "adopting" THEN [sync.read EXCEPT !.generation = sync.reported.gen]
                        ELSE sync.read)
  /\ SetSync(w, [sync EXCEPT !.read = NoVault, !.step = IF sync.step = "adopting" THEN "replace" ELSE "show"])
  /\ UNCHANGED <<otpRecords, purged, profile, home, writes, work, forgotten>>

StoreSnapshot(w) ==
  /\ pages[w].sync.step = "replace"
  /\ ReplaceRecords(home[w], pages[w].sync.rows)
  /\ SetPage(w, [pages[w] EXCEPT !.sync.step = "stamp"])
  /\ UNCHANGED <<otpRecords, purged, profile, home, writes, work, forgotten>>

ShowSnapshot(w) ==
  /\ pages[w].sync.step = "show"
  /\ SetPage(w, IF IsCurrent(w) THEN [pages[w] EXCEPT !.cached = pages[w].sync.rows, !.synced = TRUE, !.sync = NoSync]
                ELSE [pages[w] EXCEPT !.sync = NoSync])
  /\ UNCHANGED <<otpRecords, purged, profile, stores, home, writes, work, forgotten>>

\* The kill switch.
KillVault(w) ==
  /\ pages[w].sync.step = "remove"
  /\ RemoveVault(home[w])
  /\ SetPage(w, [pages[w] EXCEPT !.sync.step = "announce"])
  /\ UNCHANGED <<otpRecords, purged, profile, home, writes, work, forgotten>>

KillPage(w) ==
  /\ pages[w].sync.step = "announce"
  /\ pages' = Announced(w, [IF IsCurrent(w) THEN Disarmed(pages[w]) ELSE pages[w] EXCEPT !.sync = NoSync])
  /\ UNCHANGED <<otpRecords, purged, profile, stores, home, writes, work, forgotten>>

-----------------------------------------------------------------------------
(* Mutations *)

\* The page takes writes only while its last sync succeeded.
Sends(w, kind, c) ==
  /\ pages[w].phase = "ready" /\ pages[w].synced /\ pages[w].write.step = "idle" /\ pages[w].key # NoKey
  /\ writes < MaxWrites /\ MayStart
  /\ SetWrite(w, [NoWrite EXCEPT !.step = "sent", !.kind = kind, !.card = c, !.header = pages[w].bound,
                                 !.key = pages[w].key, !.seen = pages[w].cached])
  /\ UNCHANGED <<otpRecords, purged, profile, stores, home, writes, forgotten>>

\* A new id each time.
Create(w, c) ==
  /\ otpRecords[c].rev = 0 /\ c \notin purged /\ \A v \in Windows : pages[v].write.card # c \/ pages[v].write.step = "idle"
  /\ Sends(w, "create", c)
Update(w, c) == pages[w].cached[c].live /\ Sends(w, "update", c)
RemoveCard(w, c) == pages[w].cached[c].live /\ Sends(w, "remove", c)
Renumber(w)  == \E c \in Cards : pages[w].cached[c].live /\ Sends(w, "reorder", NoWrite.card)

\* UPDATE ... WHERE revision = expected AND deleted_at IS NULL
MatchesLive(write) == otpRecords[write.card].live
Matches(write) ==
  LET row == otpRecords[write.card] IN row.rev = write.seen[write.card].rev /\ row.live
Hit(write) ==
  CASE write.kind = "create" -> otpRecords[write.card].rev = 0
    [] write.kind = "reorder" -> TRUE
    [] OTHER -> Matches(write)
\* deleteOtpRecord() drops the payload; reorderOtpRecords() expects nothing and
\* skips what is deleted.
Moved(row) == IF row.live THEN [row EXCEPT !.rev = @ + 1] ELSE row
Reordered == [c \in Cards |-> Moved(otpRecords[c])]
WrittenInPlace(write) ==
  LET row == otpRecords[write.card] IN
  CASE write.kind = "reorder" -> Reordered
    [] OTHER -> [otpRecords EXCEPT ![write.card] =
         [rev |-> row.rev + 1, edit |-> writes + 1, live |-> write.kind # "remove", gen |-> write.key.gen]]
Written(write) ==
  LET row == otpRecords[write.card]
      fresh == [rev |-> row.rev + 1, edit |-> writes + 1, live |-> TRUE, gen |-> write.key.gen]
  IN  CASE write.kind \in {"create", "update"} -> [otpRecords EXCEPT ![write.card] = fresh]
        [] write.kind = "remove" -> [otpRecords EXCEPT ![write.card] = [NoCard EXCEPT !.rev = row.rev + 1]]
        [] OTHER -> Reordered

\* applyRow() puts one row into the list the callback closed over; reorder
\* answers with the whole list.
OtpApplied(write, rows) ==
  IF write.kind = "reorder" THEN rows ELSE [write.seen EXCEPT ![write.card] = rows[write.card]]

Serve(w) ==
  LET write == pages[w].write IN
  /\ write.step = "sent" /\ Serves(write.header)
  /\ Hit(write) /\ writes < MaxWrites
  /\ otpRecords' = Written(write)
  /\ writes' = writes + 1
  /\ \E lost \in BOOLEAN :
       SetWrite(w, IF lost THEN NoWrite
                   ELSE [NoWrite EXCEPT !.step = "replied", !.next = OtpApplied(write, otpRecords')])
  /\ UNCHANGED <<purged, profile, stores, home, work, forgotten>>

\* A conflict brings the row back, and mutate() applies it; remove() and
\* create() only report it.
Conflict(w) ==
  LET write == pages[w].write IN
  /\ write.step = "sent" /\ Serves(write.header) /\ ~Hit(write)
  /\ SetWrite(w, IF write.kind = "update" /\ otpRecords[write.card].rev > 0
                 THEN [NoWrite EXCEPT !.step = "replied", !.next = OtpApplied(write, otpRecords)] ELSE NoWrite)
  /\ UNCHANGED <<otpRecords, purged, profile, stores, home, writes, work, forgotten>>

\* Lost on the way, or refused for its generation.
WriteFails(w) ==
  /\ pages[w].write.step = "sent"
  /\ SetWrite(w, NoWrite)
  /\ UNCHANGED <<otpRecords, purged, profile, stores, home, writes, work, forgotten>>

StoreReply(w) ==
  LET page == pages[w] IN
  /\ page.write.step = "replied"
  /\ IF page.trusted THEN ReplaceRecords(home[w], page.write.next) ELSE UNCHANGED stores
  /\ SetWrite(w, [page.write EXCEPT !.step = "replaced", !.key = page.key])
  /\ UNCHANGED <<otpRecords, purged, profile, home, writes, work, forgotten>>

ShowReply(w) ==
  LET page == pages[w] IN
  /\ page.write.step = "replaced"
  /\ SetPage(w, [page EXCEPT !.write = NoWrite,
                             !.cached = IF page.key = page.write.key /\ page.key # NoKey THEN page.write.next ELSE @])
  /\ UNCHANGED <<otpRecords, purged, profile, stores, home, writes, work, forgotten>>

-----------------------------------------------------------------------------
(* The account *)

\* Activation seals every live payload anew and moves each revision.
Rotate ==
  /\ OtpWorking /\ profile.gen < MaxTurns /\ profile.id + profile.gen <= MaxTurns
  /\ profile' = [profile EXCEPT !.gen = @ + 1]
  /\ otpRecords' = [c \in Cards |->
       LET row == otpRecords[c] IN IF row.live THEN [row EXCEPT !.rev = @ + 1, !.gen = profile.gen + 1] ELSE row]
  /\ UNCHANGED <<purged, stores, pages, home, writes, forgotten>>

\* Erasing the encryption profile deletes the rows; setting one up again makes
\* a new id and leaves the generation.
ResetProfile ==
  /\ OtpWorking
  /\ profile.id + profile.gen <= MaxTurns
  /\ profile' = [profile EXCEPT !.id = @ + 1]
  /\ otpRecords' = NoCards
  /\ purged' = purged \cup {c \in Cards : otpRecords[c].rev > 0}
  /\ UNCHANGED <<stores, pages, home, writes, forgotten>>

\* purgeOtpTombstones(), thirty days on.
PurgeTombstones ==
  /\ \E c \in Cards : otpRecords[c].rev > 0 /\ ~otpRecords[c].live
  /\ LET old == {c \in Cards : otpRecords[c].rev > 0 /\ ~otpRecords[c].live} IN
       /\ otpRecords' = [c \in Cards |-> IF c \in old THEN NoCard ELSE otpRecords[c]]
       /\ purged' = purged \cup old
  /\ UNCHANGED <<profile, stores, pages, home, writes, work, forgotten>>

SyncStep(w) ==
  List(w) \/ ReadProfile(w) \/ Decide(w) \/ ReadVault(w) \/ PutVault(w) \/ StoreSnapshot(w) \/ ShowSnapshot(w)
    \/ KillVault(w) \/ KillPage(w)
WriteStep(w) == Serve(w) \/ Conflict(w) \/ WriteFails(w) \/ StoreReply(w) \/ ShowReply(w)
PageStep(w) ==
  OpenPage(w) \/ ReadRecords(w) \/ ClosePage(w) \/ Enroll(w) \/ Enrolled(w) \/ ForgetVault(w) \/ Removed(w)
    \/ Announce(w) \/ Hear(w) \/ Learn(w) \/ Adopt(w) \/ StartSync(w) \/ SyncFails(w)

OtpNext ==
  \/ \E w \in Windows : PageStep(w) \/ SyncStep(w) \/ WriteStep(w)
  \/ \E w \in Windows, c \in Cards : Create(w, c) \/ Update(w, c) \/ RemoveCard(w, c)
  \/ \E w \in Windows : Renumber(w)
  \/ Rotate \/ ResetProfile \/ PurgeTombstones

OtpSpec == OtpInit /\ [][OtpNext]_otpVars

-----------------------------------------------------------------------------
(* Properties *)

\* A write that changes a credential replaces the very payload its page was
\* showing, whoever else wrote, reordered or rotated in between; and a deleted
\* credential is never back (src/controllers/otpRecords.ts:178-205, 226-248).
EditsBuildOnWhatWasSeen ==
  [][\A c \in Cards :
       /\ (otpRecords[c].rev > 0 /\ otpRecords'[c].rev > 0 /\ otpRecords'[c].edit # otpRecords[c].edit) =>
            \E w \in Windows :
              /\ pages[w].write.step = "sent" /\ pages'[w].write.step # "sent" /\ pages[w].write.card = c
              /\ pages[w].write.seen[c].live /\ pages[w].write.seen[c].edit = otpRecords[c].edit
       /\ (c \in purged \/ (otpRecords[c].rev > 0 /\ ~otpRecords[c].live)) => ~otpRecords'[c].live]_otpVars

\* The payload of every live row opens with the key of the generation the
\* account is at: no write sealed before a rotation lands after it.
RowsAreOfTheGeneration == \A c \in Cards : otpRecords[c].live => otpRecords[c].gen = profile.gen

\* A vault on a disk holds the key its profile and generation name, so that the
\* kill switch compares what the key really is.
VaultNamesItsKey ==
  \A b \in Browsers :
    LET vault == stores[b].vault IN
    vault # NoVault => vault.key.id = vault.id /\ vault.key.gen = (IF vault.generation = Legacy THEN 0 ELSE vault.generation)

\* What a page lists after its first sync, its key opens.
CardsOpen ==
  \A w \in Windows : (pages[w].phase = "ready" /\ pages[w].synced) =>
    \A c \in Cards : pages[w].cached[c].live => pages[w].cached[c].gen = pages[w].key.gen

\* Once a device is told to forget, no key is left on its disk until it is
\* enrolled again (src/lib/otpStore.ts:209-213).
ForgottenStaysForgotten == \A b \in forgotten : stores[b].vault = NoVault

\* What an account's authenticators and every device's copy of them come to.
CredentialsAreSafe ==
  [](RowsAreOfTheGeneration /\ VaultNamesItsKey /\ CardsOpen) /\ EditsBuildOnWhatWasSeen
=============================================================================
