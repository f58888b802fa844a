----------------------------- MODULE Browser_proofs -----------------------------
(***************************************************************************)
(* What the browser keeps, for every number of its parts: the credentials  *)
(* of the authenticator, over any number of browsers, pages, requests and  *)
(* profile changes, the walk of a rotation over the inventory, for any     *)
(* inventory, page size, interruptions and lost answers, and the page that *)
(* leads through a rotation, on any number of machines.                    *)
(***************************************************************************)
EXTENDS OtpVault, RotationWalk, RotationWizard, FiniteSetTheorems, SequenceTheorems, TLAPS

-----------------------------------------------------------------------------
(* The authenticator: the inductive invariant.                             *)

KeyShape   == [id : Nat, gen : Gens]
RowShape   == [rev : Nat, edit : Nat, live : BOOLEAN, gen : Gens]
CopyShape  == [Cards -> RowShape]
VaultShape == [id : Nat, generation : Gens \cup {Legacy}, key : KeyShape]
SyncShape ==
  [step : {"idle", "asking", "adopt", "adopting", "replace", "stamp", "stamping", "show", "remove", "announce"},
   key : KeyShape, id : Nat, persist : BOOLEAN, header : Gens \cup {Unknown}, answers : SUBSET {"list", "profile"},
   rows : CopyShape, reported : KeyShape, read : VaultShape]
WriteShape ==
  [step : {"idle", "sent", "replied", "replaced"}, kind : {"create", "update", "remove", "reorder"},
   card : Cards \cup {NoWrite.card}, header : Gens \cup {Unknown}, key : KeyShape, seen : CopyShape, next : CopyShape]
PageShape ==
  [phase : {"closed", "reading", "not-enrolled", "enrolling", "ready"}, key : KeyShape, id : Nat,
   generation : Gens \cup {Legacy}, trusted : BOOLEAN, bound : Gens \cup {Unknown}, cached : CopyShape, synced : BOOLEAN,
   told : BOOLEAN, removal : {"none", "remove", "announce"}, sync : SyncShape, write : WriteShape]

OtpShape ==
  /\ otpRecords \in CopyShape /\ purged \subseteq Cards /\ profile \in [id : Nat \ {0}, gen : Gens]
  /\ stores \in [Browsers -> [vault : VaultShape, records : CopyShape]]
  /\ pages \in [Windows -> PageShape] /\ home \in [Windows -> Browsers] /\ writes \in Nat

\* The generation a vault's key was derived under, as the vault states it.
GenerationOf(generation) == IF generation = Legacy THEN 0 ELSE generation
\* A key and the names kept beside it.
NamedBy(key, id, generation) == key # NoKey /\ key.id = id /\ key.gen = GenerationOf(generation)
VaultNamed(kept) == kept # NoVault => NamedBy(kept.key, kept.id, kept.generation)

\* Every live row of a list is of one generation.
AllOf(rows, gen) == \A c \in Cards : rows[c].live => rows[c].gen = gen

\* A copy of the list is not ahead of the table, and a row of the revision the
\* table has is the table's payload.
Held(copy, rows, gone) ==
  \A c \in Cards : c \notin gone =>
    /\ copy[c].rev <= rows[c].rev
    /\ copy[c].rev = rows[c].rev /\ rows[c].live => copy[c].live /\ copy[c].edit = rows[c].edit

\* A page that is not open has nothing under way; what a page lists after a
\* sync is of the generation it is bound to; its key is what its vault names.
PageIsWhole(p) ==
  /\ p.phase = "closed" => p.sync.step = "idle" /\ p.write.step = "idle" /\ p.generation = 0 /\ p.key = NoKey
  /\ p.synced => /\ p.phase \in {"enrolling", "ready"} /\ p.bound # Unknown /\ p.key.gen = p.bound
                 /\ AllOf(p.cached, p.bound)
  /\ p.key # NoKey => NamedBy(p.key, p.id, p.generation)
  /\ p.trusted => p.key # NoKey
  /\ p.phase = "enrolling" => p.generation # Legacy

\* What a sync has been answered is of the generation it asked under.
Past == {"adopt", "adopting", "replace", "stamp", "stamping", "show"}
SyncIsWhole(p) ==
  /\ p.sync.step = "asking" =>
       /\ "list" \in p.sync.answers => AllOf(p.sync.rows, Named(p.sync.header))
       /\ "profile" \in p.sync.answers => p.sync.reported.gen = Named(p.sync.header)
       /\ p.sync.key # NoKey
  /\ p.sync.step \in Past =>
       p.bound # Unknown /\ p.sync.key.gen = p.bound /\ AllOf(p.sync.rows, p.bound) /\ p.generation # Legacy
  /\ VaultNamed(p.sync.read)
  /\ p.sync.step \in {"adopting", "stamping"} => p.sync.read # NoVault

WriteIsWhole(p) ==
  /\ p.write.step # "idle" => p.bound # Unknown
  /\ p.write.step = "sent" =>
       p.write.header = p.bound /\ p.write.key.gen = p.bound /\ p.write.card \in Cards /\ AllOf(p.write.seen, p.bound)
  /\ p.write.step \in {"replied", "replaced"} => AllOf(p.write.next, p.bound)

\* A vault saved before generations were recorded is of the first one, and so is
\* whatever its page puts beside it until it has adopted the number.
Adopting(p) == p.sync.step \in {"adopt", "adopting"}
OfTheFirst(kept) == kept # NoVault => kept.key.gen = 0
AdoptsTheFirst(p, kept) ==
  /\ p.generation = Legacy => OfTheFirst(kept)
  /\ Adopting(p) => p.bound = 0 /\ p.key.gen = 0 /\ p.sync.reported.gen = 0 /\ OfTheFirst(kept)
  /\ p.sync.step = "adopting" => p.sync.read.key.gen = 0

PageOk(p, kept) == PageIsWhole(p) /\ SyncIsWhole(p) /\ WriteIsWhole(p) /\ AdoptsTheFirst(p, kept)

\* Only one page ever runs beside a vault without a number.
AloneAt(at, b) == \A v, w \in Windows : at[v] = b /\ at[w] = b => v = w
OldPage(p) == p.generation = Legacy \/ Adopting(p) \/ p.sync.read.generation = Legacy

Creates(p, c) == p.write.step = "sent" /\ p.write.kind = "create" /\ p.write.card = c

PageHolds(p, rows, gone) ==
  /\ Held(p.cached, rows, gone) /\ Held(p.sync.rows, rows, gone)
  /\ Held(p.write.seen, rows, gone) /\ Held(p.write.next, rows, gone)
  /\ \A c \in Cards : Creates(p, c) => rows[c].rev = 0 /\ c \notin gone

RowsOk(rows, gone, gen) ==
  \A c \in Cards : /\ rows[c].live => rows[c].rev > 0 /\ rows[c].gen = gen
                   /\ c \in gone => rows[c] = NoCard

StoreOk(store, rows, gone) == VaultNamed(store.vault) /\ Held(store.records, rows, gone)

OtpInv ==
  /\ OtpShape
  /\ RowsOk(otpRecords, purged, profile.gen)
  /\ \A b \in Browsers : StoreOk(stores[b], otpRecords, purged)
                         /\ (stores[b].vault.generation = Legacy => AloneAt(home, b))
  /\ \A w \in Windows : /\ PageOk(pages[w], stores[home[w]].vault)
                        /\ PageHolds(pages[w], otpRecords, purged)
                        /\ OldPage(pages[w]) => AloneAt(home, home[w])
  /\ \A v, w \in Windows, c \in Cards : Creates(pages[v], c) /\ Creates(pages[w], c) => v = w

-----------------------------------------------------------------------------
(* Facts about the constants, and pages that change alone. *)

\* What there is where nothing is yet has the right shape.
LEMMA NothingIsShaped ==
  /\ NoKey \in KeyShape /\ NoCard \in RowShape /\ NoCards \in CopyShape /\ NoVault \in VaultShape
  /\ NoSync \in SyncShape /\ NoWrite \in WriteShape /\ Legacy \notin Gens /\ 0 \in Gens /\ Unknown = Legacy
  /\ NoKey.gen = 0 /\ NoVault.key = NoKey /\ NoVault.generation = 0
  /\ NoSync.step = "idle" /\ NoSync.read = NoVault /\ NoSync.rows = NoCards
  /\ NoWrite.step = "idle" /\ NoWrite.seen = NoCards /\ NoWrite.next = NoCards
  /\ \A c \in Cards : NoCards[c] = NoCard
  /\ NoCard.rev = 0 /\ ~NoCard.live
<1>0. MaxTurns \in Nat /\ 0 \in Gens /\ Legacy \notin Gens BY OtpAssumption DEF Gens, Legacy
<1>1. NoKey \in KeyShape /\ NoKey.gen = 0 BY <1>0 DEF NoKey, KeyShape
<1>2. NoCard \in RowShape /\ NoCard.rev = 0 /\ ~NoCard.live BY <1>0 DEF NoCard, RowShape
<1>3. NoCards \in CopyShape /\ \A c \in Cards : NoCards[c] = NoCard BY <1>2 DEF NoCards, CopyShape
<1>4. NoVault \in VaultShape /\ NoVault.key = NoKey /\ NoVault.generation = 0 BY <1>0, <1>1 DEF NoVault, VaultShape
<1>5. NoSync \in SyncShape /\ NoSync.step = "idle" /\ NoSync.read = NoVault /\ NoSync.rows = NoCards
  BY <1>0, <1>1, <1>3, <1>4 DEF NoSync, SyncShape
<1>6. NoWrite \in WriteShape /\ NoWrite.step = "idle" /\ NoWrite.seen = NoCards /\ NoWrite.next = NoCards
  BY <1>0, <1>1, <1>3 DEF NoWrite, WriteShape
<1> QED BY <1>0, <1>1, <1>2, <1>3, <1>4, <1>5, <1>6 DEF Unknown

\* An empty list is a copy of any table, of every generation.
LEMMA NothingIsHeld ==
  ASSUME NEW rows \in CopyShape, NEW gone, NEW gen, RowsOk(rows, gone, gen)
  PROVE  Held(NoCards, rows, gone) /\ \A g : AllOf(NoCards, g)
BY NothingIsShaped DEF Held, RowsOk, AllOf, CopyShape, RowShape

\* The table is a copy of itself.
LEMMA TableIsHeld == ASSUME NEW rows \in CopyShape, NEW gone PROVE Held(rows, rows, gone)
BY DEF Held, CopyShape, RowShape

\* A page that moves alone, on what it may hold, leaves the rest as it was.
LEMMA OnePageMoves ==
  ASSUME OtpInv, NEW w \in Windows, NEW p \in PageShape, pages' = [pages EXCEPT ![w] = p],
         PageOk(p, stores[home[w]].vault), PageHolds(p, otpRecords, purged),
         OldPage(p) => AloneAt(home, home[w]),
         \A v \in Windows \ {w}, c \in Cards : ~(Creates(pages[v], c) /\ Creates(p, c)),
         UNCHANGED <<otpRecords, purged, profile, stores, home, writes>>
  PROVE  OtpInv'
<1>1. pages' \in [Windows -> PageShape] /\ \A v \in Windows : pages'[v] = IF v = w THEN p ELSE pages[v] BY DEF OtpInv, OtpShape
<1>2. OtpShape' BY <1>1 DEF OtpInv, OtpShape
<1>3. RowsOk(otpRecords, purged, profile.gen)' BY DEF OtpInv
<1>4. \A b \in Browsers : StoreOk(stores[b], otpRecords, purged)' /\ (stores'[b].vault.generation = Legacy => AloneAt(home', b))
  BY DEF OtpInv
<1>5. \A v \in Windows : /\ PageOk(pages'[v], stores'[home'[v]].vault)
                         /\ PageHolds(pages'[v], otpRecords', purged')
                         /\ OldPage(pages'[v]) => AloneAt(home', home'[v]) BY <1>1 DEF OtpInv
<1>6. \A u, v \in Windows, c \in Cards : Creates(pages'[u], c) /\ Creates(pages'[v], c) => u = v BY <1>1 DEF OtpInv
<1> QED BY <1>2, <1>3, <1>4, <1>5, <1>6 DEF OtpInv

\* A page moves and the store of its browser with it; the other pages of the
\* browser stand, for none of them is beside a vault without a number.
LEMMA PageAndStoreMove ==
  ASSUME OtpInv, NEW w \in Windows, NEW p \in PageShape, pages' = [pages EXCEPT ![w] = p],
         NEW s \in [vault : VaultShape, records : CopyShape], stores' = [stores EXCEPT ![home[w]] = s],
         StoreOk(s, otpRecords, purged), s.vault.generation = Legacy => AloneAt(home, home[w]),
         PageOk(p, s.vault), PageHolds(p, otpRecords, purged),
         OldPage(p) => AloneAt(home, home[w]),
         \A v \in Windows \ {w}, c \in Cards : ~(Creates(pages[v], c) /\ Creates(p, c)),
         UNCHANGED <<otpRecords, purged, profile, home, writes>>
  PROVE  OtpInv'
<1>1. pages' \in [Windows -> PageShape] /\ \A v \in Windows : pages'[v] = IF v = w THEN p ELSE pages[v] BY DEF OtpInv, OtpShape
<1>2. /\ stores' \in [Browsers -> [vault : VaultShape, records : CopyShape]]
      /\ \A b \in Browsers : stores'[b] = IF b = home[w] THEN s ELSE stores[b] BY DEF OtpInv, OtpShape
<1>3. OtpShape' BY <1>1, <1>2 DEF OtpInv, OtpShape
<1>4. RowsOk(otpRecords, purged, profile.gen)' BY DEF OtpInv
<1>5. \A b \in Browsers : StoreOk(stores[b], otpRecords, purged)' /\ (stores'[b].vault.generation = Legacy => AloneAt(home', b))
  BY <1>2 DEF OtpInv
<1>6. ASSUME NEW v \in Windows
      PROVE  /\ PageOk(pages'[v], stores'[home'[v]].vault)
             /\ PageHolds(pages'[v], otpRecords', purged')
             /\ OldPage(pages'[v]) => AloneAt(home', home'[v])
 <2>1. CASE v = w BY <1>1, <1>2, <2>1 DEF OtpInv, OtpShape
 <2>2. CASE v # w /\ home[v] # home[w] BY <1>1, <1>2, <2>2 DEF OtpInv, OtpShape
 <2>3. CASE v # w /\ home[v] = home[w]
   BY <1>1, <2>3 DEF OtpInv, AloneAt, AdoptsTheFirst, OldPage, Adopting, PageOk
 <2> QED BY <2>1, <2>2, <2>3
<1>7. \A u, v \in Windows, c \in Cards : Creates(pages'[u], c) /\ Creates(pages'[v], c) => u = v BY <1>1 DEF OtpInv
<1> QED BY <1>3, <1>4, <1>5, <1>6, <1>7 DEF OtpInv

\* What a page, its browser and the account are under the invariant.
LEMMA PageFacts ==
  ASSUME OtpInv, NEW w \in Windows
  PROVE  /\ pages[w] \in PageShape /\ home[w] \in Browsers /\ stores[home[w]] \in [vault : VaultShape, records : CopyShape]
         /\ PageIsWhole(pages[w]) /\ SyncIsWhole(pages[w]) /\ WriteIsWhole(pages[w])
         /\ AdoptsTheFirst(pages[w], stores[home[w]].vault)
         /\ PageHolds(pages[w], otpRecords, purged)
         /\ OldPage(pages[w]) => AloneAt(home, home[w])
         /\ StoreOk(stores[home[w]], otpRecords, purged)
         /\ stores[home[w]].vault.generation = Legacy => AloneAt(home, home[w])
         /\ otpRecords \in CopyShape /\ profile \in [id : Nat \ {0}, gen : Gens]
         /\ RowsOk(otpRecords, purged, profile.gen)
BY DEF OtpInv, OtpShape, PageOk

\* A page that sends nothing new disturbs no other page's creation.
LEMMA NothingNewIsSent ==
  ASSUME OtpInv, NEW w \in Windows, NEW p, p.write = pages[w].write \/ p.write.step # "sent"
  PROVE  \A v \in Windows \ {w}, c \in Cards : ~(Creates(pages[v], c) /\ Creates(p, c))
BY DEF OtpInv, Creates

-----------------------------------------------------------------------------
(* Pages that open, enroll and forget. *)

\* A page that opens knows nothing yet.
LEMMA OpenPageKeeps == ASSUME OtpInv, NEW w \in Windows, OpenPage(w) PROVE OtpInv'
<1> DEFINE kept == stores[home[w]].vault
           p == IF kept = NoVault THEN [pages[w] EXCEPT !.phase = "not-enrolled"]
                ELSE [pages[w] EXCEPT !.phase = "reading", !.key = kept.key, !.id = kept.id,
                                      !.generation = kept.generation, !.trusted = TRUE]
<1>1. pages' = [pages EXCEPT ![w] = p] /\ pages[w].phase = "closed" BY DEF OpenPage, SetPage, StoreOf
<1>2. /\ p \in PageShape /\ p.sync = pages[w].sync /\ p.write = pages[w].write /\ p.bound = pages[w].bound
      /\ p.cached = pages[w].cached /\ p.synced = pages[w].synced
      /\ kept = NoVault => p.phase = "not-enrolled" /\ p.key = pages[w].key /\ p.id = pages[w].id
                            /\ p.generation = pages[w].generation /\ p.trusted = pages[w].trusted
      /\ kept # NoVault => p.phase = "reading" /\ p.key = kept.key /\ p.id = kept.id
                            /\ p.generation = kept.generation BY PageFacts DEF PageShape, VaultShape
<1> HIDE DEF p
<1>3. PageIsWhole(p) BY <1>1, <1>2, PageFacts DEF PageIsWhole, StoreOk, VaultNamed, NamedBy
<1>4. SyncIsWhole(p) /\ WriteIsWhole(p) BY <1>1, <1>2, PageFacts DEF PageIsWhole, SyncIsWhole, WriteIsWhole, Past
<1>5. AdoptsTheFirst(p, kept)
  BY <1>1, <1>2, PageFacts DEF PageIsWhole, AdoptsTheFirst, Adopting, OfTheFirst, StoreOk, VaultNamed, NamedBy, GenerationOf
<1>6. PageHolds(p, otpRecords, purged) BY <1>2, PageFacts DEF PageHolds, Creates
<1>7. OldPage(p) => AloneAt(home, home[w]) BY <1>1, <1>2, PageFacts DEF OldPage, Adopting
<1> QED BY <1>1, <1>2, <1>3, <1>4, <1>5, <1>6, <1>7, NothingNewIsSent, OnePageMoves DEF OpenPage, PageOk

\* What a page reads from its disk is what the disk holds.
LEMMA ReadRecordsKeeps == ASSUME OtpInv, NEW w \in Windows, ReadRecords(w) PROVE OtpInv'
<1> DEFINE p == [pages[w] EXCEPT !.phase = "ready", !.cached = stores[home[w]].records]
<1>1. pages' = [pages EXCEPT ![w] = p] /\ pages[w].phase = "reading" BY DEF ReadRecords, SetPage, StoreOf
<1>2. /\ p \in PageShape /\ p.sync = pages[w].sync /\ p.write = pages[w].write /\ p.bound = pages[w].bound
      /\ p.cached = stores[home[w]].records /\ p.synced = pages[w].synced /\ p.phase = "ready" /\ p.key = pages[w].key
      /\ p.id = pages[w].id /\ p.generation = pages[w].generation /\ p.trusted = pages[w].trusted BY PageFacts DEF PageShape
<1> HIDE DEF p
<1>3. PageIsWhole(p) BY <1>1, <1>2, PageFacts DEF PageIsWhole
<1>4. SyncIsWhole(p) /\ WriteIsWhole(p) /\ AdoptsTheFirst(p, stores[home[w]].vault)
  BY <1>2, PageFacts DEF SyncIsWhole, WriteIsWhole, AdoptsTheFirst, Adopting
<1>5. PageHolds(p, otpRecords, purged) /\ (OldPage(p) => AloneAt(home, home[w]))
  BY <1>2, PageFacts DEF PageHolds, Creates, OldPage, Adopting, StoreOk
<1> QED BY <1>1, <1>2, <1>3, <1>4, <1>5, NothingNewIsSent, OnePageMoves DEF ReadRecords, PageOk

\* A page that was closed, or reloaded, has nothing under way.
LEMMA ClosedIsWhole ==
  ASSUME OtpInv, NEW w \in Windows, NEW bound \in Gens \cup {Unknown}, NEW kept,
         NEW removal \in {"none", "remove", "announce"}, NEW p, p = [Closed(bound) EXCEPT !.removal = removal]
  PROVE  /\ p \in PageShape /\ PageOk(p, kept) /\ PageHolds(p, otpRecords, purged) /\ ~OldPage(p)
         /\ p.write.step = "idle" /\ p.phase = "closed"
<1>1. /\ p \in PageShape /\ p.phase = "closed" /\ p.sync = NoSync /\ p.write = NoWrite /\ p.generation = 0
      /\ p.key = NoKey /\ p.cached = NoCards /\ ~p.synced /\ ~p.trusted /\ p.bound = bound
  BY NothingIsShaped DEF PageShape, Closed
<1>2. PageIsWhole(p) BY <1>1, NothingIsShaped DEF PageIsWhole
<1>3. SyncIsWhole(p) /\ WriteIsWhole(p) BY <1>1, NothingIsShaped DEF SyncIsWhole, WriteIsWhole, Past, VaultNamed
<1>4. AdoptsTheFirst(p, kept) /\ ~OldPage(p) BY <1>1, NothingIsShaped DEF AdoptsTheFirst, OldPage, Adopting
<1>5. PageHolds(p, otpRecords, purged) BY <1>1, NothingIsShaped, NothingIsHeld, PageFacts DEF PageHolds, Creates
<1> QED BY <1>1, <1>2, <1>3, <1>4, <1>5, NothingIsShaped DEF PageOk

\* A page that closes leaves nothing under way.
LEMMA ClosePageKeeps == ASSUME OtpInv, NEW w \in Windows, ClosePage(w) PROVE OtpInv'
<1>1. PICK p : p = [Closed(pages[w].bound) EXCEPT !.removal = "none"] OBVIOUS
<1>2. Closed(pages[w].bound) = p BY <1>1 DEF Closed
<1>3. pages[w].bound \in Gens \cup {Unknown} BY PageFacts DEF PageShape
<1>4. PICK kept : kept = stores[home[w]].vault OBVIOUS
<1>5. /\ p \in PageShape /\ PageOk(p, kept) /\ PageHolds(p, otpRecords, purged) /\ ~OldPage(p)
      /\ p.write.step = "idle" BY <1>1, <1>3, ClosedIsWhole
<1> QED BY <1>2, <1>4, <1>5, NothingNewIsSent, OnePageMoves DEF ClosePage, SetPage

\* A page that learns of another generation lets its key go.
LEMMA LearnKeeps == ASSUME OtpInv, NEW w \in Windows, Learn(w) PROVE OtpInv'
<1>1. PICK p : p = [Closed(profile.gen) EXCEPT !.removal = "remove"] OBVIOUS
<1>3. profile.gen \in Gens \cup {Unknown} BY PageFacts
<1>4. PICK kept : kept = stores[home[w]].vault OBVIOUS
<1>5. /\ p \in PageShape /\ PageOk(p, kept) /\ PageHolds(p, otpRecords, purged) /\ ~OldPage(p)
      /\ p.write.step = "idle" BY <1>1, <1>3, ClosedIsWhole
<1>6. pages' = [pages EXCEPT ![w] = p] /\ UNCHANGED <<otpRecords, purged, profile, stores, home, writes>>
  BY <1>1 DEF Learn, SetPage
<1> QED BY <1>4, <1>5, <1>6, NothingNewIsSent, OnePageMoves

\* The key that is enrolled is the one the profile is at.
LEMMA EnrollKeeps == ASSUME OtpInv, NEW w \in Windows, Enroll(w) PROVE OtpInv'
<1>0. PICK trust \in BOOLEAN :
        pages' = [pages EXCEPT ![w] = [pages[w] EXCEPT !.phase = "enrolling", !.key = profile, !.id = profile.id,
                                                       !.generation = profile.gen, !.trusted = trust]] BY DEF Enroll, SetPage
<1> DEFINE p == [pages[w] EXCEPT !.phase = "enrolling", !.key = profile, !.id = profile.id,
                                 !.generation = profile.gen, !.trusted = trust]
<1>1. /\ pages' = [pages EXCEPT ![w] = p] /\ pages[w].phase \in {"not-enrolled", "ready"}
      /\ profile.gen = pages[w].bound \/ (pages[w].bound = Unknown /\ profile.gen = 0) BY <1>0 DEF Enroll, Serves
<1>2. /\ p \in PageShape /\ p.sync = pages[w].sync /\ p.write = pages[w].write /\ p.bound = pages[w].bound
      /\ p.cached = pages[w].cached /\ p.synced = pages[w].synced /\ p.phase = "enrolling"
      /\ p.key = profile /\ p.id = profile.id /\ p.generation = profile.gen BY PageFacts DEF PageShape, KeyShape
<1> HIDE DEF p
<1>3. profile # NoKey /\ profile.gen # Legacy /\ profile.gen \in Gens BY PageFacts, NothingIsShaped DEF NoKey
<1>4. PageIsWhole(p) BY <1>1, <1>2, <1>3, PageFacts DEF PageIsWhole, NamedBy, GenerationOf
<1>5. SyncIsWhole(p) /\ WriteIsWhole(p) BY <1>2, <1>3, PageFacts DEF SyncIsWhole, WriteIsWhole
<1>6. AdoptsTheFirst(p, stores[home[w]].vault) BY <1>1, <1>2, <1>3, NothingIsShaped, PageFacts DEF AdoptsTheFirst, Adopting
<1>7. PageHolds(p, otpRecords, purged) /\ (OldPage(p) => AloneAt(home, home[w]))
  BY <1>2, <1>3, PageFacts DEF PageHolds, Creates, OldPage, Adopting
<1> QED BY <1>1, <1>2, <1>4, <1>5, <1>6, <1>7, NothingNewIsSent, OnePageMoves DEF Enroll, PageOk

\* The vault that an enrolment stores is named after its key.
LEMMA EnrolledKeeps == ASSUME OtpInv, NEW w \in Windows, Enrolled(w) PROVE OtpInv'
<1> DEFINE p == [pages[w] EXCEPT !.phase = "ready"]
           kept == [id |-> pages[w].id, generation |-> pages[w].generation, key |-> pages[w].key]
           s == IF pages[w].trusted THEN [stores[home[w]] EXCEPT !.vault = kept] ELSE stores[home[w]]
<1>1. pages' = [pages EXCEPT ![w] = p] /\ pages[w].phase = "enrolling" BY DEF Enrolled, SetPage
<1>2. /\ p \in PageShape /\ p.sync = pages[w].sync /\ p.write = pages[w].write /\ p.bound = pages[w].bound
      /\ p.cached = pages[w].cached /\ p.synced = pages[w].synced /\ p.phase = "ready" /\ p.key = pages[w].key
      /\ p.id = pages[w].id /\ p.generation = pages[w].generation /\ p.trusted = pages[w].trusted BY PageFacts DEF PageShape
<1>3. stores' = [stores EXCEPT ![home[w]] = s] BY PageFacts DEF Enrolled, SaveVault, OtpInv, OtpShape
<1>4. pages[w].generation # Legacy /\ (pages[w].trusted => NamedBy(pages[w].key, pages[w].id, pages[w].generation))
  BY <1>1, PageFacts DEF PageIsWhole
<1>5. /\ s \in [vault : VaultShape, records : CopyShape] /\ s.records = stores[home[w]].records
      /\ s.vault = IF pages[w].trusted THEN kept ELSE stores[home[w]].vault
      /\ kept \in VaultShape /\ kept.key = pages[w].key /\ kept.id = pages[w].id /\ kept.generation = pages[w].generation
  BY PageFacts DEF PageShape, VaultShape
<1> HIDE DEF p, kept, s
<1>6. StoreOk(s, otpRecords, purged) /\ (s.vault.generation = Legacy => AloneAt(home, home[w]))
  BY <1>4, <1>5, PageFacts DEF StoreOk, VaultNamed
<1>7. PageIsWhole(p) /\ SyncIsWhole(p) /\ WriteIsWhole(p) BY <1>1, <1>2, PageFacts DEF PageIsWhole, SyncIsWhole, WriteIsWhole
<1>8. AdoptsTheFirst(p, s.vault) BY <1>2, <1>4, <1>5, PageFacts DEF AdoptsTheFirst, Adopting, OfTheFirst
<1>9. PageHolds(p, otpRecords, purged) /\ (OldPage(p) => AloneAt(home, home[w]))
  BY <1>2, PageFacts DEF PageHolds, Creates, OldPage, Adopting
<1> QED BY <1>1, <1>2, <1>3, <1>5, <1>6, <1>7, <1>8, <1>9, NothingNewIsSent, PageAndStoreMove DEF Enrolled, PageOk

\* Forgetting is only asked for here.
LEMMA ForgetVaultKeeps == ASSUME OtpInv, NEW w \in Windows, ForgetVault(w) PROVE OtpInv'
<1> DEFINE p == [pages[w] EXCEPT !.removal = "remove"]
<1>1. pages' = [pages EXCEPT ![w] = p] BY DEF ForgetVault, SetPage
<1>2. /\ p \in PageShape /\ p.sync = pages[w].sync /\ p.write = pages[w].write /\ p.bound = pages[w].bound
      /\ p.cached = pages[w].cached /\ p.synced = pages[w].synced /\ p.phase = pages[w].phase /\ p.key = pages[w].key
      /\ p.id = pages[w].id /\ p.generation = pages[w].generation /\ p.trusted = pages[w].trusted BY PageFacts DEF PageShape
<1> HIDE DEF p
<1>3. PageIsWhole(p) /\ SyncIsWhole(p) /\ WriteIsWhole(p) /\ AdoptsTheFirst(p, stores[home[w]].vault)
  BY <1>2, PageFacts DEF PageIsWhole, SyncIsWhole, WriteIsWhole, AdoptsTheFirst, Adopting
<1>4. PageHolds(p, otpRecords, purged) /\ (OldPage(p) => AloneAt(home, home[w]))
  BY <1>2, PageFacts DEF PageHolds, Creates, OldPage, Adopting
<1> QED BY <1>1, <1>2, <1>3, <1>4, NothingNewIsSent, OnePageMoves DEF ForgetVault, PageOk

\* Nothing is on a disk whose vault was removed.
LEMMA RemovedIsWhole ==
  ASSUME OtpInv, NEW w \in Windows, NEW s, s = [vault |-> NoVault, records |-> NoCards]
  PROVE  /\ s \in [vault : VaultShape, records : CopyShape] /\ StoreOk(s, otpRecords, purged)
         /\ s.vault = NoVault /\ s.vault.generation # Legacy
BY NothingIsShaped, NothingIsHeld, PageFacts DEF StoreOk, VaultNamed

\* The vault and the copies go from the disk together.
LEMMA RemovedKeeps == ASSUME OtpInv, NEW w \in Windows, Removed(w) PROVE OtpInv'
<1> DEFINE p == [pages[w] EXCEPT !.removal = "announce"]
<1>0. PICK s : s = [vault |-> NoVault, records |-> NoCards] OBVIOUS
<1>1. pages' = [pages EXCEPT ![w] = p] /\ stores' = [stores EXCEPT ![home[w]] = s] BY <1>0 DEF Removed, SetPage, RemoveVault
<1>2. /\ p \in PageShape /\ p.sync = pages[w].sync /\ p.write = pages[w].write /\ p.bound = pages[w].bound
      /\ p.cached = pages[w].cached /\ p.synced = pages[w].synced /\ p.phase = pages[w].phase /\ p.key = pages[w].key
      /\ p.id = pages[w].id /\ p.generation = pages[w].generation /\ p.trusted = pages[w].trusted BY PageFacts DEF PageShape
<1> HIDE DEF p
<1>3. PageIsWhole(p) /\ SyncIsWhole(p) /\ WriteIsWhole(p) BY <1>2, PageFacts DEF PageIsWhole, SyncIsWhole, WriteIsWhole
<1>4. AdoptsTheFirst(p, s.vault) BY <1>0, <1>2, PageFacts, RemovedIsWhole DEF AdoptsTheFirst, Adopting, OfTheFirst
<1>5. PageHolds(p, otpRecords, purged) /\ (OldPage(p) => AloneAt(home, home[w]))
  BY <1>2, PageFacts DEF PageHolds, Creates, OldPage, Adopting
<1> QED BY <1>0, <1>1, <1>2, <1>3, <1>4, <1>5, RemovedIsWhole, NothingNewIsSent, PageAndStoreMove DEF Removed, PageOk

\* A page without its key lists nothing and is trusted with nothing.
LEMMA DisarmedIsWhole ==
  ASSUME OtpInv, NEW w \in Windows, NEW p, p = Disarmed(pages[w])
  PROVE  /\ p \in PageShape /\ PageOk(p, stores[home[w]].vault) /\ PageHolds(p, otpRecords, purged)
         /\ OldPage(p) => AloneAt(home, home[w])
         /\ p.write = pages[w].write /\ p.sync = pages[w].sync
         /\ p.generation = pages[w].generation /\ p.phase \in {"reading", "enrolling", "not-enrolled"}
<1>a. PICK was : was = pages[w] OBVIOUS
<1>b. was \in PageShape BY <1>a, PageFacts
<1>c. p = [was EXCEPT !.phase = IF was.phase \in {"reading", "enrolling"} THEN was.phase ELSE "not-enrolled",
                     !.key = NoKey, !.trusted = FALSE, !.cached = NoCards, !.synced = FALSE] BY <1>a DEF Disarmed
<1>1. /\ p \in PageShape /\ p.sync = pages[w].sync /\ p.write = pages[w].write /\ p.bound = pages[w].bound
      /\ p.cached = NoCards /\ ~p.synced /\ ~p.trusted /\ p.key = NoKey
      /\ p.phase = (IF pages[w].phase \in {"reading", "enrolling"} THEN pages[w].phase ELSE "not-enrolled")
      /\ p.id = pages[w].id /\ p.generation = pages[w].generation BY <1>a, <1>b, <1>c, NothingIsShaped DEF PageShape
<1>2. PageIsWhole(p) BY <1>1, PageFacts DEF PageIsWhole
<1>3. SyncIsWhole(p) /\ WriteIsWhole(p) BY <1>1, PageFacts DEF SyncIsWhole, WriteIsWhole
<1>4. AdoptsTheFirst(p, stores[home[w]].vault) /\ (OldPage(p) => AloneAt(home, home[w]))
  BY <1>1, PageFacts, NothingIsShaped DEF AdoptsTheFirst, OldPage, Adopting
<1>5. PageHolds(p, otpRecords, purged) BY <1>1, NothingIsHeld, PageFacts DEF PageHolds, Creates
<1> QED BY <1>1, <1>2, <1>3, <1>4, <1>5 DEF PageOk

\* Whether a page was told, and whether it is removing, is no part of what it holds.
LEMMA MarksAreFree ==
  ASSUME OtpInv, NEW p \in PageShape, NEW q \in PageShape, NEW kept,
         q.sync = p.sync, q.write = p.write, q.bound = p.bound, q.cached = p.cached, q.synced = p.synced,
         q.phase = p.phase, q.key = p.key, q.id = p.id, q.generation = p.generation, q.trusted = p.trusted
  PROVE  /\ PageOk(p, kept) => PageOk(q, kept)
         /\ PageHolds(p, otpRecords, purged) => PageHolds(q, otpRecords, purged)
         /\ OldPage(p) <=> OldPage(q)
         /\ \A c \in Cards : Creates(p, c) <=> Creates(q, c)
<1>1. PageOk(p, kept) => PageOk(q, kept) BY DEF PageOk, PageIsWhole, SyncIsWhole, WriteIsWhole, AdoptsTheFirst, Adopting
<1> QED BY <1>1 DEF PageHolds, Creates, OldPage, Adopting

\* A page told that its vault is gone lets its key go.
LEMMA HearKeeps == ASSUME OtpInv, NEW w \in Windows, Hear(w) PROVE OtpInv'
<1>0. PICK d : d = Disarmed(pages[w]) OBVIOUS
<1> DEFINE p == [d EXCEPT !.told = FALSE]
<1>1. pages' = [pages EXCEPT ![w] = p] BY <1>0 DEF Hear, SetPage
<1>a. d \in PageShape BY <1>0, DisarmedIsWhole
<1>2. /\ p \in PageShape /\ p.sync = d.sync /\ p.write = d.write /\ p.bound = d.bound
      /\ p.cached = d.cached /\ p.synced = d.synced /\ p.phase = d.phase /\ p.key = d.key
      /\ p.id = d.id /\ p.generation = d.generation /\ p.trusted = d.trusted BY <1>a DEF PageShape
<1> HIDE DEF p
<1>3. PICK kept : kept = stores[home[w]].vault OBVIOUS
<1>4. PageOk(p, kept) /\ PageHolds(p, otpRecords, purged) /\ (OldPage(p) => AloneAt(home, home[w])) /\ p.write = pages[w].write
  BY <1>0, <1>2, <1>3, DisarmedIsWhole, MarksAreFree
<1> QED BY <1>1, <1>2, <1>3, <1>4, NothingNewIsSent, OnePageMoves DEF Hear

\* Telling the pages of a browser disturbs none of them.
LEMMA TellingKeeps ==
  ASSUME OtpInv, NEW w \in Windows, NEW p \in PageShape, pages' = Announced(w, p),
         PageOk(p, stores[home[w]].vault), PageHolds(p, otpRecords, purged),
         OldPage(p) => AloneAt(home, home[w]),
         p.write = pages[w].write \/ p.write.step # "sent",
         UNCHANGED <<otpRecords, purged, profile, stores, home, writes>>
  PROVE  OtpInv'
<1> DEFINE q(v) == IF v = w THEN p ELSE pages[v]
<1>1. \A v \in Windows : /\ q(v) \in PageShape /\ PageOk(q(v), stores[home[v]].vault)
                         /\ PageHolds(q(v), otpRecords, purged)
                         /\ OldPage(q(v)) => AloneAt(home, home[v]) BY DEF OtpInv, OtpShape
<1>2. \A u, v \in Windows, c \in Cards : Creates(q(u), c) /\ Creates(q(v), c) => u = v BY NothingNewIsSent DEF OtpInv
<1>3. ASSUME NEW v \in Windows
      PROVE  /\ pages'[v] \in PageShape /\ PageOk(pages'[v], stores[home[v]].vault)
             /\ PageHolds(pages'[v], otpRecords, purged)
             /\ OldPage(pages'[v]) => AloneAt(home, home[v])
             /\ \A c \in Cards : Creates(pages'[v], c) <=> Creates(q(v), c)
 <2>1. CASE pages'[v] = q(v) BY <1>1, <2>1
 <2>2. CASE pages'[v] = [q(v) EXCEPT !.told = TRUE]
  <3>1. PICK r : r = q(v) OBVIOUS
  <3>2. PICK kept : kept = stores[home[v]].vault OBVIOUS
  <3>3. r \in PageShape /\ PageOk(r, kept) /\ PageHolds(r, otpRecords, purged) /\ (OldPage(r) => AloneAt(home, home[v]))
    BY <1>1, <3>1, <3>2
  <3>4. PICK s : s = [r EXCEPT !.told = TRUE] OBVIOUS
  <3>5. /\ s \in PageShape /\ s.sync = r.sync /\ s.write = r.write /\ s.bound = r.bound
        /\ s.cached = r.cached /\ s.synced = r.synced /\ s.phase = r.phase /\ s.key = r.key
        /\ s.id = r.id /\ s.generation = r.generation /\ s.trusted = r.trusted BY <3>3, <3>4 DEF PageShape
  <3>6. PageOk(s, kept) /\ PageHolds(s, otpRecords, purged) /\ (OldPage(s) => AloneAt(home, home[v]))
        /\ \A c \in Cards : Creates(s, c) <=> Creates(r, c) BY <3>3, <3>5, MarksAreFree
  <3>7. pages'[v] = s BY <2>2, <3>1, <3>4
  <3> HIDE DEF q
  <3> QED BY <3>1, <3>2, <3>5, <3>6, <3>7
 <2> QED BY <2>1, <2>2 DEF Announced
<1>4. pages' \in [Windows -> PageShape] BY <1>3 DEF Announced
<1> HIDE DEF q
<1>5. \A u, v \in Windows, c \in Cards : Creates(pages'[u], c) /\ Creates(pages'[v], c) => u = v BY <1>2, <1>3
<1> QED BY <1>3, <1>4, <1>5 DEF OtpInv, OtpShape

\* The other pages of the browser are told.
LEMMA AnnounceKeeps == ASSUME OtpInv, NEW w \in Windows, Announce(w) PROVE OtpInv'
<1>0. PICK kept : kept = stores[home[w]].vault OBVIOUS
<1>1. CASE pages[w].phase = "closed"
 <2>1. PICK p : p = [Closed(pages[w].bound) EXCEPT !.removal = "none"] OBVIOUS
 <2>2. pages' = Announced(w, p) BY <1>1, <2>1 DEF Announce, Closed
 <2>3. /\ p \in PageShape /\ PageOk(p, kept) /\ PageHolds(p, otpRecords, purged) /\ ~OldPage(p)
       /\ p.write.step = "idle" BY <2>1, ClosedIsWhole, PageFacts DEF PageShape
 <2> QED BY <1>0, <2>2, <2>3, TellingKeeps DEF Announce
<1>2. CASE pages[w].phase # "closed"
 <2>1. PICK d : d = Disarmed(pages[w]) OBVIOUS
 <2>2. PICK p : p = [d EXCEPT !.removal = "none"] OBVIOUS
 <2>3. pages' = Announced(w, p) BY <1>2, <2>1, <2>2 DEF Announce
 <2>4. /\ p \in PageShape /\ p.sync = d.sync /\ p.write = d.write /\ p.bound = d.bound
       /\ p.cached = d.cached /\ p.synced = d.synced /\ p.phase = d.phase /\ p.key = d.key
       /\ p.id = d.id /\ p.generation = d.generation /\ p.trusted = d.trusted BY <2>1, <2>2, DisarmedIsWhole DEF PageShape
 <2>5. PageOk(p, kept) /\ PageHolds(p, otpRecords, purged) /\ (OldPage(p) => AloneAt(home, home[w])) /\ p.write = pages[w].write
   BY <1>0, <2>1, <2>4, DisarmedIsWhole, MarksAreFree
 <2> QED BY <1>0, <2>3, <2>4, <2>5, TellingKeeps DEF Announce
<1> QED BY <1>1, <1>2

-----------------------------------------------------------------------------
(* A sync. *)

\* A page that knew no generation takes the one it is told.
LEMMA AdoptKeeps == ASSUME OtpInv, NEW w \in Windows, Adopt(w) PROVE OtpInv'
<1>0. PICK was : was = pages[w] OBVIOUS
<1>1. was \in PageShape /\ was.bound = Unknown /\ profile.gen \in Gens /\ profile.gen # Unknown
  BY <1>0, PageFacts, NothingIsShaped DEF Adopt
<1>2. PICK header \in Gens \cup {Unknown} :
        /\ pages' = [pages EXCEPT ![w] = [was EXCEPT !.bound = profile.gen, !.sync.header = header]]
        /\ header = was.sync.header \/ (was.sync.step = "asking" /\ was.sync.answers = {})
 <2>1. PICK header : header = IF was.sync.step = "asking" /\ was.sync.answers = {} /\ ~Serves(Unknown)
                              THEN profile.gen ELSE was.sync.header OBVIOUS
 <2>2. header \in Gens \cup {Unknown} BY <1>1, <2>1 DEF PageShape, SyncShape
 <2>3. pages' = [pages EXCEPT ![w] = [was EXCEPT !.bound = profile.gen, !.sync.header = header]]
   BY <1>0, <2>1 DEF Adopt, SetPage
 <2> QED BY <2>1, <2>2, <2>3
<1>3. PICK sync : sync = [was.sync EXCEPT !.header = header] OBVIOUS
<1>4. /\ sync \in SyncShape /\ sync.header = header /\ sync.step = was.sync.step /\ sync.key = was.sync.key
      /\ sync.answers = was.sync.answers /\ sync.rows = was.sync.rows /\ sync.reported = was.sync.reported
      /\ sync.read = was.sync.read BY <1>1, <1>2, <1>3 DEF PageShape, SyncShape
<1>5. PICK p : p = [was EXCEPT !.bound = profile.gen, !.sync = sync] OBVIOUS
<1>6. pages' = [pages EXCEPT ![w] = p] BY <1>1, <1>2, <1>3, <1>5 DEF PageShape, SyncShape
<1>7. /\ p \in PageShape /\ p.sync = sync /\ p.write = was.write /\ p.bound = profile.gen
      /\ p.cached = was.cached /\ p.synced = was.synced /\ p.phase = was.phase /\ p.key = was.key
      /\ p.id = was.id /\ p.generation = was.generation /\ p.trusted = was.trusted BY <1>1, <1>4, <1>5 DEF PageShape
<1>8. ~was.synced /\ was.write.step = "idle" /\ was.sync.step \notin Past
  BY <1>0, <1>1, PageFacts DEF PageIsWhole, SyncIsWhole, WriteIsWhole
<1>9. PageIsWhole(p) /\ WriteIsWhole(p) BY <1>0, <1>4, <1>7, <1>8, PageFacts DEF PageIsWhole, WriteIsWhole
<1>10. SyncIsWhole(p) BY <1>0, <1>2, <1>4, <1>7, <1>8, PageFacts DEF SyncIsWhole
<1>11. AdoptsTheFirst(p, stores[home[w]].vault) /\ (OldPage(p) => AloneAt(home, home[w]))
  BY <1>0, <1>4, <1>7, <1>8, PageFacts DEF AdoptsTheFirst, OldPage, Adopting, Past
<1>12. PageHolds(p, otpRecords, purged) BY <1>0, <1>4, <1>7, PageFacts DEF PageHolds, Creates
<1> QED BY <1>0, <1>6, <1>7, <1>9, <1>10, <1>11, <1>12, NothingNewIsSent, OnePageMoves DEF Adopt, PageOk

\* A page whose sync moves.
LEMMA SyncMoves ==
  ASSUME OtpInv, NEW w \in Windows, NEW sync \in SyncShape, NEW p, p = [pages[w] EXCEPT !.sync = sync]
  PROVE  /\ p \in PageShape /\ p.sync = sync /\ p.write = pages[w].write /\ p.bound = pages[w].bound
         /\ p.cached = pages[w].cached /\ p.synced = pages[w].synced /\ p.phase = pages[w].phase
         /\ p.key = pages[w].key /\ p.id = pages[w].id /\ p.generation = pages[w].generation
         /\ p.trusted = pages[w].trusted /\ WriteIsWhole(p)
         /\ (pages[w].phase # "closed" \/ sync.step = "idle") => PageIsWhole(p)
         /\ Held(sync.rows, otpRecords, purged) => PageHolds(p, otpRecords, purged)
<1>1. /\ p \in PageShape /\ p.sync = sync /\ p.write = pages[w].write /\ p.bound = pages[w].bound
      /\ p.cached = pages[w].cached /\ p.synced = pages[w].synced /\ p.phase = pages[w].phase
      /\ p.key = pages[w].key /\ p.id = pages[w].id /\ p.generation = pages[w].generation
      /\ p.trusted = pages[w].trusted BY PageFacts DEF PageShape
<1>2. WriteIsWhole(p) BY <1>1, PageFacts DEF WriteIsWhole
<1>3. (pages[w].phase # "closed" \/ sync.step = "idle") => PageIsWhole(p) BY <1>1, PageFacts DEF PageIsWhole
<1>4. Held(sync.rows, otpRecords, purged) => PageHolds(p, otpRecords, purged) BY <1>1, PageFacts DEF PageHolds, Creates
<1> QED BY <1>1, <1>2, <1>3, <1>4

\* A sync that is not at work beside the vault asks nothing of it.
LEMMA SyncAtRest ==
  ASSUME OtpInv, NEW w \in Windows, NEW sync \in SyncShape, NEW p, p = [pages[w] EXCEPT !.sync = sync],
         sync.step \in {"idle", "remove", "announce"}, sync.read = NoVault
  PROVE  /\ SyncIsWhole(p) /\ AdoptsTheFirst(p, stores[home[w]].vault)
         /\ OldPage(p) => AloneAt(home, home[w])
<1>1. SyncIsWhole(p) BY SyncMoves, NothingIsShaped DEF SyncIsWhole, Past, VaultNamed
<1>2. AdoptsTheFirst(p, stores[home[w]].vault) BY SyncMoves, PageFacts DEF AdoptsTheFirst, Adopting
<1>3. OldPage(p) => AloneAt(home, home[w]) BY SyncMoves, PageFacts, NothingIsShaped DEF OldPage, Adopting
<1> QED BY <1>1, <1>2, <1>3

\* A sync asks under the names its page has.
LEMMA StartSyncKeeps == ASSUME OtpInv, NEW w \in Windows, StartSync(w) PROVE OtpInv'
<1>0. PICK sync : sync = [NoSync EXCEPT !.step = "asking", !.key = pages[w].key, !.id = pages[w].id,
                            !.persist = pages[w].trusted, !.header = pages[w].bound] OBVIOUS
<1>1. sync \in SyncShape /\ sync.step = "asking" /\ sync.answers = {} /\ sync.rows = NoCards /\ sync.read = NoVault
      /\ sync.key = pages[w].key
 <2>1. PICK was : was = pages[w] OBVIOUS
 <2>2. was \in PageShape BY <2>1, PageFacts
 <2>3. was.key \in KeyShape /\ was.id \in Nat /\ was.trusted \in BOOLEAN /\ was.bound \in Gens \cup {Unknown}
   BY <2>2 DEF PageShape
 <2>4. sync = [NoSync EXCEPT !.step = "asking", !.key = was.key, !.id = was.id, !.persist = was.trusted, !.header = was.bound]
   BY <1>0, <2>1
 <2>5. sync \in SyncShape /\ sync.step = "asking" /\ sync.answers = {} /\ sync.rows = NoCards /\ sync.read = NoVault
   BY <2>3, <2>4, NothingIsShaped DEF SyncShape, NoSync
 <2>6. sync.key = was.key BY <2>4 DEF NoSync
 <2> QED BY <2>1, <2>5, <2>6
<1>2. PICK p : p = [pages[w] EXCEPT !.sync = sync] OBVIOUS
<1>3. pages' = [pages EXCEPT ![w] = p] /\ pages[w].phase = "ready" /\ pages[w].key # NoKey
  BY <1>0, <1>2 DEF StartSync, SetSync, SetPage
<1>4. SyncIsWhole(p) BY <1>1, <1>2, <1>3, SyncMoves, NothingIsShaped DEF SyncIsWhole, Past, VaultNamed
<1>5. AdoptsTheFirst(p, stores[home[w]].vault) /\ (OldPage(p) => AloneAt(home, home[w]))
  BY <1>1, <1>2, SyncMoves, PageFacts, NothingIsShaped DEF AdoptsTheFirst, OldPage, Adopting
<1>6. Held(sync.rows, otpRecords, purged) BY <1>1, PageFacts, NothingIsHeld
<1>a. /\ p \in PageShape /\ PageOk(p, stores[home[w]].vault) /\ PageHolds(p, otpRecords, purged)
      /\ p.write = pages[w].write BY <1>1, <1>2, <1>3, <1>4, <1>5, <1>6, SyncMoves DEF PageOk
<1> QED BY <1>3, <1>5, <1>a, NothingNewIsSent, OnePageMoves DEF StartSync

\* A sync that fails leaves the page as it was.
LEMMA SyncFailsKeeps == ASSUME OtpInv, NEW w \in Windows, SyncFails(w) PROVE OtpInv'
<1>0. PICK was : was = pages[w] OBVIOUS
<1>1. PICK p : p = [was EXCEPT !.sync = NoSync, !.synced = FALSE] OBVIOUS
<1>2. was \in PageShape /\ pages' = [pages EXCEPT ![w] = p] BY <1>0, <1>1, PageFacts DEF SyncFails, SetPage
<1>3. /\ p \in PageShape /\ p.sync = NoSync /\ p.write = was.write /\ p.bound = was.bound
      /\ p.cached = was.cached /\ ~p.synced /\ p.phase = was.phase /\ p.key = was.key
      /\ p.id = was.id /\ p.generation = was.generation /\ p.trusted = was.trusted BY <1>1, <1>2, NothingIsShaped DEF PageShape
<1>4. PageIsWhole(p) /\ WriteIsWhole(p) BY <1>0, <1>3, PageFacts, NothingIsShaped DEF PageIsWhole, WriteIsWhole
<1>5. SyncIsWhole(p) BY <1>3, NothingIsShaped DEF SyncIsWhole, Past, VaultNamed
<1>6. AdoptsTheFirst(p, stores[home[w]].vault) /\ (OldPage(p) => AloneAt(home, home[w]))
  BY <1>0, <1>3, PageFacts, NothingIsShaped DEF AdoptsTheFirst, OldPage, Adopting
<1>7. PageHolds(p, otpRecords, purged) BY <1>0, <1>3, PageFacts, NothingIsShaped, NothingIsHeld DEF PageHolds, Creates
<1> QED BY <1>0, <1>2, <1>3, <1>4, <1>5, <1>6, <1>7, NothingNewIsSent, OnePageMoves DEF SyncFails, PageOk

\* An answer is of the generation the request was served under.
LEMMA AnswerKeeps == ASSUME OtpInv, NEW w \in Windows, NEW what \in {"list", "profile"}, OtpAnswer(w, what) PROVE OtpInv'
<1>0. PICK was : was = pages[w].sync OBVIOUS
<1>1. PICK sync : sync = [was EXCEPT !.answers = @ \cup {what},
                            !.rows = IF what = "list" THEN otpRecords ELSE @,
                            !.reported = IF what = "profile" THEN profile ELSE @] OBVIOUS
<1>2. was \in SyncShape /\ otpRecords \in CopyShape /\ profile \in KeyShape BY <1>0, PageFacts DEF PageShape, KeyShape
<1>3. /\ sync \in SyncShape /\ sync.step = was.step /\ sync.header = was.header /\ sync.read = was.read /\ sync.key = was.key
      /\ sync.answers = was.answers \cup {what}
      /\ sync.rows = (IF what = "list" THEN otpRecords ELSE was.rows)
      /\ sync.reported = (IF what = "profile" THEN profile ELSE was.reported) BY <1>1, <1>2 DEF SyncShape
<1>4. PICK p : p = [pages[w] EXCEPT !.sync = sync] OBVIOUS
<1>5. /\ pages' = [pages EXCEPT ![w] = p] /\ was.step = "asking"
      /\ was.header = profile.gen \/ (was.header = Unknown /\ profile.gen = 0)
  BY <1>0, <1>1, <1>4 DEF OtpAnswer, SetSync, SetPage, Serves
<1>6. Named(was.header) = profile.gen BY <1>5, PageFacts, NothingIsShaped DEF Named
<1>7. AllOf(otpRecords, profile.gen) BY PageFacts DEF RowsOk, AllOf
<1>8. SyncIsWhole(p) BY <1>0, <1>3, <1>4, <1>5, <1>6, <1>7, SyncMoves, PageFacts DEF SyncIsWhole, Past
<1>9. AdoptsTheFirst(p, stores[home[w]].vault) /\ (OldPage(p) => AloneAt(home, home[w]))
  BY <1>0, <1>3, <1>4, <1>5, SyncMoves, PageFacts DEF AdoptsTheFirst, OldPage, Adopting
<1>10. Held(sync.rows, otpRecords, purged) BY <1>0, <1>3, PageFacts, TableIsHeld DEF PageHolds
<1>11. pages[w].phase # "closed" BY <1>0, <1>5, PageFacts DEF PageIsWhole
<1>a. /\ p \in PageShape /\ PageOk(p, stores[home[w]].vault) /\ PageHolds(p, otpRecords, purged)
      /\ p.write = pages[w].write BY <1>3, <1>4, <1>8, <1>9, <1>10, <1>11, SyncMoves DEF PageOk
<1> QED BY <1>5, <1>9, <1>a, NothingNewIsSent, OnePageMoves DEF OtpAnswer

\* What a page decides from both answers: the generation reported is the one it
\* is bound to, and its key is of it.
LEMMA DecideKeeps == ASSUME OtpInv, NEW w \in Windows, Decide(w) PROVE OtpInv'
<1>0. PICK was : was = pages[w] OBVIOUS
<1>1. PICK old : old = was.sync OBVIOUS
<1>2. was \in PageShape /\ old \in SyncShape /\ old.step = "asking" /\ was.bound # Unknown /\ was.phase # "closed"
      /\ old.answers = {"list", "profile"} BY <1>0, <1>1, PageFacts DEF PageShape, Decide, PageIsWhole
<1>3. old.reported.gen = Named(old.header) /\ AllOf(old.rows, Named(old.header)) /\ Held(old.rows, otpRecords, purged)
  BY <1>0, <1>1, <1>2, PageFacts DEF SyncIsWhole, PageHolds
<1>4. CASE pages' = [pages EXCEPT ![w] = [was EXCEPT !.sync = NoSync]]
 <2>1. PICK p : p = [was EXCEPT !.sync = NoSync] OBVIOUS
 <2>2. /\ p \in PageShape /\ PageOk(p, stores[home[w]].vault) /\ PageHolds(p, otpRecords, purged)
       /\ p.write = pages[w].write /\ (OldPage(p) => AloneAt(home, home[w]))
   BY <1>0, <2>1, SyncMoves, SyncAtRest, NothingIsShaped, NothingIsHeld, PageFacts DEF PageOk
 <2> QED BY <1>4, <2>1, <2>2, NothingNewIsSent, OnePageMoves DEF Decide
<1>5. CASE pages' = [pages EXCEPT ![w] = [was EXCEPT !.sync = [NoSync EXCEPT !.step = "remove", !.key = old.key]]]
 <2>1. PICK sync : sync = [NoSync EXCEPT !.step = "remove", !.key = old.key] OBVIOUS
 <2>2. sync \in SyncShape /\ sync.step = "remove" /\ sync.read = NoVault /\ sync.rows = NoCards
   BY <1>2, <2>1, NothingIsShaped DEF SyncShape, NoSync
 <2>3. PICK p : p = [was EXCEPT !.sync = sync] OBVIOUS
 <2>4. /\ p \in PageShape /\ PageOk(p, stores[home[w]].vault) /\ PageHolds(p, otpRecords, purged)
       /\ p.write = pages[w].write /\ (OldPage(p) => AloneAt(home, home[w]))
   BY <1>0, <1>2, <2>2, <2>3, SyncMoves, SyncAtRest, NothingIsHeld, PageFacts DEF PageOk
 <2> QED BY <1>5, <2>1, <2>3, <2>4, NothingNewIsSent, OnePageMoves DEF Decide
<1>6. CASE /\ was.phase = "ready" /\ was.key = old.key /\ Named(old.header) = Named(was.bound)
           /\ ~GenerationStale(was.generation, old.reported.gen)
           /\ \E step \in {"show", "adopt", "replace"} :
                /\ step = "adopt" => was.generation = Legacy
                /\ pages' = [pages EXCEPT ![w] = [was EXCEPT !.generation = old.reported.gen,
                     !.sync = [NoSync EXCEPT !.key = old.key, !.rows = old.rows, !.reported = old.reported, !.step = step]]]
 <2>0. PICK step \in {"show", "adopt", "replace"} :
         /\ step = "adopt" => was.generation = Legacy
         /\ pages' = [pages EXCEPT ![w] = [was EXCEPT !.generation = old.reported.gen,
              !.sync = [NoSync EXCEPT !.key = old.key, !.rows = old.rows, !.reported = old.reported, !.step = step]]] BY <1>6
 <2>1. PICK sync : sync = [NoSync EXCEPT !.key = old.key, !.rows = old.rows, !.reported = old.reported, !.step = step] OBVIOUS
 <2>2. /\ sync \in SyncShape /\ sync.step = step /\ sync.read = NoVault /\ sync.rows = old.rows
       /\ sync.key = old.key /\ sync.reported = old.reported BY <1>2, <2>1, NothingIsShaped DEF SyncShape, NoSync
 <2>3. PICK p : p = [was EXCEPT !.generation = old.reported.gen, !.sync = sync] OBVIOUS
 <2>4. old.reported.gen \in Gens /\ was.bound \in Gens /\ was.key \in KeyShape /\ old.reported.gen # Legacy
   BY <1>2, NothingIsShaped DEF PageShape, SyncShape, KeyShape
 <2>5. old.reported.gen = was.bound BY <1>3, <1>6, <2>4, NothingIsShaped DEF Named
 <2>6. GenerationOf(was.generation) = was.bound /\ GenerationOf(was.bound) = was.bound
   BY <1>6, <2>4, <2>5, NothingIsShaped DEF GenerationStale, GenerationOf
 <2>7. was.key # NoKey => was.key.gen = was.bound BY <1>0, <2>6, PageFacts DEF PageIsWhole, NamedBy
 <2>8. /\ p \in PageShape /\ p.sync = sync /\ p.write = was.write /\ p.bound = was.bound
       /\ p.cached = was.cached /\ p.synced = was.synced /\ p.phase = "ready" /\ p.key = was.key
       /\ p.id = was.id /\ p.generation = was.bound /\ p.trusted = was.trusted
   BY <1>2, <1>6, <2>2, <2>3, <2>4, <2>5 DEF PageShape
 <2>9. PageIsWhole(p) /\ WriteIsWhole(p) BY <1>0, <2>4, <2>5, <2>6, <2>8, PageFacts DEF PageIsWhole, WriteIsWhole, NamedBy
 <2>a. old.key # NoKey BY <1>0, <1>1, <1>2, PageFacts DEF SyncIsWhole
 <2>10. SyncIsWhole(p) BY <1>3, <1>6, <2>2, <2>4, <2>5, <2>7, <2>8, <2>a, NothingIsShaped DEF SyncIsWhole, VaultNamed
 <2>11. AdoptsTheFirst(p, stores[home[w]].vault)
  <3>1. step = "adopt" => was.bound = 0 /\ OfTheFirst(stores[home[w]].vault)
    BY <1>0, <2>0, <2>6, PageFacts DEF AdoptsTheFirst, GenerationOf
  <3> QED BY <1>6, <2>2, <2>4, <2>5, <2>7, <2>8, <2>a, <3>1 DEF AdoptsTheFirst, Adopting
 <2>12. OldPage(p) => AloneAt(home, home[w])
   BY <1>0, <2>0, <2>2, <2>4, <2>5, <2>8, PageFacts, NothingIsShaped DEF OldPage, Adopting
 <2>13. PageHolds(p, otpRecords, purged) BY <1>0, <1>3, <2>2, <2>8, PageFacts DEF PageHolds, Creates
 <2>14. pages' = [pages EXCEPT ![w] = p] BY <2>0, <2>1, <2>3
 <2> QED BY <1>0, <2>8, <2>9, <2>10, <2>11, <2>12, <2>13, <2>14, NothingNewIsSent, OnePageMoves DEF Decide, PageOk
<1> QED BY <1>0, <1>1, <1>4, <1>5, <1>6 DEF Decide, SetSync, SetPage, IsCurrent

\* What is read from the disk is named as the disk is.
LEMMA ReadVaultKeeps == ASSUME OtpInv, NEW w \in Windows, ReadVault(w) PROVE OtpInv'
<1>0. PICK old : old = pages[w].sync OBVIOUS
<1>1. PICK kept : kept = stores[home[w]].vault OBVIOUS
<1>2. /\ old \in SyncShape /\ kept \in VaultShape /\ VaultNamed(kept) /\ (kept.generation = Legacy => AloneAt(home, home[w]))
      /\ pages[w].phase # "closed" /\ old.step \in {"adopt", "stamp"} /\ Held(old.rows, otpRecords, purged)
  BY <1>0, <1>1, PageFacts DEF PageShape, ReadVault, PageIsWhole, StoreOk, PageHolds
<1>3. PICK step \in {"replace", "show", "adopting", "stamping"} :
        /\ pages' = [pages EXCEPT ![w] = [pages[w] EXCEPT !.sync = [old EXCEPT !.read = kept, !.step = step]]]
        /\ step \in {"adopting", "stamping"} => kept # NoVault
        /\ step = "adopting" => old.step = "adopt"
        /\ step \in {"replace", "show"} => kept = NoVault BY <1>0, <1>1, <1>2 DEF ReadVault, SetSync, SetPage, StoreOf
<1>4. PICK sync : sync = [old EXCEPT !.read = kept, !.step = step] OBVIOUS
<1>5. /\ sync \in SyncShape /\ sync.step = step /\ sync.read = kept /\ sync.rows = old.rows /\ sync.key = old.key
      /\ sync.reported = old.reported BY <1>2, <1>4 DEF SyncShape
<1>6. PICK p : p = [pages[w] EXCEPT !.sync = sync] OBVIOUS
<1>7. SyncIsWhole(p)
 <2>1. /\ pages[w].bound # Unknown /\ old.key.gen = pages[w].bound /\ AllOf(old.rows, pages[w].bound)
       /\ pages[w].generation # Legacy BY <1>0, <1>2, PageFacts DEF SyncIsWhole, Past
 <2>2. /\ p.sync = sync /\ p.bound = pages[w].bound /\ p.generation = pages[w].generation BY <1>5, <1>6, SyncMoves
 <2> QED BY <1>2, <1>3, <1>5, <2>1, <2>2 DEF SyncIsWhole, Past
<1>8. AdoptsTheFirst(p, kept) /\ (OldPage(p) => AloneAt(home, home[w]))
  BY <1>0, <1>1, <1>2, <1>3, <1>5, <1>6, SyncMoves, PageFacts DEF AdoptsTheFirst, OldPage, Adopting, OfTheFirst
<1>9. p \in PageShape /\ PageIsWhole(p) /\ WriteIsWhole(p) /\ PageHolds(p, otpRecords, purged) /\ p.write = pages[w].write
  BY <1>2, <1>5, <1>6, SyncMoves
<1>10. pages' = [pages EXCEPT ![w] = p] BY <1>3, <1>4, <1>6
<1> QED BY <1>1, <1>7, <1>8, <1>9, <1>10, NothingNewIsSent, OnePageMoves DEF ReadVault, PageOk

\* A number put beside a vault that had none is the first, and so is its key.
LEMMA PutVaultKeeps == ASSUME OtpInv, NEW w \in Windows, PutVault(w) PROVE OtpInv'
<1>0. PICK old : old = pages[w].sync OBVIOUS
<1>1. PICK kept : kept = IF old.step = "adopting" THEN [old.read EXCEPT !.generation = old.reported.gen] ELSE old.read OBVIOUS
<1>2. /\ old \in SyncShape /\ old.step \in {"adopting", "stamping"} /\ pages[w].phase # "closed"
      /\ old.read \in VaultShape /\ old.read # NoVault /\ VaultNamed(old.read) /\ old.reported.gen \in Gens
  BY <1>0, PageFacts DEF PageShape, SyncShape, KeyShape, PutVault, PageIsWhole, SyncIsWhole
<1>3. /\ pages[w].bound # Unknown /\ old.key.gen = pages[w].bound /\ AllOf(old.rows, pages[w].bound)
      /\ pages[w].generation # Legacy /\ Held(old.rows, otpRecords, purged)
  BY <1>0, <1>2, PageFacts DEF SyncIsWhole, Past, PageHolds
<1>4. old.step = "adopting" => old.reported.gen = 0 /\ old.read.key.gen = 0 BY <1>0, PageFacts DEF AdoptsTheFirst, Adopting
<1>5. kept \in VaultShape /\ VaultNamed(kept) /\ (kept.generation = Legacy => AloneAt(home, home[w]))
 <2>1. CASE old.step = "adopting"
   BY <1>1, <1>2, <1>4, <2>1, NothingIsShaped DEF VaultShape, VaultNamed, NamedBy, GenerationOf
 <2>2. CASE old.step # "adopting" BY <1>0, <1>1, <1>2, <2>2, PageFacts DEF OldPage
 <2> QED BY <2>1, <2>2
<1>6. PICK sync : sync = [old EXCEPT !.read = NoVault, !.step = IF old.step = "adopting" THEN "replace" ELSE "show"] OBVIOUS
<1>7. /\ sync \in SyncShape /\ sync.step \in {"replace", "show"} /\ sync.read = NoVault /\ sync.rows = old.rows /\ sync.key = old.key
  BY <1>2, <1>6, NothingIsShaped DEF SyncShape
<1>8. PICK p : p = [pages[w] EXCEPT !.sync = sync] OBVIOUS
<1>9. PICK s : s = [stores[home[w]] EXCEPT !.vault = kept] OBVIOUS
<1>10. pages' = [pages EXCEPT ![w] = p] BY <1>0, <1>6, <1>8 DEF PutVault, SetSync, SetPage
<1>11. stores' = [stores EXCEPT ![home[w]] = s] BY <1>0, <1>1, <1>9 DEF PutVault, SaveVault
<1>12. /\ s \in [vault : VaultShape, records : CopyShape] /\ s.vault = kept /\ StoreOk(s, otpRecords, purged)
  BY <1>5, <1>9, PageFacts DEF StoreOk
<1>13. SyncIsWhole(p) /\ AdoptsTheFirst(p, kept) /\ (OldPage(p) => AloneAt(home, home[w]))
  BY <1>3, <1>7, <1>8, SyncMoves, NothingIsShaped DEF SyncIsWhole, VaultNamed, AdoptsTheFirst, OldPage, Adopting
<1>14. p \in PageShape /\ PageIsWhole(p) /\ WriteIsWhole(p) /\ PageHolds(p, otpRecords, purged) /\ p.write = pages[w].write
  BY <1>2, <1>3, <1>7, <1>8, SyncMoves
<1> QED BY <1>5, <1>10, <1>11, <1>12, <1>13, <1>14, NothingNewIsSent, PageAndStoreMove DEF PutVault, PageOk

\* What a sync stores is what it was answered.
LEMMA StoreSnapshotKeeps == ASSUME OtpInv, NEW w \in Windows, StoreSnapshot(w) PROVE OtpInv'
<1>0. PICK old : old = pages[w].sync OBVIOUS
<1>2. old \in SyncShape /\ old.step = "replace" /\ pages[w].phase # "closed"
  BY <1>0, PageFacts DEF PageShape, StoreSnapshot, PageIsWhole
<1>3. /\ pages[w].bound # Unknown /\ old.key.gen = pages[w].bound /\ AllOf(old.rows, pages[w].bound)
      /\ pages[w].generation # Legacy /\ Held(old.rows, otpRecords, purged) /\ VaultNamed(old.read)
      /\ (old.read.generation = Legacy => AloneAt(home, home[w]))
  BY <1>0, <1>2, PageFacts DEF SyncIsWhole, Past, PageHolds, OldPage
<1>4. PICK sync : sync = [old EXCEPT !.step = "stamp"] OBVIOUS
<1>5. /\ sync \in SyncShape /\ sync.step = "stamp" /\ sync.read = old.read /\ sync.rows = old.rows /\ sync.key = old.key
  BY <1>2, <1>4 DEF SyncShape
<1>6. PICK p : p = [pages[w] EXCEPT !.sync = sync] OBVIOUS
<1>7. PICK s : s = [stores[home[w]] EXCEPT !.records = old.rows] OBVIOUS
<1>8. PICK was : was = pages[w] OBVIOUS
<1>9. pages' = [pages EXCEPT ![w] = p]
  BY <1>8, PageFacts, <1>0, <1>4, <1>6 DEF StoreSnapshot, SetPage
<1>10. stores' = [stores EXCEPT ![home[w]] = s] BY <1>0, <1>7 DEF StoreSnapshot, ReplaceRecords
<1>11. /\ s \in [vault : VaultShape, records : CopyShape] /\ s.vault = stores[home[w]].vault /\ StoreOk(s, otpRecords, purged)
  BY <1>2, <1>3, <1>7, PageFacts DEF StoreOk, SyncShape
<1>12. SyncIsWhole(p) /\ AdoptsTheFirst(p, s.vault) /\ (OldPage(p) => AloneAt(home, home[w]))
  BY <1>3, <1>5, <1>6, SyncMoves DEF SyncIsWhole, AdoptsTheFirst, OldPage, Adopting
<1>13. p \in PageShape /\ PageIsWhole(p) /\ WriteIsWhole(p) /\ PageHolds(p, otpRecords, purged) /\ p.write = pages[w].write
  BY <1>2, <1>3, <1>5, <1>6, SyncMoves
<1> QED BY <1>9, <1>10, <1>11, <1>12, <1>13, PageFacts, NothingNewIsSent, PageAndStoreMove DEF StoreSnapshot, PageOk

\* A page shows its own answer: the generation it is bound to.
LEMMA ShowSnapshotKeeps == ASSUME OtpInv, NEW w \in Windows, ShowSnapshot(w) PROVE OtpInv'
<1>0. PICK was : was = pages[w] OBVIOUS
<1>1. was \in PageShape /\ was.sync.step = "show" /\ was.phase # "closed" BY <1>0, PageFacts DEF ShowSnapshot, PageIsWhole
<1>2. /\ was.bound # Unknown /\ was.sync.key.gen = was.bound /\ AllOf(was.sync.rows, was.bound)
      /\ Held(was.sync.rows, otpRecords, purged) /\ was.sync.rows \in CopyShape
  BY <1>0, <1>1, PageFacts DEF SyncIsWhole, Past, PageHolds, PageShape, SyncShape
<1>3. CASE IsCurrent(w)
 <2>1. PICK p : p = [was EXCEPT !.cached = was.sync.rows, !.synced = TRUE, !.sync = NoSync] OBVIOUS
 <2>2. pages' = [pages EXCEPT ![w] = p] /\ was.key = was.sync.key /\ was.phase = "ready"
   BY <1>0, <1>3, <2>1 DEF ShowSnapshot, SetPage, IsCurrent
 <2>3. /\ p \in PageShape /\ p.sync = NoSync /\ p.write = was.write /\ p.bound = was.bound
       /\ p.cached = was.sync.rows /\ p.synced /\ p.phase = was.phase /\ p.key = was.key
       /\ p.id = was.id /\ p.generation = was.generation /\ p.trusted = was.trusted
   BY <1>1, <1>2, <2>1, NothingIsShaped DEF PageShape
 <2>4. PageIsWhole(p) /\ WriteIsWhole(p) BY <1>0, <1>2, <2>2, <2>3, PageFacts DEF PageIsWhole, WriteIsWhole
 <2>5. SyncIsWhole(p) BY <2>3, NothingIsShaped DEF SyncIsWhole, Past, VaultNamed
 <2>6. AdoptsTheFirst(p, stores[home[w]].vault) /\ (OldPage(p) => AloneAt(home, home[w]))
   BY <1>0, <2>3, PageFacts, NothingIsShaped DEF AdoptsTheFirst, OldPage, Adopting
 <2>7. PageHolds(p, otpRecords, purged) BY <1>0, <1>2, <2>3, PageFacts, NothingIsShaped, NothingIsHeld DEF PageHolds, Creates
 <2> QED BY <1>0, <2>2, <2>3, <2>4, <2>5, <2>6, <2>7, NothingNewIsSent, OnePageMoves DEF ShowSnapshot, PageOk
<1>4. CASE ~IsCurrent(w)
 <2>1. PICK p : p = [pages[w] EXCEPT !.sync = NoSync] OBVIOUS
 <2>2. /\ p \in PageShape /\ PageOk(p, stores[home[w]].vault) /\ PageHolds(p, otpRecords, purged)
       /\ p.write = pages[w].write /\ (OldPage(p) => AloneAt(home, home[w]))
   BY <2>1, SyncMoves, SyncAtRest, NothingIsShaped, NothingIsHeld, PageFacts DEF PageOk
 <2> QED BY <1>4, <2>1, <2>2, NothingNewIsSent, OnePageMoves DEF ShowSnapshot, SetPage
<1> QED BY <1>3, <1>4

\* A vault that a sync finds outlived goes from the disk.
LEMMA KillVaultKeeps == ASSUME OtpInv, NEW w \in Windows, KillVault(w) PROVE OtpInv'
<1>0. PICK old : old = pages[w].sync OBVIOUS
<1>1. old \in SyncShape /\ old.step = "remove" /\ pages[w].phase # "closed" /\ Held(old.rows, otpRecords, purged)
  BY <1>0, PageFacts DEF PageShape, KillVault, PageIsWhole, PageHolds
<1>2. PICK sync : sync = [old EXCEPT !.step = "announce"] OBVIOUS
<1>3. /\ sync \in SyncShape /\ sync.step = "announce" /\ sync.read = old.read /\ sync.rows = old.rows
  BY <1>1, <1>2 DEF SyncShape
<1>4. PICK p : p = [pages[w] EXCEPT !.sync = sync] OBVIOUS
<1>5. PICK s : s = [vault |-> NoVault, records |-> NoCards] OBVIOUS
<1>6. PICK was : was = pages[w] OBVIOUS
<1>7. pages' = [pages EXCEPT ![w] = p]
  BY <1>6, PageFacts, <1>0, <1>2, <1>4 DEF KillVault, SetPage
<1>8. stores' = [stores EXCEPT ![home[w]] = s] BY <1>5 DEF KillVault, RemoveVault
<1>9. SyncIsWhole(p) BY <1>0, <1>3, <1>4, SyncMoves, PageFacts DEF SyncIsWhole, Past
<1>10. AdoptsTheFirst(p, s.vault) /\ (OldPage(p) => AloneAt(home, home[w]))
  BY <1>0, <1>3, <1>4, <1>5, SyncMoves, PageFacts, RemovedIsWhole DEF AdoptsTheFirst, OldPage, Adopting, OfTheFirst
<1>11. p \in PageShape /\ PageIsWhole(p) /\ WriteIsWhole(p) /\ PageHolds(p, otpRecords, purged) /\ p.write = pages[w].write
  BY <1>1, <1>3, <1>4, SyncMoves
<1> QED BY <1>5, <1>7, <1>8, <1>9, <1>10, <1>11, RemovedIsWhole, NothingNewIsSent, PageAndStoreMove DEF KillVault, PageOk

\* And from the page that found it.
LEMMA KillPageKeeps == ASSUME OtpInv, NEW w \in Windows, KillPage(w) PROVE OtpInv'
<1>0. PICK d : d = IF IsCurrent(w) THEN Disarmed(pages[w]) ELSE pages[w] OBVIOUS
<1>1. /\ d \in PageShape /\ PageOk(d, stores[home[w]].vault) /\ PageHolds(d, otpRecords, purged)
      /\ OldPage(d) => AloneAt(home, home[w])
      /\ d.write = pages[w].write /\ d.phase # "closed"
 <2>1. CASE IsCurrent(w) BY <1>0, <2>1, DisarmedIsWhole
 <2>2. CASE ~IsCurrent(w) BY <1>0, <2>2, PageFacts DEF PageOk, KillPage, PageIsWhole
 <2> QED BY <2>1, <2>2
<1>2. PICK p : p = [d EXCEPT !.sync = NoSync] OBVIOUS
<1>3. pages' = Announced(w, p) BY <1>0, <1>2 DEF KillPage
<1>4. /\ p \in PageShape /\ p.sync = NoSync /\ p.write = d.write /\ p.bound = d.bound
      /\ p.cached = d.cached /\ p.synced = d.synced /\ p.phase = d.phase /\ p.key = d.key
      /\ p.id = d.id /\ p.generation = d.generation /\ p.trusted = d.trusted BY <1>1, <1>2, NothingIsShaped DEF PageShape
<1>5. PageIsWhole(p) /\ WriteIsWhole(p) BY <1>1, <1>4 DEF PageOk, PageIsWhole, WriteIsWhole
<1>6. SyncIsWhole(p) BY <1>4, NothingIsShaped DEF SyncIsWhole, Past, VaultNamed
<1>7. AdoptsTheFirst(p, stores[home[w]].vault) /\ (OldPage(p) => AloneAt(home, home[w]))
  BY <1>1, <1>4, NothingIsShaped DEF PageOk, AdoptsTheFirst, OldPage, Adopting
<1>8. PageHolds(p, otpRecords, purged) BY <1>1, <1>4, PageFacts, NothingIsShaped, NothingIsHeld DEF PageHolds, Creates
<1> QED BY <1>1, <1>3, <1>4, <1>5, <1>6, <1>7, <1>8, TellingKeeps DEF KillPage, PageOk

-----------------------------------------------------------------------------
(* Writes. *)

\* A page whose write moves.
LEMMA WriteMoves ==
  ASSUME OtpInv, NEW w \in Windows, NEW write \in WriteShape, NEW p, p = [pages[w] EXCEPT !.write = write],
         pages[w].phase # "closed" \/ write.step = "idle"
  PROVE  /\ p \in PageShape /\ p.write = write /\ p.bound = pages[w].bound
         /\ p.cached = pages[w].cached /\ p.sync = pages[w].sync
         /\ PageIsWhole(p) /\ SyncIsWhole(p) /\ AdoptsTheFirst(p, stores[home[w]].vault)
         /\ OldPage(p) => AloneAt(home, home[w])
<1>1. /\ p \in PageShape /\ p.write = write /\ p.sync = pages[w].sync /\ p.bound = pages[w].bound
      /\ p.cached = pages[w].cached /\ p.synced = pages[w].synced /\ p.phase = pages[w].phase
      /\ p.key = pages[w].key /\ p.id = pages[w].id /\ p.generation = pages[w].generation
      /\ p.trusted = pages[w].trusted BY PageFacts DEF PageShape
<1>2. PageIsWhole(p) BY <1>1, PageFacts DEF PageIsWhole
<1>3. SyncIsWhole(p) /\ AdoptsTheFirst(p, stores[home[w]].vault) BY <1>1, PageFacts DEF SyncIsWhole, AdoptsTheFirst, Adopting
<1>4. OldPage(p) => AloneAt(home, home[w]) BY <1>1, PageFacts DEF OldPage, Adopting
<1> QED BY <1>1, <1>2, <1>3, <1>4

\* A write that is over holds nothing.
LEMMA WriteEnds ==
  ASSUME OtpInv, NEW w \in Windows, NEW p, p = [pages[w] EXCEPT !.write = NoWrite]
  PROVE  /\ p \in PageShape /\ PageOk(p, stores[home[w]].vault) /\ PageHolds(p, otpRecords, purged)
         /\ (OldPage(p) => AloneAt(home, home[w])) /\ p.write.step # "sent"
<1>1. /\ p \in PageShape /\ p.write = NoWrite /\ p.cached = pages[w].cached /\ p.sync = pages[w].sync
      /\ PageIsWhole(p) /\ SyncIsWhole(p) /\ AdoptsTheFirst(p, stores[home[w]].vault)
      /\ (OldPage(p) => AloneAt(home, home[w])) BY WriteMoves, NothingIsShaped
<1>2. WriteIsWhole(p) BY <1>1, NothingIsShaped DEF WriteIsWhole
<1>3. PageHolds(p, otpRecords, purged) BY <1>1, NothingIsShaped, NothingIsHeld, PageFacts DEF PageHolds, Creates
<1> QED BY <1>1, <1>2, <1>3, NothingIsShaped DEF PageOk

\* A request that fails is as if it had not been made.
LEMMA WriteFailsKeeps == ASSUME OtpInv, NEW w \in Windows, WriteFails(w) PROVE OtpInv'
<1>1. PICK p : p = [pages[w] EXCEPT !.write = NoWrite] OBVIOUS
<1> QED BY <1>1, WriteEnds, NothingNewIsSent, OnePageMoves DEF WriteFails, SetWrite, SetPage

\* A page sends what it lists, under the generation it is bound to.
LEMMA SendsKeeps ==
  ASSUME OtpInv, NEW w \in Windows, NEW kind \in {"create", "update", "remove", "reorder"}, NEW c \in Cards, Sends(w, kind, c),
         kind = "create" => /\ otpRecords[c].rev = 0 /\ c \notin purged
                            /\ \A v \in Windows : pages[v].write.card # c \/ pages[v].write.step = "idle"
  PROVE  OtpInv'
<1>0. PICK was : was = pages[w] OBVIOUS
<1>1. PICK write : write = [NoWrite EXCEPT !.step = "sent", !.kind = kind, !.card = c, !.header = was.bound,
                                           !.key = was.key, !.seen = was.cached] OBVIOUS
<1>2. was \in PageShape /\ was.synced /\ was.phase = "ready" BY <1>0, PageFacts DEF Sends
<1>3. /\ was.bound # Unknown /\ was.key.gen = was.bound /\ AllOf(was.cached, was.bound) /\ Held(was.cached, otpRecords, purged)
  BY <1>0, <1>2, PageFacts DEF PageIsWhole, PageHolds
<1>4. was.bound \in Gens \cup {Unknown} /\ was.key \in KeyShape /\ was.cached \in CopyShape BY <1>2 DEF PageShape
<1>5. /\ write \in WriteShape /\ write.step = "sent" /\ write.kind = kind /\ write.card = c /\ write.header = was.bound
      /\ write.key = was.key /\ write.seen = was.cached /\ write.next = NoCards
  BY <1>1, <1>4, NothingIsShaped DEF WriteShape, NoWrite
<1>6. PICK p : p = [was EXCEPT !.write = write] OBVIOUS
<1>7. pages' = [pages EXCEPT ![w] = p] BY <1>0, <1>1, <1>6 DEF Sends, SetWrite, SetPage
<1>8. /\ p \in PageShape /\ p.write = write /\ p.bound = was.bound /\ p.cached = was.cached /\ p.sync = was.sync
      /\ PageIsWhole(p) /\ SyncIsWhole(p) /\ AdoptsTheFirst(p, stores[home[w]].vault)
      /\ (OldPage(p) => AloneAt(home, home[w])) BY <1>0, <1>2, <1>5, <1>6, WriteMoves
<1>9. WriteIsWhole(p) BY <1>3, <1>5, <1>8 DEF WriteIsWhole
<1>10. PageHolds(p, otpRecords, purged) BY <1>0, <1>3, <1>5, <1>8, NothingIsHeld, PageFacts DEF PageHolds, Creates
<1>11. \A v \in Windows \ {w}, d \in Cards : ~(Creates(pages[v], d) /\ Creates(p, d)) BY <1>5, <1>8 DEF Creates
<1> QED BY <1>7, <1>8, <1>9, <1>10, <1>11, OnePageMoves DEF Sends, PageOk

\* A reply is stored as it came.
LEMMA StoreReplyKeeps == ASSUME OtpInv, NEW w \in Windows, StoreReply(w) PROVE OtpInv'
<1>0. PICK was : was = pages[w] OBVIOUS
<1>1. PICK write : write = [was.write EXCEPT !.step = "replaced", !.key = was.key] OBVIOUS
<1>2. was \in PageShape /\ was.write.step = "replied" /\ was.phase # "closed" BY <1>0, PageFacts DEF StoreReply, PageIsWhole
<1>3. was.write \in WriteShape /\ was.key \in KeyShape BY <1>2 DEF PageShape
<1>4. /\ write \in WriteShape /\ write.step = "replaced" /\ write.seen = was.write.seen /\ write.next = was.write.next
  BY <1>1, <1>3 DEF WriteShape
<1>5. PICK p : p = [was EXCEPT !.write = write] OBVIOUS
<1>6. PICK s : s = IF was.trusted THEN [stores[home[w]] EXCEPT !.records = was.write.next] ELSE stores[home[w]] OBVIOUS
<1>7. pages' = [pages EXCEPT ![w] = p] BY <1>0, <1>1, <1>5 DEF StoreReply, SetWrite, SetPage
<1>8. stores' = [stores EXCEPT ![home[w]] = s] BY <1>0, <1>6, PageFacts DEF StoreReply, ReplaceRecords, OtpInv, OtpShape
<1>9. /\ p \in PageShape /\ p.write = write /\ p.bound = was.bound /\ p.cached = was.cached /\ p.sync = was.sync
      /\ PageIsWhole(p) /\ SyncIsWhole(p) /\ AdoptsTheFirst(p, stores[home[w]].vault)
      /\ (OldPage(p) => AloneAt(home, home[w])) BY <1>0, <1>2, <1>4, <1>5, WriteMoves
<1>10. WriteIsWhole(p) BY <1>0, <1>2, <1>4, <1>9, PageFacts DEF WriteIsWhole
<1>11. PageHolds(p, otpRecords, purged) /\ Held(was.write.next, otpRecords, purged)
  BY <1>0, <1>4, <1>9, PageFacts DEF PageHolds, Creates
<1>12. /\ s \in [vault : VaultShape, records : CopyShape] /\ s.vault = stores[home[w]].vault /\ StoreOk(s, otpRecords, purged)
  BY <1>3, <1>6, <1>11, PageFacts DEF StoreOk, WriteShape
<1> QED BY <1>4, <1>7, <1>8, <1>9, <1>10, <1>11, <1>12, PageFacts, NothingNewIsSent, PageAndStoreMove DEF StoreReply, PageOk

\* A reply is shown as it came.
LEMMA ShowReplyKeeps == ASSUME OtpInv, NEW w \in Windows, ShowReply(w) PROVE OtpInv'
<1>0. PICK was : was = pages[w] OBVIOUS
<1>1. was \in PageShape /\ was.write.step = "replaced" BY <1>0, PageFacts DEF ShowReply
<1>2. was.write.next \in CopyShape /\ AllOf(was.write.next, was.bound) /\ Held(was.write.next, otpRecords, purged)
  BY <1>0, <1>1, PageFacts DEF PageShape, WriteShape, WriteIsWhole, PageHolds
<1>3. PICK shown \in {was.cached, was.write.next} : pages' = [pages EXCEPT ![w] = [was EXCEPT !.write = NoWrite, !.cached = shown]]
 <2>1. PICK shown : shown = IF was.key = was.write.key /\ was.key # NoKey THEN was.write.next ELSE was.cached OBVIOUS
 <2>2. pages' = [pages EXCEPT ![w] = [was EXCEPT !.write = NoWrite, !.cached = shown]]
   BY <1>0, <1>1, <2>1 DEF ShowReply, SetPage, PageShape
 <2> QED BY <2>1, <2>2
<1>4. PICK p : p = [was EXCEPT !.write = NoWrite, !.cached = shown] OBVIOUS
<1>5. /\ p \in PageShape /\ p.sync = was.sync /\ p.write = NoWrite /\ p.bound = was.bound
      /\ p.cached = shown /\ p.synced = was.synced /\ p.phase = was.phase /\ p.key = was.key
      /\ p.id = was.id /\ p.generation = was.generation /\ p.trusted = was.trusted
  BY <1>1, <1>2, <1>3, <1>4, NothingIsShaped DEF PageShape
<1>6. PageIsWhole(p) /\ WriteIsWhole(p) BY <1>0, <1>2, <1>3, <1>5, PageFacts, NothingIsShaped DEF PageIsWhole, WriteIsWhole
<1>7. SyncIsWhole(p) /\ AdoptsTheFirst(p, stores[home[w]].vault) /\ (OldPage(p) => AloneAt(home, home[w]))
  BY <1>0, <1>5, PageFacts DEF SyncIsWhole, AdoptsTheFirst, OldPage, Adopting
<1>8. PageHolds(p, otpRecords, purged)
  BY <1>0, <1>2, <1>3, <1>5, PageFacts, NothingIsShaped, NothingIsHeld DEF PageHolds, Creates
<1> QED BY <1>3, <1>4, <1>5, <1>6, <1>7, <1>8, NothingIsShaped, NothingNewIsSent, OnePageMoves DEF ShowReply, PageOk

-----------------------------------------------------------------------------
(* The table. *)

\* A row that moves has a new revision, or none that a copy could be taken for.
RowMoves(from, to) == to = from \/ to.rev > from.rev \/ (~to.live /\ to.rev >= from.rev)

\* A copy that is held stays held when a newer row takes the place of an older one.
LEMMA HeldMoves ==
  ASSUME NEW copy \in CopyShape, NEW rows \in CopyShape, NEW rows2 \in CopyShape, NEW gone, NEW gone2, gone \subseteq gone2,
         \A c \in Cards : c \notin gone2 => RowMoves(rows[c], rows2[c]), Held(copy, rows, gone)
  PROVE  Held(copy, rows2, gone2)
<1>1. ASSUME NEW c \in Cards, c \notin gone2
      PROVE  /\ copy[c].rev <= rows2[c].rev
             /\ copy[c].rev = rows2[c].rev /\ rows2[c].live => copy[c].live /\ copy[c].edit = rows2[c].edit
  BY <1>1 DEF Held, CopyShape, RowShape, RowMoves
<1> QED BY <1>1 DEF Held

\* And so do all the copies of a page.
LEMMA HoldsMoves ==
  ASSUME NEW p \in PageShape, NEW rows \in CopyShape, NEW rows2 \in CopyShape, NEW gone, NEW gone2, gone \subseteq gone2,
         \A c \in Cards : c \notin gone2 => RowMoves(rows[c], rows2[c]), PageHolds(p, rows, gone),
         \A c \in Cards : Creates(p, c) => rows2[c].rev = 0 /\ c \notin gone2
  PROVE  PageHolds(p, rows2, gone2)
<1>1. /\ p.cached \in CopyShape /\ p.sync.rows \in CopyShape /\ p.write.seen \in CopyShape /\ p.write.next \in CopyShape
  BY DEF PageShape, SyncShape, WriteShape
<1> QED BY <1>1, HeldMoves DEF PageHolds

\* The table moves under pages that stand.
LEMMA TableMoves ==
  ASSUME OtpInv, otpRecords' \in CopyShape, purged' \subseteq Cards, purged \subseteq purged',
         profile' \in [id : Nat \ {0}, gen : Gens], RowsOk(otpRecords', purged', profile'.gen),
         \A c \in Cards : c \notin purged' => RowMoves(otpRecords[c], otpRecords'[c]),
         \A c \in Cards : otpRecords[c].rev = 0 /\ c \notin purged => otpRecords'[c].rev = 0 /\ c \notin purged',
         UNCHANGED <<stores, pages, home, writes>>
  PROVE  OtpInv'
<1>0. otpRecords \in CopyShape BY DEF OtpInv, OtpShape
<1>1. OtpShape' BY DEF OtpInv, OtpShape
<1>2. ASSUME NEW b \in Browsers
      PROVE  StoreOk(stores'[b], otpRecords', purged') /\ (stores'[b].vault.generation = Legacy => AloneAt(home', b))
  BY <1>0, HeldMoves DEF OtpInv, OtpShape, StoreOk
<1>3. ASSUME NEW w \in Windows
      PROVE  /\ PageOk(pages'[w], stores'[home'[w]].vault)
             /\ PageHolds(pages'[w], otpRecords', purged')
             /\ OldPage(pages'[w]) => AloneAt(home', home'[w])
 <2>1. /\ pages[w] \in PageShape /\ PageHolds(pages[w], otpRecords, purged) /\ PageOk(pages[w], stores[home[w]].vault)
       /\ OldPage(pages[w]) => AloneAt(home, home[w]) BY DEF OtpInv, OtpShape
 <2>2. \A c \in Cards : Creates(pages[w], c) => otpRecords'[c].rev = 0 /\ c \notin purged' BY <2>1 DEF PageHolds
 <2> QED BY <1>0, <2>1, <2>2, HoldsMoves
<1>4. \A u, v \in Windows, c \in Cards : Creates(pages'[u], c) /\ Creates(pages'[v], c) => u = v BY DEF OtpInv
<1> QED BY <1>1, <1>2, <1>3, <1>4 DEF OtpInv

\* The table moves, and one page with it.
LEMMA PageAndTableMove ==
  ASSUME OtpInv, NEW w \in Windows, NEW p \in PageShape, pages' = [pages EXCEPT ![w] = p],
         otpRecords' \in CopyShape, RowsOk(otpRecords', purged, profile.gen),
         \A c \in Cards : c \notin purged => RowMoves(otpRecords[c], otpRecords'[c]),
         \A v \in Windows \ {w}, c \in Cards : Creates(pages[v], c) => otpRecords'[c].rev = 0,
         PageOk(p, stores[home[w]].vault), PageHolds(p, otpRecords', purged),
         OldPage(p) => AloneAt(home, home[w]), p.write.step # "sent",
         UNCHANGED <<purged, profile, stores, home>>, writes' \in Nat
  PROVE  OtpInv'
<1>0. otpRecords \in CopyShape BY DEF OtpInv, OtpShape
<1>1. pages' \in [Windows -> PageShape] /\ \A v \in Windows : pages'[v] = IF v = w THEN p ELSE pages[v] BY DEF OtpInv, OtpShape
<1>2. OtpShape' BY <1>1 DEF OtpInv, OtpShape
<1>3. ASSUME NEW b \in Browsers
      PROVE  StoreOk(stores'[b], otpRecords', purged') /\ (stores'[b].vault.generation = Legacy => AloneAt(home', b))
  BY <1>0, HeldMoves DEF OtpInv, OtpShape, StoreOk
<1>4. ASSUME NEW v \in Windows
      PROVE  /\ PageOk(pages'[v], stores'[home'[v]].vault)
             /\ PageHolds(pages'[v], otpRecords', purged')
             /\ OldPage(pages'[v]) => AloneAt(home', home'[v])
 <2>1. CASE v = w BY <1>1, <2>1
 <2>2. CASE v # w
  <3>1. /\ pages[v] \in PageShape /\ PageHolds(pages[v], otpRecords, purged) /\ PageOk(pages[v], stores[home[v]].vault)
        /\ OldPage(pages[v]) => AloneAt(home, home[v]) BY DEF OtpInv, OtpShape
  <3>2. \A c \in Cards : Creates(pages[v], c) => otpRecords'[c].rev = 0 /\ c \notin purged BY <2>2, <3>1 DEF PageHolds
  <3>3. PageHolds(pages[v], otpRecords', purged) BY <1>0, <3>1, <3>2, HoldsMoves
  <3> QED BY <1>1, <2>2, <3>1, <3>3
 <2> QED BY <2>1, <2>2
<1>5. \A u, v \in Windows, c \in Cards : Creates(pages'[u], c) /\ Creates(pages'[v], c) => u = v BY <1>1 DEF OtpInv, Creates
<1> QED BY <1>2, <1>3, <1>4, <1>5 DEF OtpInv

\* A rotation moves every row to its generation at once.
LEMMA RotateKeeps == ASSUME OtpInv, Rotate PROVE OtpInv'
<1>1. /\ otpRecords \in CopyShape /\ profile \in [id : Nat \ {0}, gen : Gens] /\ purged \subseteq Cards
      /\ RowsOk(otpRecords, purged, profile.gen) BY DEF OtpInv, OtpShape
<1>2. /\ profile.gen + 1 \in Gens /\ profile' = [profile EXCEPT !.gen = @ + 1]
 <2>1. profile.gen \in 0..MaxTurns /\ profile.gen < MaxTurns /\ MaxTurns \in Nat BY <1>1, OtpAssumption DEF Rotate, Gens
 <2>2. profile.gen + 1 \in Gens BY <2>1 DEF Gens
 <2> QED BY <2>2 DEF Rotate
<1>3. profile' \in [id : Nat \ {0}, gen : Gens] /\ profile'.gen = profile.gen + 1 BY <1>1, <1>2
<1>4. ASSUME NEW c \in Cards
      PROVE  /\ otpRecords'[c] \in RowShape
             /\ otpRecords[c].live => /\ otpRecords'[c].rev = otpRecords[c].rev + 1 /\ otpRecords'[c].gen = profile.gen + 1
                                      /\ otpRecords'[c].live
             /\ ~otpRecords[c].live => otpRecords'[c] = otpRecords[c]
             /\ otpRecords[c] \in RowShape
 <2>1. PICK row : row = otpRecords[c] OBVIOUS
 <2>2. row \in RowShape /\ otpRecords'[c] = IF row.live THEN [row EXCEPT !.rev = @ + 1, !.gen = profile.gen + 1] ELSE row
   BY <1>1, <2>1 DEF Rotate, CopyShape
 <2>3. PICK gen \in Gens : gen = profile.gen + 1 BY <1>2
 <2>4. CASE row.live
  <3>1. otpRecords'[c] = [row EXCEPT !.rev = @ + 1, !.gen = gen] BY <2>2, <2>3, <2>4
  <3>2. PICK to : to = [row EXCEPT !.rev = @ + 1, !.gen = gen] OBVIOUS
  <3>3. PICK rev : rev = row.rev + 1 OBVIOUS
  <3>4. row \in RowShape /\ to = [row EXCEPT !.rev = rev, !.gen = gen] BY <2>2, <3>2, <3>3
  <3>5. rev \in Nat BY <3>3, <3>4 DEF RowShape
  <3>6. to \in RowShape /\ to.rev = rev /\ to.gen = gen /\ to.live BY <2>3, <2>4, <3>4, <3>5 DEF RowShape
  <3> QED BY <2>1, <2>3, <2>4, <3>1, <3>2, <3>3, <3>4, <3>6
 <2>5. CASE ~row.live BY <2>1, <2>2, <2>5
 <2> QED BY <2>4, <2>5
<1>5. otpRecords' \in CopyShape BY <1>4 DEF Rotate, CopyShape
<1>6. RowsOk(otpRecords', purged, profile'.gen) BY <1>1, <1>3, <1>4, NothingIsShaped DEF RowsOk, RowShape
<1>7. \A c \in Cards : RowMoves(otpRecords[c], otpRecords'[c]) BY <1>4 DEF RowMoves, RowShape
<1>8. \A c \in Cards : otpRecords[c].rev = 0 => otpRecords'[c].rev = 0 BY <1>1, <1>4 DEF RowsOk
<1> QED BY <1>1, <1>3, <1>5, <1>6, <1>7, <1>8, TableMoves DEF Rotate

\* A reset of the profile leaves no row behind.
LEMMA ResetProfileKeeps == ASSUME OtpInv, ResetProfile PROVE OtpInv'
<1>1. /\ otpRecords \in CopyShape /\ profile \in [id : Nat \ {0}, gen : Gens] /\ purged \subseteq Cards BY DEF OtpInv, OtpShape
<1>2. profile' \in [id : Nat \ {0}, gen : Gens] /\ otpRecords' = NoCards
      /\ purged' = purged \cup {c \in Cards : otpRecords[c].rev > 0} BY <1>1 DEF ResetProfile
<1>3. RowsOk(otpRecords', purged', profile'.gen) BY <1>2, NothingIsShaped DEF RowsOk
<1>4. \A c \in Cards : c \notin purged' => RowMoves(otpRecords[c], otpRecords'[c])
  BY <1>1, <1>2, NothingIsShaped DEF RowMoves, CopyShape, RowShape
<1>5. \A c \in Cards : otpRecords[c].rev = 0 /\ c \notin purged => otpRecords'[c].rev = 0 /\ c \notin purged'
  BY <1>1, <1>2, NothingIsShaped
<1> QED BY <1>1, <1>2, <1>3, <1>4, <1>5, NothingIsShaped, TableMoves DEF ResetProfile

\* What is purged does not come back.
LEMMA PurgeTombstonesKeeps == ASSUME OtpInv, PurgeTombstones PROVE OtpInv'
<1>1. /\ otpRecords \in CopyShape /\ profile \in [id : Nat \ {0}, gen : Gens] /\ purged \subseteq Cards
      /\ RowsOk(otpRecords, purged, profile.gen) BY DEF OtpInv, OtpShape
<1>2. PICK old : old = {c \in Cards : otpRecords[c].rev > 0 /\ ~otpRecords[c].live} OBVIOUS
<1>3. /\ otpRecords' = [c \in Cards |-> IF c \in old THEN NoCard ELSE otpRecords[c]]
      /\ purged' = purged \cup old /\ profile' = profile BY <1>2 DEF PurgeTombstones
<1>4. otpRecords' \in CopyShape BY <1>1, <1>3, NothingIsShaped DEF CopyShape
<1>5. RowsOk(otpRecords', purged', profile'.gen) BY <1>1, <1>3, NothingIsShaped DEF RowsOk
<1>6. \A c \in Cards : c \notin purged' => RowMoves(otpRecords[c], otpRecords'[c]) BY <1>3 DEF RowMoves
<1>7. \A c \in Cards : otpRecords[c].rev = 0 /\ c \notin purged => otpRecords'[c].rev = 0 /\ c \notin purged' BY <1>2, <1>3
<1> QED BY <1>1, <1>2, <1>3, <1>4, <1>5, <1>6, <1>7, TableMoves DEF PurgeTombstones

\* A write that is served is of the generation the account is at, and what it
\* changes is what its page was showing.
LEMMA ServedWrite ==
  ASSUME OtpInv, NEW w \in Windows, NEW write, write = pages[w].write, write.step = "sent", Serves(write.header)
  PROVE  /\ write \in WriteShape /\ write.card \in Cards /\ write.key.gen = profile.gen /\ write.key.gen \in Gens
         /\ pages[w].bound = profile.gen /\ AllOf(write.seen, profile.gen) /\ Held(write.seen, otpRecords, purged)
         /\ pages[w].phase # "closed"
         /\ write.kind = "create" => otpRecords[write.card].rev = 0 /\ write.card \notin purged
<1>1. write \in WriteShape /\ write.card \in Cards /\ write.header = pages[w].bound /\ write.key.gen = pages[w].bound
      /\ pages[w].bound # Unknown /\ AllOf(write.seen, pages[w].bound) BY PageFacts DEF PageShape, WriteIsWhole
<1>2. pages[w].bound = profile.gen BY <1>1 DEF Serves
<1>3. Held(write.seen, otpRecords, purged) /\ pages[w].phase # "closed" BY PageFacts DEF PageHolds, PageIsWhole
<1>4. write.kind = "create" => otpRecords[write.card].rev = 0 /\ write.card \notin purged
  BY <1>1, PageFacts DEF PageHolds, Creates
<1> QED BY <1>1, <1>2, <1>3, <1>4, PageFacts

\* What a reply puts into the list its page closed over.
LEMMA AppliedIsHeld ==
  ASSUME NEW write \in WriteShape, write.card \in Cards, NEW rows \in CopyShape, NEW gone, NEW gen,
         Held(write.seen, rows, gone), AllOf(write.seen, gen), AllOf(rows, gen)
  PROVE  /\ OtpApplied(write, rows) \in CopyShape /\ Held(OtpApplied(write, rows), rows, gone)
         /\ AllOf(OtpApplied(write, rows), gen)
<1>1. CASE write.kind = "reorder" BY <1>1, TableIsHeld DEF OtpApplied
<1>2. CASE write.kind # "reorder"
 <2>1. PICK next : next = [write.seen EXCEPT ![write.card] = rows[write.card]] OBVIOUS
 <2>2. write.seen \in CopyShape BY DEF WriteShape
 <2>3. next \in CopyShape /\ \A c \in Cards : next[c] = IF c = write.card THEN rows[c] ELSE write.seen[c]
   BY <2>1, <2>2 DEF CopyShape
 <2>4. Held(next, rows, gone) /\ AllOf(next, gen) BY <2>3, TableIsHeld DEF Held, AllOf
 <2> QED BY <1>2, <2>1, <2>3, <2>4 DEF OtpApplied
<1> QED BY <1>1, <1>2

\* What a page holds once a reply has come.
LEMMA ReplyComes ==
  ASSUME OtpInv, NEW w \in Windows, NEW next \in CopyShape, NEW rows \in CopyShape,
         NEW p, p = [pages[w] EXCEPT !.write = [NoWrite EXCEPT !.step = "replied", !.next = next]],
         AllOf(next, pages[w].bound), pages[w].bound # Unknown, pages[w].phase # "closed", Held(next, rows, purged),
         RowsOk(rows, purged, profile.gen), \A c \in Cards : c \notin purged => RowMoves(otpRecords[c], rows[c])
  PROVE  /\ p \in PageShape /\ PageOk(p, stores[home[w]].vault) /\ PageHolds(p, rows, purged)
         /\ (OldPage(p) => AloneAt(home, home[w])) /\ p.write.step # "sent"
<1>1. PICK write : write = [NoWrite EXCEPT !.step = "replied", !.next = next] OBVIOUS
<1>2. write \in WriteShape /\ write.step = "replied" /\ write.next = next /\ write.seen = NoCards
  BY <1>1, NothingIsShaped DEF WriteShape, NoWrite
<1>3. /\ p \in PageShape /\ p.write = write /\ p.bound = pages[w].bound /\ p.cached = pages[w].cached /\ p.sync = pages[w].sync
      /\ PageIsWhole(p) /\ SyncIsWhole(p) /\ AdoptsTheFirst(p, stores[home[w]].vault)
      /\ (OldPage(p) => AloneAt(home, home[w])) BY <1>1, <1>2, WriteMoves
<1>4. WriteIsWhole(p) BY <1>2, <1>3 DEF WriteIsWhole
<1>5. pages[w] \in PageShape /\ otpRecords \in CopyShape /\ Held(pages[w].cached, otpRecords, purged) /\ Held(pages[w].sync.rows, otpRecords, purged)
  BY PageFacts DEF PageHolds
<1>6. pages[w].cached \in CopyShape /\ pages[w].sync.rows \in CopyShape BY <1>5 DEF PageShape, SyncShape
<1>7. Held(pages[w].cached, rows, purged) /\ Held(pages[w].sync.rows, rows, purged) /\ Held(NoCards, rows, purged)
  BY <1>5, <1>6, HeldMoves, NothingIsHeld
<1>8. PageHolds(p, rows, purged) BY <1>2, <1>3, <1>7 DEF PageHolds, Creates
<1> QED BY <1>2, <1>3, <1>4, <1>8 DEF PageOk

\* A request that is refused changes nothing on the server.
LEMMA ConflictKeeps == ASSUME OtpInv, NEW w \in Windows, Conflict(w) PROVE OtpInv'
<1>0. PICK write : write = pages[w].write OBVIOUS
<1>1. /\ write \in WriteShape /\ write.card \in Cards /\ pages[w].bound = profile.gen
      /\ AllOf(write.seen, profile.gen) /\ Held(write.seen, otpRecords, purged) /\ pages[w].phase # "closed"
  BY <1>0, ServedWrite DEF Conflict
<1>2. CASE pages' = [pages EXCEPT ![w] = [pages[w] EXCEPT !.write = NoWrite]]
 <2>1. PICK p : p = [pages[w] EXCEPT !.write = NoWrite] OBVIOUS
 <2> QED BY <1>2, <2>1, WriteEnds, NothingNewIsSent, OnePageMoves DEF Conflict
<1>3. CASE pages' = [pages EXCEPT ![w] = [pages[w] EXCEPT !.write =
                       [NoWrite EXCEPT !.step = "replied", !.next = OtpApplied(write, otpRecords)]]]
 <2>1. PICK next : next = OtpApplied(write, otpRecords) OBVIOUS
 <2>2. otpRecords \in CopyShape /\ RowsOk(otpRecords, purged, profile.gen) /\ profile.gen \in Gens /\ AllOf(otpRecords, profile.gen)
   BY PageFacts DEF RowsOk, AllOf
 <2>3. next \in CopyShape /\ Held(next, otpRecords, purged) /\ AllOf(next, profile.gen) BY <1>1, <2>1, <2>2, AppliedIsHeld
 <2>4. PICK p : p = [pages[w] EXCEPT !.write = [NoWrite EXCEPT !.step = "replied", !.next = next]] OBVIOUS
 <2>5. \A c \in Cards : RowMoves(otpRecords[c], otpRecords[c]) BY DEF RowMoves
 <2>6. /\ p \in PageShape /\ PageOk(p, stores[home[w]].vault) /\ PageHolds(p, otpRecords, purged)
       /\ (OldPage(p) => AloneAt(home, home[w])) /\ p.write.step # "sent"
   BY <1>1, <2>2, <2>3, <2>4, <2>5, NothingIsShaped, ReplyComes
 <2>7. pages' = [pages EXCEPT ![w] = p] BY <1>3, <2>1, <2>4
 <2> QED BY <2>6, <2>7, NothingNewIsSent, OnePageMoves DEF Conflict
<1> QED BY <1>0, <1>2, <1>3 DEF Conflict, SetWrite, SetPage

\* What a write that hits does to the table.
LEMMA WrittenRows ==
  ASSUME OtpInv, NEW w \in Windows, NEW write, write = pages[w].write, write.step = "sent", Serves(write.header), Hit(write),
         writes < MaxWrites
  PROVE  /\ Written(write) \in CopyShape /\ RowsOk(Written(write), purged, profile.gen)
         /\ \A c \in Cards : RowMoves(otpRecords[c], Written(write)[c])
         /\ \A v \in Windows \ {w}, c \in Cards : Creates(pages[v], c) => Written(write)[c].rev = 0
         /\ \A c \in Cards : /\ c # write.card \/ write.kind = "reorder" => Written(write)[c].edit = otpRecords[c].edit
                             /\ ~otpRecords[c].live /\ (otpRecords[c].rev > 0 \/ c \in purged) => ~Written(write)[c].live
<1>1. /\ write \in WriteShape /\ write.card \in Cards /\ write.key.gen = profile.gen /\ write.key.gen \in Gens
      /\ write.kind = "create" => otpRecords[write.card].rev = 0 /\ write.card \notin purged BY ServedWrite
<1>2. otpRecords \in CopyShape /\ RowsOk(otpRecords, purged, profile.gen) /\ writes \in Nat BY DEF OtpInv, OtpShape
<1>3. write.kind \in {"create", "update", "remove", "reorder"} BY <1>1 DEF WriteShape
<1>4. ASSUME NEW v \in Windows \ {w}, NEW c \in Cards, Creates(pages[v], c)
      PROVE  otpRecords[c].rev = 0 /\ ~otpRecords[c].live /\ (write.kind = "create" => write.card # c)
  BY <1>4, PageFacts, <1>2 DEF PageHolds, RowsOk, OtpInv, Creates
<1>5. CASE write.kind \in {"create", "update", "remove"}
 <2>0. PICK c \in Cards : c = write.card BY <1>1
 <2>1. PICK row : row = otpRecords[c] OBVIOUS
 <2>2. row \in RowShape /\ (write.kind # "create" => row.live) /\ (write.kind = "create" => row.rev = 0) /\ c \notin purged
   BY <1>2, <2>1, <1>5, <2>0, <1>1, NothingIsShaped DEF CopyShape, Hit, Matches, RowsOk
 <2>3. PICK to \in RowShape : /\ Written(write) = [otpRecords EXCEPT ![c] = to] /\ to.rev = row.rev + 1
                              /\ to.live => to.gen = profile.gen
  <3>1. CASE write.kind \in {"create", "update"}
   <4>1. PICK to : to = [rev |-> row.rev + 1, edit |-> writes + 1, live |-> TRUE, gen |-> write.key.gen] OBVIOUS
   <4>2. to \in RowShape /\ to.rev = row.rev + 1 /\ to.gen = profile.gen BY <1>1, <1>2, <2>2, <4>1 DEF RowShape
   <4>3. Written(write) = [otpRecords EXCEPT ![c] = to] BY <2>0, <2>1, <3>1, <4>1 DEF Written
   <4> QED BY <4>2, <4>3
  <3>2. CASE write.kind = "remove"
   <4>1. PICK to : to = [NoCard EXCEPT !.rev = row.rev + 1] OBVIOUS
   <4>2. to \in RowShape /\ to.rev = row.rev + 1 /\ ~to.live BY <2>2, <4>1, NothingIsShaped DEF RowShape
   <4>3. Written(write) = [otpRecords EXCEPT ![c] = to] BY <2>0, <2>1, <3>2, <4>1 DEF Written
   <4> QED BY <4>2, <4>3
  <3> QED BY <1>5, <3>1, <3>2
 <2>4. PICK rows : rows = Written(write) OBVIOUS
 <2>5. rows \in CopyShape /\ \A d \in Cards : rows[d] = IF d = c THEN to ELSE otpRecords[d] BY <1>2, <2>3, <2>4 DEF CopyShape
 <2>6. RowsOk(rows, purged, profile.gen) BY <1>2, <2>2, <2>3, <2>5 DEF RowsOk, RowShape
 <2>7. \A d \in Cards : RowMoves(otpRecords[d], rows[d]) BY <2>1, <2>2, <2>3, <2>5 DEF RowMoves, RowShape
 <2>8. \A v \in Windows \ {w}, d \in Cards : Creates(pages[v], d) => rows[d].rev = 0 BY <1>4, <2>0, <2>1, <2>2, <2>5
 <2>9. \A d \in Cards : /\ d # write.card \/ write.kind = "reorder" => rows[d].edit = otpRecords[d].edit
                        /\ ~otpRecords[d].live /\ (otpRecords[d].rev > 0 \/ d \in purged) => ~rows[d].live
   BY <1>5, <2>0, <2>1, <2>2, <2>5 DEF RowShape
 <2> QED BY <2>4, <2>5, <2>6, <2>7, <2>8, <2>9
<1>6. CASE write.kind = "reorder"
 <2>1. PICK rows : rows = Reordered OBVIOUS
 <2>2. Written(write) = rows BY <1>6, <2>1 DEF Written
 <2>3. ASSUME NEW c \in Cards
       PROVE  /\ rows[c] \in RowShape /\ otpRecords[c] \in RowShape /\ rows[c].edit = otpRecords[c].edit
              /\ otpRecords[c].live => rows[c].rev = otpRecords[c].rev + 1 /\ rows[c].gen = otpRecords[c].gen /\ rows[c].live
              /\ ~otpRecords[c].live => rows[c] = otpRecords[c]
  <3>1. PICK row : row = otpRecords[c] OBVIOUS
  <3>2. row \in RowShape BY <1>2, <3>1 DEF CopyShape
  <3>3. rows[c] = IF row.live THEN [row EXCEPT !.rev = @ + 1] ELSE row BY <2>1, <3>1 DEF Reordered, Moved
  <3> QED BY <3>1, <3>2, <3>3 DEF RowShape
 <2>4. rows \in CopyShape BY <2>1, <2>3 DEF CopyShape, Reordered
 <2>5. RowsOk(rows, purged, profile.gen) BY <1>2, <2>3, NothingIsShaped DEF RowsOk, RowShape
 <2>6. \A d \in Cards : RowMoves(otpRecords[d], rows[d]) BY <2>3 DEF RowMoves, RowShape
 <2>7. \A v \in Windows \ {w}, d \in Cards : Creates(pages[v], d) => rows[d].rev = 0 BY <1>4, <2>3
 <2> QED BY <2>2, <2>3, <2>4, <2>5, <2>6, <2>7
<1> QED BY <1>3, <1>5, <1>6

\* A request that is served makes the newest row of its credential.
LEMMA ServeKeeps == ASSUME OtpInv, NEW w \in Windows, Serve(w) PROVE OtpInv'
<1>0. PICK write : write = pages[w].write OBVIOUS
<1>1. PICK rows : rows = Written(write) OBVIOUS
<1>2. /\ write.step = "sent" /\ Serves(write.header) /\ Hit(write) /\ writes < MaxWrites
      /\ otpRecords' = rows /\ writes' \in Nat BY <1>0, <1>1 DEF Serve, OtpInv, OtpShape
<1>3. /\ rows \in CopyShape /\ RowsOk(rows, purged, profile.gen) /\ \A c \in Cards : RowMoves(otpRecords[c], rows[c])
      /\ \A v \in Windows \ {w}, c \in Cards : Creates(pages[v], c) => rows[c].rev = 0 BY <1>0, <1>1, <1>2, WrittenRows
<1>4. /\ write \in WriteShape /\ write.card \in Cards /\ pages[w].bound = profile.gen
      /\ AllOf(write.seen, profile.gen) /\ Held(write.seen, otpRecords, purged) /\ pages[w].phase # "closed"
  BY <1>0, <1>2, ServedWrite
<1>5. otpRecords \in CopyShape /\ profile.gen \in Gens /\ write.seen \in CopyShape BY <1>4, PageFacts DEF WriteShape
<1>6. CASE pages' = [pages EXCEPT ![w] = [pages[w] EXCEPT !.write = NoWrite]]
 <2>1. PICK p : p = [pages[w] EXCEPT !.write = NoWrite] OBVIOUS
 <2>2. /\ p \in PageShape /\ PageOk(p, stores[home[w]].vault) /\ PageHolds(p, otpRecords, purged)
       /\ (OldPage(p) => AloneAt(home, home[w])) /\ p.write.step # "sent" BY <2>1, WriteEnds
 <2>3. PageHolds(p, rows, purged) BY <1>3, <1>5, <2>2, HoldsMoves DEF Creates
 <2> QED BY <1>2, <1>3, <1>6, <2>1, <2>2, <2>3, PageAndTableMove DEF Serve
<1>7. CASE pages' = [pages EXCEPT ![w] = [pages[w] EXCEPT !.write =
                       [NoWrite EXCEPT !.step = "replied", !.next = OtpApplied(write, rows)]]]
 <2>1. PICK next : next = OtpApplied(write, rows) OBVIOUS
 <2>2. AllOf(rows, profile.gen) /\ Held(write.seen, rows, purged) BY <1>3, <1>4, <1>5, HeldMoves DEF RowsOk, AllOf
 <2>3. next \in CopyShape /\ Held(next, rows, purged) /\ AllOf(next, profile.gen) BY <1>3, <1>4, <2>1, <2>2, AppliedIsHeld
 <2>4. PICK p : p = [pages[w] EXCEPT !.write = [NoWrite EXCEPT !.step = "replied", !.next = next]] OBVIOUS
 <2>5. /\ p \in PageShape /\ PageOk(p, stores[home[w]].vault) /\ PageHolds(p, rows, purged)
       /\ (OldPage(p) => AloneAt(home, home[w])) /\ p.write.step # "sent"
   BY <1>3, <1>4, <1>5, <2>3, <2>4, NothingIsShaped, ReplyComes
 <2>6. pages' = [pages EXCEPT ![w] = p] BY <1>7, <2>1, <2>4
 <2> QED BY <1>2, <1>3, <2>5, <2>6, PageAndTableMove DEF Serve
<1> QED BY <1>0, <1>1, <1>2, <1>6, <1>7 DEF Serve, SetWrite, SetPage

-----------------------------------------------------------------------------
(* The theorem. *)

\* It holds to begin with.
LEMMA OtpInitInv == OtpInit => OtpInv
<1> SUFFICES ASSUME OtpInit PROVE OtpInv OBVIOUS
<1>1. MaxTurns \in Nat /\ 0 \in Gens /\ Legacy \notin Gens /\ Unknown = Legacy BY NothingIsShaped, OtpAssumption
<1>2. profile = [id |-> 1, gen |-> 0] /\ profile \in [id : Nat \ {0}, gen : Gens] /\ profile \in KeyShape /\ profile # NoKey
      /\ profile.gen = 0 /\ profile.id = 1 BY <1>1 DEF OtpInit, KeyShape, NoKey
<1>3. ASSUME NEW c \in Cards
      PROVE  otpRecords[c] \in RowShape /\ (otpRecords[c].live => otpRecords[c].rev > 0 /\ otpRecords[c].gen = 0)
 <2>1. PICK row : row = [NoCard EXCEPT !.rev = 1, !.live = TRUE] OBVIOUS
 <2>2. row \in RowShape /\ row.rev = 1 /\ row.gen = 0 BY <1>1, <2>1 DEF RowShape, NoCard
 <2>3. otpRecords[c] = row \/ otpRecords[c] = NoCard BY <2>1 DEF OtpInit
 <2> QED BY <2>2, <2>3, NothingIsShaped
<1>4. otpRecords \in CopyShape BY <1>3 DEF OtpInit, CopyShape
<1>5. RowsOk(otpRecords, purged, profile.gen) BY <1>2, <1>3 DEF RowsOk, OtpInit
<1>6. PICK old \in SUBSET Browsers :
        /\ \A v, w \in Windows : home[v] = home[w] /\ home[v] \in old => v = w
        /\ stores = [b \in Browsers |->
             [vault |-> [id |-> 1, generation |-> IF b \in old THEN Legacy ELSE 0, key |-> profile], records |-> otpRecords]]
        /\ pages = [w \in Windows |-> IF home[w] \in old THEN Closed(Unknown) ELSE Opened] BY DEF OtpInit
<1>7. ASSUME NEW b \in Browsers
      PROVE  /\ stores[b] \in [vault : VaultShape, records : CopyShape] /\ StoreOk(stores[b], otpRecords, purged)
             /\ (stores[b].vault.generation = Legacy => AloneAt(home, b)) /\ OfTheFirst(stores[b].vault)
 <2>1. PICK generation \in Gens \cup {Legacy} : generation = IF b \in old THEN Legacy ELSE 0 BY <1>1
 <2>2. PICK kept : kept = [id |-> 1, generation |-> generation, key |-> profile] OBVIOUS
 <2>3. kept \in VaultShape /\ kept.key = profile /\ kept.id = 1 /\ kept.generation = generation
   BY <1>2, <2>1, <2>2 DEF VaultShape
 <2>4. stores[b] = [vault |-> kept, records |-> otpRecords] BY <1>6, <2>1, <2>2
 <2>5. VaultNamed(kept) /\ OfTheFirst(kept) BY <1>1, <1>2, <2>1, <2>3 DEF VaultNamed, NamedBy, GenerationOf, OfTheFirst
 <2>6. generation = Legacy => AloneAt(home, b) BY <1>1, <1>6, <2>1 DEF AloneAt
 <2> QED BY <1>4, <2>3, <2>4, <2>5, <2>6, TableIsHeld DEF StoreOk
<1>8. home \in [Windows -> Browsers] /\ purged = {} /\ writes = 0 BY DEF OtpInit
<1>9. ASSUME NEW w \in Windows
      PROVE  /\ pages[w] \in PageShape /\ PageOk(pages[w], stores[home[w]].vault)
             /\ PageHolds(pages[w], otpRecords, purged) /\ ~OldPage(pages[w]) /\ pages[w].write.step = "idle"
 <2>1. CASE home[w] \in old
  <3>1. PICK p : p = Closed(Unknown) OBVIOUS
  <3>2. /\ p \in PageShape /\ p.phase = "closed" /\ p.sync = NoSync /\ p.write = NoWrite /\ p.generation = 0
        /\ p.key = NoKey /\ p.cached = NoCards /\ ~p.synced /\ ~p.trusted BY <1>1, <3>1, NothingIsShaped DEF PageShape, Closed
  <3>3. PageIsWhole(p) /\ SyncIsWhole(p) /\ WriteIsWhole(p) /\ AdoptsTheFirst(p, stores[home[w]].vault) /\ ~OldPage(p)
    BY <3>2, NothingIsShaped DEF PageIsWhole, SyncIsWhole, WriteIsWhole, Past, VaultNamed, AdoptsTheFirst, OldPage, Adopting
  <3>4. PageHolds(p, otpRecords, purged) BY <1>4, <1>5, <3>2, NothingIsShaped, NothingIsHeld DEF PageHolds, Creates
  <3>5. pages[w] = p BY <1>6, <2>1, <3>1
  <3> QED BY <3>2, <3>3, <3>4, <3>5, NothingIsShaped DEF PageOk
 <2>2. CASE home[w] \notin old
  <3>1. PICK p : p = Opened OBVIOUS
  <3>2. /\ p \in PageShape /\ p.phase = "ready" /\ p.sync = NoSync /\ p.write = NoWrite /\ p.generation = 0
        /\ p.key = profile /\ p.id = 1 /\ p.cached = otpRecords /\ p.bound = 0
    BY <1>1, <1>2, <1>4, <3>1, NothingIsShaped DEF PageShape, Closed, Opened
  <3>3. AllOf(otpRecords, 0) BY <1>3 DEF AllOf
  <3>4. PageIsWhole(p) BY <1>1, <1>2, <3>2, <3>3 DEF PageIsWhole, NamedBy, GenerationOf
  <3>5. SyncIsWhole(p) /\ WriteIsWhole(p) /\ AdoptsTheFirst(p, stores[home[w]].vault) /\ ~OldPage(p)
    BY <1>1, <3>2, NothingIsShaped DEF SyncIsWhole, WriteIsWhole, Past, VaultNamed, AdoptsTheFirst, OldPage, Adopting
  <3>6. PageHolds(p, otpRecords, purged) BY <1>4, <1>5, <3>2, NothingIsShaped, NothingIsHeld, TableIsHeld DEF PageHolds, Creates
  <3>7. pages[w] = p BY <1>6, <2>2, <3>1
  <3> QED BY <3>2, <3>4, <3>5, <3>6, <3>7, NothingIsShaped DEF PageOk
 <2> QED BY <2>1, <2>2
<1>10. OtpShape BY <1>2, <1>4, <1>6, <1>7, <1>8, <1>9 DEF OtpShape
<1>11. \A v, w \in Windows, c \in Cards : Creates(pages[v], c) /\ Creates(pages[w], c) => v = w BY <1>9 DEF Creates
<1> QED BY <1>5, <1>7, <1>9, <1>10, <1>11 DEF OtpInv

\* Every step keeps the invariant.
LEMMA OtpStep == OtpInv /\ [OtpNext]_otpVars => OtpInv'
<1> SUFFICES ASSUME OtpInv, [OtpNext]_otpVars PROVE OtpInv' OBVIOUS
<1>1. CASE UNCHANGED otpVars BY <1>1 DEF otpVars, OtpInv, OtpShape
<1>2. ASSUME NEW w \in Windows, PageStep(w) PROVE OtpInv'
  BY <1>2, OpenPageKeeps, ReadRecordsKeeps, ClosePageKeeps, EnrollKeeps, EnrolledKeeps, ForgetVaultKeeps, RemovedKeeps,
     AnnounceKeeps, HearKeeps, LearnKeeps, AdoptKeeps, StartSyncKeeps, SyncFailsKeeps DEF PageStep
<1>3. ASSUME NEW w \in Windows, SyncStep(w) PROVE OtpInv'
  BY <1>3, AnswerKeeps, DecideKeeps, ReadVaultKeeps, PutVaultKeeps, StoreSnapshotKeeps, ShowSnapshotKeeps, KillVaultKeeps,
     KillPageKeeps DEF SyncStep, List, ReadProfile
<1>4. ASSUME NEW w \in Windows, WriteStep(w) PROVE OtpInv'
  BY <1>4, ServeKeeps, ConflictKeeps, WriteFailsKeeps, StoreReplyKeeps, ShowReplyKeeps DEF WriteStep
<1>5. ASSUME NEW w \in Windows, NEW c \in Cards, Create(w, c) \/ Update(w, c) \/ RemoveCard(w, c) PROVE OtpInv'
  BY <1>5, SendsKeeps DEF Create, Update, RemoveCard
<1>6. ASSUME NEW w \in Windows, Renumber(w) PROVE OtpInv'
  BY <1>6, SendsKeeps DEF Renumber, NoWrite
<1>7. ASSUME Rotate \/ ResetProfile \/ PurgeTombstones PROVE OtpInv'
  BY <1>7, RotateKeeps, ResetProfileKeeps, PurgeTombstonesKeeps
<1> QED BY <1>1, <1>2, <1>3, <1>4, <1>5, <1>6, <1>7 DEF OtpNext

\* Only a write that is served, on the payload its page was showing, changes one;
\* and nothing brings a deleted credential back.
LEMMA OtpEdits ==
  ASSUME OtpInv, [OtpNext]_otpVars, NEW c \in Cards
  PROVE  /\ (otpRecords[c].rev > 0 /\ otpRecords'[c].rev > 0 /\ otpRecords'[c].edit # otpRecords[c].edit) =>
              \E w \in Windows :
                /\ pages[w].write.step = "sent" /\ pages'[w].write.step # "sent" /\ pages[w].write.card = c
                /\ pages[w].write.seen[c].live /\ pages[w].write.seen[c].edit = otpRecords[c].edit
         /\ (c \in purged \/ (otpRecords[c].rev > 0 /\ ~otpRecords[c].live)) => ~otpRecords'[c].live
<1>0. otpRecords[c] \in RowShape /\ (c \in purged => ~otpRecords[c].live) /\ RowsOk(otpRecords, purged, profile.gen)
  BY NothingIsShaped DEF OtpInv, OtpShape, CopyShape, RowsOk
<1>1. CASE otpRecords' = otpRecords BY <1>0, <1>1
<1>2. ASSUME NEW w \in Windows, Serve(w)
      PROVE  /\ (otpRecords[c].rev > 0 /\ otpRecords'[c].rev > 0 /\ otpRecords'[c].edit # otpRecords[c].edit) =>
                /\ pages[w].write.step = "sent" /\ pages'[w].write.step # "sent" /\ pages[w].write.card = c
                /\ pages[w].write.seen[c].live /\ pages[w].write.seen[c].edit = otpRecords[c].edit
             /\ (c \in purged \/ (otpRecords[c].rev > 0 /\ ~otpRecords[c].live)) => ~otpRecords'[c].live
 <2>0. PICK write : write = pages[w].write OBVIOUS
 <2>1. write.step = "sent" /\ Serves(write.header) /\ Hit(write) /\ otpRecords' = Written(write) /\ writes < MaxWrites
   BY <1>2, <2>0 DEF Serve
 <2>2. /\ c # write.card \/ write.kind = "reorder" => otpRecords'[c].edit = otpRecords[c].edit
       /\ (c \in purged \/ (otpRecords[c].rev > 0 /\ ~otpRecords[c].live)) => ~otpRecords'[c].live
   BY <1>0, <2>0, <2>1, WrittenRows
 <2>3. /\ write \in WriteShape /\ Held(write.seen, otpRecords, purged)
       /\ write.kind = "create" => otpRecords[write.card].rev = 0 BY <2>0, <2>1, ServedWrite
 <2>4. pages'[w].write.step # "sent"
  <3>1. PICK p : /\ p.write.step # "sent" /\ pages' = [pages EXCEPT ![w] = p]
   <4>1. PICK next : next = OtpApplied(write, otpRecords') OBVIOUS
   <4>2. PICK reply : reply = [NoWrite EXCEPT !.step = "replied", !.next = next] OBVIOUS
   <4>3. reply.step = "replied" BY <4>2 DEF NoWrite
   <4>4. pages' = [pages EXCEPT ![w] = [pages[w] EXCEPT !.write = NoWrite]] \/ pages' = [pages EXCEPT ![w] = [pages[w] EXCEPT !.write = reply]]
     BY <1>2, <2>0, <4>1, <4>2 DEF Serve, SetWrite, SetPage
   <4>5. [pages[w] EXCEPT !.write = NoWrite].write = NoWrite /\ [pages[w] EXCEPT !.write = reply].write = reply
     BY PageFacts DEF PageShape
   <4> QED BY <4>3, <4>4, <4>5, NothingIsShaped
  <3> QED BY <3>1 DEF OtpInv, OtpShape
 <2>5. ASSUME otpRecords[c].rev > 0, otpRecords'[c].edit # otpRecords[c].edit
       PROVE  write.card = c /\ write.seen[c].live /\ write.seen[c].edit = otpRecords[c].edit
   BY <2>2, <2>5, <2>3, <1>0, <2>1 DEF RowShape, Hit, Matches, Held
 <2> QED BY <2>0, <2>1, <2>2, <2>4, <2>5
<1>3. ASSUME Rotate PROVE /\ otpRecords[c].edit = otpRecords'[c].edit
                          /\ ~otpRecords[c].live => ~otpRecords'[c].live
 <2>1. PICK row : row = otpRecords[c] OBVIOUS
 <2>2. otpRecords'[c] = IF row.live THEN [row EXCEPT !.rev = @ + 1, !.gen = profile.gen + 1] ELSE row BY <1>3, <2>1 DEF Rotate
 <2> QED BY <1>0, <2>1, <2>2 DEF RowShape
<1>4. ASSUME ResetProfile \/ PurgeTombstones PROVE otpRecords'[c] = NoCard \/ otpRecords'[c] = otpRecords[c]
  BY <1>4, NothingIsShaped DEF ResetProfile, PurgeTombstones
<1>5. (\E w \in Windows : Serve(w)) \/ Rotate \/ ResetProfile \/ PurgeTombstones \/ otpRecords' = otpRecords
 <2>1. ASSUME NEW w \in Windows, PageStep(w) PROVE otpRecords' = otpRecords
   BY <2>1 DEF PageStep, OpenPage, ReadRecords, ClosePage, Enroll, Enrolled, ForgetVault, Removed, Announce, Hear, Learn,
               Adopt, StartSync, SyncFails
 <2>2. ASSUME NEW w \in Windows, SyncStep(w) PROVE otpRecords' = otpRecords
   BY <2>2 DEF SyncStep, List, ReadProfile, OtpAnswer, Decide, ReadVault, PutVault, StoreSnapshot, ShowSnapshot, KillVault,
               KillPage
 <2>3. ASSUME NEW w \in Windows, WriteStep(w) PROVE Serve(w) \/ otpRecords' = otpRecords
   BY <2>3 DEF WriteStep, Conflict, WriteFails, StoreReply, ShowReply
 <2>4. ASSUME NEW w \in Windows, Renumber(w) \/ \E d \in Cards : Create(w, d) \/ Update(w, d) \/ RemoveCard(w, d)
       PROVE  otpRecords' = otpRecords BY <2>4 DEF Renumber, Create, Update, RemoveCard, Sends
 <2>5. CASE UNCHANGED otpVars BY <2>5 DEF otpVars
 <2> QED BY <2>1, <2>2, <2>3, <2>4, <2>5 DEF OtpNext
<1> QED BY <1>0, <1>1, <1>2, <1>3, <1>4, <1>5, NothingIsShaped

\* Every credential's payload is of the generation the account is at, every vault
\* on a disk holds the key it names, what a page lists its key opens, and a change
\* replaces the very payload its page was showing: for any number of credentials,
\* browsers and pages, whatever syncs, writes, rotations, resets and purges.
THEOREM CredentialsSafe == OtpSpec => CredentialsAreSafe
<1>1. OtpInv => RowsAreOfTheGeneration /\ VaultNamesItsKey /\ CardsOpen
 <2> SUFFICES ASSUME OtpInv PROVE RowsAreOfTheGeneration /\ VaultNamesItsKey /\ CardsOpen OBVIOUS
 <2>1. RowsAreOfTheGeneration BY DEF OtpInv, RowsOk, RowsAreOfTheGeneration
 <2>2. VaultNamesItsKey BY DEF OtpInv, StoreOk, VaultNamed, NamedBy, GenerationOf, VaultNamesItsKey
 <2>3. CardsOpen BY PageFacts DEF CardsOpen, PageIsWhole, AllOf
 <2> QED BY <2>1, <2>2, <2>3
<1>2. OtpInv /\ [OtpNext]_otpVars =>
        [\A c \in Cards :
           /\ (otpRecords[c].rev > 0 /\ otpRecords'[c].rev > 0 /\ otpRecords'[c].edit # otpRecords[c].edit) =>
                \E w \in Windows :
                  /\ pages[w].write.step = "sent" /\ pages'[w].write.step # "sent" /\ pages[w].write.card = c
                  /\ pages[w].write.seen[c].live /\ pages[w].write.seen[c].edit = otpRecords[c].edit
           /\ (c \in purged \/ (otpRecords[c].rev > 0 /\ ~otpRecords[c].live)) => ~otpRecords'[c].live]_otpVars BY OtpEdits
<1> QED BY <1>1, <1>2, OtpInitInv, OtpStep, PTL DEF OtpSpec, CredentialsAreSafe, EditsBuildOnWhatWasSeen

-----------------------------------------------------------------------------
(* The walk over the inventory: the inductive invariant.                   *)

Places == 1 .. Total
IsBody(j) == Kind(j) \in SealBodyKinds
OfTheFirstPass(j) == Kind(j) \in PassKinds(1)

\* Where the walk will look next.
Upcoming(e) ==
  IF e.at = "page" THEN e.after + 1
  ELSE IF e.page # <<>> THEN e.page[1] ELSE IF e.more THEN e.after + 1 ELSE Total + 1

\* What this walk is through with.
Taken(e) ==
  {j \in Places : \/ OfTheFirstPass(j) /\ (e.pass = 2 \/ j < Upcoming(e))
                  \/ IsBody(j) /\ e.pass = 2 /\ j < Upcoming(e)}

\* A page is a stretch of the inventory, and says whether there is more.
PagesAreStretches(e) ==
  /\ e.at = "item" =>
       /\ \A k \in 1 .. Len(e.page) : e.page[k] \in Places /\ e.page[k] = e.page[1] + k - 1
       /\ e.page # <<>> => (e.more <=> e.page[Len(e.page)] < Total)
  /\ e.after < Upcoming(e) /\ Upcoming(e) <= Total + 1

\* The second pass will begin before the first Seal's body.
CursorIsBefore(e) ==
  /\ e.pass = 1 => \A j \in Places : IsBody(j) => e.cursor < j /\ (j < Upcoming(e) => e.found)
  /\ e.cursor <= Total

\* A call is about an item of its pass, and the value it carries is the item's own.
CallIsOwn(e, S) ==
  /\ e.at = "page" => e.step = "none"
  /\ e.at = "item" /\ e.step # "none" =>
    /\ e.page # <<>> /\ PassOwns(e.pass, Kind(e.page[1]))
    /\ e.step \in {"stage", "finalize"} => e.value # 0 /\ S[e.page[1]] \in {0, e.value}
    /\ e.step = "upload" => e.value # 0 /\ S[e.page[1]] = 0
    /\ e.step \in {"read", "verify"} => S[e.page[1]] # 0

\* A walk is through with what is verified, knows the keys it met, and counts.
TakenIsVerified(e, S, C) ==
  /\ \A j \in Taken(e) : S[j] # 0 /\ C[j] = S[j] /\ (Kind(j) = "seal-wrapper" /\ ~inventory[j].hollow => SealOf(j) \in e.keys)
  /\ e.processed = Cardinality(Taken(e))

Accepted == {j \in Places : checked[j] # 0}

WalkInv ==
  /\ inventory \in Inventories /\ engine \in Engine /\ values \in Nat
  /\ staged \in [Places -> Nat] /\ checked \in [Places -> Nat]
  /\ \A j \in Places : checked[j] # 0 => checked[j] = staged[j]
  /\ engine.at \in Walking => /\ PagesAreStretches(engine) /\ CursorIsBefore(engine)
                              /\ CallIsOwn(engine, staged) /\ TakenIsVerified(engine, staged, checked)
  /\ engine.processed <= Cardinality(Accepted)
  /\ engine.at = "done" => engine.processed = Total /\ \A j \in Places : staged[j] # 0 /\ checked[j] = staged[j]
  /\ engine.at \notin {"nokey", "conflict"}

-----------------------------------------------------------------------------
(* Facts about the inventory. *)

\* The kinds, and the order they come in.
LEMMA KindsAre ==
  /\ Kinds = {"auth", "file", "seal", "seal-file", "seal-version", "seal-wrapper", "secret", "secret-version"}
  /\ Rank("seal") = 3 /\ Rank("seal-file") = 4 /\ Rank("seal-version") = 5
<1>1. DOMAIN Order = 1 .. 8 /\ Order[1] = "auth" /\ Order[2] = "file" /\ Order[3] = "seal" /\ Order[4] = "seal-file"
      /\ Order[5] = "seal-version" /\ Order[6] = "seal-wrapper" /\ Order[7] = "secret" /\ Order[8] = "secret-version"
  BY DEF Order
<1>2. Kinds = {"auth", "file", "seal", "seal-file", "seal-version", "seal-wrapper", "secret", "secret-version"}
 <2> HIDE DEF Order
 <2>1. Kinds = {Order[i] : i \in 1 .. 8} BY <1>1 DEF Kinds, ToSet
 <2>2. \A i \in 1 .. 8 : i = 1 \/ i = 2 \/ i = 3 \/ i = 4 \/ i = 5 \/ i = 6 \/ i = 7 \/ i = 8 OBVIOUS
 <2> QED BY <1>1, <2>1, <2>2
<1>3. Rank("seal") = 3 /\ Rank("seal-file") = 4 /\ Rank("seal-version") = 5
 <2> HIDE DEF Order
 <2>1. \A i \in 1 .. 8 : i = 1 \/ i = 2 \/ i = 3 \/ i = 4 \/ i = 5 \/ i = 6 \/ i = 7 \/ i = 8 OBVIOUS
 <2>2. \A r \in DOMAIN Order : /\ Order[r] = "seal" <=> r = 3
                               /\ Order[r] = "seal-file" <=> r = 4
                               /\ Order[r] = "seal-version" <=> r = 5 BY <1>1, <2>1
 <2> QED BY <1>1, <2>2 DEF Rank
<1> QED BY <1>2, <1>3

\* A pass or the other owns every item; what comes behind the bodies is no body.
LEMMA InventoryFacts ==
  ASSUME WalkInv
  PROVE  /\ Total \in Nat /\ DOMAIN inventory = Places /\ inventory \in Seq(Item)
         /\ \A j \in Places : inventory[j] \in Item /\ Kind(j) \in Kinds
         /\ \A j \in Places : (OfTheFirstPass(j) \/ IsBody(j)) /\ ~(OfTheFirstPass(j) /\ IsBody(j))
         /\ \A i, j \in Places : i <= j /\ Rank(Kind(i)) > Rank("seal-version") => ~IsBody(j)
         /\ \A j \in Places : IsBody(j) /\ ~inventory[j].hollow =>
              \E i \in Places : Kind(i) = "seal-wrapper" /\ SealOf(i) = SealOf(j) /\ ~inventory[i].hollow
<1>1. inventory \in Seq(Item) /\ Sorted(inventory) /\ Sound(inventory) BY WalkAssumption DEF WalkInv
<1>2. Total \in Nat /\ DOMAIN inventory = Places /\ \A j \in Places : inventory[j] \in Item /\ Kind(j) \in Kinds
 <2>1. Total \in Nat /\ DOMAIN inventory = Places BY <1>1, LenProperties DEF Total, Places
 <2>2. \A j \in Places : inventory[j] \in Item BY <1>1, <2>1, ElementOfSeq DEF Total, Places
 <2>3. \A j \in Places : Kind(j) \in Kinds
  <3> HIDE DEF Kinds
  <3> QED BY <2>2 DEF Item, Kind
 <2> QED BY <2>1, <2>2, <2>3
<1>3. \A j \in Places : (OfTheFirstPass(j) \/ IsBody(j)) /\ ~(OfTheFirstPass(j) /\ IsBody(j))
  BY <1>2, KindsAre DEF OfTheFirstPass, IsBody, PassKinds, BodyKinds, SealBodyKinds
<1>4. ASSUME NEW i \in Places, NEW j \in Places, i <= j, Rank(Kind(i)) > Rank("seal-version") PROVE ~IsBody(j)
 <2>1. CASE i = j BY <1>4, <2>1, KindsAre DEF IsBody, SealBodyKinds
 <2>2. CASE i < j
  <3>1. Rank(Kind(i)) <= Rank(Kind(j)) BY <1>1, <1>2, <2>2 DEF Sorted, Kind
  <3>2. IsBody(j) => Rank(Kind(j)) \in {3, 4, 5} BY KindsAre DEF IsBody, SealBodyKinds
  <3>3. Rank(Kind(i)) \in Nat
    BY <1>2 DEF Kinds, ToSet, Rank, Order
  <3> QED BY <1>4, <3>1, <3>2, <3>3, KindsAre
 <2> QED BY <1>4, <2>1, <2>2 DEF Places
<1>5. \A j \in Places : IsBody(j) /\ ~inventory[j].hollow =>
        \E i \in Places : Kind(i) = "seal-wrapper" /\ SealOf(i) = SealOf(j) /\ ~inventory[i].hollow
  BY <1>1, <1>2 DEF Sound, IsBody, Kind, SealOf
<1> QED BY <1>1, <1>2, <1>3, <1>4, <1>5

\* The places are finitely many.
LEMMA PlacesAreFinite ==
  ASSUME WalkInv
  PROVE  /\ IsFiniteSet(Places) /\ Cardinality(Places) = Total
         /\ \A S \in SUBSET Places : IsFiniteSet(S) /\ Cardinality(S) \in Nat
         /\ \A S, T \in SUBSET Places : S \subseteq T => Cardinality(S) <= Cardinality(T)
<1>1. IsFiniteSet(Places) /\ Cardinality(Places) = Total BY InventoryFacts, FS_Interval DEF Places
<1>2. \A S \in SUBSET Places : IsFiniteSet(S) /\ Cardinality(S) \in Nat BY <1>1, FS_Subset, FS_CardinalityType
<1>3. \A S, T \in SUBSET Places : S \subseteq T => Cardinality(S) <= Cardinality(T) BY <1>2, FS_Subset
<1> QED BY <1>1, <1>2, <1>3

\* What the server holds is only added to.
Grows(S, C) ==
  /\ S \in [Places -> Nat] /\ C \in [Places -> Nat]
  /\ \A j \in Places : /\ staged[j] # 0 => S[j] = staged[j]
                       /\ checked[j] # 0 => C[j] = checked[j]
                       /\ C[j] # 0 => C[j] = S[j]

\* What was accepted stays accepted, and what was verified stays verified.
LEMMA GrownKeeps ==
  ASSUME WalkInv, NEW S, NEW C, Grows(S, C)
  PROVE  /\ Cardinality(Accepted) \in Nat /\ Cardinality({j \in Places : C[j] # 0}) \in Nat
         /\ Cardinality(Accepted) <= Cardinality({j \in Places : C[j] # 0})
         /\ \A e : TakenIsVerified(e, staged, checked) => TakenIsVerified(e, S, C)
<1>1. Accepted \subseteq {j \in Places : C[j] # 0} /\ Accepted \in SUBSET Places
      /\ {j \in Places : C[j] # 0} \in SUBSET Places BY DEF Grows, Accepted
<1>2. ASSUME NEW e, TakenIsVerified(e, staged, checked) PROVE TakenIsVerified(e, S, C)
  BY <1>2 DEF Taken, TakenIsVerified, Grows, WalkInv
<1> QED BY <1>1, <1>2, PlacesAreFinite

\* What a walk is through with is accepted.
LEMMA TakenIsAccepted ==
  ASSUME WalkInv, NEW S, NEW C, Grows(S, C), NEW e, TakenIsVerified(e, S, C)
  PROVE  e.processed <= Cardinality({j \in Places : C[j] # 0}) /\ e.processed \in Nat
<1>1. Taken(e) \subseteq {j \in Places : C[j] # 0} /\ {j \in Places : C[j] # 0} \subseteq Places /\ Taken(e) \subseteq Places
  BY DEF TakenIsVerified, Taken
<1> QED BY <1>1, PlacesAreFinite DEF TakenIsVerified

\* A walk that goes on.
LEMMA GoesOn ==
  ASSUME WalkInv, inventory' = inventory, NEW S, NEW C, staged' = S, checked' = C, Grows(S, C), values' \in Nat,
         NEW e \in Engine, engine' = e, e.at \in Walking,
         PagesAreStretches(e), CursorIsBefore(e), CallIsOwn(e, S), TakenIsVerified(e, S, C)
  PROVE  WalkInv'
<1>1. Places' = Places /\ Total' = Total /\ \A j : Kind(j)' = Kind(j) BY DEF Places, Total, Kind
<1>2. PagesAreStretches(e)' /\ CursorIsBefore(e)' /\ CallIsOwn(e, S)' /\ TakenIsVerified(e, S, C)'
 <2>1. PagesAreStretches(e)' BY <1>1 DEF PagesAreStretches, Upcoming
 <2>2. CursorIsBefore(e)' BY <1>1 DEF CursorIsBefore, Upcoming, IsBody
 <2>3. CallIsOwn(e, S)' BY <1>1 DEF CallIsOwn
 <2>4. TakenIsVerified(e, S, C)' BY <1>1 DEF TakenIsVerified, Taken, Upcoming, IsBody, OfTheFirstPass, Kind, SealOf
 <2> QED BY <2>1, <2>2, <2>3, <2>4
<1>3. engine' = e /\ e.processed <= Cardinality({j \in Places : C[j] # 0}) BY TakenIsAccepted
<1>4. Accepted' = {j \in Places : C[j] # 0} BY <1>1 DEF Accepted
<1>5. e.at \notin {"done", "nokey", "conflict"} BY DEF Walking
<1>6. inventory' \in Inventories /\ S \in [Places -> Nat] /\ C \in [Places -> Nat] /\ \A j \in Places : C[j] # 0 => C[j] = S[j]
  BY DEF WalkInv, Grows
<1> HIDE DEF Walking
<1> QED BY <1>1, <1>2, <1>3, <1>4, <1>5, <1>6 DEF WalkInv, CallIsOwn, TakenIsVerified

\* A walk that does not.
LEMMA Rests ==
  ASSUME WalkInv, inventory' = inventory, NEW S, NEW C, staged' = S, checked' = C, Grows(S, C), values' \in Nat,
         NEW e \in Engine, engine' = e, e.at \notin Walking \cup {"nokey", "conflict"},
         e.processed <= Cardinality(Accepted),
         e.at = "done" => e.processed = Total /\ \A j \in Places : S[j] # 0 /\ C[j] = S[j]
  PROVE  WalkInv'
<1>1. Places' = Places /\ Total' = Total BY DEF Places, Total
<1>2. e.processed <= Cardinality({j \in Places : C[j] # 0}) BY GrownKeeps DEF Engine
<1>3. Accepted' = {j \in Places : C[j] # 0} BY <1>1 DEF Accepted
<1>4. inventory' \in Inventories /\ S \in [Places -> Nat] /\ C \in [Places -> Nat] /\ \A j \in Places : C[j] # 0 => C[j] = S[j]
  BY DEF WalkInv, Grows
<1> HIDE DEF Walking
<1> QED BY <1>1, <1>2, <1>3, <1>4 DEF WalkInv

\* A walk that is not on is one of the engine's states.
LEMMA NobodyIs == Nobody \in Engine
BY EmptySeq DEF Nobody, Engine

\* Nothing changes on the server.
LEMMA Unmoved ==
  ASSUME WalkInv
  PROVE  Grows(staged, checked)
BY DEF Grows, WalkInv

-----------------------------------------------------------------------------
(* Where a walk stands. *)

\* The item at hand is the next of the inventory.
LEMMA AtAnItem ==
  ASSUME WalkInv, engine.at = "item", engine.page # <<>>
  PROVE  /\ Here = engine.page[1] /\ Here \in Places /\ Upcoming(engine) = Here
         /\ Here \in Nat /\ 1 <= Here /\ Here <= Total /\ engine.after \in Nat /\ engine.after < Here
         /\ engine \in Engine /\ engine.at \in Walking /\ PagesAreStretches(engine) /\ CursorIsBefore(engine)
         /\ CallIsOwn(engine, staged) /\ TakenIsVerified(engine, staged, checked)
<1>1. engine \in Engine /\ engine.at \in Walking /\ PagesAreStretches(engine) /\ CursorIsBefore(engine)
      /\ CallIsOwn(engine, staged) /\ TakenIsVerified(engine, staged, checked) BY DEF WalkInv, Walking
<1>2. engine.page \in Seq(Nat) /\ engine.after \in Nat BY <1>1 DEF Engine
<1>3. Here = engine.page[1] /\ 1 \in 1 .. Len(engine.page) BY <1>2 DEF Here
<1>4. Here \in Places BY <1>1, <1>3 DEF PagesAreStretches
<1>5. Upcoming(engine) = Here BY <1>3 DEF Upcoming
<1>6. engine.after < Here BY <1>1, <1>5 DEF PagesAreStretches
<1>7. Here \in Nat /\ 1 <= Here /\ Here <= Total BY <1>4, InventoryFacts DEF Places
<1> QED BY <1>1, <1>2, <1>3, <1>4, <1>5, <1>6, <1>7

\* Through with an item, the walk is at the one behind it, on this page or the next.
LEMMA WalkSteps ==
  ASSUME WalkInv, NEW e \in Engine, e.at = "item", e.page # <<>>, e.page = engine.page, PagesAreStretches(e), Here \in Places,
         NEW f, f \in {Advanced(e), [Advanced(e) EXCEPT !.after = Here]}
  PROVE  /\ f \in Engine /\ f.at = "item" /\ f.step = "none" /\ PagesAreStretches(f) /\ Upcoming(f) = Here + 1
         /\ f.pass = e.pass /\ f.found = e.found /\ f.cursor = e.cursor /\ f.keys = e.keys /\ f.processed = e.processed
<1>1. e.page \in Seq(Nat) /\ e.after \in Nat /\ e.more \in BOOLEAN BY DEF Engine
<1>2. Here = e.page[1] /\ Here \in Nat /\ Here <= Total /\ Total \in Nat /\ 1 \in 1 .. Len(e.page)
  BY <1>1, InventoryFacts DEF Here, Places
<1>3. Tail(e.page) \in Seq(Nat) /\ Len(Tail(e.page)) = Len(e.page) - 1 /\ Len(e.page) \in Nat
      /\ \A k \in 1 .. Len(e.page) - 1 : Tail(e.page)[k] = e.page[k + 1] BY <1>1
<1>4. f \in Engine
 <2>1. Advanced(e) \in Engine BY <1>1, <1>2, <1>3 DEF Advanced, Engine
 <2> QED BY <2>1, <1>2 DEF Engine
<1>5. /\ f.at = "item" /\ f.step = "none" /\ f.page = Tail(e.page) /\ f.more = e.more
      /\ f.pass = e.pass /\ f.found = e.found /\ f.cursor = e.cursor /\ f.keys = e.keys /\ f.processed = e.processed
      /\ f.after \in {e.after, Here} /\ (e.more /\ Len(e.page) = 1 => f.after = Here) BY <1>1, <1>2 DEF Advanced, Engine
<1>6. e.after < Here BY <1>2 DEF PagesAreStretches, Upcoming
<1>7. CASE Len(e.page) = 1
 <2>1. Tail(e.page) = <<>>
  <3>1. Tail(e.page) \in Seq(Nat) /\ Len(Tail(e.page)) = 0 BY <1>3, <1>7
  <3> QED BY <3>1, EmptySeq
 <2>2. e.more <=> Here < Total BY <1>2, <1>7 DEF PagesAreStretches
 <2>3. Upcoming(f) = Here + 1 BY <1>1, <1>2, <1>5, <1>7, <2>1, <2>2 DEF Upcoming
 <2>4. f.after < Here + 1 BY <1>1, <1>2, <1>5, <1>6
 <2>5. PagesAreStretches(f) BY <1>2, <1>5, <2>1, <2>3, <2>4 DEF PagesAreStretches
 <2> QED BY <1>4, <1>5, <2>3, <2>5
<1>8. CASE Len(e.page) > 1
 <2>1. f.page # <<>> /\ f.page[1] = e.page[2] /\ Len(f.page) = Len(e.page) - 1 /\ f.page[Len(f.page)] = e.page[Len(e.page)]
  <3>1. 1 \in 1 .. Len(e.page) - 1 /\ Len(e.page) - 1 \in 1 .. Len(e.page) - 1 BY <1>3, <1>8
  <3>2. Tail(e.page)[1] = e.page[1 + 1] /\ Tail(e.page)[Len(e.page) - 1] = e.page[(Len(e.page) - 1) + 1] BY <1>3, <3>1
  <3>3. Len(<<>>) = 0 OBVIOUS
  <3>4. Tail(e.page) # <<>>
   <4>1. Len(Tail(e.page)) # 0 BY <1>3, <3>1
   <4> QED BY <3>3, <4>1, Zenon
  <3>5. Tail(e.page)[1] = e.page[2] /\ Tail(e.page)[Len(e.page) - 1] = e.page[Len(e.page)]
   <4>1. 1 + 1 = 2 /\ (Len(e.page) - 1) + 1 = Len(e.page) BY <1>3
   <4> QED BY <3>2, <4>1, Zenon
  <3> QED BY <1>3, <1>5, <3>4, <3>5
 <2>2. e.page[2] = Here + 1 /\ e.page[2] \in Places
  <3>1. 2 \in 1 .. Len(e.page) BY <1>3, <1>8
  <3> QED BY <1>2, <3>1 DEF PagesAreStretches
 <2>3. Upcoming(f) = Here + 1 BY <1>5, <2>1, <2>2 DEF Upcoming
 <2>4. \A k \in 1 .. Len(f.page) : f.page[k] \in Places /\ f.page[k] = f.page[1] + k - 1
  <3> TAKE k \in 1 .. Len(f.page)
  <3>1. k + 1 \in 1 .. Len(e.page) /\ f.page[k] = e.page[k + 1] BY <1>3, <1>5, <2>1
  <3>2. e.page[k + 1] \in Places /\ e.page[k + 1] = e.page[1] + (k + 1) - 1 BY <3>1 DEF PagesAreStretches
  <3>3. k \in Int /\ Here \in Int /\ e.page[1] = Here /\ f.page[1] = Here + 1 BY <1>2, <1>3, <2>1, <2>2
  <3>4. e.page[k + 1] = Here + k BY <3>2, <3>3
  <3> QED BY <3>1, <3>2, <3>3, <3>4
 <2>5. f.page # <<>> => (f.more <=> f.page[Len(f.page)] < Total) BY <1>5, <2>1 DEF PagesAreStretches
 <2>6. f.after < Here + 1 /\ Here + 1 <= Total + 1 BY <1>1, <1>2, <1>5, <1>6
 <2>7. PagesAreStretches(f) BY <2>3, <2>4, <2>5, <2>6 DEF PagesAreStretches
 <2> QED BY <1>4, <1>5, <2>3, <2>7
<1>9. Len(e.page) = 1 \/ Len(e.page) > 1
 <2>1. Len(e.page) >= 1 /\ Len(e.page) \in Nat BY <1>1, <1>2, <1>3
 <2>2. \A n \in Nat : n >= 1 => n = 1 \/ n > 1 OBVIOUS
 <2> QED BY <2>1, <2>2, Zenon
<1> QED BY <1>7, <1>8, <1>9, Zenon

\* The first of the Seals' bodies is noticed before it is reached.
LEMMA Notices ==
  ASSUME WalkInv, engine.at = "item", engine.page # <<>>, NEW e, e = Noticed(engine, Here)
  PROVE  /\ e \in Engine /\ e.at = "item" /\ e.page = engine.page /\ e.pass = engine.pass /\ e.step = engine.step
         /\ e.keys = engine.keys /\ e.processed = engine.processed
         /\ PagesAreStretches(e) /\ Upcoming(e) = Here /\ CursorIsBefore(e) /\ TakenIsVerified(e, staged, checked)
         /\ Taken(e) = Taken(engine) /\ e.cursor <= Total
         /\ e.pass = 1 => \A j \in Places : IsBody(j) => e.cursor < j /\ (j < Here + 1 => e.found)
<1>1. /\ e \in Engine /\ e.at = "item" /\ e.page = engine.page /\ e.pass = engine.pass /\ e.after = engine.after
      /\ e.more = engine.more /\ e.keys = engine.keys /\ e.processed = engine.processed /\ e.step = engine.step
  BY AtAnItem DEF Noticed, SealsFrom, Engine
<1>2. \/ e = engine /\ (engine.found \/ ~IsBody(Here))
      \/ e.found = TRUE /\ e.cursor = engine.after /\ ~engine.found /\ IsBody(Here)
  BY AtAnItem DEF Noticed, SealsFrom, Engine, IsBody
<1>3. Upcoming(e) = Here /\ Upcoming(engine) = Here BY <1>1, AtAnItem DEF Upcoming
<1>4. PagesAreStretches(e) BY <1>1, <1>3, AtAnItem DEF PagesAreStretches
<1>5. Taken(e) = Taken(engine) BY <1>1, <1>3 DEF Taken
<1>6. TakenIsVerified(e, staged, checked) BY <1>1, <1>5, AtAnItem DEF TakenIsVerified
<1>7. e.cursor <= Total BY <1>2, AtAnItem, InventoryFacts DEF CursorIsBefore
<1>8. ASSUME e.pass = 1, NEW j \in Places, IsBody(j) PROVE e.cursor < j /\ (j < Here + 1 => e.found)
  BY <1>1, <1>3, <1>8, AtAnItem, InventoryFacts, <1>2 DEF CursorIsBefore, Places
<1>9. CursorIsBefore(e)
  BY AtAnItem, InventoryFacts, <1>3, <1>7, <1>8 DEF Places, CursorIsBefore
<1> QED BY <1>1, <1>3, <1>4, <1>5, <1>6, <1>7, <1>8, <1>9

\* What a walk is through with, an item further on.
LEMMA FurtherOn ==
  ASSUME WalkInv, NEW e, NEW f, e.pass \in 1 .. 2, f.pass = e.pass, Here \in Places,
         Upcoming(e) = Here, Upcoming(f) = Here + 1
  PROVE  /\ ~PassOwns(e.pass, Kind(Here)) => Taken(f) = Taken(e)
         /\ PassOwns(e.pass, Kind(Here)) => Taken(f) = Taken(e) \cup {Here} /\ Here \notin Taken(e)
<1>1. \A j \in Places : (j < Here + 1 <=> j < Here \/ j = Here) /\ ~(Here < Here) BY InventoryFacts DEF Places
<1>2. (OfTheFirstPass(Here) \/ IsBody(Here)) /\ ~(OfTheFirstPass(Here) /\ IsBody(Here)) BY InventoryFacts
<1>3. PassOwns(e.pass, Kind(Here)) <=> (e.pass = 1 /\ OfTheFirstPass(Here)) \/ (e.pass = 2 /\ IsBody(Here))
  BY DEF PassOwns, PassKinds, OfTheFirstPass, IsBody
<1>4. \A j \in Places : j \in Taken(f) <=> \/ OfTheFirstPass(j) /\ (e.pass = 2 \/ j < Here \/ j = Here)
                                           \/ IsBody(j) /\ e.pass = 2 /\ (j < Here \/ j = Here) BY <1>1 DEF Taken
<1>5. \A j \in Places : j \in Taken(e) <=> \/ OfTheFirstPass(j) /\ (e.pass = 2 \/ j < Here)
                                           \/ IsBody(j) /\ e.pass = 2 /\ j < Here BY DEF Taken
<1>6. Taken(e) \subseteq Places /\ Taken(f) \subseteq Places BY DEF Taken
<1>7. e.pass = 1 => e.pass # 2 OBVIOUS
<1> HIDE DEF Taken, OfTheFirstPass, IsBody, Places
<1>8. ASSUME ~PassOwns(e.pass, Kind(Here)) PROVE \A j \in Places : j \in Taken(f) <=> j \in Taken(e)
  BY <1>2, <1>3, <1>4, <1>5, <1>7, <1>8
<1>9. ASSUME PassOwns(e.pass, Kind(Here))
      PROVE  /\ \A j \in Places : j \in Taken(f) <=> j \in Taken(e) \/ j = Here
             /\ Here \notin Taken(e) BY <1>1, <1>2, <1>3, <1>4, <1>5, <1>7, <1>9
<1> QED BY <1>6, <1>8, <1>9

\* A pass is over: the second begins before the first body, and behind it all is done.
LEMMA PassesOver ==
  ASSUME WalkInv, UNCHANGED <<inventory, staged, checked, values>>,
         NEW e \in Engine, e.at = "item", e.step = "none", PagesAreStretches(e), CursorIsBefore(e), TakenIsVerified(e, staged, checked),
         e.pass = 1 => Upcoming(e) = Total + 1,
         e.pass = 2 => \A j \in Places : IsBody(j) => j < Upcoming(e),
         engine' = PassOver(e)
  PROVE  WalkInv'
<1>1. Total \in Nat /\ Places = 1 .. Total /\ \A j \in Places : j \in Nat /\ 1 <= j /\ j < Total + 1
  BY InventoryFacts DEF Places
<1>2. Grows(staged, checked) /\ values' \in Nat BY Unmoved DEF WalkInv
<1>3. CASE e.pass = 1
 <2> DEFINE f == [e EXCEPT !.at = "page", !.pass = 2, !.after = e.cursor, !.page = <<>>]
 <2>1. f \in Engine /\ f.at = "page" /\ f.pass = 2 /\ f.after = e.cursor /\ f.page = <<>> /\ f.step = "none"
       /\ f.keys = e.keys /\ f.processed = e.processed /\ f.cursor = e.cursor /\ engine' = f
  <3>1. engine' = f BY <1>3, Zenon DEF PassOver
  <3>2. <<>> \in Seq(Nat) /\ 2 \in 1 .. 2 OBVIOUS
  <3>3. f \in Engine BY <3>2 DEF Engine
  <3>4. f.at = "page" /\ f.pass = 2 /\ f.after = e.cursor /\ f.page = <<>> /\ f.step = "none"
        /\ f.keys = e.keys /\ f.processed = e.processed /\ f.cursor = e.cursor BY DEF Engine
  <3> QED BY <3>1, <3>3, <3>4
 <2> HIDE DEF f
 <2>2. Upcoming(f) = e.cursor + 1 /\ e.cursor \in Nat /\ e.cursor <= Total BY <2>1 DEF Upcoming, CursorIsBefore, Engine
 <2>3. PagesAreStretches(f) BY <1>1, <2>1, <2>2 DEF PagesAreStretches
 <2>4. CursorIsBefore(f) /\ CallIsOwn(f, staged) BY <2>1, <2>2 DEF CursorIsBefore, CallIsOwn
 <2>5. Taken(f) = {j \in Places : OfTheFirstPass(j)}
   BY <1>1, <1>3, <2>2, <2>1 DEF CursorIsBefore, Taken
 <2>6. Taken(e) = {j \in Places : OfTheFirstPass(j)} BY <1>1, <1>3 DEF Taken
 <2>7. TakenIsVerified(f, staged, checked) BY <2>1, <2>5, <2>6 DEF TakenIsVerified
 <2> QED BY <1>2, <2>1, <2>3, <2>4, <2>7, GoesOn DEF Walking
<1>4. CASE e.pass = 2
 <2> DEFINE f == [Nobody EXCEPT !.at = "done", !.processed = e.processed]
 <2>1. f \in Engine /\ f.at = "done" /\ f.processed = e.processed /\ engine' = f
  <3>1. e.pass # 1 BY <1>4
  <3>2. engine' = f BY <3>1, Zenon DEF PassOver
  <3>3. f \in Engine BY NobodyIs DEF Engine
  <3>4. f.at = "done" /\ f.processed = e.processed BY DEF Nobody
  <3> QED BY <3>2, <3>3, <3>4
 <2> HIDE DEF f
 <2>2. Taken(e) = Places BY <1>4, InventoryFacts DEF Taken
 <2>3. e.processed = Total /\ \A j \in Places : staged[j] # 0 /\ checked[j] = staged[j]
   BY <2>2, PlacesAreFinite DEF TakenIsVerified
 <2>4. e.processed <= Cardinality({j \in Places : checked[j] # 0}) BY <1>2, TakenIsAccepted
 <2>5. e.processed <= Cardinality(Accepted) BY <2>4 DEF Accepted
 <2> QED BY <1>2, <2>1, <2>3, <2>5, Rests DEF Walking
<1> QED BY <1>3, <1>4 DEF Engine

-----------------------------------------------------------------------------
(* Every step of the walk keeps it. *)

\* A walk that ends, as the server left it, tells its count.
LEMMA Ending ==
  ASSUME WalkInv, UNCHANGED inventory, NEW S, NEW C, staged' = S, checked' = C, Grows(S, C), values' \in Nat,
         NEW how \in {"off", "failed", "quiet", "loud"}, Ended(how)
  PROVE  WalkInv'
<1>2. engine.processed \in Nat /\ engine.processed <= Cardinality(Accepted) BY DEF WalkInv, Engine
<1>3. Cardinality(Accepted) \in Nat BY Unmoved, GrownKeeps
<1> DEFINE n == engine.processed
           e == [Nobody EXCEPT !.at = how, !.processed = n]
<1>5. e \in Engine BY NobodyIs, <1>2 DEF Engine
<1>6. e.at = how /\ e.processed = n BY DEF Nobody
<1>7. how \notin Walking \cup {"nokey", "conflict", "done"} BY DEF Walking
<1>8. engine' = e BY DEF Ended
<1> HIDE DEF e
<1> QED BY <1>2, <1>5, <1>6, <1>7, <1>8, Rests

\* A walk that begins is through with nothing.
LEMMA BeginWalkKeeps == WalkInv /\ BeginWalk => WalkInv'
<1> SUFFICES ASSUME WalkInv, BeginWalk PROVE WalkInv' OBVIOUS
<1> DEFINE e == [Nobody EXCEPT !.at = "page"]
<1>1. engine' = e /\ inventory' = inventory /\ staged' = staged /\ checked' = checked /\ values' \in Nat
  BY DEF BeginWalk, StartOver, ServerVars, WalkInv
<1>2. e \in Engine BY NobodyIs DEF Engine
<1>3. e.at = "page" /\ e.pass = 1 /\ e.after = 0 /\ e.page = <<>> /\ e.cursor = 0 /\ e.processed = 0 /\ e.step = "none"
  BY DEF Nobody
<1> HIDE DEF e
<1>4. Upcoming(e) = 1 BY <1>3 DEF Upcoming
<1>5. Total \in Nat /\ \A j \in Places : j \in Nat /\ 1 <= j /\ ~(j < 1) BY InventoryFacts DEF Places
<1>6. PagesAreStretches(e) /\ CursorIsBefore(e) /\ CallIsOwn(e, staged)
  BY <1>3, <1>4, <1>5 DEF PagesAreStretches, CursorIsBefore, CallIsOwn
<1>7. Taken(e) = {} BY <1>3, <1>4, <1>5 DEF Taken
<1>8. TakenIsVerified(e, staged, checked) BY <1>3, <1>7, FS_EmptySet DEF TakenIsVerified
<1> QED BY <1>1, <1>2, <1>3, <1>6, <1>8, Unmoved, GoesOn DEF Walking

\* A pause is only asked for.
LEMMA PauseKeeps == WalkInv /\ Pause => WalkInv'
BY DEF Pause, ServerVars, Counts, WalkInv, Places, Total, Accepted, PagesAreStretches, CursorIsBefore, CallIsOwn, TakenIsVerified,
       Taken, Upcoming, OfTheFirstPass, IsBody, Kind, SealOf

\* A walk that breaks off has taken nothing back.
LEMMA CrashKeeps == WalkInv /\ Crash => WalkInv'
<1> SUFFICES ASSUME WalkInv, Crash PROVE WalkInv' OBVIOUS
<1>1. inventory' = inventory /\ staged' = staged /\ checked' = checked /\ values' \in Nat /\ engine' = Nobody
  BY DEF Crash, ServerVars, Counts, WalkInv
<1>2. Nobody.at = "off" /\ Nobody.processed = 0 BY DEF Nobody
<1>3. Cardinality(Accepted) \in Nat BY Unmoved, GrownKeeps
<1> QED BY <1>1, <1>2, <1>3, NobodyIs, Unmoved, Rests DEF Walking

\* Nor has one that is stopped.
LEMMA StopKeeps == WalkInv /\ Stop => WalkInv'
<1> SUFFICES ASSUME WalkInv, Stop PROVE WalkInv' OBVIOUS
<1>1. inventory' = inventory /\ staged' = staged /\ checked' = checked /\ values' \in Nat
  BY DEF Stop, ServerVars, Counts, WalkInv
<1>2. Heeded(engine) \in {"loud", "quiet"} /\ Ended(Heeded(engine)) BY DEF Stop, Heeded
<1>3. PICK how \in {"loud", "quiet"} : Ended(how) BY <1>2
<1> QED BY <1>1, <1>3, Unmoved, Ending

\* A page begins where the last one ended.
LEMMA FetchPageKeeps == WalkInv /\ FetchPage => WalkInv'
<1> SUFFICES ASSUME WalkInv, FetchPage PROVE WalkInv' OBVIOUS
<1>1. /\ inventory' = inventory /\ staged' = staged /\ checked' = checked /\ values' \in Nat
      /\ engine \in Engine /\ engine.at = "page" /\ engine.at \in Walking
      /\ PagesAreStretches(engine) /\ CursorIsBefore(engine) /\ TakenIsVerified(engine, staged, checked)
  BY DEF FetchPage, ServerVars, Counts, WalkInv, Walking
<1>2. PICK last, n : /\ n \in 1 .. MaxPage
                     /\ n <= Total - engine.after \/ (n = 1 /\ engine.after = Total)
                     /\ last = IF engine.after + n < Total THEN engine.after + n ELSE Total
                     /\ engine' = [engine EXCEPT !.at = "item", !.page = [k \in 1 .. last - engine.after |-> engine.after + k],
                                      !.more = last < Total, !.tries = 0] BY DEF FetchPage
<1>3. engine.after \in Nat /\ Total \in Nat /\ engine.after + 1 <= Total + 1 /\ Upcoming(engine) = engine.after + 1
      /\ Places = 1 .. Total BY <1>1, InventoryFacts DEF Engine, PagesAreStretches, Upcoming, Places
<1>4. last \in Nat /\ engine.after <= last /\ last <= Total /\ (last = engine.after => last = Total)
  BY <1>2, <1>3
<1> DEFINE p == [k \in 1 .. last - engine.after |-> engine.after + k]
           m == last - engine.after
<1>5. m \in Nat /\ p \in Seq(Nat) /\ Len(p) = m /\ \A k \in 1 .. m : p[k] = engine.after + k
  BY <1>3, <1>4, SeqDef, LenProperties
<1> DEFINE e == [engine EXCEPT !.at = "item", !.page = p, !.more = last < Total, !.tries = 0]
<1>6. engine' = e BY <1>2
<1> HIDE DEF p
<1>7. PICK b \in BOOLEAN : b = (last < Total)
 <2>1. (last < Total) \in BOOLEAN OBVIOUS
 <2> QED BY <2>1, Zenon
<1>8. [engine EXCEPT !.at = "item", !.page = p, !.more = b, !.tries = 0] \in Engine BY <1>1, <1>5 DEF Engine
<1>9. e \in Engine BY <1>7, <1>8
<1>10. /\ e.at = "item" /\ e.page = p /\ e.more = (last < Total) /\ e.pass = engine.pass /\ e.after = engine.after
       /\ e.found = engine.found /\ e.cursor = engine.cursor /\ e.keys = engine.keys /\ e.processed = engine.processed
       /\ e.step = engine.step BY <1>1 DEF Engine
<1> HIDE DEF e, m
<1>11. ASSUME m = 0 PROVE Upcoming(e) = engine.after + 1 /\ PagesAreStretches(e)
  BY <1>5, <1>11, EmptySeq, <1>3, <1>4, <1>10 DEF m, Upcoming, PagesAreStretches
<1>12. ASSUME m > 0 PROVE Upcoming(e) = engine.after + 1 /\ PagesAreStretches(e)
 <2>1. 1 \in 1 .. m /\ m \in 1 .. m BY <1>5, <1>12
 <2>2. p # <<>> /\ p[1] = engine.after + 1 /\ p[m] = engine.after + m
   BY <1>5, <1>12, <2>1
 <2>3. p[m] = last BY <1>3, <1>4, <2>2 DEF m
 <2>4. Upcoming(e) = engine.after + 1 BY <1>10, <2>2 DEF Upcoming
 <2>5. \A k \in 1 .. m : p[k] \in Places /\ p[k] = p[1] + k - 1
  <3> TAKE k \in 1 .. m
  <3>1. p[k] = engine.after + k /\ k \in Nat /\ 1 <= k /\ k <= m BY <1>5
  <3>2. m = last - engine.after BY DEF m
  <3>3. engine.after + k <= last /\ 1 <= engine.after + k BY <1>3, <1>4, <3>1, <3>2
  <3>4. engine.after + k = (engine.after + 1) + k - 1 BY <1>3, <3>1
  <3> QED BY <1>3, <1>4, <2>2, <3>1, <3>3, <3>4 DEF Places
 <2>6. PagesAreStretches(e)
  <3>1. e.page = p /\ Len(p) = m /\ e.more = (last < Total) /\ e.after < Upcoming(e) /\ Upcoming(e) <= Total + 1
    BY <1>3, <1>5, <1>10, <2>4
  <3>2. e.more <=> p[m] < Total BY <2>3, <3>1
  <3> QED BY <2>5, <3>1, <3>2 DEF PagesAreStretches
 <2> QED BY <2>4, <2>6
<1>13. Upcoming(e) = Upcoming(engine) /\ PagesAreStretches(e) BY <1>3, <1>5, <1>11, <1>12
<1>14. CursorIsBefore(e) BY <1>1, <1>10, <1>13 DEF CursorIsBefore
<1>15. Taken(e) = Taken(engine) BY <1>10, <1>13 DEF Taken
<1>16. TakenIsVerified(e, staged, checked) BY <1>1, <1>10, <1>15 DEF TakenIsVerified
<1>17. CallIsOwn(e, staged)
  BY <1>1, <1>10 DEF CallIsOwn, WalkInv
<1> QED BY <1>1, <1>6, <1>9, <1>10, <1>13, <1>14, <1>16, <1>17, Unmoved, GoesOn DEF Walking

\* Behind the last page the pass is over.
LEMMA NextPageKeeps == WalkInv /\ NextPage => WalkInv'
<1> SUFFICES ASSUME WalkInv, NextPage PROVE WalkInv' OBVIOUS
<1>1. /\ UNCHANGED <<inventory, staged, checked, values>> /\ engine.at = "item" /\ engine.step = "none" /\ engine.page = <<>>
      /\ engine \in Engine /\ engine.at \in Walking /\ engine' = PageOver(engine)
      /\ PagesAreStretches(engine) /\ CursorIsBefore(engine) /\ TakenIsVerified(engine, staged, checked)
  BY DEF NextPage, ServerVars, Counts, WalkInv, Walking
<1>2. PICK e : e = engine OBVIOUS
<1>3. CASE engine.more
 <2> DEFINE f == [engine EXCEPT !.at = "page"]
 <2>1. f \in Engine BY <1>1 DEF Engine
 <2>2. /\ f.at = "page" /\ f.page = <<>> /\ f.after = engine.after /\ f.pass = engine.pass /\ f.found = engine.found
       /\ f.cursor = engine.cursor /\ f.keys = engine.keys /\ f.processed = engine.processed /\ f.step = "none"
   BY <1>1 DEF Engine
 <2>3. engine' = f BY <1>1, <1>3 DEF PageOver
 <2> HIDE DEF f
 <2>4. Upcoming(f) = Upcoming(engine) BY <1>1, <1>3, <2>2 DEF Upcoming
 <2>5. PagesAreStretches(f) /\ CursorIsBefore(f) /\ CallIsOwn(f, staged)
   BY <1>1, <2>2, <2>4 DEF PagesAreStretches, CursorIsBefore, CallIsOwn
 <2>6. Taken(f) = Taken(engine) BY <2>2, <2>4 DEF Taken
 <2>7. TakenIsVerified(f, staged, checked) BY <1>1, <2>2, <2>6 DEF TakenIsVerified
 <2>8. values' \in Nat /\ Grows(staged, checked) BY <1>1, Unmoved DEF WalkInv
 <2> QED BY <1>1, <2>1, <2>2, <2>3, <2>5, <2>7, <2>8, GoesOn DEF Walking
<1>4. CASE ~engine.more
  BY <1>1, <1>4, InventoryFacts, <1>2, PassesOver DEF Upcoming, Places, PageOver
<1> QED BY <1>3, <1>4

\* An item is skipped by the pass that does not own it.
LEMMA SkipKeeps == WalkInv /\ Skip => WalkInv'
<1> SUFFICES ASSUME WalkInv, Skip PROVE WalkInv' OBVIOUS
<1>1. UNCHANGED <<inventory, staged, checked, values>> /\ engine.at = "item" /\ engine.step = "none" /\ engine.page # <<>>
  BY DEF Skip, ServerVars, Counts
<1>2. PICK e : e = Noticed(engine, Here) OBVIOUS
<1>3. /\ e \in Engine /\ e.at = "item" /\ e.page = engine.page /\ e.step = "none" /\ e.page # <<>>
      /\ PagesAreStretches(e) /\ Upcoming(e) = Here /\ CursorIsBefore(e) /\ TakenIsVerified(e, staged, checked)
      /\ e.cursor <= Total /\ e.pass \in 1 .. 2
      /\ e.pass = 1 => \A j \in Places : IsBody(j) => e.cursor < j /\ (j < Here + 1 => e.found)
  BY <1>1, <1>2, Notices DEF Engine
<1>4. Here \in Places BY <1>1, AtAnItem
<1>5. CASE Beyond(e, Here) /\ engine' = PassOver(e)
  BY <1>5, <1>4, InventoryFacts, <1>1, <1>3, PassesOver DEF Beyond, Places
<1>6. CASE ~PassOwns(e.pass, Kind(Here)) /\ engine' = Advanced(e)
 <2>1. PICK f : f = Advanced(e) OBVIOUS
 <2>2. /\ f \in Engine /\ f.at = "item" /\ f.step = "none" /\ PagesAreStretches(f) /\ Upcoming(f) = Here + 1
       /\ f.pass = e.pass /\ f.found = e.found /\ f.cursor = e.cursor /\ f.keys = e.keys /\ f.processed = e.processed
   BY <1>3, <1>4, <2>1, WalkSteps
 <2>3. CursorIsBefore(f) /\ CallIsOwn(f, staged) BY <1>3, <2>2 DEF CursorIsBefore, CallIsOwn
 <2>4. Taken(f) = Taken(e) BY <1>3, <1>4, <1>6, <2>2, FurtherOn
 <2>5. TakenIsVerified(f, staged, checked) BY <1>3, <2>2, <2>4 DEF TakenIsVerified
 <2>6. values' \in Nat /\ Grows(staged, checked) BY <1>1, Unmoved DEF WalkInv
 <2>7. engine' = f BY <1>6, <2>1
 <2> QED BY <1>1, <2>2, <2>3, <2>5, <2>6, <2>7, GoesOn DEF Walking
<1> QED BY <1>2, <1>5, <1>6 DEF Skip

\* Nothing but the call itself has moved.
SamePlace(f) ==
  /\ f.at = engine.at /\ f.page = engine.page /\ f.after = engine.after /\ f.more = engine.more /\ f.pass = engine.pass
  /\ f.found = engine.found /\ f.cursor = engine.cursor /\ f.keys = engine.keys /\ f.processed = engine.processed

\* A call that goes on is about the item it was about.
LEMMA CallsOn ==
  ASSUME WalkInv, UNCHANGED inventory, engine.at = "item", engine.page # <<>>, NEW S, NEW C, staged' = S, checked' = C, Grows(S, C),
         values' \in Nat, NEW f \in Engine, engine' = f, SamePlace(f), CallIsOwn(f, S)
  PROVE  WalkInv'
<1>1. PagesAreStretches(engine) /\ CursorIsBefore(engine) /\ TakenIsVerified(engine, S, C) BY AtAnItem, GrownKeeps
<1>2. Upcoming(f) = Upcoming(engine) BY DEF Upcoming, SamePlace
<1>3. PagesAreStretches(f) /\ CursorIsBefore(f) BY <1>1, <1>2 DEF PagesAreStretches, CursorIsBefore, SamePlace
<1>4. Taken(f) = Taken(engine) BY <1>2 DEF Taken, SamePlace
<1>5. TakenIsVerified(f, S, C) BY <1>1, <1>4 DEF TakenIsVerified, SamePlace
<1>6. f.at \in Walking BY DEF SamePlace, Walking
<1> QED BY <1>3, <1>5, <1>6, GoesOn

\* Whose key is not at hand has been passed by: no walk that has come here lacks it.
LEMMA KeysAreAtHand ==
  ASSUME WalkInv, engine.at = "item", engine.page # <<>>, PassOwns(engine.pass, Kind(Here))
  PROVE  KeyAtHand(Here)
<1>1. SUFFICES ASSUME Kind(Here) \in SealBodyKinds, ~inventory[Here].hollow PROVE SealOf(Here) \in engine.keys
  BY DEF KeyAtHand, Plain
<1>2. Here \in Places /\ TakenIsVerified(engine, staged, checked) /\ engine.pass \in 1 .. 2 BY AtAnItem DEF Engine
<1>3. IsBody(Here) /\ ~OfTheFirstPass(Here) BY <1>1, <1>2, InventoryFacts DEF IsBody
<1>4. engine.pass = 2 BY <1>2, <1>3 DEF PassOwns, OfTheFirstPass
<1>5. PICK i \in Places : Kind(i) = "seal-wrapper" /\ SealOf(i) = SealOf(Here) /\ ~inventory[i].hollow
  BY <1>1, <1>2, <1>3, InventoryFacts
<1>6. OfTheFirstPass(i) BY <1>5 DEF OfTheFirstPass, PassKinds
<1>7. i \in Taken(engine) BY <1>4, <1>6 DEF Taken
<1> QED BY <1>2, <1>5, <1>7 DEF TakenIsVerified

\* A call begins with what the item lacks.
LEMMA StartKeeps == WalkInv /\ Start => WalkInv'
<1> SUFFICES ASSUME WalkInv, Start PROVE WalkInv' OBVIOUS
<1>1. engine.at = "item" /\ engine.step = "none" /\ engine.page # <<>> /\ UNCHANGED <<inventory, staged, checked>> /\ values \in Nat
  BY DEF Start, ServerVars, WalkInv
<1>2. PICK e : e = Noticed(engine, Here) OBVIOUS
<1>3. /\ e \in Engine /\ e.at = "item" /\ e.page = engine.page /\ e.step = "none" /\ e.pass = engine.pass
      /\ PagesAreStretches(e) /\ CursorIsBefore(e) /\ TakenIsVerified(e, staged, checked) BY <1>1, <1>2, Notices
<1>4. PassOwns(engine.pass, Kind(Here)) /\ Here = engine.page[1] /\ Here \in Places
  BY <1>2, <1>1, <1>3, AtAnItem DEF Start
<1>5. KeyAtHand(Here) BY <1>1, <1>4, KeysAreAtHand
<1>6. PICK step, v : /\ step = FirstStep(Here) /\ v = (IF step = "stage" THEN values + 1 ELSE 0)
                     /\ engine' = [e EXCEPT !.step = step, !.tries = 0, !.value = v]
                     /\ values' = values + (IF step = "stage" THEN 1 ELSE 0) BY <1>2, <1>5 DEF Start
<1>7. /\ step \in {"source", "stage", "verify"} /\ values' \in Nat /\ v \in Nat /\ (step = "stage" => v # 0 /\ staged[Here] = 0)
      /\ step = "verify" => staged[Here] # 0 BY <1>1, <1>6 DEF FirstStep, Produces
<1> DEFINE f == [e EXCEPT !.step = step, !.tries = 0, !.value = v]
<1>8. f \in Engine BY <1>3, <1>7 DEF Engine
<1>9. /\ f.at = e.at /\ f.page = e.page /\ f.after = e.after /\ f.more = e.more /\ f.pass = e.pass
      /\ f.found = e.found /\ f.cursor = e.cursor /\ f.keys = e.keys /\ f.processed = e.processed
      /\ f.step = step /\ f.value = v BY <1>3 DEF Engine
<1>10. engine' = f BY <1>6
<1> HIDE DEF f
<1>11. Upcoming(f) = Upcoming(e) BY <1>9 DEF Upcoming
<1>12. PagesAreStretches(f) /\ CursorIsBefore(f) BY <1>3, <1>9, <1>11 DEF PagesAreStretches, CursorIsBefore
<1>13. Taken(f) = Taken(e) BY <1>9, <1>11 DEF Taken
<1>14. TakenIsVerified(f, staged, checked) BY <1>3, <1>9, <1>13 DEF TakenIsVerified
<1>15. CallIsOwn(f, staged) BY <1>1, <1>3, <1>4, <1>7, <1>9 DEF CallIsOwn
<1>16. f.at \in Walking BY <1>3, <1>9 DEF Walking
<1> QED BY <1>1, <1>7, <1>8, <1>10, <1>12, <1>14, <1>15, <1>16, Unmoved, GoesOn

\* Done with an item that the server has accepted.
LEMMA Finishes ==
  ASSUME WalkInv, UNCHANGED <<inventory, staged>>, engine.at = "item", engine.page # <<>>, engine.step = "verify",
         NEW C, checked' = C, Grows(staged, C), C[Here] = staged[Here], values' \in Nat, engine' = Finished(engine, Here)
  PROVE  WalkInv'
<1>1. /\ engine \in Engine /\ Here \in Places /\ Here = engine.page[1] /\ Upcoming(engine) = Here /\ PagesAreStretches(engine)
      /\ CursorIsBefore(engine) /\ CallIsOwn(engine, staged) /\ TakenIsVerified(engine, staged, C) BY AtAnItem, GrownKeeps
<1>2. PassOwns(engine.pass, Kind(Here)) /\ staged[Here] # 0 BY <1>1 DEF CallIsOwn
<1>3. SealOf(Here) \in Nat BY <1>1, InventoryFacts DEF SealOf, Item
<1>4. PICK g : g = Counted(Learns(engine, Here)) OBVIOUS
<1>5. /\ g \in Engine /\ g.at = "item" /\ g.page = engine.page /\ g.after = engine.after /\ g.more = engine.more /\ g.pass = engine.pass
      /\ g.found = engine.found /\ g.cursor = engine.cursor /\ g.processed = engine.processed + 1 /\ engine.keys \subseteq g.keys
      /\ Kind(Here) = "seal-wrapper" /\ ~inventory[Here].hollow => SealOf(Here) \in g.keys
 <2>1. PICK h : h = Learns(engine, Here) OBVIOUS
 <2>2. /\ h \in Engine /\ h.at = "item" /\ h.page = engine.page /\ h.after = engine.after /\ h.more = engine.more
       /\ h.pass = engine.pass /\ h.found = engine.found /\ h.cursor = engine.cursor /\ h.processed = engine.processed
       /\ engine.keys \subseteq h.keys /\ (Kind(Here) = "seal-wrapper" /\ ~inventory[Here].hollow => SealOf(Here) \in h.keys)
   BY <1>1, <1>3, <2>1 DEF Learns, Engine
 <2>3. g = [h EXCEPT !.processed = @ + 1] BY <1>4, <2>1 DEF Counted
 <2>4. PICK n \in Nat : n = engine.processed + 1 BY <1>1 DEF Engine
 <2>5. g = [h EXCEPT !.processed = n] BY <2>2, <2>3, <2>4
 <2>6. g \in Engine BY <2>2, <2>5 DEF Engine
 <2>7. /\ g.at = h.at /\ g.page = h.page /\ g.after = h.after /\ g.more = h.more /\ g.pass = h.pass
       /\ g.found = h.found /\ g.cursor = h.cursor /\ g.processed = n /\ g.keys = h.keys BY <2>2, <2>5 DEF Engine
 <2> QED BY <2>2, <2>4, <2>6, <2>7
<1>6. PagesAreStretches(g)
  BY <1>5, <1>1 DEF Upcoming, PagesAreStretches
<1>7. PICK f : f = [Advanced(g) EXCEPT !.after = Here] OBVIOUS
<1>8. /\ f \in Engine /\ f.at = "item" /\ f.step = "none" /\ PagesAreStretches(f) /\ Upcoming(f) = Here + 1
      /\ f.pass = engine.pass /\ f.found = engine.found /\ f.cursor = engine.cursor /\ f.keys = g.keys
      /\ f.processed = engine.processed + 1 BY <1>1, <1>5, <1>6, <1>7, WalkSteps
<1>9. engine' = f BY <1>4, <1>7 DEF Finished
<1>10. engine.pass \in 1 .. 2 BY <1>1 DEF Engine
<1>11. Taken(f) = Taken(engine) \cup {Here} /\ Here \notin Taken(engine) BY <1>1, <1>2, <1>8, <1>10, FurtherOn
<1>12. f.processed = Cardinality(Taken(f))
 <2>1. Taken(engine) \in SUBSET Places BY DEF Taken
 <2>2. IsFiniteSet(Taken(engine)) BY <2>1, PlacesAreFinite
 <2>3. Cardinality(Taken(engine) \cup {Here}) = Cardinality(Taken(engine)) + 1 BY <1>11, <2>2, FS_AddElement
 <2> QED BY <1>1, <1>8, <1>11, <2>3 DEF TakenIsVerified
<1>13. TakenIsVerified(f, staged, C) BY <1>1, <1>2, <1>5, <1>8, <1>11, <1>12 DEF TakenIsVerified
<1>14. CursorIsBefore(f)
  BY <1>1, <1>2, InventoryFacts, <1>8 DEF PassOwns, OfTheFirstPass, Places, CursorIsBefore
<1>15. CallIsOwn(f, staged) /\ f.at \in Walking BY <1>8 DEF CallIsOwn, Walking
<1> QED BY <1>8, <1>9, <1>13, <1>14, <1>15, GoesOn

\* An item of an earlier walk is counted once by this one.
LEMMA AlreadyKeeps == WalkInv /\ Already => WalkInv'
<1> SUFFICES ASSUME WalkInv, Already PROVE WalkInv' OBVIOUS
<1>1. /\ UNCHANGED <<inventory, staged, checked, values>> /\ engine.at = "item" /\ engine.step = "verify" /\ checked[Here] # 0
      /\ engine' = Finished(engine, Here) /\ values \in Nat BY DEF Already, InCall, ServerVars, Counts, WalkInv
<1>2. engine.page # <<>> BY <1>1 DEF WalkInv, CallIsOwn, Walking
<1>3. checked[Here] = staged[Here] BY <1>1, <1>2, AtAnItem DEF WalkInv
<1> QED BY <1>1, <1>2, <1>3, Unmoved, Finishes

\* What the server makes of a call is only added to what it holds.
LEMMA TheServerAdds ==
  ASSUME WalkInv, engine.at = "item", engine.page # <<>>, engine.step # "none",
         NEW S, S = Applied(Here, engine.step, engine.value), NEW C, C = Acknowledged(Here, engine.step)
  PROVE  /\ Grows(S, C)
         /\ engine.step \in {"stage", "finalize"} => Stands(Here, engine.value)
         /\ engine.step \in {"stage", "finalize"} => S[Here] = engine.value /\ engine.value # 0
         /\ engine.step \notin {"stage", "finalize"} => S = staged
         /\ engine.step = "verify" => C[Here] = staged[Here]
         /\ engine.step # "verify" => C = checked
<1>1. /\ engine \in Engine /\ Here \in Places /\ Here = engine.page[1] /\ CallIsOwn(engine, staged)
      /\ staged \in [Places -> Nat] /\ checked \in [Places -> Nat]
      /\ \A j \in Places : checked[j] # 0 => checked[j] = staged[j] BY AtAnItem DEF WalkInv
<1>2. CASE engine.step \in {"stage", "finalize"}
  BY <1>2, <1>1 DEF Applied, Acknowledged, CallIsOwn, Engine, Grows, Stands
<1>3. CASE engine.step = "verify"
  BY <1>3, <1>1 DEF Applied, Acknowledged, Grows
<1>4. CASE engine.step \notin {"stage", "finalize", "verify"}
  BY <1>4, Unmoved DEF Applied, Acknowledged
<1> QED BY <1>2, <1>3, <1>4

\* A call is answered: the next call about the item, or the next item.
LEMMA CallKeeps == WalkInv /\ Call => WalkInv'
<1> SUFFICES ASSUME WalkInv, Call PROVE WalkInv' OBVIOUS
<1>1. engine.at = "item" /\ engine.step # "none" /\ inventory' = inventory /\ values \in Nat /\ engine \in Engine
  BY DEF Call, InCall, WalkInv
<1>2. engine.page # <<>> /\ CallIsOwn(engine, staged) BY <1>1 DEF WalkInv, CallIsOwn, Walking
<1>3. PICK S, C : S = Applied(Here, engine.step, engine.value) /\ C = Acknowledged(Here, engine.step) OBVIOUS
<1>4. /\ Grows(S, C)
      /\ engine.step \in {"stage", "finalize"} => Stands(Here, engine.value)
      /\ engine.step \in {"stage", "finalize"} => S[Here] = engine.value /\ engine.value # 0
      /\ engine.step \notin {"stage", "finalize"} => S = staged
      /\ engine.step = "verify" => C[Here] = staged[Here]
      /\ engine.step # "verify" => C = checked BY <1>1, <1>2, <1>3, TheServerAdds
<1>5. /\ staged' = S /\ checked' = C
      /\ IF engine.step = "verify" THEN engine' = Finished(engine, Here) /\ values' = values
         ELSE LET next == AfterReply(engine.step, Here) IN
              /\ engine' = [engine EXCEPT !.step = next, !.tries = 0,
                                          !.value = IF next = "upload" THEN values + 1 ELSE @]
              /\ values' = values + (IF next = "upload" THEN 1 ELSE 0) /\ values' <= MaxValues BY <1>3, <1>4 DEF Call
<1>6. CASE engine.step = "verify"
  BY <1>1, <1>4, <1>5, <1>6, <1>2, Finishes
<1>7. CASE engine.step # "verify"
 <2>1. PICK next : next = AfterReply(engine.step, Here) OBVIOUS
 <2>2. PICK v : v = IF next = "upload" THEN values + 1 ELSE engine.value OBVIOUS
 <2>3. engine' = [engine EXCEPT !.step = next, !.tries = 0, !.value = v] /\ values' \in Nat /\ v \in Nat
   BY <1>5, <1>7, <2>1, <1>1, <2>2 DEF Engine
 <2>4. /\ engine.step = "source" => next = (IF staged[Here] = 0 THEN "upload" ELSE "read")
       /\ engine.step = "upload" => next = "finalize"
       /\ engine.step = "finalize" => next = "read"
       /\ engine.step \in {"stage", "read"} => next = "verify" BY <2>1 DEF AfterReply, Produces
 <2>5. engine.step \in {"stage", "source", "upload", "finalize", "read"} BY <1>1, <1>7 DEF Engine
 <2>6. next \in {"upload", "read", "finalize", "verify"} BY <2>4, <2>5
 <2> DEFINE f == [engine EXCEPT !.step = next, !.tries = 0, !.value = v]
 <2>7. f \in Engine BY <1>1, <2>3, <2>6 DEF Engine
 <2>8. SamePlace(f) /\ f.step = next /\ f.value = v BY <1>1 DEF SamePlace, Engine
 <2>9. engine' = f BY <2>3
 <2> HIDE DEF f
 <2>10. /\ PassOwns(engine.pass, Kind(Here)) /\ Here = engine.page[1]
        /\ engine.step \in {"stage", "finalize"} => engine.value # 0
        /\ engine.step = "upload" => engine.value # 0 /\ staged[Here] = 0
        /\ engine.step = "read" => staged[Here] # 0 BY <1>1, <1>2, AtAnItem DEF CallIsOwn
 <2>11. /\ next = "upload" => v # 0 /\ S[Here] = 0
        /\ next = "finalize" => v # 0 /\ S[Here] = 0
        /\ next \in {"read", "verify"} => S[Here] # 0 BY <1>1, <1>4, <2>2, <2>4, <2>5, <2>10
 <2>12. CallIsOwn(f, S) BY <1>1, <1>2, <2>6, <2>8, <2>10, <2>11 DEF CallIsOwn, SamePlace
 <2> QED BY <1>1, <1>2, <1>4, <1>5, <2>3, <2>7, <2>8, <2>9, <2>12, CallsOn
<1> QED BY <1>6, <1>7

\* An answer that is lost: the call is sent again as it was, and finds what it did itself.
LEMMA LoseKeeps == WalkInv /\ Lose => WalkInv'
<1> SUFFICES ASSUME WalkInv, Lose PROVE WalkInv' OBVIOUS
<1>1. engine.at = "item" /\ engine.step # "none" /\ inventory' = inventory /\ values' = values /\ values \in Nat /\ engine \in Engine
  BY DEF Lose, InCall, WalkInv
<1>2. engine.page # <<>> /\ CallIsOwn(engine, staged) BY <1>1 DEF WalkInv, CallIsOwn, Walking
<1>3. PICK S, C : /\ staged' = S /\ checked' = C /\ Grows(S, C)
                  /\ S = staged \/ (engine.step \in {"stage", "finalize"} /\ S[Here] = engine.value)
 <2>1. CASE UNCHANGED <<staged, checked>> BY <2>1, Unmoved
 <2>2. CASE staged' = Applied(Here, engine.step, engine.value) /\ checked' = Acknowledged(Here, engine.step)
  <3>1. PICK S, C : S = Applied(Here, engine.step, engine.value) /\ C = Acknowledged(Here, engine.step) OBVIOUS
  <3>2. Grows(S, C) /\ (S = staged \/ (engine.step \in {"stage", "finalize"} /\ S[Here] = engine.value))
    BY <1>1, <1>2, <3>1, TheServerAdds
  <3> QED BY <2>2, <3>1, <3>2
 <2> QED BY <2>1, <2>2 DEF Lose
<1>4. CASE Ended("failed") BY <1>1, <1>3, <1>4, Ending
<1>5. CASE engine' = Retried(engine)
 <2> DEFINE f == [engine EXCEPT !.tries = engine.tries + 1]
 <2>1. f \in Engine BY <1>1 DEF Engine
 <2>2. SamePlace(f) /\ f.step = engine.step /\ f.value = engine.value BY <1>1 DEF SamePlace, Engine
 <2>3. engine' = f BY <1>5 DEF Retried, Again
 <2> HIDE DEF f
 <2>4. Here = engine.page[1] BY <1>1, <1>2, AtAnItem
 <2>5. CallIsOwn(f, S) BY <1>1, <1>2, <1>3, <2>2, <2>4 DEF CallIsOwn, SamePlace
 <2> QED BY <1>1, <1>2, <1>3, <2>1, <2>2, <2>3, <2>5, CallsOn
<1> QED BY <1>4, <1>5 DEF Lose

-----------------------------------------------------------------------------
\* It holds to begin with.
LEMMA WalkInitHolds == WalkInit => WalkInv
<1> SUFFICES ASSUME WalkInit PROVE WalkInv OBVIOUS
<1>1. inventory \in Seq(Item) BY WalkAssumption DEF WalkInit
<1>2. Total \in Nat /\ DOMAIN inventory = Places BY <1>1, LenProperties DEF Total, Places
<1>3. IsFiniteSet(Places) BY <1>2, FS_Interval DEF Places
<1>4. Accepted \in SUBSET Places /\ Cardinality(Accepted) \in Nat BY <1>3, FS_Subset, FS_CardinalityType DEF Accepted
<1>5. engine = Nobody /\ engine.at = "off" /\ engine.processed = 0 BY DEF WalkInit, Nobody
<1> QED BY <1>2, <1>4, <1>5, NobodyIs DEF WalkInit, WalkInv, Walking

\* Every step keeps it.
LEMMA WalkStepKeeps == WalkInv /\ [WalkNext]_walkVars => WalkInv'
<1>1. ASSUME WalkInv, UNCHANGED walkVars PROVE WalkInv'
  BY <1>1 DEF walkVars, WalkInv, Places, Total, Accepted, PagesAreStretches, CursorIsBefore, CallIsOwn, TakenIsVerified,
              Taken, Upcoming, OfTheFirstPass, IsBody, Kind, SealOf
<1> QED
  BY <1>1, BeginWalkKeeps, PauseKeeps, CrashKeeps, StopKeeps, FetchPageKeeps, NextPageKeeps, SkipKeeps, StartKeeps, CallKeeps,
     AlreadyKeeps, LoseKeeps DEF WalkNext, Work

\* What the walk owes follows.
LEMMA WalkInvIsEnough == WalkInv => WalkIsWhole
<1> SUFFICES ASSUME WalkInv PROVE WalkIsWhole OBVIOUS
<1>1. DOMAIN inventory = Places BY InventoryFacts
<1>2. {i \in DOMAIN inventory : checked[i] # 0} = Accepted BY <1>1 DEF Accepted
<1> QED BY <1>1, <1>2 DEF WalkInv, WalkIsWhole, NothingIsLeftOut, CountsWhatIsAccepted, KeysComeFirst, RetriesAgree

\* A walk over the inventory (engine.ts) leaves nothing out, counts what the
\* server accepted, has a Seal's key before its contents, and never meets its
\* own trace as someone else's - for any inventory, page size, number of
\* retries and losses, and however often it is interrupted and begun again.
THEOREM WalkWhole == WalkSpec => []WalkIsWhole
<1>1. WalkInit => WalkInv BY WalkInitHolds
<1>2. WalkInv /\ [WalkNext]_walkVars => WalkInv' BY WalkStepKeeps
<1>3. WalkInv => WalkIsWhole BY WalkInvIsEnough
<1> QED BY <1>1, <1>2, <1>3, PTL DEF WalkSpec

-----------------------------------------------------------------------------
(* The wizard: its inductive invariant.                                    *)

OpShape ==
  [phase : {"none", "migrating", "committed", "aborted"}, fence : Nat, owner : Nat, key : Target, from : Nat,
   staged : [OpItems -> Target], recovered : BOOLEAN]
Errors ==
  {"none", "failed", "session", "still", "conflict", "signedOut", "unfinished", "file", "passphrase", "cleanup",
   "requirement", "drafts"}
ScreenShape ==
  [step : Step \cup {"off"}, busy : Busy, error : Errors, checked : BOOLEAN, clean : BOOLEAN, acknowledged : BOOLEAN,
   verified : BOOLEAN, target : Target, op : 0 .. MaxOps, fence : Nat, open : BOOLEAN, pending : Target, from : Nat,
   whole : BOOLEAN, fileSaved : BOOLEAN, frozen : BOOLEAN]

WizardShape ==
  /\ vault \in [gen : Nat, key : Target, active : 0 .. MaxOps]
  /\ operations \in [Op -> OpShape] /\ sids \in [Machines -> Nat] /\ lastSid \in Nat
  /\ screens \in [Screens -> ScreenShape] /\ targets \in Target /\ seats \in [Screens -> Machines]
  /\ saved \subseteq [op : 0 .. MaxOps, key : Target] /\ remembered \subseteq Target

WholeRow(row) == \A i \in OpItems : row.staged[i] # 0

\* Operations are numbered as they are begun, each with a target of its own to
\* encrypt under, and the one under way has not ended.
OpsOk(ops, active, disk) ==
  /\ \E n \in 0 .. MaxOps : \A o \in Op : ops[o].phase # "none" <=> o <= n
  /\ \A o \in Op : ops[o].phase # "none" => ops[o].key # 0
  /\ active # 0 => ops[active].phase # "none"
  /\ \A o \in Op, i \in OpItems : ops[o].staged[i] \in {0, ops[o].key}
  /\ \A o \in Op : ops[o].recovered => [op |-> o, key |-> ops[o].key] \in disk

Early == {"intro", "support", "sessions", "drafts", "credentials"}

\* A screen has no target before one was chosen; the target of a screen that took
\* an operation up, or began it, is the operation's key.
TargetFits(s, ops) ==
  /\ s.op # 0 => ops[s.op].phase # "none"
  /\ s.open => s.op # 0 /\ s.pending = ops[s.op].key
  /\ ~s.open => s.pending = 0
  /\ s.target # 0 /\ s.open => s.target = s.pending
  /\ s.step \in Early \cup {"off"} => s.target = 0
  /\ s.step \in {"running", "recovery", "commit"}
     \/ (s.busy.flow = "begin" /\ s.busy.call \in {"begin", "claim"} /\ s.busy.reply = "ok")
       => s.op # 0 /\ s.target = ops[s.op].key

\* The step a call is made at, and what was true when it was.
CallFits(s, ops, disk) ==
  /\ s.busy.call = "status" => s.step \in {"intro", "support", "sessions"}
  /\ s.busy.flow = "load" <=> s.busy.call = "status"
  /\ s.busy.flow = "begin" => s.step = "confirm" /\ s.target # 0 /\ s.busy.call \in {"list", "begin", "claim"}
  /\ s.busy.call \in {"begin", "claim"} => s.busy.flow = "begin"
  /\ s.busy.call = "claim" => s.open
  /\ s.busy.flow = "verify" => s.step = "credentials"
  /\ s.busy.call = "stage" => s.step = "running"
  /\ s.busy.call = "commit" => s.step = "commit"
  /\ s.busy.flow = "escape" \/ s.busy.call = "cancel" => s.op # 0
  /\ s.busy.call = "confirm" => s.step = "recovery" /\ [op |-> s.op, key |-> s.target] \in disk
  /\ s.busy.call = "confirm" /\ s.busy.reply = "ok" => ops[s.op].recovered
  /\ s.busy.flow = "process" => s.busy.call = "stage"
  /\ s.busy.flow = "confirm" => s.busy.call = "confirm"

\* What a step promises of the operation.
StepFits(s, ops) ==
  /\ s.whole => s.op # 0 /\ WholeRow(ops[s.op]) /\ s.step \notin Early \cup {"off", "confirm"}
  /\ s.step \in {"recovery", "commit"} => WholeRow(ops[s.op])
  /\ s.step = "commit" => ops[s.op].recovered

ScreenOk(s, ops, disk) == TargetFits(s, ops) /\ CallFits(s, ops, disk) /\ StepFits(s, ops)

WizardInv ==
  /\ WizardShape
  /\ OpsOk(operations, vault.active, saved)
  /\ \A p \in Screens : ScreenOk(screens[p], operations, saved)

\* What a step of the server may do to the operations: one that was begun keeps
\* its key, what was staged and confirmed.
Grow(ops, later) ==
  \A o \in Op : ops[o].phase # "none" =>
    /\ later[o].phase # "none" /\ later[o].key = ops[o].key
    /\ WholeRow(ops[o]) => WholeRow(later[o])
    /\ ops[o].recovered => later[o].recovered

\* Operations are numbered from one; zero stands for none.
LEMMA OpNumbers == Op \subseteq 0 .. MaxOps /\ (\A n \in 0 .. MaxOps : n # 0 => n \in Op) /\ MaxOps \in Nat /\ MaxTargets \in Nat
                   /\ 0 \in Target /\ 0 \in 0 .. MaxOps
BY WizardAssumption DEF Op, Target

\* A screen stays sound while the operations and the disk only grow.
LEMMA ScreenStays ==
  ASSUME NEW s \in ScreenShape, NEW ops \in [Op -> OpShape], NEW later \in [Op -> OpShape], NEW disk, NEW more,
         ScreenOk(s, ops, disk), Grow(ops, later), disk \subseteq more
  PROVE  ScreenOk(s, later, more)
<1>1. s.op # 0 => s.op \in Op BY OpNumbers DEF ScreenShape
<1>2. TargetFits(s, later) BY <1>1 DEF ScreenOk, TargetFits, Grow
<1>3. CallFits(s, later, more)
  BY <1>1 DEF ScreenOk, TargetFits, CallFits, Grow
<1>4. StepFits(s, later) BY <1>1 DEF ScreenOk, TargetFits, StepFits, Grow
<1> QED BY <1>2, <1>3, <1>4 DEF ScreenOk

\* What does not change has not shrunk.
LEMMA NothingGrows == ASSUME NEW ops PROVE Grow(ops, ops)
BY DEF Grow

\* A page that is not open is sound.
LEMMA OffIsOk ==
  ASSUME NEW ops, NEW disk
  PROVE  Off \in ScreenShape /\ ScreenOk(Off, ops, disk)
<1>1. Off \in ScreenShape
  BY OpNumbers DEF IdleScreen, Busy, Unread, Off, ScreenShape, Errors
<1>2. ScreenOk(Off, ops, disk) BY DEF Off, IdleScreen, ScreenOk, TargetFits, CallFits, StepFits, Early
<1> QED BY <1>1, <1>2

\* One screen changes, the server does not.
LEMMA ScreenMoves ==
  ASSUME NEW p \in Screens, NEW s \in ScreenShape, WizardInv, ScreenOk(s, operations, saved'),
         screens' = [screens EXCEPT ![p] = s],
         UNCHANGED <<vault, operations, sids, lastSid, seats>>, targets' \in Target,
         saved \subseteq saved', saved' \subseteq [op : 0 .. MaxOps, key : Target], remembered' \subseteq Target
  PROVE  WizardInv'
<1>1. WizardShape' BY DEF WizardInv, WizardShape
<1>2. OpsOk(operations, vault.active, saved)' BY DEF WizardInv, OpsOk
<1>3. \A q \in Screens : ScreenOk(screens'[q], operations', saved')
 <2> TAKE q \in Screens
 <2>1. CASE q = p BY <2>1 DEF WizardInv, WizardShape
 <2>2. CASE q # p BY <2>2, ScreenStays, NothingGrows DEF WizardInv, WizardShape
 <2> QED BY <2>1, <2>2
<1> QED BY <1>1, <1>2, <1>3 DEF WizardInv

-----------------------------------------------------------------------------
(* The server's answers.                                                   *)

\* begin() numbers an operation behind the last one.
LEMMA NextOp ==
  ASSUME NEW p, NEW ops \in [Op -> OpShape], NEW active, NEW disk, OpsOk(ops, active, disk),
         ops = operations, \E o \in Op : operations[o].phase = "none"
  PROVE  /\ OpBegun(p) \in Op /\ operations[OpBegun(p)].phase = "none"
         /\ \A o \in Op : operations[o].phase # "none" \/ o = OpBegun(p) <=> o <= OpBegun(p)
<1>1. PICK n \in 0 .. MaxOps : \A o \in Op : operations[o].phase # "none" <=> o <= n BY DEF OpsOk
<1>2. PICK q \in Op : operations[q].phase = "none" OBVIOUS
<1>3. n < q /\ n \in Nat /\ MaxOps \in Nat BY <1>1, <1>2, OpNumbers DEF Op
<1>4. n + 1 \in Op BY <1>3 DEF Op
<1> DEFINE IsNext(o) == operations[o].phase = "none" /\ \A other \in 1 .. (o - 1) : operations[other].phase # "none"
<1>5. IsNext(n + 1)
  BY <1>1, <1>3, <1>4 DEF Op
<1>6. \A o \in Op : IsNext(o) => o = n + 1
 <2> SUFFICES ASSUME NEW o \in Op, IsNext(o) PROVE o = n + 1 OBVIOUS
 <2>1. o > n /\ o \in Nat BY <1>1, <1>3 DEF Op
 <2>2. o > n + 1 => n + 1 \in 1 .. (o - 1) BY <1>3, <2>1
 <2>3. ~(o > n + 1) BY <1>5, <2>2
 <2> QED BY <1>3, <2>1, <2>3
<1>7. OpBegun(p) = CHOOSE o \in Op : IsNext(o) BY DEF OpBegun
<1>8. OpBegun(p) \in Op /\ IsNext(OpBegun(p)) BY <1>4, <1>5, <1>7
<1>9. OpBegun(p) = n + 1 BY <1>6, <1>8
<1>10. \A o \in Op : (o <= n \/ o = n + 1) <=> o <= n + 1 BY <1>3 DEF Op
<1> QED BY <1>1, <1>8, <1>9, <1>10

\* The last operation begun, as status() finds it.
Latest == CHOOSE o \in Op : operations[o].phase # "none"
                 /\ \A later \in (o + 1) .. MaxOps : operations[later].phase = "none"

\* status() finds the last operation begun.
LEMMA LastOp ==
  ASSUME NEW ops \in [Op -> OpShape], NEW active, NEW disk, OpsOk(ops, active, disk),
         ops = operations, \E o \in Op : operations[o].phase # "none"
  PROVE  Latest \in Op /\ operations[Latest].phase # "none"
<1>1. PICK n \in 0 .. MaxOps : \A o \in Op : operations[o].phase # "none" <=> o <= n BY DEF OpsOk
<1>2. PICK q \in Op : operations[q].phase # "none" OBVIOUS
<1>3. n >= q /\ n \in Nat /\ MaxOps \in Nat /\ n <= MaxOps /\ n >= 1 BY <1>1, <1>2, OpNumbers DEF Op
<1>4. n \in Op BY <1>3 DEF Op
<1>5. operations[n].phase # "none" BY <1>1, <1>3, <1>4
<1>6. \A later \in (n + 1) .. MaxOps : later \in Op /\ ~(later <= n) BY <1>3 DEF Op
<1>7. \A later \in (n + 1) .. MaxOps : operations[later].phase = "none" BY <1>1, <1>6
<1> QED BY <1>4, <1>5, <1>7 DEF Latest

\* What an answer leaves of the operations.
Served(p) ==
  /\ operations' \in [Op -> OpShape] /\ Grow(operations, operations')
  /\ OpsOk(operations', vault'.active, saved)
  /\ vault' \in [gen : Nat, key : Target, active : 0 .. MaxOps] /\ sids' \in [Machines -> Nat]

\* An answer that writes nothing leaves the operations as they are.
LEMMA Unserved ==
  ASSUME WizardInv, UNCHANGED <<vault, operations, sids>>, NEW p
  PROVE  Served(p)
BY NothingGrows DEF WizardInv, WizardShape, Served

\* One row of an operation that was begun changes, and keeps what counts.
LEMMA RowServed ==
  ASSUME WizardInv, NEW p, NEW o \in Op, NEW row \in OpShape, SetOp(o, row),
         operations[o].phase # "none", row.phase # "none", row.key = operations[o].key,
         WholeRow(operations[o]) => WholeRow(row), operations[o].recovered => row.recovered,
         \A i \in OpItems : row.staged[i] \in {0, row.key},
         row.recovered => [op |-> o, key |-> row.key] \in saved,
         vault' \in [gen : Nat, key : Target, active : 0 .. MaxOps], vault'.active \in {0, vault.active},
         sids' \in [Machines -> Nat]
  PROVE  Served(p)
<1>1. operations \in [Op -> OpShape] /\ operations' = [operations EXCEPT ![o] = row] BY DEF WizardInv, WizardShape, SetOp
<1>2. operations' \in [Op -> OpShape] /\ operations'[o] = row /\ \A q \in Op : q # o => operations'[q] = operations[q] BY <1>1
<1>3. Grow(operations, operations') BY <1>2 DEF Grow
<1>4. \A q \in Op : operations'[q].phase # "none" <=> operations[q].phase # "none" BY <1>2
<1>5. vault.active # 0 => vault.active \in Op BY OpNumbers DEF WizardInv, WizardShape
<1>6. OpsOk(operations, vault.active, saved) BY DEF WizardInv
<1>7. OpsOk(operations', vault'.active, saved)
  BY <1>4, <1>6, <1>2, <1>5 DEF OpsOk
<1> QED BY <1>2, <1>3, <1>7 DEF Served

\* The operation a call is about.
LEMMA CallsHaveOps ==
  ASSUME WizardInv, NEW p \in Screens, Reply(p) = "ok",
         screens[p].busy.call \in {"claim", "stage", "confirm", "commit", "cancel"}
  PROVE  screens[p].op \in Op /\ operations[screens[p].op].phase # "none"
<1>1. screens[p] \in ScreenShape /\ ScreenOk(screens[p], operations, saved) BY DEF WizardInv, WizardShape
<1>2. screens[p].op # 0
  BY <1>1 DEF Reply, WorkerReply, ScreenOk, TargetFits, CallFits, Worker
<1>3. screens[p].op \in 0 .. MaxOps BY <1>1 DEF ScreenShape
<1> QED BY <1>1, <1>2, <1>3, OpNumbers DEF ScreenOk, TargetFits

\* What a call does to the operations when it is served.
LEMMA ApplyServes ==
  ASSUME WizardInv, NEW p \in Screens, Reply(p) = "ok", Room(p), Apply(p)
  PROVE  Served(p)
<1> DEFINE s == screens[p]
           call == screens[p].busy.call
           o == screens[p].op
<1>1. /\ s \in ScreenShape /\ ScreenOk(s, operations, saved) /\ operations \in [Op -> OpShape] /\ Sid(p) \in Nat
      /\ vault \in [gen : Nat, key : Target, active : 0 .. MaxOps] /\ sids \in [Machines -> Nat]
      /\ OpsOk(operations, vault.active, saved) BY DEF WizardInv, WizardShape, Sid
<1>2. CASE call = "revoke"
  BY <1>1, <1>2, NothingGrows DEF Apply, Served
<1>3. CASE call = "begin"
 <2> DEFINE new == OpBegun(p)
            row == [Missing EXCEPT !.phase = "migrating", !.fence = 1, !.owner = Sid(p), !.key = s.target, !.from = vault.gen]
 <2>1. \E q \in Op : operations[q].phase = "none" BY <1>3 DEF Room
 <2>2. new \in Op /\ operations[new].phase = "none" /\ \A q \in Op : operations[q].phase # "none" \/ q = new <=> q <= new
   BY <1>1, <2>1, NextOp
 <2>3. operations' = [operations EXCEPT ![new] = row] /\ vault' = [vault EXCEPT !.active = new] /\ sids' = sids
   BY <1>3 DEF Apply, SetOp
 <2>4. s.target # 0 /\ s.target \in Target BY <1>1, <1>3 DEF ScreenOk, CallFits, ScreenShape
 <2>5. /\ row.phase = "migrating" /\ row.key = s.target /\ ~row.recovered /\ row.staged = [i \in OpItems |-> 0]
       /\ row \in OpShape
   BY <1>1, OpNumbers, <2>4 DEF Missing, OpShape
 <2>6. operations' \in [Op -> OpShape] /\ operations'[new] = row /\ \A q \in Op : q # new => operations'[q] = operations[q]
   BY <1>1, <2>2, <2>3, <2>5
 <2>7. Grow(operations, operations') BY <2>2, <2>6 DEF Grow
 <2>8. new \in 0 .. MaxOps /\ vault' \in [gen : Nat, key : Target, active : 0 .. MaxOps] /\ vault'.active = new
   BY <1>1, <2>2, <2>3, OpNumbers
 <2>9. OpsOk(operations', vault'.active, saved)
  <3>1. \A q \in Op : operations'[q].phase # "none" <=> q <= new BY <2>2, <2>5, <2>6
  <3>2. \A q \in Op : operations'[q].phase # "none" => operations'[q].key # 0 BY <1>1, <2>4, <2>5, <2>6 DEF OpsOk
  <3>3. \A q \in Op, i \in OpItems : operations'[q].staged[i] \in {0, operations'[q].key}
   <4> TAKE q \in Op, i \in OpItems
   <4>1. row.staged[i] = 0 BY <2>5
   <4> HIDE DEF row
   <4> QED BY <1>1, <2>6, <4>1 DEF OpsOk
  <3>4. \A q \in Op : operations'[q].recovered => [op |-> q, key |-> operations'[q].key] \in saved
   <4> TAKE q \in Op
   <4>1. ~row.recovered BY <2>5
   <4> HIDE DEF row
   <4> QED BY <1>1, <2>6, <4>1 DEF OpsOk
  <3> QED BY <2>2, <2>5, <2>6, <2>8, <3>1, <3>2, <3>3, <3>4 DEF OpsOk
 <2> QED BY <1>1, <2>3, <2>6, <2>7, <2>8, <2>9 DEF Served
<1>4. CASE call \in {"claim", "stage", "confirm", "commit", "cancel"}
 <2>1. o \in Op /\ operations[o].phase # "none" BY <1>1, <1>4, CallsHaveOps
 <2>2. /\ operations[o] \in OpShape
       /\ \A i \in OpItems : operations[o].staged[i] \in {0, operations[o].key}
       /\ operations[o].recovered => [op |-> o, key |-> operations[o].key] \in saved
       /\ operations[o].key \in Target /\ operations[o].key # 0 BY <1>1, <2>1 DEF OpsOk, OpShape
 <2>3. CASE UNCHANGED <<vault, operations, sids>> BY <2>3, Unserved
 <2>4. CASE call = "claim"
  <3> DEFINE row == [operations[o] EXCEPT !.owner = Sid(p), !.fence = s.fence + 1]
  <3>1. SetOp(o, row) /\ vault' = vault /\ sids' = sids BY <2>4 DEF Apply, Mine
  <3>2. s.fence + 1 \in Nat BY <1>1 DEF ScreenShape
  <3>3. row \in OpShape /\ row.phase = operations[o].phase /\ row.key = operations[o].key
        /\ row.staged = operations[o].staged /\ row.recovered = operations[o].recovered BY <1>1, <2>2, <3>2 DEF OpShape
  <3>4. WholeRow(operations[o]) => WholeRow(row) BY <3>3 DEF WholeRow
  <3> HIDE DEF row
  <3> QED BY <1>1, <2>1, <2>2, <3>1, <3>3, <3>4, RowServed
 <2>5. CASE call = "stage" /\ Unstaged(p) # {}
  <3>1. PICK i \in Unstaged(p) : SetOp(o, [operations[o] EXCEPT !.staged[i] = s.target]) /\ vault' = vault /\ sids' = sids
    BY <2>5 DEF Apply, Mine
  <3> DEFINE row == [operations[o] EXCEPT !.staged[i] = s.target]
  <3>2. i \in OpItems /\ s.target = operations[o].key BY <1>1, <2>5 DEF Unstaged, ScreenOk, CallFits, TargetFits
  <3>3. operations[o].staged \in [OpItems -> Target] BY <2>2 DEF OpShape
  <3>4. row.staged \in [OpItems -> Target] /\ row.staged[i] = operations[o].key
        /\ \A j \in OpItems : j # i => row.staged[j] = operations[o].staged[j] BY <2>2, <3>2, <3>3 DEF OpShape
  <3>5. row \in OpShape /\ row.phase = operations[o].phase /\ row.key = operations[o].key
        /\ row.recovered = operations[o].recovered BY <2>2, <3>2, <3>4 DEF OpShape
  <3>6. WholeRow(operations[o]) => WholeRow(row) BY <2>2, <3>4 DEF WholeRow
  <3>7. \A j \in OpItems : row.staged[j] \in {0, row.key} BY <2>2, <3>4, <3>5
  <3> HIDE DEF row
  <3>8. SetOp(o, row) BY <3>1 DEF row
  <3> QED BY <1>1, <2>1, <2>2, <3>1, <3>8, <3>5, <3>6, <3>7, RowServed
 <2>6. CASE call = "confirm"
  <3> DEFINE row == [operations[o] EXCEPT !.recovered = TRUE]
  <3>1. SetOp(o, row) /\ vault' = vault /\ sids' = sids BY <2>6 DEF Apply, Mine
  <3>2. [op |-> o, key |-> operations[o].key] \in saved BY <1>1, <2>6 DEF ScreenOk, CallFits, TargetFits
  <3>3. row \in OpShape /\ row.phase = operations[o].phase /\ row.key = operations[o].key
        /\ row.staged = operations[o].staged /\ row.recovered BY <2>2 DEF OpShape
  <3>4. WholeRow(operations[o]) => WholeRow(row) BY <3>3 DEF WholeRow
  <3> HIDE DEF row
  <3> QED BY <1>1, <2>1, <2>2, <3>1, <3>2, <3>3, <3>4, RowServed
 <2>7. CASE call \in {"commit", "cancel"} /\ operations[o].phase = "migrating"
  <3>1. PICK phase \in {"committed", "aborted"} : SetOp(o, [operations[o] EXCEPT !.phase = phase]) BY <2>7 DEF Apply, Mine
  <3> DEFINE row == [operations[o] EXCEPT !.phase = phase]
  <3>2. row \in OpShape /\ row.phase = phase /\ row.key = operations[o].key
        /\ row.staged = operations[o].staged /\ row.recovered = operations[o].recovered BY <2>2 DEF OpShape
  <3>3. WholeRow(operations[o]) => WholeRow(row) BY <3>2 DEF WholeRow
  <3>4. sids' = sids /\ vault' \in [gen : Nat, key : Target, active : 0 .. MaxOps] /\ vault'.active = 0
   <4>1. CASE call = "commit"
     BY <2>7, <4>1, <1>1, <2>2, OpNumbers DEF Apply, Mine
   <4>2. CASE call = "cancel"
     BY <2>7, <4>2, <1>1, OpNumbers DEF Apply, Mine
   <4> QED BY <2>7, <4>1, <4>2
  <3> HIDE DEF row
  <3>5. SetOp(o, row) BY <3>1 DEF row
  <3> QED BY <1>1, <2>1, <2>2, <3>2, <3>3, <3>4, <3>5, RowServed
 <2>8. CASE (call = "stage" /\ Unstaged(p) = {}) \/ (call \in {"commit", "cancel"} /\ operations[o].phase # "migrating")
   BY <2>8, <2>3 DEF Apply, Mine
 <2> QED BY <1>4, <2>4, <2>5, <2>6, <2>7, <2>8
<1>5. CASE call \notin {"revoke", "begin", "claim", "stage", "confirm", "commit", "cancel"}
  BY <1>5, Unserved DEF Apply
<1> QED BY <1>2, <1>3, <1>4, <1>5

\* Of two items, one unstaged item that is staged leaves none.
LEMMA LastStaged ==
  ASSUME NEW p, LastItem(p), NEW i \in Unstaged(p)
  PROVE  Unstaged(p) = {i}
<1>1. Unstaged(p) \subseteq 1 .. 2 BY DEF Unstaged, OpItems
<1>2. IsFiniteSet(1 .. 2) /\ Cardinality(1 .. 2) = 2
 <2>1. 1 \in Int /\ 2 \in Int OBVIOUS
 <2>2. IsFiniteSet(1 .. 2) /\ Cardinality(1 .. 2) = IF 1 > 2 THEN 0 ELSE 2 - 1 + 1 BY <2>1, FS_Interval
 <2> QED BY <2>2
<1>3. Unstaged(p) # 1 .. 2 BY <1>2 DEF LastItem
<1> QED BY <1>1, <1>3

\* What a screen reads in a good answer fits what the server has made of it.
LEMMA ToldFits ==
  ASSUME WizardInv, NEW p \in Screens, Waits(p), Reply(p) = "ok", Room(p), Apply(p), Served(p)
  PROVE  LET s == [ScreenTold(p, screens[p]) EXCEPT !.busy.reply = "ok"]
         IN  s \in ScreenShape /\ ScreenOk(s, operations', saved)
<1> DEFINE old == screens[p]
           call == old.busy.call
           s == [ScreenTold(p, old) EXCEPT !.busy.reply = "ok"]
<1>1. /\ old \in ScreenShape /\ ScreenOk(old, operations, saved) /\ ScreenOk(old, operations', saved)
      /\ operations \in [Op -> OpShape] /\ operations' \in [Op -> OpShape]
      /\ vault \in [gen : Nat, key : Target, active : 0 .. MaxOps] /\ OpsOk(operations, vault.active, saved)
  BY ScreenStays DEF WizardInv, WizardShape, Served
<1>2. call # "none" /\ old.busy \in Busy /\ [old.busy EXCEPT !.reply = "ok"] \in Busy BY <1>1 DEF Waits, ScreenShape, Busy
<1>3. CASE call = "status"
 <2> DEFINE begun == \E o \in Op : operations[o].phase # "none"
            last == IF begun THEN Latest ELSE 0
            open == last # 0 /\ last = vault.active
 <2>1. s = [old EXCEPT !.from = vault.gen, !.op = last, !.fence = IF last = 0 THEN 0 ELSE operations[last].fence,
                       !.open = open, !.pending = IF open THEN operations[last].key ELSE 0, !.busy.reply = "ok"]
   BY <1>3 DEF ScreenTold, Latest
 <2>2. last # 0 => last \in Op /\ operations[last].phase # "none" /\ operations[last].fence \in Nat /\ operations[last].key \in Target
   BY <1>1, LastOp DEF OpShape
 <2>3. last \in 0 .. MaxOps /\ open \in BOOLEAN /\ (open => last # 0) BY <2>2, OpNumbers
 <2>4. UNCHANGED operations BY <1>3 DEF Apply
 <2>5. old.step \in {"intro", "support", "sessions"} /\ old.target = 0 /\ ~old.whole /\ call = "status"
   BY <1>1, <1>3 DEF ScreenOk, CallFits, TargetFits, StepFits, Early
 <2> HIDE DEF last, open
 <2>6. /\ s.op = last /\ s.open = open /\ s.pending = (IF open THEN operations[last].key ELSE 0) /\ s.step = old.step
       /\ s.target = 0 /\ ~s.whole /\ s.busy = [old.busy EXCEPT !.reply = "ok"] /\ s \in ScreenShape
  <3> DEFINE fence == IF last = 0 THEN 0 ELSE operations[last].fence
             pending == IF open THEN operations[last].key ELSE 0
  <3>1. fence \in Nat /\ pending \in Target BY <2>2, <2>3, OpNumbers
  <3>2. s = [old EXCEPT !.from = vault.gen, !.op = last, !.fence = fence, !.open = open, !.pending = pending, !.busy.reply = "ok"]
    BY <2>1
  <3> HIDE DEF fence, s
  <3>3. s.pending = pending
   <4> HIDE DEF pending
   <4> QED BY <1>1, <3>2 DEF ScreenShape
  <3> HIDE DEF pending
  <3>4. /\ s.op = last /\ s.open = open /\ s.step = old.step /\ s.target = old.target /\ s.whole = old.whole
        /\ s.busy = [old.busy EXCEPT !.reply = "ok"] /\ s \in ScreenShape BY <1>1, <1>2, <2>3, <3>1, <3>2 DEF ScreenShape
  <3> QED BY <2>5, <3>3, <3>4 DEF pending
 <2>7. s.busy.call = "status" /\ s.busy.flow = old.busy.flow BY <1>2, <1>3, <2>6 DEF Busy
 <2> HIDE DEF s
 <2>8. TargetFits(s, operations)
   BY <1>1, <2>2, <2>5, <2>6, <2>7 DEF open, TargetFits
 <2>9. CallFits(s, operations, saved) BY <1>1, <2>5, <2>6, <2>7 DEF CallFits, ScreenOk
 <2>10. StepFits(s, operations) BY <2>5, <2>6 DEF StepFits
 <2> QED BY <2>4, <2>6, <2>8, <2>9, <2>10 DEF ScreenOk, s
<1>4. CASE call = "begin"
 <2> DEFINE new == OpBegun(p)
 <2>1. \E q \in Op : operations[q].phase = "none" BY <1>4 DEF Room
 <2>2. new \in Op /\ new # 0 /\ new \in 0 .. MaxOps BY <1>1, <2>1, NextOp, OpNumbers DEF Op
 <2>3. operations'[new].phase = "migrating" /\ operations'[new].key = old.target
  <3> DEFINE row == [Missing EXCEPT !.phase = "migrating", !.fence = 1, !.owner = Sid(p), !.key = old.target, !.from = vault.gen]
  <3>1. operations' = [operations EXCEPT ![new] = row] BY <1>4 DEF Apply, SetOp
  <3>2. row.phase = "migrating" /\ row.key = old.target BY DEF Missing
  <3> HIDE DEF row, new
  <3> QED BY <1>1, <2>2, <3>1, <3>2
 <2>4. s = [old EXCEPT !.op = new, !.fence = 1, !.open = TRUE, !.pending = old.target, !.busy.reply = "ok"]
   BY <1>4 DEF ScreenTold
 <2>5. old.step = "confirm" /\ old.target # 0 /\ ~old.whole /\ old.busy.flow = "begin"
   BY <1>1, <1>4 DEF ScreenOk, CallFits, StepFits
 <2> HIDE DEF new
 <2>6. /\ s.op = new /\ s.open /\ s.pending = old.target /\ s.step = "confirm"
       /\ s.target = old.target /\ ~s.whole /\ s.busy = [old.busy EXCEPT !.reply = "ok"] /\ s \in ScreenShape
  <3> HIDE DEF s
  <3> QED BY <1>1, <1>2, <2>2, <2>4, <2>5 DEF ScreenShape
 <2>7. s.busy.call = "begin" /\ s.busy.flow = "begin" BY <1>2, <1>4, <2>5, <2>6 DEF Busy
 <2> HIDE DEF s
 <2> QED BY <2>2, <2>3, <2>5, <2>6, <2>7 DEF ScreenOk, TargetFits, CallFits, StepFits, Early, s
<1>5. CASE call = "claim"
 <2>1. s = [old EXCEPT !.fence = old.fence + 1, !.busy.reply = "ok"] BY <1>5 DEF ScreenTold
 <2>2. old.fence + 1 \in Nat BY <1>1 DEF ScreenShape
 <2>3. /\ s.op = old.op /\ s.open = old.open /\ s.pending = old.pending /\ s.step = old.step
       /\ s.target = old.target /\ s.whole = old.whole /\ s.busy = [old.busy EXCEPT !.reply = "ok"] /\ s \in ScreenShape
   BY <1>1, <1>2, <2>1, <2>2 DEF ScreenShape
 <2>4. s.busy.call = "claim" /\ s.busy.flow = old.busy.flow BY <1>2, <1>5, <2>3 DEF Busy
 <2> HIDE DEF s
 <2>5. old.open /\ old.target # 0 /\ old.step = "confirm" BY <1>1, <1>5 DEF ScreenOk, CallFits
 <2>6. TargetFits(s, operations') BY <1>1, <2>3, <2>4, <2>5 DEF ScreenOk, TargetFits
 <2>7. CallFits(s, operations', saved) BY <1>1, <1>5, <2>3, <2>4 DEF ScreenOk, CallFits
 <2>8. StepFits(s, operations') BY <1>1, <2>3 DEF ScreenOk, StepFits
 <2> QED BY <2>3, <2>6, <2>7, <2>8 DEF ScreenOk, s
<1>6. CASE call = "stage"
 <2>1. s = [old EXCEPT !.whole = LastItem(p), !.busy.reply = "ok"] BY <1>6 DEF ScreenTold
 <2>2. LastItem(p) \in BOOLEAN BY DEF LastItem
 <2>3. /\ s.op = old.op /\ s.open = old.open /\ s.pending = old.pending /\ s.step = old.step
       /\ s.target = old.target /\ s.whole = LastItem(p) /\ s.busy = [old.busy EXCEPT !.reply = "ok"] /\ s \in ScreenShape
   BY <1>1, <1>2, <2>1, <2>2 DEF ScreenShape
 <2>4. s.busy.call = "stage" /\ s.busy.flow = old.busy.flow BY <1>2, <1>6, <2>3 DEF Busy
 <2>5. old.op \in Op /\ operations[old.op].phase # "none" /\ old.op # 0 BY <1>6, CallsHaveOps, OpNumbers DEF Op
 <2>6. old.step = "running" /\ old.target = operations[old.op].key /\ operations[old.op].key # 0
   BY <1>1, <1>6, <2>5 DEF ScreenOk, CallFits, TargetFits, OpsOk
 <2>7. LastItem(p) => WholeRow(operations'[old.op])
  <3> SUFFICES ASSUME LastItem(p) PROVE WholeRow(operations'[old.op]) OBVIOUS
  <3>1. CASE Unstaged(p) = {}
    BY <1>6, <3>1 DEF Apply, Unstaged, WholeRow, Mine
  <3>2. CASE Unstaged(p) # {}
   <4>1. PICK i \in Unstaged(p) : SetOp(old.op, [operations[old.op] EXCEPT !.staged[i] = old.target])
     BY <1>6, <3>2 DEF Apply, Mine
   <4>2. Unstaged(p) = {i} /\ i \in OpItems BY LastStaged, <4>1 DEF Unstaged
   <4>3. operations[old.op] \in OpShape /\ operations[old.op].staged \in [OpItems -> Target] BY <1>1, <2>5 DEF OpShape
   <4>4. operations'[old.op].staged = [operations[old.op].staged EXCEPT ![i] = old.target]
     BY <1>1, <2>5, <4>1, <4>3 DEF SetOp, OpShape
   <4>5. \A j \in OpItems : j # i => operations[old.op].staged[j] # 0 BY <4>2 DEF Unstaged, Mine
   <4> QED BY <2>6, <4>2, <4>3, <4>4, <4>5 DEF WholeRow
  <3> QED BY <3>1, <3>2
 <2> HIDE DEF s
 <2>8. TargetFits(s, operations') BY <1>1, <2>3, <2>4, <2>6 DEF ScreenOk, TargetFits
 <2>9. CallFits(s, operations', saved) BY <1>1, <1>6, <2>3, <2>4 DEF ScreenOk, CallFits
 <2>10. StepFits(s, operations') BY <1>1, <2>3, <2>5, <2>6, <2>7 DEF ScreenOk, StepFits, Early
 <2> QED BY <2>3, <2>8, <2>9, <2>10 DEF ScreenOk, s
<1>7. CASE call \notin {"status", "begin", "claim", "stage"}
 <2>1. s = [old EXCEPT !.busy.reply = "ok"] BY <1>7 DEF ScreenTold
 <2>2. /\ s.op = old.op /\ s.open = old.open /\ s.pending = old.pending /\ s.step = old.step
       /\ s.target = old.target /\ s.whole = old.whole /\ s.busy = [old.busy EXCEPT !.reply = "ok"] /\ s \in ScreenShape
   BY <1>1, <1>2, <2>1 DEF ScreenShape
 <2>3. s.busy.call = call /\ s.busy.flow = old.busy.flow BY <1>2, <2>2 DEF Busy
 <2>4. call = "confirm" => operations'[old.op].recovered
  <3> SUFFICES ASSUME call = "confirm" PROVE operations'[old.op].recovered OBVIOUS
  <3>1. old.op \in Op BY CallsHaveOps
  <3>2. operations' = [operations EXCEPT ![old.op] = [operations[old.op] EXCEPT !.recovered = TRUE]] BY DEF Apply, SetOp, Mine
  <3> QED BY <1>1, <3>1, <3>2 DEF OpShape
 <2> HIDE DEF s
 <2>5. TargetFits(s, operations') BY <1>1, <1>7, <2>2, <2>3 DEF ScreenOk, TargetFits
 <2>6. CallFits(s, operations', saved) BY <1>1, <2>2, <2>3, <2>4 DEF ScreenOk, CallFits
 <2>7. StepFits(s, operations') BY <1>1, <2>2 DEF ScreenOk, StepFits
 <2> QED BY <2>2, <2>5, <2>6, <2>7 DEF ScreenOk, s
<1> QED BY <1>3, <1>4, <1>5, <1>6, <1>7

-----------------------------------------------------------------------------
(* The steps of the page.                                                  *)

\* The steps of the rail.
LEMMA WizardSteps ==
  Step = {"intro", "support", "sessions", "drafts", "credentials", "confirm", "running", "recovery", "commit", "done"}
<1>1. DOMAIN Rail = 1 .. 10 BY DEF Rail
<1>2. /\ Rail[1] = "intro" /\ Rail[2] = "support" /\ Rail[3] = "sessions" /\ Rail[4] = "drafts" /\ Rail[5] = "credentials"
      /\ Rail[6] = "confirm" /\ Rail[7] = "running" /\ Rail[8] = "recovery" /\ Rail[9] = "commit" /\ Rail[10] = "done"
  BY DEF Rail
<1> HIDE DEF Rail
<1>3. Step = {Rail[i] : i \in 1 .. 10} BY <1>1 DEF Step
<1>4. \A i \in 1 .. 10 : i = 1 \/ i = 2 \/ i = 3 \/ i = 4 \/ i = 5 \/ i = 6 \/ i = 7 \/ i = 8 \/ i = 9 \/ i = 10 OBVIOUS
<1>5. 1 \in 1 .. 10 /\ 2 \in 1 .. 10 /\ 3 \in 1 .. 10 /\ 4 \in 1 .. 10 /\ 5 \in 1 .. 10 /\ 6 \in 1 .. 10 /\ 7 \in 1 .. 10
      /\ 8 \in 1 .. 10 /\ 9 \in 1 .. 10 /\ 10 \in 1 .. 10 OBVIOUS
<1>6. ASSUME NEW i \in 1 .. 10
      PROVE  Rail[i] \in {"intro", "support", "sessions", "drafts", "credentials", "confirm", "running", "recovery", "commit",
                         "done"} BY <1>2, <1>4
<1>7. {"intro", "support", "sessions", "drafts", "credentials", "confirm", "running", "recovery", "commit", "done"} \subseteq Step
  BY <1>2, <1>3, <1>5
<1> QED BY <1>3, <1>6, <1>7

\* The steps before the operation follow one another.
LEMMA NextSteps ==
  /\ After("intro") = "support" /\ After("support") = "sessions" /\ After("sessions") = "drafts"
  /\ After("drafts") = "credentials"
<1>1. DOMAIN Rail = 1 .. 10 BY DEF Rail
<1>2. /\ Rail[1] = "intro" /\ Rail[2] = "support" /\ Rail[3] = "sessions" /\ Rail[4] = "drafts" /\ Rail[5] = "credentials"
      /\ Rail[6] = "confirm" /\ Rail[7] = "running" /\ Rail[8] = "recovery" /\ Rail[9] = "commit" /\ Rail[10] = "done"
  BY DEF Rail
<1> HIDE DEF Rail
<1>3. \A i \in 1 .. 10 : i = 1 \/ i = 2 \/ i = 3 \/ i = 4 \/ i = 5 \/ i = 6 \/ i = 7 \/ i = 8 \/ i = 9 \/ i = 10 OBVIOUS
<1>4. ASSUME NEW step, NEW k \in 1 .. 10, Rail[k] = step, \A i \in 1 .. 10 : Rail[i] = step => i = k
      PROVE  After(step) = Rail[1 + k]
  BY <1>4, <1>1 DEF After
<1>5. After("intro") = Rail[1 + 1]
  BY <1>2, <1>3, <1>4
<1>6. After("support") = Rail[1 + 2]
  BY <1>2, <1>3, <1>4
<1>7. After("sessions") = Rail[1 + 3]
  BY <1>2, <1>3, <1>4
<1>8. After("drafts") = Rail[1 + 4]
  BY <1>2, <1>3, <1>4
<1> QED BY <1>2, <1>5, <1>6, <1>7, <1>8

\* The fields of a screen the invariant is about, but for its call.
Alike(s, t) ==
  /\ t.step = s.step /\ t.op = s.op /\ t.open = s.open /\ t.pending = s.pending /\ t.target = s.target /\ t.whole = s.whole

\* A screen whose call changes stays sound when the new call fits.
LEMMA CallChanges ==
  ASSUME NEW s, NEW t, NEW ops, NEW disk, ScreenOk(s, ops, disk), Alike(s, t), CallFits(t, ops, disk), t.busy.reply # "ok"
  PROVE  ScreenOk(t, ops, disk)
BY DEF ScreenOk, TargetFits, StepFits, Alike

\* A screen whose call ends stays sound.
LEMMA CallEnds ==
  ASSUME NEW s, NEW t, NEW ops, NEW disk, ScreenOk(s, ops, disk), Alike(s, t), t.busy = IdleScreen
  PROVE  ScreenOk(t, ops, disk)
<1>1. CallFits(t, ops, disk) /\ t.busy.reply # "ok" BY DEF CallFits, IdleScreen
<1> QED BY <1>1, CallChanges

\* A call that ends, well or not, changes nothing else of its screen.
LEMMA DoneIsOk ==
  ASSUME NEW s \in ScreenShape, NEW e \in Errors
  PROVE  /\ Done(s) \in ScreenShape /\ Alike(s, Done(s)) /\ Done(s).busy = IdleScreen
         /\ Fails(s, e) \in ScreenShape /\ Alike(s, Fails(s, e)) /\ Fails(s, e).busy = IdleScreen
<1>1. IdleScreen \in Busy BY DEF IdleScreen, Busy
<1> QED BY <1>1 DEF Done, Fails, ScreenShape, Alike

\* Only a screen changes.
LEMMA OnlyTheScreen ==
  ASSUME NEW p \in Screens, NEW s \in ScreenShape, WizardInv, ScreenOk(s, operations, saved),
         screens' = [screens EXCEPT ![p] = s],
         UNCHANGED <<vault, operations, sids, lastSid, seats, targets, saved, remembered>>
  PROVE  WizardInv'
<1>1. /\ targets' \in Target /\ saved \subseteq saved' /\ saved' \subseteq [op : 0 .. MaxOps, key : Target]
      /\ remembered' \subseteq Target /\ ScreenOk(s, operations, saved') BY DEF WizardInv, WizardShape
<1> QED BY <1>1, ScreenMoves

\* The replies there are.
LEMMA ReplyIsOne ==
  ASSUME NEW p
  PROVE  Reply(p) \in {"ok", "others", "conflict", "session", "incomplete", "unauthorized"}
<1>1. WorkerReply(p) \in {"conflict", "session", "ok"} BY DEF WorkerReply
<1>2. ClaimReply(p) \in {"conflict", "session", "ok"} BY DEF ClaimReply
<1> QED BY <1>1, <1>2, SMTT(30) DEF Reply

\* A call is answered, or its answer is lost.
LEMMA AnswersKeep == ASSUME WizardInv, NEW p \in Screens, Answer(p) \/ Lost(p) PROVE WizardInv'
<1> DEFINE old == screens[p]
<1>1. old \in ScreenShape /\ ScreenOk(old, operations, saved) /\ old.busy \in Busy BY DEF WizardInv, WizardShape, ScreenShape
<1>2. UNCHANGED <<saved, remembered, seats, targets, lastSid>> /\ Waits(p) BY DEF Answer, Lost
<1>3. ASSUME NEW t \in ScreenShape, Show(p, t), Served(p), ScreenOk(t, operations', saved)
      PROVE  WizardInv'
 <2>1. screens' \in [Screens -> ScreenShape] /\ screens'[p] = t /\ \A q \in Screens : q # p => screens'[q] = screens[q]
   BY <1>3 DEF Show, WizardInv, WizardShape
 <2>2. WizardShape' BY <1>2, <1>3, <2>1 DEF WizardInv, WizardShape, Served
 <2>3. OpsOk(operations, vault.active, saved)' BY <1>2, <1>3 DEF Served
 <2>4. \A q \in Screens : ScreenOk(screens'[q], operations', saved')
  <3> TAKE q \in Screens
  <3>1. CASE q = p BY <1>2, <1>3, <2>1, <3>1
  <3>2. CASE q # p
    BY <1>3, ScreenStays, <1>2, <2>1, <3>2 DEF WizardInv, WizardShape, Served
  <3> QED BY <3>1, <3>2
 <2> QED BY <2>2, <2>3, <2>4 DEF WizardInv
<1>4. ASSUME NEW reply \in {"others", "conflict", "session", "incomplete", "unauthorized", "lost"}, Served(p)
      PROVE  LET t == [old EXCEPT !.busy.reply = reply] IN t \in ScreenShape /\ ScreenOk(t, operations', saved)
 <2> DEFINE t == [old EXCEPT !.busy.reply = reply]
 <2>1. [old.busy EXCEPT !.reply = reply] \in Busy BY <1>1, <1>4 DEF Busy
 <2>2. t \in ScreenShape /\ Alike(old, t) /\ t.busy = [old.busy EXCEPT !.reply = reply] BY <1>1, <2>1 DEF ScreenShape, Alike
 <2>3. t.busy.flow = old.busy.flow /\ t.busy.call = old.busy.call /\ t.busy.reply = reply BY <1>1, <2>2 DEF Busy
 <2> HIDE DEF t
 <2>4. ScreenOk(old, operations', saved) BY <1>1, <1>4, ScreenStays DEF Served, WizardInv, WizardShape
 <2>5. CallFits(t, operations', saved) BY <2>2, <2>3, <2>4, <1>4 DEF CallFits, ScreenOk, Alike
 <2>6. t.busy.reply # "ok" BY <1>4, <2>3
 <2>7. ScreenOk(t, operations', saved) BY <2>2, <2>4, <2>5, <2>6, CallChanges
 <2> QED BY <2>2, <2>7 DEF t
<1>5. CASE Answer(p) /\ Reply(p) = "ok"
  BY <1>5, ApplyServes, <1>2, <1>3, ToldFits DEF Answer
<1>6. CASE Answer(p) /\ Reply(p) # "ok"
  BY <1>6, ReplyIsOne, Unserved, <1>3, <1>4 DEF Answer
<1>7. CASE Lost(p)
 <2>1. Show(p, [old EXCEPT !.busy.reply = "lost"]) BY <1>7 DEF Lost
 <2>2. Served(p)
  <3>1. CASE UNCHANGED <<vault, operations, sids>> BY <3>1, Unserved
  <3>2. CASE Reply(p) = "ok" /\ Room(p) /\ Apply(p) BY <3>2, ApplyServes
  <3> QED BY <1>7, <3>1, <3>2 DEF Lost
 <2> QED BY <1>3, <1>4, <2>1, <2>2
<1> QED BY <1>5, <1>6, <1>7

\* What the invariant says of the screen a step is made on.
HereOk(p) ==
  /\ screens[p] \in ScreenShape /\ ScreenOk(screens[p], operations, saved) /\ operations \in [Op -> OpShape]
  /\ IdleScreen \in Busy /\ screens[p].busy \in Busy /\ targets \in Target /\ remembered \subseteq Target
  /\ OpsOk(operations, vault.active, saved) /\ saved \subseteq [op : 0 .. MaxOps, key : Target]

\* The invariant says so of every screen.
LEMMA HereIsOk == ASSUME WizardInv, NEW p \in Screens PROVE HereOk(p)
<1>1. IdleScreen \in Busy BY DEF IdleScreen, Busy
<1> QED BY <1>1 DEF WizardInv, WizardShape, ScreenShape, HereOk

\* An operation that could not be begun leaves the page where it was.
LEMMA RefusedBeginKeeps == ASSUME WizardInv, NEW p \in Screens, RefusedBegin(p) PROVE WizardInv'
<1>0. HereOk(p) BY HereIsOk
<1>1. Described(screens[p].busy.reply) \in Errors BY DEF Described, Errors
<1>2. Show(p, Fails(screens[p], Described(screens[p].busy.reply))) /\ UNCHANGED <<vault, operations, sids, lastSid, seats, targets, saved, remembered>>
  BY DEF RefusedBegin, Local
<1>3. PICK t \in ScreenShape : Show(p, t) /\ Alike(screens[p], t) /\ t.busy = IdleScreen
  BY <1>0, <1>1, <1>2, DoneIsOk DEF HereOk
<1>4. ScreenOk(t, operations, saved) BY <1>0, <1>3, CallEnds DEF HereOk
<1> QED BY <1>2, <1>3, <1>4, OnlyTheScreen DEF Show

\* The sessions are listed.
LEMMA ListedKeeps == ASSUME WizardInv, NEW p \in Screens, Listed(p) PROVE WizardInv'
<1>0. HereOk(p) BY HereIsOk
<1>1. CASE Listed(p)
 <2> DEFINE t == [Done(screens[p]) EXCEPT !.checked = Good(p)]
 <2>1. Show(p, t) /\ UNCHANGED <<vault, operations, sids, lastSid, seats, targets, saved, remembered>> BY <1>1 DEF Listed, Local
 <2>2. t \in ScreenShape /\ Alike(screens[p], t) /\ t.busy = IdleScreen
   BY <1>0, <1>1 DEF HereOk, Alike, ScreenShape, Errors, Done, Good
 <2> HIDE DEF t
 <2>3. ScreenOk(t, operations, saved) BY <1>0, <2>2, CallEnds DEF HereOk
 <2> QED BY <2>1, <2>2, <2>3, OnlyTheScreen DEF Show
<1> QED BY <1>1

\* The other sessions are signed out.
LEMMA RevokedKeeps == ASSUME WizardInv, NEW p \in Screens, Revoked(p) PROVE WizardInv'
<1>0. HereOk(p) BY HereIsOk
<1>1. CASE Revoked(p)
 <2> DEFINE t == [screens[p] EXCEPT !.busy.call = "list", !.busy.reply = "none"]
 <2>1. Show(p, t) /\ UNCHANGED <<vault, operations, sids, lastSid, seats, targets, saved, remembered>>
   BY <1>1 DEF Revoked, Local
 <2>2. [screens[p].busy EXCEPT !.call = "list"] \in Busy BY <1>0 DEF HereOk, Busy
 <2> DEFINE u == [screens[p] EXCEPT !.busy.call = "list"]
 <2>3. u \in ScreenShape /\ Alike(screens[p], u) /\ u.busy = [screens[p].busy EXCEPT !.call = "list"]
   BY <1>0, <2>2 DEF HereOk, Alike, ScreenShape
 <2>6. t = [u EXCEPT !.busy.reply = "none"] OBVIOUS
 <2> HIDE DEF t, u
 <2>7. u.busy \in Busy /\ [u.busy EXCEPT !.reply = "none"] \in Busy BY <2>2, <2>3 DEF Busy
 <2>8. t \in ScreenShape /\ Alike(screens[p], t) /\ t.busy = [u.busy EXCEPT !.reply = "none"]
   BY <2>3, <2>6, <2>7 DEF Alike, ScreenShape
 <2>9. t.busy.flow = screens[p].busy.flow /\ t.busy.call = "list" /\ t.busy.reply = "none"
   BY <1>0, <2>3, <2>7, <2>8 DEF Busy, HereOk
 <2>4. CallFits(t, operations, saved) /\ t.busy.reply # "ok"
   BY <1>0, <1>1, <2>8, <2>9 DEF CallFits, ScreenOk, TargetFits, StepFits, Alike, HereOk, Revoked, Gets
 <2>5. ScreenOk(t, operations, saved) BY <1>0, <2>8, <2>4, CallChanges DEF HereOk
 <2> QED BY <2>1, <2>8, <2>5, OnlyTheScreen DEF Show
<1> QED BY <1>1

\* The sessions are listed for an escape.
LEMMA ListedForEscapeKeeps == ASSUME WizardInv, NEW p \in Screens, ListedForEscape(p) PROVE WizardInv'
<1>0. HereOk(p) BY HereIsOk
<1>1. CASE ListedForEscape(p) /\ Good(p)
 <2> DEFINE t == [AskServer(screens[p], "cancel", "cancel") EXCEPT !.checked = TRUE]
 <2>1. Show(p, t) /\ UNCHANGED <<vault, operations, sids, lastSid, seats, targets, saved, remembered>>
   BY <1>1 DEF ListedForEscape, Local
 <2>2. [flow |-> "cancel", call |-> "cancel", reply |-> "none"] \in Busy BY <1>0, <1>1 DEF Busy, HereOk, ListedForEscape, Gets
 <2>3. t \in ScreenShape /\ Alike(screens[p], t) /\ t.busy = [flow |-> "cancel", call |-> "cancel", reply |-> "none"]
   BY <1>0, <1>1, <2>2 DEF HereOk, Alike, ScreenShape, Errors, AskServer
 <2> HIDE DEF t
 <2>4. CallFits(t, operations, saved) /\ t.busy.reply # "ok"
   BY <1>0, <1>1, <2>3 DEF CallFits, ScreenOk, TargetFits, StepFits, Alike, HereOk, ListedForEscape, Gets
 <2>5. ScreenOk(t, operations, saved) BY <1>0, <2>3, <2>4, CallChanges DEF HereOk
 <2> QED BY <2>1, <2>3, <2>5, OnlyTheScreen DEF Show
<1>2. CASE ListedForEscape(p) /\ ~Good(p)
 <2> DEFINE t == [Fails(screens[p], "still") EXCEPT !.checked = FALSE]
 <2>1. Show(p, t) /\ UNCHANGED <<vault, operations, sids, lastSid, seats, targets, saved, remembered>>
   BY <1>2 DEF ListedForEscape, Local
 <2>2. t \in ScreenShape /\ Alike(screens[p], t) /\ t.busy = IdleScreen
   BY <1>0, <1>2 DEF HereOk, Alike, ScreenShape, Errors, Fails
 <2> HIDE DEF t
 <2>3. ScreenOk(t, operations, saved) BY <1>0, <2>2, CallEnds DEF HereOk
 <2> QED BY <2>1, <2>2, <2>3, OnlyTheScreen DEF Show
<1> QED BY <1>1, <1>2

\* The sessions are listed once more before an operation begins.
LEMMA ListedForBeginKeeps == ASSUME WizardInv, NEW p \in Screens, ListedForBegin(p) PROVE WizardInv'
<1>0. HereOk(p) BY HereIsOk
<1>1. CASE ListedForBegin(p) /\ Good(p) /\ screens[p].open
 <2> DEFINE t == [AskServer(screens[p], "begin", "claim") EXCEPT !.checked = TRUE]
 <2>1. Show(p, t) /\ UNCHANGED <<vault, operations, sids, lastSid, seats, targets, saved, remembered>>
   BY <1>1 DEF ListedForBegin, Local
 <2>2. [flow |-> "begin", call |-> "claim", reply |-> "none"] \in Busy BY <1>0, <1>1 DEF Busy, HereOk, ListedForBegin, Gets
 <2>3. t \in ScreenShape /\ Alike(screens[p], t) /\ t.busy = [flow |-> "begin", call |-> "claim", reply |-> "none"]
   BY <1>0, <1>1, <2>2 DEF HereOk, Alike, ScreenShape, Errors, AskServer
 <2> HIDE DEF t
 <2>4. CallFits(t, operations, saved) /\ t.busy.reply # "ok"
   BY <1>0, <1>1, <2>3 DEF CallFits, ScreenOk, TargetFits, StepFits, Alike, HereOk, ListedForBegin, Gets
 <2>5. ScreenOk(t, operations, saved) BY <1>0, <2>3, <2>4, CallChanges DEF HereOk
 <2> QED BY <2>1, <2>3, <2>5, OnlyTheScreen DEF Show
<1>2. CASE ListedForBegin(p) /\ Good(p) /\ ~screens[p].open
 <2> DEFINE t == [AskServer(screens[p], "begin", "begin") EXCEPT !.checked = TRUE]
 <2>1. Show(p, t) /\ UNCHANGED <<vault, operations, sids, lastSid, seats, targets, saved, remembered>>
   BY <1>2 DEF ListedForBegin, Local
 <2>2. [flow |-> "begin", call |-> "begin", reply |-> "none"] \in Busy BY <1>0, <1>2 DEF Busy, HereOk, ListedForBegin, Gets
 <2>3. t \in ScreenShape /\ Alike(screens[p], t) /\ t.busy = [flow |-> "begin", call |-> "begin", reply |-> "none"]
   BY <1>0, <1>2, <2>2 DEF HereOk, Alike, ScreenShape, Errors, AskServer
 <2> HIDE DEF t
 <2>4. CallFits(t, operations, saved) /\ t.busy.reply # "ok"
   BY <1>0, <1>2, <2>3 DEF CallFits, ScreenOk, TargetFits, StepFits, Alike, HereOk, ListedForBegin, Gets
 <2>5. ScreenOk(t, operations, saved) BY <1>0, <2>3, <2>4, CallChanges DEF HereOk
 <2> QED BY <2>1, <2>3, <2>5, OnlyTheScreen DEF Show
<1>3. CASE ListedForBegin(p) /\ ~Good(p)
 <2> DEFINE t == [Fails(screens[p], "session") EXCEPT !.checked = FALSE, !.frozen = FALSE]
 <2>1. Show(p, t) /\ UNCHANGED <<vault, operations, sids, lastSid, seats, targets, saved, remembered>>
   BY <1>3 DEF ListedForBegin, Local
 <2>2. t \in ScreenShape /\ Alike(screens[p], t) /\ t.busy = IdleScreen
   BY <1>0, <1>3 DEF HereOk, Alike, ScreenShape, Errors, Fails
 <2> HIDE DEF t
 <2>3. ScreenOk(t, operations, saved) BY <1>0, <2>2, CallEnds DEF HereOk
 <2> QED BY <2>1, <2>2, <2>3, OnlyTheScreen DEF Show
<1> QED BY <1>1, <1>2, <1>3

\* The other sessions are to be signed out.
LEMMA PressRevokeKeeps == ASSUME WizardInv, NEW p \in Screens, PressRevoke(p) PROVE WizardInv'
<1>0. HereOk(p) BY HereIsOk
<1>1. CASE PressRevoke(p)
 <2> DEFINE t == AskServer(screens[p], "revoke", "revoke")
 <2>1. Show(p, t) /\ UNCHANGED <<vault, operations, sids, lastSid, seats, targets, saved, remembered>>
   BY <1>1 DEF PressRevoke, Press, Steady
 <2>2. [flow |-> "revoke", call |-> "revoke", reply |-> "none"] \in Busy
   BY <1>0, <1>1 DEF Busy, HereOk, PressRevoke, Press, At, Offered
 <2>3. t \in ScreenShape /\ Alike(screens[p], t) /\ t.busy = [flow |-> "revoke", call |-> "revoke", reply |-> "none"]
   BY <1>0, <1>1, <2>2 DEF HereOk, Alike, ScreenShape, Errors, AskServer
 <2> HIDE DEF t
 <2>4. CallFits(t, operations, saved) /\ t.busy.reply # "ok"
   BY <1>0, <1>1, <2>3 DEF CallFits, ScreenOk, TargetFits, StepFits, Alike, HereOk, PressRevoke, Press, At, Offered
 <2>5. ScreenOk(t, operations, saved) BY <1>0, <2>3, <2>4, CallChanges DEF HereOk
 <2> QED BY <2>1, <2>3, <2>5, OnlyTheScreen DEF Show
<1> QED BY <1>1

\* The recovery passphrase is to be checked.
LEMMA VerifyKeeps == ASSUME WizardInv, NEW p \in Screens, Verify(p) PROVE WizardInv'
<1>0. HereOk(p) BY HereIsOk
<1>1. CASE Verify(p)
 <2> DEFINE t == AskServer(screens[p], "verify", "material")
 <2>1. Show(p, t) /\ UNCHANGED <<vault, operations, sids, lastSid, seats, targets, saved, remembered>>
   BY <1>1 DEF Verify, Press, Steady
 <2>2. [flow |-> "verify", call |-> "material", reply |-> "none"] \in Busy
   BY <1>0, <1>1 DEF Busy, HereOk, Verify, Press, At, Offered
 <2>3. t \in ScreenShape /\ Alike(screens[p], t) /\ t.busy = [flow |-> "verify", call |-> "material", reply |-> "none"]
   BY <1>0, <1>1, <2>2 DEF HereOk, Alike, ScreenShape, Errors, AskServer
 <2> HIDE DEF t
 <2>4. CallFits(t, operations, saved) /\ t.busy.reply # "ok"
   BY <1>0, <1>1, <2>3 DEF CallFits, ScreenOk, TargetFits, StepFits, Alike, HereOk, Verify, Press, At, Offered
 <2>5. ScreenOk(t, operations, saved) BY <1>0, <2>3, <2>4, CallChanges DEF HereOk
 <2> QED BY <2>1, <2>3, <2>5, OnlyTheScreen DEF Show
<1> QED BY <1>1

\* Processing is asked for.
LEMMA ProcessOpKeeps == ASSUME WizardInv, NEW p \in Screens, ProcessOp(p) PROVE WizardInv'
<1>0. HereOk(p) BY HereIsOk
<1>1. CASE ProcessOp(p)
 <2> DEFINE t == AskServer(screens[p], "process", "stage")
 <2>1. Show(p, t) /\ UNCHANGED <<vault, operations, sids, lastSid, seats, targets, saved, remembered>>
   BY <1>1 DEF ProcessOp, Press, Steady
 <2>2. [flow |-> "process", call |-> "stage", reply |-> "none"] \in Busy
   BY <1>0, <1>1 DEF Busy, HereOk, ProcessOp, Press, At, Offered
 <2>3. t \in ScreenShape /\ Alike(screens[p], t) /\ t.busy = [flow |-> "process", call |-> "stage", reply |-> "none"]
   BY <1>0, <1>1, <2>2 DEF HereOk, Alike, ScreenShape, Errors, AskServer
 <2> HIDE DEF t
 <2>4. CallFits(t, operations, saved) /\ t.busy.reply # "ok"
   BY <1>0, <1>1, <2>3 DEF CallFits, ScreenOk, TargetFits, StepFits, Alike, HereOk, ProcessOp, Press, At, Offered
 <2>5. ScreenOk(t, operations, saved) BY <1>0, <2>3, <2>4, CallChanges DEF HereOk
 <2> QED BY <2>1, <2>3, <2>5, OnlyTheScreen DEF Show
<1> QED BY <1>1

\* The activation is asked for.
LEMMA PressActivateKeeps == ASSUME WizardInv, NEW p \in Screens, PressActivate(p) PROVE WizardInv'
<1>0. HereOk(p) BY HereIsOk
<1>1. CASE PressActivate(p)
 <2> DEFINE t == AskServer(screens[p], "commit", "commit")
 <2>1. Show(p, t) /\ UNCHANGED <<vault, operations, sids, lastSid, seats, targets, saved, remembered>>
   BY <1>1 DEF PressActivate, Press, Steady
 <2>2. [flow |-> "commit", call |-> "commit", reply |-> "none"] \in Busy
   BY <1>0, <1>1 DEF Busy, HereOk, PressActivate, Press, At, Offered
 <2>3. t \in ScreenShape /\ Alike(screens[p], t) /\ t.busy = [flow |-> "commit", call |-> "commit", reply |-> "none"]
   BY <1>0, <1>1, <2>2 DEF HereOk, Alike, ScreenShape, Errors, AskServer
 <2> HIDE DEF t
 <2>4. CallFits(t, operations, saved) /\ t.busy.reply # "ok"
   BY <1>0, <1>1, <2>3 DEF CallFits, ScreenOk, TargetFits, StepFits, Alike, HereOk, PressActivate, Press, At, Offered
 <2>5. ScreenOk(t, operations, saved) BY <1>0, <2>3, <2>4, CallChanges DEF HereOk
 <2> QED BY <2>1, <2>3, <2>5, OnlyTheScreen DEF Show
<1> QED BY <1>1

\* The cancellation is asked for.
LEMMA CancelKeeps == ASSUME WizardInv, NEW p \in Screens, Cancel(p) PROVE WizardInv'
<1>0. HereOk(p) BY HereIsOk
<1>1. CASE Cancel(p)
 <2> DEFINE t == AskServer(screens[p], "cancel", "cancel")
 <2>1. Show(p, t) /\ UNCHANGED <<vault, operations, sids, lastSid, seats, targets, saved, remembered>>
   BY <1>1 DEF Cancel, Press, Steady
 <2>2. [flow |-> "cancel", call |-> "cancel", reply |-> "none"] \in Busy
   BY <1>0, <1>1 DEF Busy, HereOk, Cancel, Press, At, Offered
 <2>3. t \in ScreenShape /\ Alike(screens[p], t) /\ t.busy = [flow |-> "cancel", call |-> "cancel", reply |-> "none"]
   BY <1>0, <1>1, <2>2 DEF HereOk, Alike, ScreenShape, Errors, AskServer
 <2> HIDE DEF t
 <2>4. CallFits(t, operations, saved) /\ t.busy.reply # "ok"
   BY <1>0, <1>1, <2>3 DEF CallFits, ScreenOk, TargetFits, StepFits, Alike, HereOk, Cancel, Press, At, Offered
 <2>5. ScreenOk(t, operations, saved) BY <1>0, <2>3, <2>4, CallChanges DEF HereOk
 <2> QED BY <2>1, <2>3, <2>5, OnlyTheScreen DEF Show
<1> QED BY <1>1

\* Signing the others out and cancelling is asked for.
LEMMA RevokeAndCancelKeeps == ASSUME WizardInv, NEW p \in Screens, RevokeAndCancel(p) PROVE WizardInv'
<1>0. HereOk(p) BY HereIsOk
<1>1. CASE RevokeAndCancel(p)
 <2> DEFINE t == AskServer(screens[p], "escape", "revoke")
 <2>1. Show(p, t) /\ UNCHANGED <<vault, operations, sids, lastSid, seats, targets, saved, remembered>>
   BY <1>1 DEF RevokeAndCancel, Press, Steady
 <2>2. [flow |-> "escape", call |-> "revoke", reply |-> "none"] \in Busy
   BY <1>0, <1>1 DEF Busy, HereOk, RevokeAndCancel, Press, At, Offered
 <2>3. t \in ScreenShape /\ Alike(screens[p], t) /\ t.busy = [flow |-> "escape", call |-> "revoke", reply |-> "none"]
   BY <1>0, <1>1, <2>2 DEF HereOk, Alike, ScreenShape, Errors, AskServer
 <2> HIDE DEF t
 <2>4. CallFits(t, operations, saved) /\ t.busy.reply # "ok"
   BY <1>0, <1>1, <2>3 DEF CallFits, ScreenOk, TargetFits, StepFits, Alike, HereOk, RevokeAndCancel, Press, At, Offered
 <2>5. ScreenOk(t, operations, saved) BY <1>0, <2>3, <2>4, CallChanges DEF HereOk
 <2> QED BY <2>1, <2>3, <2>5, OnlyTheScreen DEF Show
<1> QED BY <1>1

\* A pause keeps what was staged.
LEMMA PauseProcessKeeps == ASSUME WizardInv, NEW p \in Screens, PauseProcess(p) PROVE WizardInv'
<1>0. HereOk(p) BY HereIsOk
<1>1. CASE PauseProcess(p)
 <2> DEFINE t == Done(screens[p])
 <2>1. Show(p, t) /\ UNCHANGED <<vault, operations, sids, lastSid, seats, targets, saved, remembered>>
   BY <1>1 DEF PauseProcess, Steady
 <2>2. t \in ScreenShape /\ Alike(screens[p], t) /\ t.busy = IdleScreen
   BY <1>0, <1>1 DEF HereOk, Alike, ScreenShape, Errors, Done
 <2> HIDE DEF t
 <2>3. ScreenOk(t, operations, saved) BY <1>0, <2>2, CallEnds DEF HereOk
 <2> QED BY <2>1, <2>2, <2>3, OnlyTheScreen DEF Show
<1> QED BY <1>1

\* A step is acknowledged.
LEMMA AcknowledgeKeeps == ASSUME WizardInv, NEW p \in Screens, Acknowledge(p) PROVE WizardInv'
<1>0. HereOk(p) BY HereIsOk
<1>1. CASE Acknowledge(p)
 <2> DEFINE t == [screens[p] EXCEPT !.acknowledged = TRUE]
 <2>1. Show(p, t) /\ UNCHANGED <<vault, operations, sids, lastSid, seats, targets, saved, remembered>>
   BY <1>1 DEF Acknowledge, Steady
 <2>2. t \in ScreenShape /\ Alike(screens[p], t) /\ t.busy = IdleScreen
   BY <1>0, <1>1 DEF HereOk, Alike, ScreenShape, Errors, Acknowledge, At, Free
 <2> HIDE DEF t
 <2>3. ScreenOk(t, operations, saved) BY <1>0, <2>2, CallEnds DEF HereOk
 <2> QED BY <2>1, <2>2, <2>3, OnlyTheScreen DEF Show
<1> QED BY <1>1

\* Beginning is asked for, under a new key.
LEMMA BeginKeeps == ASSUME WizardInv, NEW p \in Screens, Begin(p) PROVE WizardInv'
<1>0. HereOk(p) BY HereIsOk
<1>1. CASE Begin(p) /\ (screens[p].target = 0 \/ screens[p].from = Unread)
 <2> DEFINE t == Fails(screens[p], "unfinished")
 <2>1. Show(p, t) /\ UNCHANGED <<vault, operations, sids, lastSid, seats, targets, saved, remembered>> BY <1>1 DEF Begin, Steady
 <2>2. t \in ScreenShape /\ Alike(screens[p], t) /\ t.busy = IdleScreen
   BY <1>0, <1>1 DEF HereOk, Alike, ScreenShape, Errors, Fails
 <2> HIDE DEF t
 <2>3. ScreenOk(t, operations, saved) BY <1>0, <2>2, CallEnds DEF HereOk
 <2> QED BY <2>1, <2>2, <2>3, OnlyTheScreen DEF Show
<1>2. CASE Begin(p) /\ ~(screens[p].target = 0 \/ screens[p].from = Unread) /\ seats[p] \in unsaved
 <2> DEFINE t == [Fails(screens[p], "drafts") EXCEPT !.clean = FALSE, !.frozen = FALSE]
 <2>1. Show(p, t) /\ UNCHANGED <<vault, operations, sids, lastSid, seats, targets, saved, remembered>> BY <1>2 DEF Begin, Steady
 <2>2. t \in ScreenShape /\ Alike(screens[p], t) /\ t.busy = IdleScreen
   BY <1>0, <1>2 DEF HereOk, Alike, ScreenShape, Errors, Fails
 <2> HIDE DEF t
 <2>3. ScreenOk(t, operations, saved) BY <1>0, <2>2, CallEnds DEF HereOk
 <2> QED BY <2>1, <2>2, <2>3, OnlyTheScreen DEF Show
<1>3. CASE Begin(p) /\ ~(screens[p].target = 0 \/ screens[p].from = Unread) /\ seats[p] \notin unsaved
 <2> DEFINE t == [AskServer(screens[p], "begin", "list") EXCEPT !.clean = TRUE, !.frozen = TRUE]
 <2>1. Show(p, t) /\ UNCHANGED <<vault, operations, sids, lastSid, seats, targets, saved, remembered>> BY <1>3 DEF Begin, Steady
 <2>2. [flow |-> "begin", call |-> "list", reply |-> "none"] \in Busy BY <1>0, <1>3 DEF Busy, HereOk, Begin, At
 <2>3. t \in ScreenShape /\ Alike(screens[p], t) /\ t.busy = [flow |-> "begin", call |-> "list", reply |-> "none"]
   BY <1>0, <1>3, <2>2 DEF HereOk, Alike, ScreenShape, Errors, AskServer
 <2> HIDE DEF t
 <2>4. CallFits(t, operations, saved) /\ t.busy.reply # "ok"
   BY <1>0, <1>3, <2>3 DEF CallFits, ScreenOk, TargetFits, StepFits, Alike, HereOk, Begin, At
 <2>5. ScreenOk(t, operations, saved) BY <1>0, <2>3, <2>4, CallChanges DEF HereOk
 <2> QED BY <2>1, <2>3, <2>5, OnlyTheScreen DEF Show
<1> QED BY <1>1, <1>2, <1>3

\* A page that loads takes the operation the server reports.
LEMMA LoadedKeeps == ASSUME WizardInv, NEW p \in Screens, Loaded(p) PROVE WizardInv'
<1>0. HereOk(p) BY HereIsOk
<1>1. CASE Loaded(p) /\ screens[p].open
 <2> DEFINE t == [Done(screens[p]) EXCEPT !.step = "sessions"]
 <2>1. Show(p, t) /\ UNCHANGED <<vault, operations, sids, lastSid, seats, targets, saved, remembered>> BY <1>1 DEF Loaded, Local
 <2>2. /\ t \in ScreenShape /\ t.step = "sessions" /\ t.busy = IdleScreen /\ t.op = screens[p].op /\ t.open = screens[p].open
       /\ t.pending = screens[p].pending /\ t.target = screens[p].target /\ t.whole = screens[p].whole
   BY <1>0, <1>1, WizardSteps DEF HereOk, ScreenShape, Done
 <2>3. screens[p].op # 0 => screens[p].op \in Op BY <1>0, OpNumbers DEF HereOk, ScreenShape
 <2> HIDE DEF t
 <2>4. TargetFits(t, operations)
   BY <1>0, <1>1, <2>2, <2>3 DEF HereOk, ScreenOk, TargetFits, CallFits, StepFits, Early, IdleScreen, Loaded, Gets
 <2>5. CallFits(t, operations, saved) BY <2>2 DEF CallFits, IdleScreen
 <2>6. StepFits(t, operations)
   BY <1>0, <1>1, <2>2, <2>3 DEF HereOk, ScreenOk, TargetFits, CallFits, StepFits, Early, Loaded, Gets
 <2> QED BY <2>1, <2>2, <2>4, <2>5, <2>6, OnlyTheScreen DEF Show, ScreenOk
<1>2. CASE Loaded(p) /\ ~screens[p].open
 <2> DEFINE t == Done(screens[p])
 <2>1. Show(p, t) /\ UNCHANGED <<vault, operations, sids, lastSid, seats, targets, saved, remembered>>
   BY <1>0, <1>2 DEF HereOk, ScreenShape, Done, Loaded, Local
 <2>2. t \in ScreenShape /\ Alike(screens[p], t) /\ t.busy = IdleScreen
   BY <1>0, <1>2 DEF HereOk, Alike, ScreenShape, Errors, Done
 <2> HIDE DEF t
 <2>3. ScreenOk(t, operations, saved) BY <1>0, <2>2, CallEnds DEF HereOk
 <2> QED BY <2>1, <2>2, <2>3, OnlyTheScreen DEF Show
<1> QED BY <1>1, <1>2 DEF Loaded

\* An operation that was begun is on the page.
LEMMA StartedKeeps == ASSUME WizardInv, NEW p \in Screens, Started(p) PROVE WizardInv'
<1>0. HereOk(p) BY HereIsOk
<1>1. CASE Started(p)
 <2> DEFINE t == [Done(screens[p]) EXCEPT !.step = "running"]
 <2>1. Show(p, t) /\ UNCHANGED <<vault, operations, sids, lastSid, seats, targets, saved, remembered>>
   BY <1>1 DEF Started, Local
 <2>2. /\ t \in ScreenShape /\ t.step = "running" /\ t.busy = IdleScreen /\ t.op = screens[p].op /\ t.open = screens[p].open
       /\ t.pending = screens[p].pending /\ t.target = screens[p].target /\ t.whole = screens[p].whole
   BY <1>0, <1>1, WizardSteps DEF HereOk, ScreenShape, Done
 <2>3. screens[p].op # 0 => screens[p].op \in Op BY <1>0, OpNumbers DEF HereOk, ScreenShape
 <2> HIDE DEF t
 <2>4. TargetFits(t, operations)
   BY <1>0, <1>1, <2>2, <2>3 DEF HereOk, ScreenOk, TargetFits, CallFits, StepFits, Early, IdleScreen, Started, Gets, Good
 <2>5. CallFits(t, operations, saved) BY <2>2 DEF CallFits, IdleScreen
 <2>6. StepFits(t, operations)
   BY <1>0, <1>1, <2>2, <2>3 DEF HereOk, ScreenOk, TargetFits, CallFits, StepFits, Early, Started, Gets, Good
 <2> QED BY <2>1, <2>2, <2>4, <2>5, <2>6, OnlyTheScreen DEF Show, ScreenOk
<1> QED BY <1>1 DEF Started

\* An item was staged, or all of them were.
LEMMA StagedKeeps == ASSUME WizardInv, NEW p \in Screens, Staged(p) PROVE WizardInv'
<1>0. HereOk(p) BY HereIsOk
<1>1. CASE Staged(p) /\ screens[p].whole
 <2> DEFINE t == [Done(screens[p]) EXCEPT !.step = "recovery"]
 <2>1. Show(p, t) /\ UNCHANGED <<vault, operations, sids, lastSid, seats, targets, saved, remembered>> BY <1>1 DEF Staged, Local
 <2>2. /\ t \in ScreenShape /\ t.step = "recovery" /\ t.busy = IdleScreen /\ t.op = screens[p].op /\ t.open = screens[p].open
       /\ t.pending = screens[p].pending /\ t.target = screens[p].target /\ t.whole = screens[p].whole
   BY <1>0, <1>1, WizardSteps DEF HereOk, ScreenShape, Done
 <2>3. screens[p].op # 0 => screens[p].op \in Op BY <1>0, OpNumbers DEF HereOk, ScreenShape
 <2> HIDE DEF t
 <2>4. TargetFits(t, operations)
   BY <1>0, <1>1, <2>2, <2>3 DEF HereOk, ScreenOk, TargetFits, CallFits, StepFits, Early, IdleScreen, Staged, Gets, Good
 <2>5. CallFits(t, operations, saved) BY <2>2 DEF CallFits, IdleScreen
 <2>6. StepFits(t, operations)
   BY <1>0, <1>1, <2>2, <2>3 DEF HereOk, ScreenOk, TargetFits, CallFits, StepFits, Early, Staged, Gets, Good
 <2> QED BY <2>1, <2>2, <2>4, <2>5, <2>6, OnlyTheScreen DEF Show, ScreenOk
<1>2. CASE Staged(p) /\ ~screens[p].whole
 <2> DEFINE t == [screens[p] EXCEPT !.busy.reply = "none"]
 <2>1. Show(p, t) /\ UNCHANGED <<vault, operations, sids, lastSid, seats, targets, saved, remembered>> BY <1>2 DEF Staged, Local
 <2>2. [screens[p].busy EXCEPT !.reply = "none"] \in Busy BY <1>0, <1>2 DEF Busy, HereOk, Staged, Gets
 <2>3. t \in ScreenShape /\ Alike(screens[p], t) /\ t.busy = [screens[p].busy EXCEPT !.reply = "none"]
   BY <1>0, <1>2, <2>2 DEF HereOk, Alike, ScreenShape, Errors, Busy
 <2> HIDE DEF t
 <2>6. t.busy.reply = "none" /\ t.busy.flow = screens[p].busy.flow /\ t.busy.call = screens[p].busy.call
   BY <1>0, <2>3 DEF HereOk, Busy
 <2>4. CallFits(t, operations, saved) /\ t.busy.reply # "ok"
   BY <1>0, <1>2, <2>3, <2>6 DEF CallFits, ScreenOk, TargetFits, StepFits, Alike, HereOk, Staged, Gets
 <2>5. ScreenOk(t, operations, saved) BY <1>0, <2>3, <2>4, CallChanges DEF HereOk
 <2> QED BY <2>1, <2>3, <2>5, OnlyTheScreen DEF Show
<1> QED BY <1>1, <1>2 DEF Staged

\* The recovery file was confirmed.
LEMMA ConfirmedKeeps == ASSUME WizardInv, NEW p \in Screens, Confirmed(p) PROVE WizardInv'
<1>0. HereOk(p) BY HereIsOk
<1>1. CASE Confirmed(p)
 <2> DEFINE t == [Done(screens[p]) EXCEPT !.step = "commit"]
 <2>1. Show(p, t) /\ UNCHANGED <<vault, operations, sids, lastSid, seats, targets, saved, remembered>>
   BY <1>1 DEF Confirmed, Local
 <2>2. /\ t \in ScreenShape /\ t.step = "commit" /\ t.busy = IdleScreen /\ t.op = screens[p].op /\ t.open = screens[p].open
       /\ t.pending = screens[p].pending /\ t.target = screens[p].target /\ t.whole = screens[p].whole
   BY <1>0, <1>1, WizardSteps DEF HereOk, ScreenShape, Done
 <2>3. screens[p].op # 0 => screens[p].op \in Op BY <1>0, OpNumbers DEF HereOk, ScreenShape
 <2> HIDE DEF t
 <2>4. TargetFits(t, operations)
   BY <1>0, <1>1, <2>2, <2>3 DEF HereOk, ScreenOk, TargetFits, CallFits, StepFits, Early, IdleScreen, Confirmed, Gets, Good
 <2>5. CallFits(t, operations, saved) BY <2>2 DEF CallFits, IdleScreen
 <2>6. StepFits(t, operations)
   BY <1>0, <1>1, <2>2, <2>3 DEF HereOk, ScreenOk, TargetFits, CallFits, StepFits, Early, Confirmed, Gets, Good
 <2> QED BY <2>1, <2>2, <2>4, <2>5, <2>6, OnlyTheScreen DEF Show, ScreenOk
<1> QED BY <1>1 DEF Confirmed

\* After the commit the page is through.
LEMMA CleansUpKeeps == ASSUME WizardInv, NEW p \in Screens, CleansUp(p) PROVE WizardInv'
<1>0. HereOk(p) BY HereIsOk
<1>0a. UNCHANGED <<vault, operations, sids, lastSid, seats, targets, saved, remembered>> BY DEF CleansUp, Local
<1>1. CASE Show(p, [Done(screens[p]) EXCEPT !.step = "done", !.frozen = FALSE])
 <2> DEFINE t == [Done(screens[p]) EXCEPT !.step = "done", !.frozen = FALSE]
 <2>1. Show(p, t) /\ UNCHANGED <<vault, operations, sids, lastSid, seats, targets, saved, remembered>> BY <1>1, <1>0a
 <2>2. /\ t \in ScreenShape /\ t.step = "done" /\ t.busy = IdleScreen /\ t.op = screens[p].op /\ t.open = screens[p].open
       /\ t.pending = screens[p].pending /\ t.target = screens[p].target /\ t.whole = screens[p].whole
   BY <1>0, <1>1, WizardSteps DEF HereOk, ScreenShape, Done
 <2>3. screens[p].op # 0 => screens[p].op \in Op BY <1>0, OpNumbers DEF HereOk, ScreenShape
 <2> HIDE DEF t
 <2>4. TargetFits(t, operations)
   BY <1>0, <1>1, <2>2, <2>3 DEF HereOk, ScreenOk, TargetFits, CallFits, StepFits, Early, IdleScreen
 <2>5. CallFits(t, operations, saved) BY <2>2 DEF CallFits, IdleScreen
 <2>6. StepFits(t, operations) BY <1>0, <1>1, <2>2, <2>3 DEF HereOk, ScreenOk, TargetFits, CallFits, StepFits, Early
 <2> QED BY <2>1, <2>2, <2>4, <2>5, <2>6, OnlyTheScreen DEF Show, ScreenOk
<1>2. CASE Show(p, Fails(screens[p], "cleanup"))
 <2> DEFINE t == Fails(screens[p], "cleanup")
 <2>1. Show(p, t) /\ UNCHANGED <<vault, operations, sids, lastSid, seats, targets, saved, remembered>> BY <1>2, <1>0a
 <2>2. t \in ScreenShape /\ Alike(screens[p], t) /\ t.busy = IdleScreen
   BY <1>0, <1>2 DEF HereOk, Alike, ScreenShape, Errors, Fails
 <2> HIDE DEF t
 <2>3. ScreenOk(t, operations, saved) BY <1>0, <2>2, CallEnds DEF HereOk
 <2> QED BY <2>1, <2>2, <2>3, OnlyTheScreen DEF Show
<1> QED BY <1>1, <1>2 DEF CleansUp

\* A step of the rail is left behind.
LEMMA AdvanceKeeps == ASSUME WizardInv, NEW p \in Screens, Advance(p) PROVE WizardInv'
<1>0. HereOk(p) BY HereIsOk
<1>1. CASE screens[p].step = "intro"
 <2> DEFINE t == [screens[p] EXCEPT !.step = "support", !.error = "none"]
 <2>1. Show(p, t) /\ UNCHANGED <<vault, operations, sids, lastSid, seats, targets, saved, remembered>>
   BY <1>1, NextSteps DEF Advance, Steady
 <2>2. /\ t \in ScreenShape /\ t.step = "support" /\ t.busy = screens[p].busy /\ t.op = screens[p].op
       /\ t.open = screens[p].open /\ t.pending = screens[p].pending /\ t.target = screens[p].target
       /\ t.whole = screens[p].whole BY <1>0, WizardSteps DEF HereOk, ScreenShape, Errors
 <2> HIDE DEF t
 <2>4. TargetFits(t, operations) BY <1>0, <1>1, <2>2 DEF HereOk, ScreenOk, TargetFits, CallFits, Early, IdleScreen
 <2>5. CallFits(t, operations, saved) BY <1>0, <1>1, <2>2 DEF HereOk, ScreenOk, CallFits, IdleScreen
 <2>6. StepFits(t, operations) BY <1>0, <1>1, <2>2 DEF HereOk, ScreenOk, StepFits, Early
 <2> QED BY <2>1, <2>2, <2>4, <2>5, <2>6, OnlyTheScreen DEF Show, ScreenOk
<1>2. CASE screens[p].step = "support"
 <2> DEFINE t == [screens[p] EXCEPT !.step = "sessions", !.error = "none"]
 <2>1. Show(p, t) /\ UNCHANGED <<vault, operations, sids, lastSid, seats, targets, saved, remembered>>
   BY <1>2, NextSteps DEF Advance, Steady
 <2>2. /\ t \in ScreenShape /\ t.step = "sessions" /\ t.busy = screens[p].busy /\ t.op = screens[p].op
       /\ t.open = screens[p].open /\ t.pending = screens[p].pending /\ t.target = screens[p].target
       /\ t.whole = screens[p].whole BY <1>0, WizardSteps DEF HereOk, ScreenShape, Errors
 <2> HIDE DEF t
 <2>4. TargetFits(t, operations) BY <1>0, <1>2, <2>2 DEF HereOk, ScreenOk, TargetFits, CallFits, Early, IdleScreen
 <2>5. CallFits(t, operations, saved) BY <1>0, <1>2, <2>2 DEF HereOk, ScreenOk, CallFits, IdleScreen
 <2>6. StepFits(t, operations) BY <1>0, <1>2, <2>2 DEF HereOk, ScreenOk, StepFits, Early
 <2> QED BY <2>1, <2>2, <2>4, <2>5, <2>6, OnlyTheScreen DEF Show, ScreenOk
<1>3. CASE screens[p].step = "sessions"
 <2> DEFINE t == [screens[p] EXCEPT !.step = "drafts", !.error = "none"]
 <2>1. Show(p, t) /\ UNCHANGED <<vault, operations, sids, lastSid, seats, targets, saved, remembered>>
   BY <1>3, NextSteps DEF Advance, Steady
 <2>2. /\ t \in ScreenShape /\ t.step = "drafts" /\ t.busy = screens[p].busy /\ t.op = screens[p].op
       /\ t.open = screens[p].open /\ t.pending = screens[p].pending /\ t.target = screens[p].target
       /\ t.whole = screens[p].whole BY <1>0, WizardSteps DEF HereOk, ScreenShape, Errors
 <2> HIDE DEF t
 <2>7. screens[p].busy = IdleScreen BY <1>3 DEF Advance, Free
 <2>4. TargetFits(t, operations) BY <1>0, <1>3, <2>2, <2>7 DEF HereOk, ScreenOk, TargetFits, CallFits, Early, IdleScreen
 <2>5. CallFits(t, operations, saved) BY <1>0, <1>3, <2>2, <2>7 DEF HereOk, ScreenOk, CallFits, IdleScreen
 <2>6. StepFits(t, operations) BY <1>0, <1>3, <2>2 DEF HereOk, ScreenOk, StepFits, Early
 <2> QED BY <2>1, <2>2, <2>4, <2>5, <2>6, OnlyTheScreen DEF Show, ScreenOk
<1>4. CASE screens[p].step = "drafts"
 <2> DEFINE t == [screens[p] EXCEPT !.step = "credentials", !.error = "none"]
 <2>1. Show(p, t) /\ UNCHANGED <<vault, operations, sids, lastSid, seats, targets, saved, remembered>>
   BY <1>4, NextSteps DEF Advance, Steady
 <2>2. /\ t \in ScreenShape /\ t.step = "credentials" /\ t.busy = screens[p].busy /\ t.op = screens[p].op
       /\ t.open = screens[p].open /\ t.pending = screens[p].pending /\ t.target = screens[p].target
       /\ t.whole = screens[p].whole BY <1>0, WizardSteps DEF HereOk, ScreenShape, Errors
 <2> HIDE DEF t
 <2>7. screens[p].busy = IdleScreen BY <1>4 DEF Advance, Free
 <2>4. TargetFits(t, operations) BY <1>0, <1>4, <2>2, <2>7 DEF HereOk, ScreenOk, TargetFits, CallFits, Early, IdleScreen
 <2>5. CallFits(t, operations, saved) BY <1>0, <1>4, <2>2, <2>7 DEF HereOk, ScreenOk, CallFits, IdleScreen
 <2>6. StepFits(t, operations) BY <1>0, <1>4, <2>2 DEF HereOk, ScreenOk, StepFits, Early
 <2> QED BY <2>1, <2>2, <2>4, <2>5, <2>6, OnlyTheScreen DEF Show, ScreenOk
<1> QED BY <1>1, <1>2, <1>3, <1>4 DEF Advance

\* The page is opened.
LEMMA VisitKeeps == ASSUME WizardInv, NEW p \in Screens, Visit(p) PROVE WizardInv'
<1>0. HereOk(p) BY HereIsOk
<1> DEFINE t == AskServer([Off EXCEPT !.step = "intro"], "load", "status")
<1>1. Show(p, t) /\ UNCHANGED <<vault, operations, sids, lastSid, seats, targets, saved, remembered>> BY DEF Visit, Steady
<1>4. PICK off \in ScreenShape : /\ off = Off /\ off.step = "off" /\ off.busy = IdleScreen /\ off.op = 0 /\ ~off.open
                                 /\ off.pending = 0 /\ off.target = 0 /\ ~off.whole BY OffIsOk DEF Off
<1>5. t = AskServer([off EXCEPT !.step = "intro"], "load", "status") BY <1>4 DEF Fresh
<1> HIDE DEF t
<1>6. off.step = "off" /\ off.busy = IdleScreen /\ off.op = 0 /\ ~off.open /\ off.pending = 0 /\ off.target = 0 /\ ~off.whole
  BY <1>4
<1>2. t \in ScreenShape /\ t.step = "intro" /\ t.busy = [flow |-> "load", call |-> "status", reply |-> "none"] /\ t.op = 0 /\ ~t.open /\ t.pending = 0 /\ t.target = 0 /\ ~t.whole
 <2> DEFINE u == [off EXCEPT !.step = "intro"]
            b == [flow |-> "load", call |-> "status", reply |-> "none"]
 <2>1. "intro" \in Step BY WizardSteps
 <2>2. /\ u \in ScreenShape /\ u.step = "intro" /\ u.op = 0 /\ ~u.open /\ u.pending = 0 /\ u.target = 0 /\ ~u.whole
   BY <1>6, <2>1 DEF ScreenShape
 <2>3. b \in Busy BY DEF Busy
 <2>4. t = [u EXCEPT !.busy = b, !.error = "none"] BY <1>5 DEF AskServer
 <2>5. "none" \in Errors BY DEF Errors
 <2> HIDE DEF u, b
 <2>6. /\ t \in ScreenShape /\ t.step = "intro" /\ t.busy = b /\ t.op = 0 /\ ~t.open
       /\ t.pending = 0 /\ t.target = 0 /\ ~t.whole BY <2>2, <2>3, <2>4, <2>5 DEF ScreenShape
 <2> QED BY <2>6 DEF b
<1>3. ScreenOk(t, operations, saved) BY <1>2 DEF ScreenOk, TargetFits, CallFits, StepFits, IdleScreen, Early
<1> QED BY <1>1, <1>2, <1>3, OnlyTheScreen DEF Show

\* The operation was cancelled.
LEMMA CancelledKeeps == ASSUME WizardInv, NEW p \in Screens, Cancelled(p) PROVE WizardInv'
<1>0. HereOk(p) BY HereIsOk
<1> DEFINE t == Fresh(p)
<1>1. Show(p, t) /\ UNCHANGED <<vault, operations, sids, lastSid, seats, targets, saved, remembered>> BY DEF Cancelled, Local
<1>4. PICK off \in ScreenShape : /\ off = Off /\ off.step = "off" /\ off.busy = IdleScreen /\ off.op = 0 /\ ~off.open
                                 /\ off.pending = 0 /\ off.target = 0 /\ ~off.whole BY OffIsOk DEF Off
<1>5. t = [off EXCEPT !.step = "intro", !.from = screens[p].from] BY <1>4 DEF Fresh
<1> HIDE DEF t
<1>6. off.step = "off" /\ off.busy = IdleScreen /\ off.op = 0 /\ ~off.open /\ off.pending = 0 /\ off.target = 0 /\ ~off.whole
  BY <1>4
<1>2. t \in ScreenShape /\ t.step = "intro" /\ t.busy = IdleScreen /\ t.op = 0 /\ ~t.open /\ t.pending = 0 /\ t.target = 0 /\ ~t.whole
  BY <1>0, WizardSteps, <1>5, <1>6 DEF HereOk, ScreenShape
<1>3. ScreenOk(t, operations, saved) BY <1>2 DEF ScreenOk, TargetFits, CallFits, StepFits, IdleScreen, Early
<1> QED BY <1>1, <1>2, <1>3, OnlyTheScreen DEF Show

\* The page is left.
LEMMA LeaveKeeps == ASSUME WizardInv, NEW p \in Screens, Leave(p) PROVE WizardInv'
<1>0. HereOk(p) BY HereIsOk
<1> DEFINE t == Off
<1>1. Show(p, t) /\ UNCHANGED <<vault, operations, sids, lastSid, seats, targets, saved, remembered>> BY DEF Leave, Steady
<1>4. PICK off \in ScreenShape : /\ off = Off /\ off.step = "off" /\ off.busy = IdleScreen /\ off.op = 0 /\ ~off.open
                                 /\ off.pending = 0 /\ off.target = 0 /\ ~off.whole BY OffIsOk DEF Off
<1>5. t = off BY <1>4 DEF Fresh
<1> HIDE DEF t
<1>2. t \in ScreenShape /\ t.step = "off" /\ t.busy = IdleScreen /\ t.op = 0 /\ ~t.open /\ t.pending = 0 /\ t.target = 0 /\ ~t.whole
  BY <1>0, <1>4, <1>5, WizardSteps DEF HereOk, ScreenShape, Busy, Errors
<1> HIDE DEF t
<1>3. ScreenOk(t, operations, saved) BY <1>2 DEF ScreenOk, TargetFits, CallFits, StepFits, IdleScreen, Early
<1> QED BY <1>1, <1>2, <1>3, OnlyTheScreen DEF Show

\* The operation was committed, or its answer was lost.
LEMMA CommittedKeeps == ASSUME WizardInv, NEW p \in Screens, Committed(p) PROVE WizardInv'
<1>0. HereOk(p) BY HereIsOk
<1> DEFINE t == [screens[p] EXCEPT !.busy.call = "clean", !.busy.reply = "none", !.open = FALSE, !.pending = 0]
           u == [screens[p] EXCEPT !.busy.call = "clean"]
           v == [u EXCEPT !.busy.reply = "none"]
<1>1. Show(p, t) /\ UNCHANGED <<vault, operations, sids, lastSid, seats, targets, saved, remembered>> BY DEF Committed, Local
<1>2. [screens[p].busy EXCEPT !.call = "clean"] \in Busy BY <1>0 DEF HereOk, Busy
<1>3. u \in ScreenShape /\ Alike(screens[p], u) /\ u.busy = [screens[p].busy EXCEPT !.call = "clean"]
  BY <1>0, <1>2 DEF HereOk, ScreenShape, Alike
<1>4. t = [v EXCEPT !.open = FALSE, !.pending = 0] /\ v = [u EXCEPT !.busy.reply = "none"] OBVIOUS
<1> HIDE DEF t, u, v
<1>5. u.busy \in Busy /\ [u.busy EXCEPT !.reply = "none"] \in Busy BY <1>2, <1>3 DEF Busy
<1>6. v \in ScreenShape /\ Alike(screens[p], v) /\ v.busy = [u.busy EXCEPT !.reply = "none"]
  BY <1>3, <1>4, <1>5 DEF ScreenShape, Alike
<1>7. /\ t \in ScreenShape /\ t.step = screens[p].step /\ t.busy = v.busy /\ t.op = screens[p].op /\ ~t.open
      /\ t.pending = 0 /\ t.target = screens[p].target /\ t.whole = screens[p].whole
  BY <1>4, <1>6, OpNumbers DEF ScreenShape, Alike
<1>8. t.busy.flow = "commit" /\ t.busy.call = "clean" /\ t.busy.reply = "none"
  BY <1>0, <1>3, <1>5, <1>6, <1>7 DEF HereOk, Busy, Committed, Gets
<1>9. screens[p].step = "commit" BY <1>0 DEF HereOk, ScreenOk, CallFits, Committed, Gets
<1>10. ScreenOk(t, operations, saved) BY <1>0, <1>7, <1>8, <1>9 DEF HereOk, ScreenOk, TargetFits, CallFits, StepFits, Early
<1> QED BY <1>1, <1>7, <1>10, OnlyTheScreen DEF Show

\* The passphrase opened the target, or did not.
LEMMA VerifiedKeeps == ASSUME WizardInv, NEW p \in Screens, Verified(p) PROVE WizardInv'
<1>0. HereOk(p) BY HereIsOk
<1>1. UNCHANGED <<vault, operations, sids, lastSid, seats, saved>> BY DEF Verified, Local
<1>2. CASE /\ Chosen(p) \in remembered \cup {Minted(p)} /\ Chosen(p) <= MaxTargets
           /\ targets' = IF Chosen(p) > targets THEN Chosen(p) ELSE targets
           /\ remembered' = remembered \cup {Chosen(p)}
           /\ Show(p, [Done(screens[p]) EXCEPT !.target = Chosen(p), !.verified = TRUE, !.step = "confirm"])
 <2> DEFINE t == [Done(screens[p]) EXCEPT !.target = Chosen(p), !.verified = TRUE, !.step = "confirm"]
 <2>1. Chosen(p) \in Target /\ targets' \in Target /\ remembered' \subseteq Target
   BY <1>0, OpNumbers, <1>2 DEF HereOk, ScreenShape, Target, Chosen, Minted
 <2>2. Chosen(p) # 0
   BY <1>0, OpNumbers DEF HereOk, Target, Chosen, Minted
 <2>3. /\ Done(screens[p]) \in ScreenShape /\ Alike(screens[p], Done(screens[p])) /\ Done(screens[p]).busy = IdleScreen
   BY <1>0, DoneIsOk DEF HereOk, Errors
 <2>4. /\ t \in ScreenShape /\ t.step = "confirm" /\ t.busy = IdleScreen /\ t.op = screens[p].op /\ t.open = screens[p].open
       /\ t.pending = screens[p].pending /\ t.target = Chosen(p) /\ t.whole = screens[p].whole
   BY <2>1, <2>3, WizardSteps DEF ScreenShape, Alike
 <2> HIDE DEF t
 <2>5. screens[p].step = "credentials" BY <1>0 DEF HereOk, ScreenOk, CallFits, Verified, Gets
 <2>6. screens[p].open => Chosen(p) = screens[p].pending
  <3> SUFFICES ASSUME screens[p].open PROVE screens[p].pending # 0 BY DEF Chosen
  <3>1. screens[p].op \in Op /\ screens[p].pending = operations[screens[p].op].key
        /\ operations[screens[p].op].phase # "none" BY <1>0, OpNumbers DEF HereOk, ScreenOk, TargetFits, ScreenShape
  <3> QED BY <1>0, <3>1 DEF HereOk, OpsOk
 <2>7. TargetFits(t, operations) BY <1>0, <2>4, <2>6 DEF HereOk, ScreenOk, TargetFits, Early, IdleScreen
 <2>8. CallFits(t, operations, saved) BY <2>4 DEF CallFits, IdleScreen
 <2>9. StepFits(t, operations) BY <1>0, <2>4, <2>5 DEF HereOk, ScreenOk, StepFits, Early
 <2>10. Show(p, t) BY <1>2 DEF t
 <2>11. saved \subseteq saved' /\ saved' \subseteq [op : 0 .. MaxOps, key : Target] /\ ScreenOk(t, operations, saved')
   BY <1>0, <1>1, <2>7, <2>8, <2>9 DEF HereOk, ScreenOk
 <2> QED BY <1>1, <2>1, <2>4, <2>10, <2>11, ScreenMoves DEF Show
<1>3. CASE /\ screens[p].pending # 0 /\ screens[p].pending \notin remembered
           /\ Show(p, Fails(screens[p], "passphrase"))
           /\ UNCHANGED <<targets, remembered>>
 <2> DEFINE t == Fails(screens[p], "passphrase")
 <2>1. Show(p, t) /\ UNCHANGED <<vault, operations, sids, lastSid, seats, targets, saved, remembered>> BY <1>1, <1>3
 <2>2. t \in ScreenShape /\ Alike(screens[p], t) /\ t.busy = IdleScreen BY <1>0 DEF HereOk, Alike, ScreenShape, Errors, Fails
 <2> HIDE DEF t
 <2>3. ScreenOk(t, operations, saved) BY <1>0, <2>2, CallEnds DEF HereOk
 <2> QED BY <2>1, <2>2, <2>3, OnlyTheScreen DEF Show
<1> QED BY <1>2, <1>3 DEF Verified

\* The scan of the inventory is asked for again.
LEMMA RescanKeeps == ASSUME WizardInv, NEW p \in Screens, Rescan(p) PROVE WizardInv'
<1>0. HereOk(p) BY HereIsOk
<1> DEFINE t == [screens[p] EXCEPT !.clean = seats[p] \notin unsaved']
<1>1. Show(p, t) /\ UNCHANGED <<vault, operations, sids, lastSid, seats, targets, saved, remembered>> BY DEF Rescan
<1>2. t \in ScreenShape /\ Alike(screens[p], t) /\ t.busy = IdleScreen BY <1>0 DEF HereOk, Alike, ScreenShape, Rescan, At, Free
<1> HIDE DEF t
<1>3. ScreenOk(t, operations, saved) BY <1>0, <1>2, CallEnds DEF HereOk
<1> QED BY <1>1, <1>2, <1>3, OnlyTheScreen DEF Show

\* The recovery file goes to the disk.
LEMMA SaveFileKeeps == ASSUME WizardInv, NEW p \in Screens, SaveFile(p) PROVE WizardInv'
<1>0. HereOk(p) BY HereIsOk
<1> DEFINE t == [screens[p] EXCEPT !.fileSaved = TRUE]
           file == [op |-> screens[p].op, key |-> screens[p].target]
<1>1. Show(p, t) /\ UNCHANGED <<vault, operations, sids, lastSid, seats, targets, remembered>> BY DEF SaveFile, Steady
<1>2. t \in ScreenShape /\ Alike(screens[p], t) /\ t.busy = IdleScreen
  BY <1>0 DEF HereOk, Alike, ScreenShape, SaveFile, At, Free
<1>3. file \in [op : 0 .. MaxOps, key : Target] BY <1>0 DEF HereOk, ScreenShape
<1>4. saved' \in {saved, saved \cup {file}} BY DEF SaveFile
<1> HIDE DEF t, file
<1>5. saved \subseteq saved' /\ saved' \subseteq [op : 0 .. MaxOps, key : Target] BY <1>0, <1>3, <1>4 DEF HereOk
<1>6. ScreenOk(t, operations, saved) BY <1>0, <1>2, CallEnds DEF HereOk
<1>7. ScreenOk(t, operations, saved') BY <1>0, <1>2, <1>5, <1>6, ScreenStays, NothingGrows DEF HereOk
<1>8. targets' \in Target /\ remembered' \subseteq Target BY <1>0, <1>1 DEF HereOk
<1> QED BY <1>1, <1>2, <1>5, <1>7, <1>8, ScreenMoves DEF Show

\* The confirmation is asked for when the file opens the target.
LEMMA ConfirmFileKeeps == ASSUME WizardInv, NEW p \in Screens, ConfirmFile(p) PROVE WizardInv'
<1>0. HereOk(p) /\ screens[p].step = "recovery" BY HereIsOk DEF ConfirmFile, At
<1>1. UNCHANGED <<vault, operations, sids, lastSid, seats, targets, saved, remembered>> BY DEF ConfirmFile, Steady
<1>2. PICK file \in saved : Show(p, IF Fits(p, file) THEN AskServer(screens[p], "confirm", "confirm") ELSE Fails(screens[p], "file"))
  BY DEF ConfirmFile
<1>3. CASE Fits(p, file)
 <2> DEFINE b == [flow |-> "confirm", call |-> "confirm", reply |-> "none"]
            t == [screens[p] EXCEPT !.busy = b, !.error = "none"]
 <2>1. b \in Busy /\ b.flow = "confirm" /\ b.call = "confirm" /\ b.reply = "none" BY DEF Busy
 <2>2. Show(p, t) BY <1>2, <1>3 DEF AskServer
 <2>3. [op |-> screens[p].op, key |-> screens[p].target] \in saved
   BY <1>0, <1>2, <1>3 DEF HereOk, Fits
 <2> HIDE DEF b
 <2>4. t \in ScreenShape /\ Alike(screens[p], t) /\ t.busy = b BY <1>0, <2>1 DEF HereOk, Alike, ScreenShape, Errors
 <2> HIDE DEF t
 <2>5. CallFits(t, operations, saved) /\ t.busy.reply # "ok" BY <1>0, <2>1, <2>3, <2>4 DEF CallFits, Alike
 <2>6. ScreenOk(t, operations, saved) BY <1>0, <2>4, <2>5, CallChanges DEF HereOk
 <2> QED BY <1>1, <2>2, <2>4, <2>6, OnlyTheScreen DEF Show
<1>4. CASE ~Fits(p, file)
 <2> DEFINE t == Fails(screens[p], "file")
 <2>1. Show(p, t) BY <1>2, <1>4
 <2>2. t \in ScreenShape /\ Alike(screens[p], t) /\ t.busy = IdleScreen BY <1>0 DEF HereOk, Alike, ScreenShape, Errors, Fails
 <2> HIDE DEF t
 <2>3. ScreenOk(t, operations, saved) BY <1>0, <2>2, CallEnds DEF HereOk
 <2> QED BY <1>1, <2>1, <2>2, <2>3, OnlyTheScreen DEF Show
<1> QED BY <1>3, <1>4

\* What happens around the pages: some are turned off, the rest stands.
LEMMA Elsewhere ==
  ASSUME WizardInv, UNCHANGED <<vault, operations, saved, seats, targets>>, sids' \in [Machines -> Nat], lastSid' \in Nat,
         remembered' \subseteq Target, screens' \in [Screens -> ScreenShape],
         \A p \in Screens : screens'[p] \in {Off, screens[p]}
  PROVE  WizardInv'
<1>1. WizardShape' BY DEF WizardInv, WizardShape
<1>2. OpsOk(operations, vault.active, saved)' BY DEF WizardInv
<1>3. \A q \in Screens : ScreenOk(screens'[q], operations', saved') BY OffIsOk DEF WizardInv
<1> QED BY <1>1, <1>2, <1>3 DEF WizardInv

\* A machine that signs in or out has its pages off.
LEMMA SignsKeep == ASSUME WizardInv, NEW m \in Machines, SignsIn(m) \/ SignsOut(m) PROVE WizardInv'
<1>1. /\ screens \in [Screens -> ScreenShape] /\ sids \in [Machines -> Nat] /\ lastSid \in Nat /\ remembered \subseteq Target
  BY DEF WizardInv, WizardShape
<1>2. screens' = [p \in Screens |-> IF seats[p] = m THEN Off ELSE screens[p]]
      /\ UNCHANGED <<vault, operations, saved, seats, targets, remembered>> BY DEF SignsIn, SignsOut
<1>3. Off \in ScreenShape BY OffIsOk
<1>4. screens' \in [Screens -> ScreenShape] /\ \A p \in Screens : screens'[p] \in {Off, screens[p]} BY <1>1, <1>2, <1>3
<1>5. sids' \in [Machines -> Nat] /\ lastSid' \in Nat BY <1>1 DEF SignsIn, SignsOut
<1> QED BY <1>1, <1>2, <1>4, <1>5, Elsewhere

\* What is remembered of the old keys and the drafts does not touch the rest.
LEMMA OthersKeep ==
  ASSUME WizardInv, (\E key \in Target : Forget(key)) \/ (\E m \in Machines : WriteDraft(m)) \/ UNCHANGED wizardVars
  PROVE  WizardInv'
<1>1. /\ screens \in [Screens -> ScreenShape] /\ sids \in [Machines -> Nat] /\ lastSid \in Nat /\ remembered \subseteq Target
  BY DEF WizardInv, WizardShape
<1>2. UNCHANGED <<vault, operations, saved, seats, targets, sids, lastSid, screens>> /\ remembered' \subseteq remembered
  BY DEF Forget, WriteDraft, wizardVars
<1> QED BY <1>1, <1>2, Elsewhere

\* It holds to begin with.
LEMMA WizardStarts == WizardInit => WizardInv
<1> SUFFICES ASSUME WizardInit PROVE WizardInv OBVIOUS
<1>1. Cardinality(Machines) \in Nat BY WizardAssumption, FS_CardinalityType
<1>2. WizardShape
 <2>1. vault \in [gen : Nat, key : Target, active : 0 .. MaxOps] BY OpNumbers DEF WizardInit
 <2>2. Missing \in OpShape BY OpNumbers DEF Missing, OpShape, Op, Target
 <2>3. operations \in [Op -> OpShape] BY <2>2 DEF WizardInit
 <2>4. sids \in [Machines -> Nat] /\ lastSid \in Nat BY <1>1 DEF WizardInit
 <2>5. screens \in [Screens -> ScreenShape] BY OffIsOk DEF WizardInit
 <2>6. targets \in Target /\ remembered \subseteq Target /\ seats \in [Screens -> Machines]
   BY OpNumbers, WizardAssumption DEF WizardInit
 <2>7. saved \subseteq [op : 0 .. MaxOps, key : Target] BY OpNumbers DEF WizardInit
 <2> QED BY <2>1, <2>3, <2>4, <2>5, <2>6, <2>7 DEF WizardShape
<1>3. OpsOk(operations, vault.active, saved)
 <2>1. \A o \in Op : operations[o].phase = "none" /\ ~operations[o].recovered /\ \A i \in OpItems : operations[o].staged[i] = 0
   BY DEF WizardInit, Missing
 <2>2. \A o \in Op : operations[o].phase # "none" <=> o <= 0 BY <2>1, OpNumbers DEF Op
 <2>3. vault.active = 0 BY DEF WizardInit
 <2> QED BY <2>1, <2>2, <2>3, OpNumbers DEF OpsOk
<1>4. \A p \in Screens : ScreenOk(screens[p], operations, saved) BY OffIsOk DEF WizardInit
<1> QED BY <1>2, <1>3, <1>4 DEF WizardInv

\* Every step keeps it.
LEMMA WizardStepKeeps == WizardInv /\ [WizardNext]_wizardVars => WizardInv'
<1> SUFFICES ASSUME WizardInv, [WizardNext]_wizardVars PROVE WizardInv' OBVIOUS
<1>1. ASSUME NEW p \in Screens, Answer(p) \/ Lost(p) PROVE WizardInv' BY <1>1, AnswersKeep
<1>2. ASSUME NEW p \in Screens, Reads(p) PROVE WizardInv'
  BY <1>2, RefusedBeginKeeps, LoadedKeeps, RevokedKeeps, ListedKeeps, ListedForEscapeKeeps, VerifiedKeeps,
     ListedForBeginKeeps, StartedKeeps, StagedKeeps, ConfirmedKeeps, CommittedKeeps, CleansUpKeeps, CancelledKeeps DEF Reads
<1>3. ASSUME NEW p \in Screens, Presses(p) PROVE WizardInv'
  BY <1>3, VisitKeeps, AdvanceKeeps, PressRevokeKeeps, AcknowledgeKeeps, RescanKeeps, VerifyKeeps, BeginKeeps,
     ProcessOpKeeps, PauseProcessKeeps, SaveFileKeeps, ConfirmFileKeeps, PressActivateKeeps, CancelKeeps,
     RevokeAndCancelKeeps, LeaveKeeps DEF Presses
<1>4. ASSUME NEW m \in Machines, SignsIn(m) \/ SignsOut(m) PROVE WizardInv' BY <1>4, SignsKeep
<1>5. ASSUME (\E key \in Target : Forget(key)) \/ (\E m \in Machines : WriteDraft(m)) \/ UNCHANGED wizardVars PROVE WizardInv'
  BY <1>5, OthersKeep
<1> QED BY <1>1, <1>2, <1>3, <1>4, <1>5 DEF WizardNext

\* What the property says is part of it.
LEMMA WizardInvIsEnough == WizardInv => WizardIsSound
<1> SUFFICES ASSUME WizardInv PROVE WizardIsSound OBVIOUS
<1>1. StagesUnderItsKey /\ RecoveryOpensIt BY DEF WizardInv, OpsOk, StagesUnderItsKey, RecoveryOpensIt
<1>2. OffersWhatIsReady
 <2> SUFFICES ASSUME NEW p \in Screens, vault.active # 0, screens[p].op = vault.active
              PROVE  /\ screens[p].step \in {"recovery", "commit"} => Whole(vault.active)
                     /\ screens[p].step = "commit" => operations[vault.active].recovered BY DEF OffersWhatIsReady
 <2> QED BY DEF WizardInv, ScreenOk, StepFits, WholeRow, Whole
<1> QED BY <1>1, <1>2 DEF WizardIsSound

(***************************************************************************)
(* Over any number of machines, pages, operations, targets and items, with *)
(* sessions that end, calls that are lost and pages that are closed at any *)
(* point: nothing is staged under another key than the operation's, a      *)
(* recovery file that was confirmed is on a disk and opens the target, and *)
(* a page offers the file only when all is staged and the activation only  *)
(* when the file was confirmed (rotate-keys/page.tsx, service.ts).         *)
(***************************************************************************)
THEOREM WizardStaysSound == WizardSpec => []WizardIsSound
<1>1. WizardSpec => []WizardInv BY WizardStarts, WizardStepKeeps, PTL DEF WizardSpec
<1> QED BY <1>1, WizardInvIsEnough, PTL
=============================================================================
