---------------------------- MODULE VaultKey_proofs ----------------------------
(***************************************************************************)
(* The vault key in the profile and in a tab.  While a profile stands its  *)
(* key stands, whatever the browsers hold from before a reset, and nothing *)
(* is stored under a key the server never had a share of; and a Seal under *)
(* a lock is edited by its author or covered: for any number of browsers,  *)
(* tables, resets, saves and locks.                                        *)
(***************************************************************************)
EXTENDS VaultReset, VaultLock, SequenceTheorems, TLAPS


\* What a browser fetched, keeps or sends was once the profile's.
HeldKeys ==
  \A d \in Devices :
    /\ read[d] # None => read[d].key \in ever
    /\ stored[d] # None => stored[d].key \in ever
    /\ call[d] # None => /\ call[d].op \in {"update", "backfill", "write"} => call[d].key \in ever
                         /\ call[d].op = "create" => call[d].key \in Keys
                         /\ call[d].op = "write" => call[d].at \in 1..Tables

ProfileKnown == profile # None => profile.key \in ever

\* A profile without a label is the one the account came with: there has been
\* no other, so nobody can hold the key of another.
UnlabelledIsFirst == profile # None /\ profile.id = None => ever \subseteq {Genesis}

IInv ==
  /\ TypeOK
  /\ IdNamesTheKey
  /\ KeysWereSharedFirst
  /\ HeldKeys
  /\ ProfileKnown
  /\ UnlabelledIsFirst

\* Fetched material is the profile's or what the browser stored; both were the
\* profile's once, and so is what is stored afterwards.
LEMMA FetchHeld ==
  ASSUME IInv, NEW d \in Devices, NEW material \in Material, Fetch(d, material)
  PROVE  /\ material.key \in ever
         /\ stored' \in [Devices -> Material \cup {None}]
         /\ \A x \in Devices : stored'[x] # None => stored'[x].key \in ever
BY NoneAssumption DEF IInv, TypeOK, HeldKeys, ProfileKnown, Fetch

\* Requests are well formed.
LEMMA RequestType ==
  ASSUME NEW op \in {"create", "update", "backfill", "write", "erase"},
         NEW key \in Keys \cup {None}, NEW at \in 0..LastStep
  PROVE  /\ Request(op, key, at) \in Call /\ Request(op, key, at) # None
         /\ Request(op, key, at).op = op
         /\ Request(op, key, at).key = key
         /\ Request(op, key, at).at = at
BY NoneAssumption DEF Request, Call

\* An accepted update or backfill carries the key the profile already has.
LEMMA AcceptedIsTheKey ==
  ASSUME IInv, NEW key \in ever, Accepts(key)
  PROVE  profile.key = key /\ profile # None /\ profile \in Material /\ key \in Keys
<1>1. profile # None /\ profile \in Material /\ profile.key \in ever /\ key \in Keys BY DEF IInv, TypeOK, ProfileKnown, Accepts
<1>2. CASE profile.id = None BY <1>1, <1>2 DEF IInv, UnlabelledIsFirst
<1>3. CASE profile.id = key
  BY <1>1, NoneAssumption, <1>3 DEF IInv, IdNamesTheKey
<1> QED BY <1>2, <1>3 DEF Accepts

\* A new account, a legacy one and a current one.
LEMMA InitIInv == Init => IInv
<1> SUFFICES ASSUME Init PROVE IInv OBVIOUS
<1>1. Genesis \in Keys /\ LastStep \in Nat /\ 0 \in 0..LastStep BY ResetAssumption DEF Keys, Genesis, LastStep
<1>2. profile \in Material \cup {None} BY <1>1 DEF Init, Material
<1>3. \A d \in Devices : read[d] = None /\ stored[d] = None /\ share[d] = None /\ mek[d] = None /\ call[d] = None
  BY DEF Init, Free
<1>4. TypeOK BY <1>1, <1>2 DEF Init, Free, TypeOK
<1>5. profile # None => profile.key = Genesis /\ profile.id \in {Genesis, None} /\ ever = {Genesis} BY DEF Init
<1>6. IdNamesTheKey /\ ProfileKnown /\ UnlabelledIsFirst BY <1>5 DEF IdNamesTheKey, ProfileKnown, UnlabelledIsFirst
<1>7. rows = {} BY DEF Init
<1> QED BY <1>3, <1>4, <1>6, <1>7 DEF IInv, KeysWereSharedFirst, HeldKeys

\* What the browser does on its own touches neither profile nor rows.
LEMMA BrowserStep == ASSUME IInv, NEW d \in Devices, Browser(d) PROVE IInv'
<1> USE NoneAssumption
<1>a. /\ TypeOK /\ HeldKeys /\ KeysWereSharedFirst
      /\ ever \subseteq Keys BY DEF IInv, TypeOK
<1>b. ASSUME UNCHANGED serverVars, TypeOK', HeldKeys',
             \A x \in Devices : {mek'[x], share'[x]} \subseteq ever \cup {None}
      PROVE  IInv' BY <1>b DEF IInv, serverVars, IdNamesTheKey, KeysWereSharedFirst, ProfileKnown, UnlabelledIsFirst
<1>z. ResetAssumption /\ LastStep = Tables + 1 /\ 0 \in 0..LastStep BY ResetAssumption DEF LastStep
<1>1. CASE Prompt(d)
 <2>1. PICK material \in Material : Fetch(d, material) /\ read' = [read EXCEPT ![d] = material] BY <1>1 DEF Prompt
 <2>2. TypeOK' BY <1>1, <1>a, <2>1, FetchHeld DEF Prompt, TypeOK, serverVars
 <2>3. HeldKeys' BY <1>1, <1>a, <2>1, FetchHeld DEF Prompt, HeldKeys, TypeOK, serverVars
 <2> QED BY <1>1, <1>a, <1>b, <2>2, <2>3 DEF Prompt, KeysWereSharedFirst
<1>2. CASE Dismiss(d)
  BY <1>2, <1>a, <1>b DEF Dismiss, TypeOK, HeldKeys, serverVars, KeysWereSharedFirst
<1>c. ASSUME NEW material \in Material, material.key \in ever, Label(d, material)
      PROVE  /\ call' \in [Devices -> Call \cup {None}]
             /\ \A x \in Devices : call'[x] = call[x] \/ (call'[x].op = "backfill" /\ call'[x].key \in ever)
 <2>1. Request("backfill", material.key, 0) \in Call
       /\ Request("backfill", material.key, 0).op = "backfill"
       /\ Request("backfill", material.key, 0).key = material.key BY <1>c, <1>a, <1>z, RequestType
 <2> QED BY <1>c, <1>a, <2>1 DEF Label, Send, TypeOK
<1>3. CASE Unlock(d)
  BY <1>3, <1>a, <1>c, <1>b DEF Unlock, TypeOK, HeldKeys, serverVars, KeysWereSharedFirst
<1>4. CASE Rehydrate(d)
 <2>1. PICK material \in Material :
         /\ Fetch(d, material)
         /\ \/ /\ material.key = share[d] /\ Identified(material)
               /\ mek' = [mek EXCEPT ![d] = material.key]
               /\ Label(d, material)
               /\ UNCHANGED share
            \/ /\ material.key # share[d]
               /\ share' = [share EXCEPT ![d] = None]
               /\ UNCHANGED <<mek, call>> BY <1>4 DEF Rehydrate
 <2>2. material.key \in ever /\ material.key \in Keys BY <1>a, <2>1, FetchHeld
 <2>3. /\ call' \in [Devices -> Call \cup {None}]
       /\ \A x \in Devices : call'[x] = call[x] \/ (call'[x].op = "backfill" /\ call'[x].key \in ever)
   BY <1>a, <1>c, <2>1, <2>2 DEF TypeOK
 <2>4. TypeOK' BY <1>4, <1>a, <2>1, <2>2, <2>3, FetchHeld DEF Rehydrate, TypeOK, serverVars
 <2>5. HeldKeys' BY <1>4, <1>a, <2>1, <2>3, FetchHeld DEF Rehydrate, HeldKeys, serverVars
 <2>6. \A x \in Devices : {mek'[x], share'[x]} \subseteq ever \cup {None} BY <1>a, <2>1, <2>2 DEF TypeOK, KeysWereSharedFirst
 <2> QED BY <1>4, <1>b, <2>4, <2>5, <2>6 DEF Rehydrate
<1>5. CASE SoftLock(d) \/ Lock(d)
  BY <1>5, <1>a, <1>b DEF SoftLock, Lock, TypeOK, HeldKeys, serverVars, KeysWereSharedFirst
<1>6. CASE Setup(d)
 <2> DEFINE key == made + 1
 <2>1. key \in Keys /\ made' = key BY <1>6, <1>a, <1>z DEF Setup, TypeOK, Keys, ResetAssumption
 <2> HIDE DEF key
 <2>2. Request("create", key, 0) \in Call
       /\ Request("create", key, 0).op = "create"
       /\ Request("create", key, 0).key = key BY <2>1, <1>z, RequestType
 <2>3. call' = [call EXCEPT ![d] = Request("create", key, 0)] BY <1>6 DEF Setup, Send, key
 <2>4. TypeOK' BY <1>6, <1>a, <2>1, <2>2, <2>3 DEF Setup, TypeOK, serverVars
 <2>5. HeldKeys' BY <1>6, <1>a, <2>1, <2>2, <2>3 DEF Setup, HeldKeys, TypeOK, serverVars
 <2> QED BY <1>6, <1>a, <1>b, <2>4, <2>5 DEF Setup, KeysWereSharedFirst
<1>7. CASE ChangePassphrase(d)
  BY <1>7, <1>a, <1>z, RequestType, <1>b DEF ChangePassphrase, TypeOK, HeldKeys, Send, serverVars, KeysWereSharedFirst
<1>8. CASE EraseNext(d)
 <2>1. flow[d] + 1 \in 0..LastStep BY <1>8, <1>a, <1>z DEF EraseNext, TypeOK, ResetAssumption
 <2>2. Request("erase", None, flow[d] + 1) \in Call
       /\ Request("erase", None, flow[d] + 1).op = "erase" BY <2>1, RequestType
 <2>3. TypeOK' /\ HeldKeys' BY <1>8, <1>a, <2>2 DEF EraseNext, Send, TypeOK, HeldKeys, serverVars
 <2> QED BY <1>8, <1>a, <1>b, <2>3 DEF EraseNext, KeysWereSharedFirst
<1>9. CASE LeaveErase(d)
  BY <1>9, <1>a, <1>z, <1>b DEF LeaveErase, TypeOK, HeldKeys, serverVars, KeysWereSharedFirst
<1> QED BY <1>1, <1>2, <1>3, <1>4, <1>5, <1>6, <1>7, <1>8, <1>9 DEF Browser

\* What the server does with a request, and the browser with its reply.
LEMMA ServerStep ==
  ASSUME IInv, NEW d \in Devices, Server(d)
  PROVE  IInv' /\ (profile # None /\ profile' # None => profile'.key = profile.key)
<1> USE NoneAssumption
<1>a. TypeOK /\ HeldKeys /\ KeysWereSharedFirst /\ IdNamesTheKey /\ ProfileKnown /\ UnlabelledIsFirst /\ ever \subseteq Keys
  BY DEF IInv, TypeOK
<1>b. ASSUME UNCHANGED <<profile, rows, ever>>, TypeOK', HeldKeys',
             \A x \in Devices : {mek'[x], share'[x]} \subseteq ever \cup {None}
      PROVE  IInv' BY <1>a, <1>b DEF IInv, IdNamesTheKey, KeysWereSharedFirst, ProfileKnown, UnlabelledIsFirst
<1>c. ASSUME call' = [call EXCEPT ![d] = None]
      PROVE  call' \in [Devices -> Call \cup {None}] /\ \A x \in Devices : call'[x] = call[x] \/ call'[x] = None
  BY <1>a, <1>c DEF TypeOK
<1>1. CASE Create(d)
 <2> DEFINE key == call[d].key
 <2>1. key \in Keys /\ key # None BY <1>1, <1>a DEF Create, Arrives, HeldKeys
 <2>2. CASE profile # None
   BY <1>1, <1>a, <1>c, <2>2, <1>b DEF Create, Arrives, TypeOK, HeldKeys, serverVars, KeysWereSharedFirst
 <2>3. CASE profile = None
  <3> HIDE DEF key
  <3>1. /\ profile' = [key |-> key, id |-> key]
        /\ ever' = ever \cup {key} /\ rows' = rows
        /\ \/ share' = [share EXCEPT ![d] = key] /\ mek' = [mek EXCEPT ![d] = key]
           \/ UNCHANGED <<share, mek>>
        /\ UNCHANGED <<read, stored, flow, made>>
        /\ call' = [call EXCEPT ![d] = None] BY <1>1, <2>3 DEF Create, Arrives, key
  <3>2. profile' \in Material BY <2>1, <3>1 DEF Material
  <3>3. TypeOK' BY <1>a, <1>c, <2>1, <3>1, <3>2 DEF TypeOK
  <3>4. HeldKeys' BY <1>a, <1>c, <3>1 DEF HeldKeys
  <3>5. IdNamesTheKey' /\ ProfileKnown' /\ UnlabelledIsFirst' BY <2>1, <3>1 DEF IdNamesTheKey, ProfileKnown, UnlabelledIsFirst
  <3>6. KeysWereSharedFirst' BY <1>a, <3>1 DEF KeysWereSharedFirst, TypeOK
  <3> QED BY <2>3, <3>3, <3>4, <3>5, <3>6 DEF IInv
 <2> QED BY <2>2, <2>3
<1>2. CASE Update(d)
 <2> DEFINE key == call[d].key
 <2>1. key \in ever BY <1>2, <1>a DEF Update, Arrives, HeldKeys
 <2>2. CASE ~Accepts(key)
   BY <1>2, <2>2, <1>a, <1>c, <1>b DEF Update, serverVars, Arrives, TypeOK, HeldKeys, KeysWereSharedFirst
 <2>3. CASE Accepts(key)
  <3> HIDE DEF key
  <3>0. profile.key = key /\ profile # None /\ profile \in Material /\ key \in Keys /\ key # None
    BY <2>1, <2>3, AcceptedIsTheKey
  <3>1. /\ profile' = [key |-> key, id |-> IF profile.id = None THEN key ELSE profile.id]
        /\ ever' = ever \cup {key} /\ rows' = rows
        /\ \/ /\ stored' = [stored EXCEPT ![d] = IF KeepsShare THEN [key |-> key, id |-> key] ELSE None]
              /\ share' = [share EXCEPT ![d] = key]
              /\ read' = [read EXCEPT ![d] = None]
           \/ UNCHANGED <<read, stored, share>>
        /\ UNCHANGED <<mek, flow, made>>
        /\ call' = [call EXCEPT ![d] = None] BY <1>2, <2>3 DEF Update, Arrives, key
  <3>2. ever' = ever /\ profile'.key = key BY <2>1, <3>1
  <3>3. profile' \in Material /\ [key |-> key, id |-> key] \in Material /\ profile'.id = key
    BY <1>a, <2>3, <3>0, <3>1 DEF Material, IdNamesTheKey
  <3>4. TypeOK' BY <1>a, <1>c, <3>0, <3>1, <3>2, <3>3 DEF TypeOK
  <3>5. HeldKeys' BY <1>a, <1>c, <2>1, <3>1, <3>2 DEF HeldKeys, TypeOK
  <3>6. IdNamesTheKey' /\ ProfileKnown' /\ UnlabelledIsFirst'
    BY <2>1, <3>0, <3>2, <3>3 DEF IdNamesTheKey, ProfileKnown, UnlabelledIsFirst
  <3>7. KeysWereSharedFirst' BY <1>a, <2>1, <3>1, <3>2 DEF KeysWereSharedFirst, TypeOK
  <3> QED BY <3>0, <3>2, <3>4, <3>5, <3>6, <3>7 DEF IInv
 <2> QED BY <2>2, <2>3
<1>3. CASE Backfill(d)
 <2> DEFINE key == call[d].key
 <2>1. key \in ever /\ UNCHANGED <<rows, ever, read, stored, share, mek, flow, made>> /\ call' = [call EXCEPT ![d] = None]
   BY <1>3, <1>a DEF Backfill, Arrives, HeldKeys
 <2>2. HeldKeys' /\ KeysWereSharedFirst' BY <1>a, <1>c, <2>1 DEF HeldKeys, KeysWereSharedFirst
 <2>3. CASE ~Accepts(key)
  <3>1. profile' = profile BY <1>3, <2>3 DEF Backfill
  <3>2. TypeOK' BY <1>a, <1>c, <2>1, <3>1 DEF TypeOK
  <3> QED BY <1>a, <1>b, <2>1, <2>2, <3>1, <3>2 DEF KeysWereSharedFirst
 <2>4. CASE Accepts(key)
  <3>1. profile' = [profile EXCEPT !.id = key] BY <1>3, <2>4 DEF Backfill
  <3> HIDE DEF key
  <3>2. profile.key = key /\ profile # None /\ profile \in Material /\ key \in Keys /\ key # None
    BY <2>1, <2>4, AcceptedIsTheKey
  <3>3. profile' \in Material /\ profile'.key = key /\ profile'.id = key /\ profile' # None BY <3>1, <3>2 DEF Material
  <3>4. TypeOK' BY <1>a, <1>c, <2>1, <3>3 DEF TypeOK
  <3>5. IdNamesTheKey' /\ ProfileKnown' /\ UnlabelledIsFirst'
    BY <2>1, <3>2, <3>3 DEF IdNamesTheKey, ProfileKnown, UnlabelledIsFirst
  <3> QED BY <2>2, <3>2, <3>3, <3>4, <3>5 DEF IInv
 <2> QED BY <2>3, <2>4
<1>4. CASE Write(d)
 <2>1. /\ call[d].key \in ever /\ call[d].at \in 1..Tables
       /\ rows' = rows \cup {<<call[d].at, call[d].key>>}
       /\ UNCHANGED <<profile, ever, read, stored, share, mek, flow, made>> /\ call' = [call EXCEPT ![d] = None]
   BY <1>4, <1>a DEF Write, Arrives, HeldKeys
 <2>2. TypeOK' BY <1>a, <1>c, <2>1 DEF TypeOK
 <2>3. HeldKeys' /\ KeysWereSharedFirst' BY <1>a, <1>c, <2>1 DEF HeldKeys, KeysWereSharedFirst
 <2> QED BY <1>a, <2>1, <2>2, <2>3 DEF IInv, IdNamesTheKey, ProfileKnown, UnlabelledIsFirst
<1>5. CASE Erase(d)
 <2>1. /\ rows' \subseteq rows
       /\ profile' \in {profile, None}
       /\ flow' = [flow EXCEPT ![d] = call[d].at] \/ UNCHANGED flow
       /\ call[d] \in Call
       /\ UNCHANGED <<ever, read, stored, share, mek, made>> /\ call' = [call EXCEPT ![d] = None]
   BY <1>5, <1>a DEF Erase, Arrives, TypeOK
 <2>2. TypeOK' BY <1>a, <1>c, <2>1 DEF TypeOK, Call
 <2>3. HeldKeys' /\ KeysWereSharedFirst' BY <1>a, <1>c, <2>1 DEF HeldKeys, KeysWereSharedFirst
 <2> QED BY <1>a, <2>1, <2>2, <2>3 DEF IInv, IdNamesTheKey, ProfileKnown, UnlabelledIsFirst
<1>6. CASE Lose(d)
  BY <1>6, <1>a, <1>c, <1>b DEF Lose, serverVars, TypeOK, HeldKeys, KeysWereSharedFirst
<1> QED BY <1>1, <1>2, <1>3, <1>4, <1>5, <1>6 DEF Server

\* A save from an open vault is under a key that vault had.
LEMMA SaveStep == ASSUME IInv, NEW d \in Devices, NEW t \in 1..Tables, Save(d, t) PROVE IInv'
<1> USE NoneAssumption
<1>1. TypeOK /\ HeldKeys /\ KeysWereSharedFirst /\ mek[d] \in ever /\ mek[d] \in Keys
  BY DEF IInv, Save, TypeOK, KeysWereSharedFirst
<1>2. t \in 0..LastStep BY ResetAssumption DEF LastStep
<1>3. Request("write", mek[d], t) \in Call
      /\ Request("write", mek[d], t).op = "write"
      /\ Request("write", mek[d], t).key = mek[d]
      /\ Request("write", mek[d], t).at = t BY <1>1, <1>2, RequestType
<1>4. TypeOK' /\ HeldKeys' BY <1>1, <1>3 DEF Save, Send, TypeOK, HeldKeys, serverVars
<1> QED BY <1>4 DEF IInv, Save, serverVars, IdNamesTheKey, KeysWereSharedFirst, ProfileKnown, UnlabelledIsFirst

\* Every step keeps the invariant, and the key of a profile that stands.
LEMMA ResetStep ==
  ASSUME IInv, [Next]_vars
  PROVE  IInv' /\ (profile # None /\ profile' # None => profile'.key = profile.key)
<1>1. CASE UNCHANGED vars
  BY <1>1 DEF vars, IInv, TypeOK, IdNamesTheKey, KeysWereSharedFirst, HeldKeys, ProfileKnown, UnlabelledIsFirst
<1>2. ASSUME NEW d \in Devices, Browser(d) PROVE IInv' /\ profile' = profile
 <2>1. profile' = profile
   BY <1>2 DEF Browser, Prompt, Dismiss, Unlock, Rehydrate, SoftLock, Lock, Setup, ChangePassphrase, EraseNext, LeaveErase, serverVars
 <2> QED BY <1>2, <2>1, BrowserStep
<1>3. ASSUME NEW d \in Devices, NEW t \in 1..Tables, Save(d, t) PROVE IInv' /\ profile' = profile
  BY <1>3, SaveStep DEF Save, serverVars
<1>4. ASSUME NEW r \in rows, Drop(r) PROVE IInv' /\ profile' = profile
 <2>1. rows' \subseteq rows /\ UNCHANGED <<profile, ever, read, stored, share, mek, call, flow, made>> BY <1>4 DEF Drop
 <2> QED BY <2>1 DEF IInv, TypeOK, IdNamesTheKey, KeysWereSharedFirst, HeldKeys, ProfileKnown, UnlabelledIsFirst
<1> QED BY <1>1, <1>2, <1>3, <1>4, ServerStep DEF Next, vars

\* While a profile stands its key stands: neither a passphrase change nor a
\* recovery nor a backfill from before a reset replaces the new key.
THEOREM KeyStands == Spec => ProfileKeyStands
<1>1. IInv /\ [Next]_vars => [profile # None /\ profile' # None => profile'.key = profile.key]_vars BY ResetStep
<1> QED BY <1>1, InitIInv, ResetStep, PTL DEF Spec, ProfileKeyStands

\* The label of the profile never names another key than its material opens to.
THEOREM LabelNamesTheKey == Spec => []IdNamesTheKey
<1>1. IInv => IdNamesTheKey BY DEF IInv
<1> QED BY <1>1, InitIInv, ResetStep, PTL DEF Spec

\* Every stored row, and every open vault, is under a key the server had a share of.
THEOREM SharedFirst == Spec => []KeysWereSharedFirst
<1>1. IInv => KeysWereSharedFirst BY DEF IInv
<1> QED BY <1>1, InitIInv, ResetStep, PTL DEF Spec

-----------------------------------------------------------------------------
(* The vault's lock: the inductive invariant.                              *)

LockRow == [key : BOOLEAN, fresh : BOOLEAN, soft : BOOLEAN, share : Nat, stamp : {NoAct, "young", "old"},
            hidden : BOOLEAN, hard : BOOLEAN]
EditorRow == [open : BOOLEAN, editing : BOOLEAN, note : Nat, content : Nat, base : Nat, timer : Nat,
              history : BOOLEAN, due : BOOLEAN, opening : Nat, after : BOOLEAN]
SendRow == [text : Nat, heard : BOOLEAN]
PromptRow == [by : {NoAct, "reveal", "guard", "left"}, material : Nat, typed : Nat]
Deeds == {"decrypt", "history", "open", "save"}

\* The lock, the editor and its saves.
TabShape == lock \in LockRow /\ editor \in EditorRow /\ sends \in Seq(SendRow)

\* What surrounds them.
AroundShape ==
    /\ server \in [pass : Nat, body : Nat] /\ disk \in Nat /\ asks \in [{"mount", "reveal", "action"} -> Nat]
    /\ prompt \in PromptRow
    /\ guard = NoGuard \/ guard \in [act : Deeds, text : Nat]
    /\ wish \in Deeds \cup {NoAct}

\* No answer of a save reaches the editor.
Silent(s) == \A i \in DOMAIN s : ~s[i].heard

\* The key is there where it is fresh; an editor a hard lock has met is editing, or closed;
\* and a Seal under a lock is edited, or will be covered, or has no text to come.
Covers(l, e, s) ==
    /\ l.fresh => l.key
    /\ e.open /\ e.due => e.editing
    /\ ~e.open => Silent(s)
    /\ Seal /\ ~l.key /\ e.open =>
         \/ l.soft /\ (e.editing \/ e.content = Nil)
         \/ e.due /\ e.editing
         \/ e.opening = Nil /\ ~e.editing /\ e.content = Nil /\ Silent(s)

LockInv == TabShape /\ AroundShape /\ Covers(lock, editor, sends)

-----------------------------------------------------------------------------
(* The vault's lock: the effects of the editor.                            *)

\* Saves nobody hears are saves.
LEMMA UnheardIsSilent ==
  ASSUME NEW s \in Seq(SendRow)
  PROVE Unheard(s) \in Seq(SendRow) /\ Silent(Unheard(s)) /\ Len(Unheard(s)) = Len(s)
<1> DEFINE u == Unheard(s)
<1>1. u = [i \in 1 .. Len(s) |-> [s[i] EXCEPT !.heard = FALSE]] /\ Len(s) \in Nat BY DEF Unheard
<1>2. \A i \in 1 .. Len(s) : s[i] \in SendRow OBVIOUS
<1>3. \A i \in 1 .. Len(s) : [s[i] EXCEPT !.heard = FALSE] \in SendRow /\ ~[s[i] EXCEPT !.heard = FALSE].heard
  BY <1>2 DEF SendRow
<1> HIDE DEF u
<1>4. u \in Seq(SendRow) /\ Len(u) = Len(s) /\ \A i \in 1 .. Len(s) : ~u[i].heard
 <2> DEFINE n == Len(s)
 <2>1. n \in Nat /\ u = [i \in 1 .. n |-> [s[i] EXCEPT !.heard = FALSE]] BY <1>1
 <2>2. \A i \in 1 .. n : [s[i] EXCEPT !.heard = FALSE] \in SendRow /\ ~[s[i] EXCEPT !.heard = FALSE].heard BY <1>3
 <2> HIDE DEF n
 <2>3. u \in [1 .. n -> SendRow] /\ \A i \in 1 .. n : ~u[i].heard BY <2>1, <2>2
 <2>4. u \in Seq(SendRow) BY <2>1, <2>3, SeqDef
 <2>5. DOMAIN u = 1 .. n /\ DOMAIN u = 1 .. Len(u) /\ Len(u) \in Nat BY <2>3, <2>4, LenProperties
 <2>6. Len(u) = n BY <2>1, <2>5
 <2> QED BY <2>3, <2>4, <2>6 DEF n
<1> QED BY <1>4 DEF Silent, u

\* A save that is sent is the last, and the only one heard.
LEMMA SentIsASave ==
  ASSUME NEW text \in Nat, sends \in Seq(SendRow)
  PROVE Sent(text) \in Seq(SendRow)
<1>1. [text |-> text, heard |-> TRUE] \in SendRow BY DEF SendRow
<1> QED BY <1>1, UnheardIsSilent DEF Sent

\* No editor.
LEMMA NoEditorIsClosed == NoEditor \in EditorRow /\ NoEditor.open = FALSE BY DEF NoEditor, Mounted, EditorRow, Nil

\* A freshly opened note.
LEMMA MountedIsOpen ==
  ASSUME NEW note \in Nat, NEW content \in Nat
  PROVE /\ Mounted(note, content) \in EditorRow /\ Mounted(note, content).open /\ ~Mounted(note, content).due
        /\ ~Mounted(note, content).editing /\ Mounted(note, content).content = content /\ Mounted(note, content).opening = Nil
  BY DEF Mounted, EditorRow, Nil

\* Where the effects have run, a Seal that was to be covered is.
LEMMA EffectsCover ==
  ASSUME NEW l \in LockRow, NEW e \in EditorRow, NEW s \in Seq(SendRow), l.fresh => l.key, ~e.open => Silent(s),
         Seal /\ ~l.key /\ e.open =>
             \/ l.soft \/ e.due
             \/ e.opening = Nil /\ ~e.editing /\ e.content = Nil /\ Silent(s)
  PROVE /\ Effects(l, e) \in EditorRow
        /\ (IF Effects(l, e).open THEN s ELSE Unheard(s)) \in Seq(SendRow)
        /\ Covers(l, Effects(l, e), IF Effects(l, e).open THEN s ELSE Unheard(s))
<1> DEFINE looked == IF l.key THEN e ELSE [e EXCEPT !.history = FALSE]
           to == Effects(l, e)
           t == IF to.open THEN s ELSE Unheard(s)
<1>1. /\ looked \in EditorRow /\ looked.open = e.open /\ looked.editing = e.editing /\ looked.due = e.due
      /\ looked.content = e.content /\ looked.opening = e.opening BY DEF EditorRow
<1>2. t \in Seq(SendRow) /\ (~to.open => Silent(t)) /\ (to.open => t = s) BY UnheardIsSilent
<1>3. CASE e.due /\ ~e.editing
 <2>1. to = NoEditor BY <1>3 DEF Effects
 <2> HIDE DEF to, t
 <2> QED BY <1>2, <2>1, NoEditorIsClosed DEF Covers, to, t
<1>4. CASE ~(e.due /\ ~e.editing) /\ (Seal /\ ~l.key /\ l.soft /\ ~e.editing /\ e.content # Nil)
 <2>1. to = Encrypted(looked) BY <1>4 DEF Effects
 <2> HIDE DEF looked
 <2>2. Encrypted(looked) \in EditorRow /\ Encrypted(looked).open = e.open /\ Encrypted(looked).due = e.due
       /\ Encrypted(looked).content = Nil BY <1>1 DEF Encrypted, EditorRow, Nil
 <2> HIDE DEF to, t
 <2> QED BY <1>2, <1>4, <2>1, <2>2 DEF Covers, to, t
<1>5. CASE ~(e.due /\ ~e.editing) /\ ~(Seal /\ ~l.key /\ l.soft /\ ~e.editing /\ e.content # Nil)
 <2>1. to = looked BY <1>5 DEF Effects
 <2> HIDE DEF looked, to, t
 <2> QED BY <1>1, <1>2, <1>5, <2>1 DEF Covers, to, t
<1> QED BY <1>3, <1>4, <1>5

\* The editor settles under a lock.
LEMMA SettlesCovers ==
  ASSUME LockInv, UNCHANGED tier, NEW l \in LockRow, NEW e \in EditorRow, Settles(l, e), l.fresh => l.key,
         ~e.open => Silent(sends),
         Seal /\ ~l.key /\ e.open =>
             \/ l.soft \/ e.due
             \/ e.opening = Nil /\ ~e.editing /\ e.content = Nil /\ Silent(sends)
  PROVE TabShape' /\ Covers(lock, editor, sends)'
<1>1. sends \in Seq(SendRow) BY DEF LockInv, TabShape
<1>2. lock' = l /\ editor' = Effects(l, e) /\ sends' = IF Effects(l, e).open THEN sends ELSE Unheard(sends) BY DEF Settles
<1>3. TabShape' BY <1>1, <1>2, EffectsCover DEF TabShape
<1>4. Covers(l, Effects(l, e), IF Effects(l, e).open THEN sends ELSE Unheard(sends)) BY <1>1, EffectsCover
<1>5. Covers(lock', editor', sends') BY <1>2, <1>4
<1> QED BY <1>3, <1>5 DEF Covers, Seal, Silent

\* A hard lock.
LEMMA LocksHardCovers ==
  ASSUME LockInv, UNCHANGED tier, Settles(HardLocked(lock), Marked)
  PROVE TabShape' /\ Covers(lock, editor, sends)'
<1>1. lock \in LockRow /\ editor \in EditorRow BY DEF LockInv, TabShape
<1>2. HardLocked(lock) \in LockRow /\ ~HardLocked(lock).fresh BY <1>1 DEF HardLocked, LockRow, Nil, NoAct
<1>3. Marked \in EditorRow /\ Marked.open = editor.open /\ Marked.due = editor.open BY <1>1 DEF Marked, EditorRow
<1> QED BY <1>2, <1>3, SettlesCovers DEF LockInv, Covers

\* The key comes, the stamp ages, the tab shows: the editor is as it was, and so are its saves.
LEMMA LockAloneCovers ==
  ASSUME LockInv, UNCHANGED <<tier, editor, sends>>, lock' \in LockRow, lock'.fresh => lock'.key,
         ~lock'.key => ~lock.key /\ (lock.soft => lock'.soft)
  PROVE TabShape' /\ Covers(lock, editor, sends)' BY DEF LockInv, TabShape, Covers, Seal, Silent


-----------------------------------------------------------------------------
(* The vault's lock: the steps.                                            *)

\* Whatever changes neither the lock, the editor nor its saves.
LEMMA AroundCovers ==
  ASSUME LockInv, AroundShape', UNCHANGED <<tier, lock, editor, sends>>
  PROVE LockInv' BY DEF LockInv, TabShape, Covers, Seal, Silent

\* What is done with the key, or for want of it, stays about deeds.
LEMMA PassphrasesAreNumbers == Passphrases \subseteq Nat /\ Texts \subseteq Nat /\ Nil \in Nat
  BY LockAssumption DEF Passphrases, Texts, Nil

\* The prompt and the server, while the tab does nothing.
LEMMA PromptIsSafe ==
  ASSUME LockInv, Preloaded \/ PreloadExpires \/ WrongPassphrase \/ ClosePrompt \/ ChangedElsewhere \/ (\E p \in Passphrases : Submit(p))
  PROVE LockInv'
<1>1. UNCHANGED <<tier, lock, editor, sends>>
  BY DEF Preloaded, PreloadExpires, WrongPassphrase, ClosePrompt, ChangedElsewhere, Submit
<1>2. AroundShape BY DEF LockInv
<1>3. CASE Preloaded BY <1>1, <1>2, <1>3, AroundCovers, PassphrasesAreNumbers DEF Preloaded, AroundShape, PromptRow
<1>4. CASE PreloadExpires \/ WrongPassphrase
  BY <1>1, <1>2, <1>4, AroundCovers, PassphrasesAreNumbers DEF PreloadExpires, WrongPassphrase, NoPrompt, NoAct, AroundShape, PromptRow
<1>5. CASE ClosePrompt
  BY <1>1, <1>2, <1>5, AroundCovers, PassphrasesAreNumbers DEF ClosePrompt, Dropped, NoPrompt, NoAct, AroundShape, PromptRow
<1>6. CASE ChangedElsewhere BY <1>1, <1>2, <1>6, AroundCovers DEF ChangedElsewhere, AroundShape
<1>7. CASE \E p \in Passphrases : Submit(p)
  BY <1>1, <1>2, <1>7, AroundCovers, PassphrasesAreNumbers DEF Submit, AroundShape, PromptRow
<1> QED BY <1>3, <1>4, <1>5, <1>6, <1>7

\* Locks, hides and shows.
LEMMA LocksAreSafe ==
  ASSUME LockInv, PressLock \/ Inactivity \/ Ages \/ Escalate \/ Hide \/ Unhide
  PROVE LockInv'
<1>1. lock \in LockRow /\ editor \in EditorRow /\ AroundShape BY DEF LockInv, TabShape
<1>2. CASE PressLock \/ Inactivity \/ Escalate
  BY <1>2, <1>1, PassphrasesAreNumbers, LocksHardCovers DEF PressLock, Inactivity, Escalate, LocksHard, AroundShape, PromptRow,
    LockInv
<1>3. CASE Ages \/ Unhide
 <2>1. lock' \in LockRow /\ lock'.fresh = lock.fresh /\ lock'.key = lock.key /\ lock'.soft = lock.soft
       /\ UNCHANGED <<tier, server, disk, asks, prompt, guard, wish, editor, sends>> BY <1>1, <1>3 DEF Ages, Unhide, LockRow
 <2>2. AroundShape' BY <1>1, <2>1 DEF AroundShape
 <2>3. lock.fresh => lock.key BY DEF LockInv, Covers
 <2> QED BY <2>1, <2>2, <2>3, LockAloneCovers DEF LockInv
<1>4. CASE Hide
 <2> DEFINE l == HidesAs([lock EXCEPT !.hidden = TRUE])
 <2>1. /\ l \in LockRow /\ ~l.key /\ (lock.fresh => lock.key)
       /\ (lock.key => l.soft /\ ~l.fresh) /\ (~lock.key => l.soft = lock.soft /\ l.fresh = lock.fresh)
   BY <1>1 DEF HidesAs, SoftLocked, LockRow, LockInv, Covers, NoAct
 <2>2. Settles(l, editor) /\ UNCHANGED <<tier, server, disk, asks, prompt, guard, wish>> BY <1>4 DEF Hide
 <2>3. AroundShape' BY <1>1, <2>2 DEF AroundShape
 <2> HIDE DEF l
 <2>4. TabShape' /\ Covers(lock, editor, sends)' BY <1>1, <2>1, <2>2, SettlesCovers DEF LockInv, Covers
 <2> QED BY <2>3, <2>4 DEF LockInv
<1> QED BY <1>2, <1>3, <1>4

\* A reload closes the editor.
LEMMA ReloadIsSafe ==
  ASSUME LockInv, ReloadPage
  PROVE LockInv'
<1>1. lock \in LockRow /\ sends \in Seq(SendRow) /\ AroundShape BY DEF LockInv, TabShape
<1>2. /\ lock' = [lock EXCEPT !.key = FALSE, !.soft = lock.share # Nil] /\ Quiet /\ editor' = NoEditor /\ sends' = Unheard(sends)
      /\ prompt' = NoPrompt /\ guard' = NoGuard /\ wish' = NoAct /\ UNCHANGED <<tier, server, disk>> BY DEF ReloadPage
<1>3. lock' \in LockRow /\ ~lock'.fresh BY <1>1, <1>2 DEF Quiet, LockRow
<1>4. asks' \in [{"mount", "reveal", "action"} -> Nat] BY <1>1, PassphrasesAreNumbers DEF ReloadPage, AroundShape, LockRow
<1>5. AroundShape' BY <1>1, <1>2, <1>4, PassphrasesAreNumbers DEF AroundShape, PromptRow, NoPrompt, NoAct
<1>6. sends' \in Seq(SendRow) /\ Silent(sends)' BY <1>1, <1>2, UnheardIsSilent DEF Silent
<1>7. editor' \in EditorRow /\ ~editor'.open BY <1>2, NoEditorIsClosed
<1> QED BY <1>3, <1>5, <1>6, <1>7 DEF LockInv, TabShape, Covers, Seal, Silent

\* What is refused for want of a key leaves a prompt, and the wish to the guard.
LEMMA RefusesIsShaped ==
  ASSUME LockInv, NEW k \in {"mount", "reveal", "action"}, Refuses(k)
  PROVE /\ prompt' \in PromptRow
        /\ guard' = NoGuard \/ guard' \in [act : Deeds, text : Nat]
        /\ wish' \in Deeds \cup {NoAct}
<1>1. editor.content \in Nat /\ AroundShape BY DEF LockInv, TabShape, EditorRow
<1>2. CASE k = "mount" BY <1>1, <1>2 DEF Refuses, AroundShape
<1>3. CASE k = "reveal"
  BY <1>3, <1>1, PassphrasesAreNumbers DEF Refuses, AroundShape, PromptRow, Prompted
<1>4. CASE k = "action"
 <2>1. CASE wish = NoAct BY <1>1, <1>4, <2>1 DEF Refuses, AroundShape
 <2>2. CASE wish # NoAct
   BY <1>4, <2>2, <1>1, PassphrasesAreNumbers DEF Refuses, AroundShape, Prompted, PromptRow
 <2> QED BY <2>1, <2>2
<1> QED BY <1>2, <1>3, <1>4

\* A request for the key is answered, or fails.
LEMMA AsksAreSafe ==
  ASSUME LockInv, NEW k \in DOMAIN asks, AskAnswered(k) \/ AskFails(k)
  PROVE LockInv'
<1>1. lock \in LockRow /\ AroundShape /\ k \in {"mount", "reveal", "action"} /\ Quiet
  BY DEF LockInv, TabShape, AroundShape, AskAnswered, AskFails
<1>2. /\ UNCHANGED <<tier, server, editor, sends>> /\ asks' = [asks EXCEPT ![k] = Nil]
      /\ disk' \in {server.pass, Nil, disk}
      /\ \/ /\ lock' = [lock EXCEPT !.key = TRUE, !.fresh = TRUE] \/ lock' = KeyArrives(lock, lock.share)
            /\ UNCHANGED <<prompt, guard, wish>>
         \/ /\ lock' = [lock EXCEPT !.share = Nil] \/ lock' = lock
            /\ Refuses(k) BY DEF AskAnswered, AskFails
<1>3. /\ prompt' \in PromptRow
      /\ guard' = NoGuard \/ guard' \in [act : Deeds, text : Nat]
      /\ wish' \in Deeds \cup {NoAct} BY <1>1, <1>2, RefusesIsShaped DEF AroundShape
<1>4. AroundShape' BY <1>1, <1>2, <1>3, PassphrasesAreNumbers DEF AroundShape
<1>5. lock' \in LockRow /\ (lock'.fresh => lock'.key) /\ (~lock'.key => ~lock.key /\ (lock.soft => lock'.soft))
  BY <1>1, <1>2, PassphrasesAreNumbers DEF LockRow, KeyArrives, Quiet, NoAct
<1> QED BY <1>2, <1>4, <1>5, LockAloneCovers DEF LockInv

\* The right passphrase opens the vault.
LEMMA UnlockIsSafe ==
  ASSUME LockInv, UnlockAnswered \/ RunNothing
  PROVE LockInv'
<1>1. lock \in LockRow /\ AroundShape /\ (lock.fresh => lock.key) BY DEF LockInv, TabShape, Covers
<1>2. UNCHANGED <<tier, server, disk, asks, guard, wish, editor, sends>> BY DEF UnlockAnswered, RunNothing
<1>3. CASE UnlockAnswered
 <2>1. lock' = [KeyArrives(lock, prompt.typed) EXCEPT !.hard = FALSE] /\ prompt.typed \in Nat /\ prompt' = NoPrompt
   BY <1>1, <1>3 DEF UnlockAnswered, AroundShape, PromptRow
 <2>2. lock' \in LockRow /\ lock'.key BY <1>1, <2>1 DEF LockRow, KeyArrives, NoAct
 <2>3. AroundShape' BY <1>1, <1>2, <2>1, PassphrasesAreNumbers DEF AroundShape, PromptRow, NoPrompt, NoAct
 <2> QED BY <1>2, <2>2, <2>3, LockAloneCovers DEF LockInv
<1>4. CASE RunNothing
  BY <1>1, <1>4, <1>2, LockAloneCovers DEF RunNothing, LockRow, AroundShape, LockInv
<1> QED BY <1>3, <1>4


\* What the list shows is a text.
LEMMA CachedIsText ==
  ASSUME sends \in Seq(SendRow), server.body \in Nat
  PROVE Cached \in Nat
<1>1. CASE sends = <<>> BY <1>1 DEF Cached
<1>2. CASE sends # <<>>
 <2>1. Len(sends) \in 1 .. Len(sends) BY <1>2, EmptySeq
 <2>2. sends[Len(sends)] \in SendRow BY <2>1, ElementOfSeq
 <2> QED BY <1>2, <2>2 DEF Cached, Last, SendRow
<1> QED BY <1>1, <1>2

\* What is done with the key.
LEMMA PerformsCovers ==
  ASSUME LockInv, UNCHANGED <<tier, lock>>, lock.key, NEW act \in Deeds, NEW text \in Nat, Performs(act, text)
  PROVE TabShape' /\ Covers(lock, editor, sends)'
<1>1. /\ lock \in LockRow /\ editor \in EditorRow /\ sends \in Seq(SendRow) /\ server.body \in Nat
      /\ (lock.fresh => lock.key) /\ (editor.open /\ editor.due => editor.editing) /\ (~editor.open => Silent(sends))
  BY DEF LockInv, TabShape, AroundShape, Covers
<1>2. SUFFICES /\ editor' \in EditorRow /\ sends' \in Seq(SendRow)
               /\ (editor'.open /\ editor'.due => editor'.editing) /\ (~editor'.open => Silent(sends'))
  BY <1>1 DEF TabShape, Covers, Seal, Silent
<1>3. \A then \in BOOLEAN : /\ Deciphers(editor, then) \in EditorRow /\ Deciphers(editor, then).open = editor.open
                            /\ Deciphers(editor, then).due = editor.due /\ Deciphers(editor, then).editing = editor.editing
  BY <1>1 DEF Deciphers, EditorRow
<1>4. CASE act = "decrypt"
  BY <1>4, <1>1, <1>3 DEF Performs
<1>5. CASE act = "history"
 <2>1. UNCHANGED sends /\ (editor' = editor \/ editor' = Deciphers(editor, TRUE) \/ editor' = [editor EXCEPT !.history = TRUE])
   BY <1>5 DEF Performs
 <2>2. [editor EXCEPT !.history = TRUE] \in EditorRow /\ [editor EXCEPT !.history = TRUE].open = editor.open
       /\ [editor EXCEPT !.history = TRUE].due = editor.due /\ [editor EXCEPT !.history = TRUE].editing = editor.editing
   BY <1>1 DEF EditorRow
 <2> QED BY <1>1, <1>3, <2>1, <2>2
<1>6. CASE act = "open"
  BY <1>6, <1>1, CachedIsText, MountedIsOpen DEF Performs
<1>7. CASE act = "save"
 <2>1. CASE text = Nil \/ ~editor.open BY <1>1, <1>7, <2>1 DEF Performs
 <2>2. CASE ~(text = Nil \/ ~editor.open)
  <3> DEFINE e == [editor EXCEPT !.editing = FALSE]
             to == Effects(lock, e)
  <3>1. editor' = to /\ sends' = IF to.open THEN Sent(text) ELSE Unheard(Sent(text)) BY <1>7, <2>2 DEF Performs
  <3>2. e \in EditorRow /\ e.open BY <1>1, <2>2 DEF EditorRow
  <3>3. Sent(text) \in Seq(SendRow) BY <1>1, SentIsASave
  <3> HIDE DEF e
  <3>4. /\ to \in EditorRow
        /\ (IF to.open THEN Sent(text) ELSE Unheard(Sent(text))) \in Seq(SendRow)
        /\ Covers(lock, to, IF to.open THEN Sent(text) ELSE Unheard(Sent(text))) BY <1>1, <3>2, <3>3, EffectsCover
  <3> HIDE DEF to
  <3> QED BY <3>1, <3>4 DEF Covers
 <2> QED BY <2>1, <2>2
<1> QED BY <1>4, <1>5, <1>6, <1>7 DEF Deeds

\* The actions that waited run when the key is there.
LEMMA RunsAreSafe ==
  ASSUME LockInv, RunGuarded \/ RunWished
  PROVE LockInv'
<1>1. lock.key /\ AroundShape /\ editor.content \in Nat BY DEF LockInv, TabShape, Covers, EditorRow, RunGuarded, RunWished
<1>2. CASE RunGuarded
 <2>1. guard \in [act : Deeds, text : Nat] /\ Performs(guard.act, guard.text) /\ UNCHANGED <<tier, lock, server, disk, asks, wish>>
   BY <1>1, <1>2 DEF RunGuarded, AroundShape
 <2>2. guard' = NoGuard BY <1>2, <2>1 DEF RunGuarded, Cleared, NoGuard
 <2>3. prompt' \in PromptRow BY <1>1, <1>2, PassphrasesAreNumbers DEF RunGuarded, AroundShape, NoPrompt, PromptRow, NoAct
 <2>4. AroundShape' BY <1>1, <2>1, <2>2, <2>3 DEF AroundShape
 <2> QED BY <1>1, <2>1, <2>4, PerformsCovers DEF LockInv
<1>3. CASE RunWished
  BY <1>1, <1>3, PerformsCovers DEF RunWished, AroundShape, Cleared, LockInv
<1> QED BY <1>2, <1>3

\* What the user presses is done, or waits.
LEMMA ProtectedIsSafe ==
  ASSUME LockInv, NEW act \in Deeds, NEW text \in Nat, Protected(act, text), UNCHANGED <<tier, server, disk>>
  PROVE LockInv'
<1>1. AroundShape /\ lock \in LockRow BY DEF LockInv, TabShape
<1>2. CASE lock.key
  BY <1>2, <1>1, PerformsCovers DEF Protected, AroundShape, LockRow, LockInv
<1>3. CASE ~lock.key /\ lock.soft /\ MayAsk
  BY <1>3, <1>1, AroundCovers DEF Protected, AroundShape, LockRow
<1>4. CASE ~lock.key /\ ~(lock.soft /\ MayAsk)
 <2>1. /\ guard' = [act |-> act, text |-> text] /\ prompt' = Prompted("guard") /\ UNCHANGED <<asks, wish>>
       /\ Settles(HardLocked(lock), Marked) \/ UNCHANGED <<lock, editor, sends>> BY <1>4 DEF Protected
 <2>2. AroundShape' BY <1>1, <2>1, PassphrasesAreNumbers DEF AroundShape, Prompted, PromptRow
 <2> QED BY <2>1, <2>2, AroundCovers, LocksHardCovers DEF LockInv
<1> QED BY <1>2, <1>3, <1>4

\* A reveal asks for the key.
LEMMA RevealIsSafe ==
  ASSUME LockInv, Reveal
  PROVE LockInv'
<1>1. AroundShape /\ lock \in LockRow BY DEF LockInv, TabShape
<1>2. /\ UNCHANGED <<tier, server, disk, guard, wish>>
      /\ \/ asks' = [asks EXCEPT !["reveal"] = lock.share] /\ UNCHANGED <<lock, prompt, editor, sends>>
         \/ /\ prompt' = Prompted("reveal") /\ UNCHANGED asks
            /\ Settles(HardLocked(lock), Marked) \/ UNCHANGED <<lock, editor, sends>> BY DEF Reveal
<1>3. AroundShape' BY <1>1, <1>2, PassphrasesAreNumbers DEF AroundShape, LockRow, Prompted, PromptRow
<1> QED BY <1>2, <1>3, AroundCovers, LocksHardCovers DEF LockInv

\* What the user presses.
LEMMA PressesAreSafe ==
  ASSUME LockInv, PressDecrypt \/ PressSave \/ ClickSecret
  PROVE LockInv'
<1>1. editor.content \in Nat /\ Nil \in Nat BY PassphrasesAreNumbers DEF LockInv, TabShape, EditorRow
<1>2. \E act \in Deeds, text \in Nat : Protected(act, text) /\ UNCHANGED <<tier, server, disk>>
  BY <1>1 DEF PressDecrypt, PressSave, ClickSecret, Deeds
<1> QED BY <1>2, ProtectedIsSafe

\* The history asks for the key too.
LEMMA OpenHistoryIsSafe ==
  ASSUME LockInv, OpenHistory
  PROVE LockInv'
<1>1. AroundShape /\ Nil \in Nat /\ UNCHANGED <<tier, lock, server, disk, asks, wish>>
  BY PassphrasesAreNumbers DEF LockInv, OpenHistory
<1>2. CASE lock.key
  BY <1>2, <1>1, PerformsCovers DEF OpenHistory, AroundShape, LockInv, Deeds
<1>3. CASE ~lock.key
  BY <1>3, <1>1, AroundCovers DEF OpenHistory, AroundShape, Prompted, PromptRow, Deeds
<1> QED BY <1>2, <1>3

\* The editor alone.
LEMMA EditorIsSafe ==
  ASSUME LockInv, EncryptNow \/ CountDown \/ Edit \/ CloseHistory \/ (\E x \in Texts : TypeText(x))
  PROVE LockInv'
<1>1. AroundShape /\ lock \in LockRow /\ editor \in EditorRow /\ sends \in Seq(SendRow) /\ Covers(lock, editor, sends)
  BY DEF LockInv, TabShape
<1>2. UNCHANGED <<tier, lock, server, disk, asks, prompt, guard, wish, sends>>
  BY DEF EncryptNow, CountDown, Edit, CloseHistory, TypeText
<1>3. AroundShape' BY <1>1, <1>2 DEF AroundShape
<1>4. SUFFICES editor' \in EditorRow /\ Covers(lock, editor', sends)
  BY <1>1, <1>2, <1>3 DEF LockInv, TabShape, Covers, Seal, Silent
<1>5. CASE EncryptNow \/ CountDown
 <2>1. editor' = Encrypted(editor) \/ (editor.timer \in Nat /\ editor.timer > 1 /\ editor' = [editor EXCEPT !.timer = @ - 1])
   BY <1>1, <1>5 DEF EncryptNow, CountDown, EditorRow
 <2>2. ~editor.editing /\ editor.open BY <1>5 DEF EncryptNow, CountDown, AtHand
 <2>3. CASE editor' = Encrypted(editor) BY <1>1, <2>2, <2>3 DEF Covers, Encrypted, EditorRow, Nil
 <2>4. CASE editor.timer \in Nat /\ editor.timer > 1 /\ editor' = [editor EXCEPT !.timer = @ - 1]
  <3>1. editor.timer - 1 \in Nat BY <2>4
  <3> QED BY <1>1, <2>2, <2>4, <3>1 DEF Covers, EditorRow
 <2> QED BY <2>1, <2>3, <2>4
<1>6. CASE Edit BY <1>1, <1>6 DEF Edit, AtHand, Covers, EditorRow
<1>7. CASE CloseHistory BY <1>1, <1>7 DEF CloseHistory, Covers, EditorRow
<1>8. CASE \E x \in Texts : TypeText(x) BY <1>1, <1>8, PassphrasesAreNumbers DEF TypeText, AtHand, Covers, EditorRow
<1> QED BY <1>5, <1>6, <1>7, <1>8

\* A text arrives, or an edit is given up: the effects look at it again.
LEMMA SettledEditorIsSafe ==
  ASSUME LockInv, OpenSeal \/ CancelEdit
  PROVE LockInv'
<1>1. AroundShape /\ lock \in LockRow /\ editor \in EditorRow /\ sends \in Seq(SendRow) /\ Covers(lock, editor, sends)
  BY DEF LockInv, TabShape
<1>2. AroundShape' /\ UNCHANGED tier BY <1>1 DEF OpenSeal, CancelEdit, AroundShape
<1>3. CASE OpenSeal
 <2> DEFINE e == [editor EXCEPT !.content = editor.opening, !.base = editor.opening, !.timer = FullTime,
                                !.opening = Nil, !.history = editor.after, !.after = FALSE]
 <2>1. Settles(lock, e) /\ editor.opening # Nil BY <1>3 DEF OpenSeal
 <2>2. e \in EditorRow /\ e.open = editor.open /\ e.due = editor.due /\ e.editing = editor.editing
   BY <1>1, PassphrasesAreNumbers DEF EditorRow, FullTime
 <2> HIDE DEF e
 <2>3. TabShape' /\ Covers(lock, editor, sends)' BY <1>1, <1>2, <2>1, <2>2, SettlesCovers DEF Covers
 <2> QED BY <1>2, <2>3 DEF LockInv
<1>4. CASE CancelEdit
 <2> DEFINE e == [editor EXCEPT !.editing = FALSE, !.content = editor.base]
 <2>1. Settles(lock, e) /\ editor.editing /\ editor.open BY <1>4 DEF CancelEdit, AtHand
 <2>2. e \in EditorRow /\ e.open = editor.open /\ e.due = editor.due BY <1>1 DEF EditorRow
 <2> HIDE DEF e
 <2>3. TabShape' /\ Covers(lock, editor, sends)' BY <1>1, <1>2, <2>1, <2>2, SettlesCovers DEF Covers
 <2> QED BY <1>2, <2>3 DEF LockInv
<1> QED BY <1>3, <1>4


\* The saves that are left when the first is answered.
LEMMA TailIsLeft ==
  ASSUME NEW s \in Seq(SendRow), s # <<>>
  PROVE /\ Tail(s) \in Seq(SendRow) /\ Head(s) \in SendRow /\ (Silent(s) => Silent(Tail(s)) /\ ~Head(s).heard)
<1>1. Len(s) \in Nat \ {0} /\ DOMAIN s = 1 .. Len(s) /\ Head(s) = s[1] /\ \A i \in 1 .. Len(s) : s[i] \in SendRow OBVIOUS
<1>2. Tail(s) \in Seq(SendRow) /\ Len(Tail(s)) = Len(s) - 1 /\ \A i \in 1 .. Len(s) - 1 : Tail(s)[i] = s[i + 1] OBVIOUS
<1> DEFINE t == Tail(s)
           n == Len(s)
<1>3. DOMAIN t = 1 .. (n - 1) /\ n \in Nat \ {0} /\ DOMAIN s = 1 .. n /\ \A i \in 1 .. (n - 1) : t[i] = s[i + 1] BY <1>1, <1>2
<1>4. t \in Seq(SendRow) /\ Head(s) = s[1] /\ s[1] \in SendRow BY <1>1, <1>2
<1> HIDE DEF t, n
<1>5. ASSUME Silent(s) PROVE Silent(t) /\ ~s[1].heard
 <2>1. \A i \in 1 .. (n - 1) : i + 1 \in DOMAIN s BY <1>3
 <2>2. 1 \in DOMAIN s BY <1>3
 <2> QED BY <1>3, <1>5, <2>1, <2>2 DEF Silent
<1> QED BY <1>4, <1>5 DEF t

\* A box is ticked, and saved.
LEMMA TickIsSafe ==
  ASSUME LockInv, NEW x \in Texts, TickBox(x)
  PROVE LockInv'
<1>1. AroundShape /\ lock \in LockRow /\ editor \in EditorRow /\ sends \in Seq(SendRow) /\ Covers(lock, editor, sends) /\ x \in Nat
  BY PassphrasesAreNumbers DEF LockInv, TabShape
<1>2. /\ UNCHANGED <<tier, lock, server, disk, asks, prompt, guard, wish>> /\ lock.key /\ editor.open
      /\ editor' = [editor EXCEPT !.content = x] /\ sends' = Sent(x) BY DEF TickBox, AtHand
<1>3. AroundShape' BY <1>1, <1>2 DEF AroundShape
<1>4. sends' \in Seq(SendRow) BY <1>1, <1>2, SentIsASave
<1>5. editor' \in EditorRow /\ editor'.open /\ editor'.due = editor.due /\ editor'.editing = editor.editing
  BY <1>1, <1>2 DEF EditorRow
<1> QED BY <1>1, <1>2, <1>3, <1>4, <1>5 DEF LockInv, TabShape, Covers, Seal

\* A Seal opens under its cover, and a note closes.
LEMMA OpensAndClosesAreSafe ==
  ASSUME LockInv, ClickSeal \/ CloseNote
  PROVE LockInv'
<1>1. AroundShape /\ lock \in LockRow /\ editor \in EditorRow /\ sends \in Seq(SendRow) /\ Covers(lock, editor, sends)
      /\ server.body \in Nat BY DEF LockInv, TabShape, AroundShape
<1>2. UNCHANGED <<tier, lock, server, disk, asks, prompt, guard>> /\ wish' \in {wish, NoAct} BY DEF ClickSeal, CloseNote
<1>3. AroundShape' BY <1>1, <1>2 DEF AroundShape
<1>4. CASE ClickSeal
 <2>1. editor' = Mounted(Cached, Nil) /\ UNCHANGED sends /\ ~editor.open BY <1>4 DEF ClickSeal
 <2>2. Cached \in Nat /\ Nil \in Nat BY <1>1, CachedIsText, PassphrasesAreNumbers
 <2>3. /\ editor' \in EditorRow /\ editor'.open /\ ~editor'.due /\ ~editor'.editing /\ editor'.content = Nil /\ editor'.opening = Nil
   BY <2>1, <2>2, MountedIsOpen
 <2> QED BY <1>1, <1>2, <1>3, <2>1, <2>3 DEF LockInv, TabShape, Covers, Seal, Silent
<1>5. CASE CloseNote
  BY <1>5, <1>1, UnheardIsSilent, NoEditorIsClosed, <1>2, <1>3 DEF CloseNote, Silent, LockInv, TabShape, Covers
<1> QED BY <1>4, <1>5

\* A save is answered.
LEMMA AnswersAreSafe ==
  ASSUME LockInv, SaveSucceeds \/ SaveFails
  PROVE LockInv'
<1>1. AroundShape /\ lock \in LockRow /\ editor \in EditorRow /\ sends \in Seq(SendRow) /\ Covers(lock, editor, sends)
  BY DEF LockInv, TabShape
<1>2. sends # <<>> /\ sends' = Tail(sends) /\ UNCHANGED <<tier, lock, disk, asks, prompt, guard, wish>>
  BY DEF SaveSucceeds, SaveFails
<1>3. sends' \in Seq(SendRow) /\ Head(sends) \in SendRow /\ (Silent(sends) => Silent(sends') /\ ~Head(sends).heard)
  BY <1>1, <1>2, TailIsLeft
<1>4. Head(sends).text \in Nat /\ Head(sends).heard \in BOOLEAN BY <1>3 DEF SendRow
<1>5. AroundShape' BY <1>1, <1>2, <1>4 DEF AroundShape, SaveSucceeds, SaveFails
<1>6. SUFFICES editor' \in EditorRow /\ Covers(lock, editor', sends')
  BY <1>1, <1>2, <1>3, <1>5 DEF LockInv, TabShape, Covers, Seal, Silent
<1>7. CASE ~Head(sends).heard
  BY <1>7, <1>1, <1>3 DEF SaveSucceeds, SaveFails, Covers
<1>8. CASE Head(sends).heard
 <2>1. ~Silent(sends) /\ editor.open BY <1>1, <1>3, <1>8 DEF Covers
 <2>2. CASE SaveSucceeds
   BY <1>8, <2>2, <1>1, <1>4, <2>1 DEF SaveSucceeds, Covers, EditorRow
 <2>3. CASE SaveFails
  <3>1. PICK c \in {Head(sends).text, editor.content} : editor' = [editor EXCEPT !.editing = TRUE, !.content = c]
    BY <1>1, <1>8, <2>3 DEF SaveFails
  <3>2. c \in Nat BY <1>1, <1>4 DEF EditorRow
  <3>3. editor' \in EditorRow /\ editor'.editing /\ editor'.open /\ editor'.due = editor.due
    BY <1>1, <2>1, <3>1, <3>2 DEF EditorRow
  <3> QED BY <1>1, <2>1, <3>3 DEF Covers
 <2> QED BY <2>2, <2>3
<1> QED BY <1>7, <1>8

\* A tab begins without the key, and with no note open.
LEMMA LockBegins ==
  ASSUME LockInit
  PROVE LockInv
<1>1. lock \in LockRow /\ ~lock.fresh BY PassphrasesAreNumbers DEF LockInit, LockRow, NoAct
<1>2. editor \in EditorRow /\ ~editor.open BY NoEditorIsClosed DEF LockInit
<1>3. sends \in Seq(SendRow) /\ Silent(sends)
  BY DEF LockInit, Silent
<1>4. AroundShape BY PassphrasesAreNumbers DEF LockInit, AroundShape, NoPrompt, PromptRow, NoAct
<1> QED BY <1>1, <1>2, <1>3, <1>4 DEF LockInv, TabShape, Covers

\* Every step of the tab keeps the invariant.
LEMMA LockStays ==
  ASSUME LockInv, [LockNext]_lockVars
  PROVE LockInv'
<1>1. CASE LockNext
  BY <1>1, PromptIsSafe, LocksAreSafe, ReloadIsSafe, AsksAreSafe, UnlockIsSafe, RunsAreSafe, RevealIsSafe, PressesAreSafe,
     OpenHistoryIsSafe, EditorIsSafe, SettledEditorIsSafe, TickIsSafe, OpensAndClosesAreSafe, AnswersAreSafe DEF LockNext
<1>2. CASE UNCHANGED lockVars BY <1>2, AroundCovers DEF lockVars, LockInv, AroundShape
<1> QED BY <1>1, <1>2

\* THE COVER.  While the vault is locked no Seal that is merely looked at holds its text,
\* whenever its text, the answer of a save or the lock itself came.
THEOREM CoveredUnderLock == LockSpec => []SealsCoveredUnderLock
<1>1. LockInit => LockInv BY LockBegins
<1>2. LockInv /\ [LockNext]_lockVars => LockInv' BY LockStays
<1>3. LockInv => SealsCoveredUnderLock BY DEF LockInv, Covers, SealsCoveredUnderLock
<1> QED BY <1>1, <1>2, <1>3, PTL DEF LockSpec
================================================================================
