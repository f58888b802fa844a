------------------------------ MODULE VaultReset ------------------------------
(***************************************************************************)
(* The encryption profile of ONE account between two key rotations: set    *)
(* up, unlocked, given a new passphrase, erased and set up again, from     *)
(* several browsers (src/controllers/encryptionProfiles.ts,                *)
(* src/controllers/erase.ts, src/lib/vaultKey.ts,                          *)
(* src/contexts/EncryptionContext.tsx, src/components/erase/EraseFlow.tsx).*)
(*                                                                         *)
(* The generation does not move, so withVaultWrite() lets every request    *)
(* through and only the checks modelled here stand between a browser that  *)
(* still has an erased key and the new vault.  A wrapped key, its salt and *)
(* its check value are one thing: the vault key they open to.  A row is    *)
(* the table it is in and the key it is encrypted under.                   *)
(***************************************************************************)
EXTENDS Naturals

CONSTANTS
  Devices,     \* browsers signed in to the account
  Tables,      \* how many encrypted tables an erasure goes through, in order
  MaxKeys,     \* bound: vault keys generated
  KeepsShare,  \* the account lets browsers store unlock material
  Lossy,       \* whether a request or its reply can be lost
  None         \* no row, or nothing there

ASSUME ResetAssumption ==
  /\ Tables \in Nat /\ MaxKeys \in Nat
  /\ KeepsShare \in BOOLEAN /\ Lossy \in BOOLEAN

Keys     == 0..MaxKeys
Genesis  == 0               \* the key of an account set up before the run
Material == [key : Keys, id : Keys \cup {None}]
LastStep == Tables + 1   \* the profile goes after the tables
Call     == [op : {"create", "update", "backfill", "write", "erase"},
             key : Keys \cup {None}, at : 0..LastStep]

ASSUME NoneAssumption == None \notin Keys \cup Material \cup Call

VARIABLES
  profile, \* the encryption_profiles row: the key it opens to and vaultKeyId
  rows,    \* <<table, key>> of the encrypted rows stored
  ever,    \* history: the keys that were ever the profile's
  read,    \* material an unlock prompt or a passphrase form fetched earlier
  stored,  \* material kept in IndexedDB
  share,   \* the key that the share in sessionStorage belongs to
  mek,     \* the key the vault is unlocked with
  call,    \* the request the browser has in flight
  flow,    \* the erase page: how many steps it shows as done
  made     \* how many keys browsers have generated

vars == <<profile, rows, ever, read, stored, share, mek, call, flow, made>>
serverVars == <<profile, rows, ever>>

Free == [d \in Devices |-> None]

TypeOK ==
  /\ profile \in Material \cup {None}
  /\ rows \subseteq (1..Tables) \X Keys
  /\ ever \subseteq Keys
  /\ read \in [Devices -> Material \cup {None}]
  /\ stored \in [Devices -> Material \cup {None}]
  /\ share \in [Devices -> Keys \cup {None}]
  /\ mek \in [Devices -> Keys \cup {None}]
  /\ call \in [Devices -> Call \cup {None}]
  /\ flow \in [Devices -> 0..LastStep]
  /\ made \in Keys

\* A new account, one with a profile from before vaultKeyId, or a current one.
Init ==
  /\ profile \in {None} \cup [key : {Genesis}, id : {Genesis, None}]
  /\ ever = IF profile = None THEN {} ELSE {Genesis}
  /\ rows = {}
  /\ read = Free /\ stored = Free /\ share = Free /\ mek = Free
  /\ call = Free
  /\ flow = [d \in Devices |-> 0]
  /\ made = Genesis

-----------------------------------------------------------------------------
\* Browsers.  A browser has one request in flight at a time.

Request(op, key, at) == [op |-> op, key |-> key, at |-> at]

Send(d, request) ==
  /\ call[d] = None
  /\ call' = [call EXCEPT ![d] = request]

\* resolveMaterial(): the server's answer, and when there is none - the request
\* failed, or there is no profile - what the browser stored.
Fetch(d, material) ==
  \/ /\ profile # None /\ material = profile
     /\ stored' = [stored EXCEPT ![d] = IF KeepsShare THEN profile ELSE None]
  \/ /\ profile = None \/ Lossy
     /\ stored[d] # None /\ material = stored[d]
     /\ UNCHANGED stored

\* preloadUnlockMaterial(), and the passphrase and recovery forms.
Prompt(d) ==
  /\ \E material \in Material : Fetch(d, material) /\ read' = [read EXCEPT ![d] = material]
  /\ UNCHANGED <<serverVars, share, mek, call, flow, made>>

Dismiss(d) ==
  /\ read[d] # None
  /\ read' = [read EXCEPT ![d] = None]
  /\ UNCHANGED <<serverVars, stored, share, mek, call, flow, made>>

\* identifyMek(): the key the material opens to is the one it is labelled with.
Identified(material) == material.id \in {material.key, None}

\* A legacy profile learns its id from the first browser that opens it.
Label(d, material) ==
  /\ call[d] = None
  /\ IF material.id = None THEN Send(d, Request("backfill", material.key, 0)) ELSE UNCHANGED call

\* unlock() with the passphrase the prompt's material belongs to.  Silent
\* rehydration sets the key before the backfill is answered, unlock() after.
Unlock(d) ==
  /\ read[d] # None /\ Identified(read[d])
  /\ mek' = [mek EXCEPT ![d] = read[d].key]
  /\ share' = [share EXCEPT ![d] = read[d].key]
  /\ Label(d, read[d])
  /\ read' = [read EXCEPT ![d] = None]
  /\ UNCHANGED <<serverVars, stored, flow, made>>

\* rehydrate() and useMekRehydration(): the share in the session and fresh
\* material; a share that does not fit is dropped.
Rehydrate(d) ==
  /\ share[d] # None
  /\ \E material \in Material :
       /\ Fetch(d, material)
       /\ \/ /\ material.key = share[d] /\ Identified(material)
             /\ mek' = [mek EXCEPT ![d] = material.key]
             /\ Label(d, material)
             /\ UNCHANGED share
          \/ /\ material.key # share[d]
             /\ share' = [share EXCEPT ![d] = None]
             /\ UNCHANGED <<mek, call>>
  /\ UNCHANGED <<serverVars, read, flow, made>>

\* softLock(), and a reload or a page outside the vault.
SoftLock(d) ==
  /\ mek[d] # None
  /\ mek' = [mek EXCEPT ![d] = None]
  /\ UNCHANGED <<serverVars, read, stored, share, call, flow, made>>

Lock(d) ==
  /\ share[d] # None \/ mek[d] # None
  /\ mek' = [mek EXCEPT ![d] = None]
  /\ share' = [share EXCEPT ![d] = None]
  /\ read' = [read EXCEPT ![d] = None]
  /\ UNCHANGED <<serverVars, stored, call, flow, made>>

\* deviation: setupProfile() opens the vault without waiting for the server.
SetupEager(d) ==
  /\ made < MaxKeys
  /\ made' = made + 1
  /\ Send(d, Request("create", made + 1, 0))
  /\ share' = [share EXCEPT ![d] = made + 1]
  /\ mek' = [mek EXCEPT ![d] = made + 1]
  /\ UNCHANGED <<serverVars, read, stored, flow>>

\* createVaultProfile() with a new key; the cached profile query that offers it
\* may be out of date.
Setup(d) ==
  /\ made < MaxKeys
  /\ made' = made + 1
  /\ Send(d, Request("create", made + 1, 0))
  /\ UNCHANGED <<serverVars, read, stored, share, mek, flow>>

\* updateEncryptionPassphrase(): from the change form or a recovery file, both
\* verified against the material fetched earlier.
ChangePassphrase(d) ==
  /\ read[d] # None
  /\ Send(d, Request("update", read[d].key, 0))
  /\ UNCHANGED <<serverVars, read, stored, share, mek, flow, made>>

\* A Secret, a Seal or a credential is saved from an unlocked vault.
Save(d, t) ==
  /\ mek[d] # None
  /\ Send(d, Request("write", mek[d], t))
  /\ UNCHANGED <<serverVars, read, stored, share, mek, flow, made>>

\* deviation: the last step is not the end.
EraseOn(d) ==
  /\ Send(d, Request("erase", None, flow[d] + 1))
  /\ UNCHANGED <<serverVars, read, stored, share, mek, flow, made>>

\* The first step that is not done: run for the first time, or retried.
EraseNext(d) ==
  /\ flow[d] # LastStep
  /\ Send(d, Request("erase", None, flow[d] + 1))
  /\ UNCHANGED <<serverVars, read, stored, share, mek, flow, made>>

\* The page is left, finished or not: a new visit starts with the first step.
LeaveErase(d) ==
  /\ flow[d] # 0 /\ call[d] = None
  /\ flow' = [flow EXCEPT ![d] = 0]
  /\ UNCHANGED <<serverVars, read, stored, share, mek, call, made>>

-----------------------------------------------------------------------------
\* The server, one withVaultWrite() each, and what the browser does when the
\* reply arrives.  A refused request only shows an error.

Arrives(d, op) ==
  /\ call[d] # None /\ call[d].op = op
  /\ call' = [call EXCEPT ![d] = None]

\* createProfile(): refused where there is a profile.
Create(d) ==
  LET key == call[d].key IN
  /\ Arrives(d, "create")
  /\ \/ /\ profile # None
        /\ UNCHANGED <<serverVars, share, mek>>
     \/ /\ profile = None
        /\ profile' = [key |-> key, id |-> key]
        /\ ever' = ever \cup {key}
        /\ \/ share' = [share EXCEPT ![d] = key] /\ mek' = [mek EXCEPT ![d] = key]
           \/ Lossy /\ UNCHANGED <<share, mek>>
        /\ UNCHANGED rows
  /\ UNCHANGED <<read, stored, flow, made>>

\* There is a profile to write to, and no VaultKeyIdConflictError.
AcceptsAny(key) == profile # None   \* deviation: the ids are not compared
Accepts(key) == profile # None /\ profile.id \in {None, key}

\* updateProfile(): share, salt and check value are replaced, the id only filled in.
Update(d) ==
  LET key == call[d].key  now == [key |-> key, id |-> IF profile.id = None THEN key ELSE profile.id] IN
  /\ Arrives(d, "update")
  /\ \/ ~Accepts(key) /\ UNCHANGED <<serverVars, read, stored, share>>
     \/ /\ Accepts(key)
        /\ profile' = now
        /\ ever' = ever \cup {key}
        /\ \/ /\ stored' = [stored EXCEPT ![d] = IF KeepsShare THEN [key |-> key, id |-> key] ELSE None]
              /\ share' = [share EXCEPT ![d] = key]
              /\ read' = [read EXCEPT ![d] = None]
           \/ Lossy /\ UNCHANGED <<read, stored, share>>
        /\ UNCHANGED rows
  /\ UNCHANGED <<mek, flow, made>>

\* backfillVaultKeyId()
Backfill(d) ==
  /\ Arrives(d, "backfill")
  /\ profile' = IF Accepts(call[d].key) THEN [profile EXCEPT !.id = call[d].key] ELSE profile
  /\ UNCHANGED <<rows, ever, read, stored, share, mek, flow, made>>

\* A tier's create or update: the server sees ciphertext and does not look at
\* the profile.
Write(d) ==
  /\ Arrives(d, "write")
  /\ rows' = rows \cup {<<call[d].at, call[d].key>>}
  /\ UNCHANGED <<profile, ever, read, stored, share, mek, flow, made>>

\* eraseSeals(), eraseSecrets(), eraseOtp(), then eraseEncryptionProfile().
Erase(d) ==
  LET step == call[d].at IN
  /\ Arrives(d, "erase")
  /\ rows' = {r \in rows : r[1] # step}
  /\ profile' = IF step = LastStep THEN None ELSE profile
  /\ \/ flow' = [flow EXCEPT ![d] = step]
     \/ Lossy /\ UNCHANGED flow
  /\ UNCHANGED <<ever, read, stored, share, mek, made>>

\* The request never arrives.
Lose(d) ==
  /\ Lossy /\ call[d] # None
  /\ call' = [call EXCEPT ![d] = None]
  /\ UNCHANGED <<serverVars, read, stored, share, mek, flow, made>>

\* The last row of a table under a key is deleted, purged or saved anew.
Drop(r) ==
  /\ rows' = rows \ {r}
  /\ UNCHANGED <<profile, ever, read, stored, share, mek, call, flow, made>>

Browser(d) ==
  \/ Prompt(d) \/ Dismiss(d) \/ Unlock(d) \/ Rehydrate(d) \/ SoftLock(d) \/ Lock(d)
  \/ Setup(d) \/ ChangePassphrase(d)
  \/ EraseNext(d) \/ LeaveErase(d)

Server(d) == Create(d) \/ Update(d) \/ Backfill(d) \/ Write(d) \/ Erase(d) \/ Lose(d)

Next ==
  \/ \E d \in Devices : Browser(d) \/ Server(d)
  \/ \E d \in Devices, t \in 1..Tables : Save(d, t)
  \/ \E r \in rows : Drop(r)

Spec == Init /\ [][Next]_vars

-----------------------------------------------------------------------------
\* While a profile stands, its key stands: no passphrase change, recovery or
\* backfill from material fetched before a reset puts an erased key back over
\* the new one ("only full MEK rotation may do that", encryptionProfiles.ts:116).
ProfileKeyStands == [][profile # None /\ profile' # None => profile'.key = profile.key]_vars

\* The profile's label, once there, names the key its material opens to; a wrong
\* one would lock every browser out (identifyMek, vaultKey.ts:36-40).
IdNamesTheKey == profile # None => profile.id \in {None, profile.key}

\* Nothing is ever stored under a key the server never had a share of, and no
\* browser is open with one: every row could be read when it was written.
KeysWereSharedFirst ==
  /\ \A r \in rows : r[2] \in ever
  /\ \A d \in Devices : {mek[d], share[d]} \subseteq ever \cup {None}

\* The profile opens every row stored beside it: nothing of an erased vault
\* is there when the next one starts ("permanently deletes all of them and lets
\* you start fresh", erase-encryption/page.tsx:20).
RowsOpen == profile # None => \A r \in rows : r[2] = profile.key
=============================================================================
