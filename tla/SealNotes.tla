------------------------------- MODULE SealNotes -------------------------------
(***************************************************************************)
(* The note key of ONE Seal, edited from several devices                   *)
(* (src/controllers/seals.ts, src/server/routers/seals.ts, and the browser *)
(* side that decides under which key a body is encrypted:                  *)
(* src/components/SealNoteModal/SealNoteModal.tsx, src/hooks/useSealKeys.ts)*)
(*                                                                         *)
(* The head row stores the wrapped note key; versions and attachments are  *)
(* ciphertext only and are opened with whatever key the head holds now.  A *)
(* wrapper is modelled by the note key it wraps.  A device decides from    *)
(* its cached copy of the row; the server writes what it is sent.          *)
(***************************************************************************)
EXTENDS Naturals, Sequences, SequencesExt

CONSTANTS
  Devices,     \* browsers with the Seal open
  Texts,       \* contents of the body
  MaxKeys,     \* bound: note keys one device generates
  MaxVersions, \* MAX_VERSIONS
  Lossy,       \* whether an update or its reply can be lost
  None         \* a null column, or nothing there

ASSUME SealAssumption == MaxKeys \in Nat \ {0} /\ MaxVersions \in Nat \ {0} /\ Lossy \in BOOLEAN

Keys == Devices \X (1..MaxKeys)
Body == [under : Keys, text : Texts]
Row  == [nek : Keys \cup {None}, body : Body \cup {None}]

Update == [data : Row, withKey : BOOLEAN, files : SUBSET Keys, undo : Row]

ASSUME NoneAssumption == None \notin Keys \cup Body \cup Update

VARIABLES
  row,      \* the seal_notes row
  versions, \* seal_note_versions, oldest first
  linked,   \* the keys of the attachments linked to the Seal
  view,     \* each device's cached copy of the row
  minted,   \* useSealKeys: the key a device made for a Seal without one
  made,     \* how many keys each device has generated
  attached, \* keys of attachments uploaded in the editor, not yet linked
  sent      \* the update each device has in flight, and what it rolls back to

vars == <<row, versions, linked, view, minted, made, attached, sent>>
deviceVars == <<view, minted, made, attached, sent>>

TypeOK ==
  /\ row \in Row
  /\ versions \in BoundedSeq(Body \cup {None}, MaxVersions)
  /\ linked \subseteq Keys
  /\ view \in [Devices -> Row]
  /\ minted \in [Devices -> Keys \cup {None}]
  /\ made \in [Devices -> 0..MaxKeys]
  /\ attached \in [Devices -> SUBSET Keys]
  /\ sent \in [Devices -> Update \cup {None}]

Start(head) ==
  /\ row = head /\ versions = <<>> /\ linked = {}
  /\ view = [d \in Devices |-> head]
  /\ minted = [d \in Devices |-> None]
  /\ attached = [d \in Devices |-> {}]
  /\ sent = [d \in Devices |-> None]

\* A Seal saved with a title and no body: it has no note key yet.
InitHollow == Start([nek |-> None, body |-> None]) /\ made = [d \in Devices |-> 0]

\* A Seal that one device created with a body.
InitWritten ==
  \E d \in Devices, t \in Texts :
    /\ Start([nek |-> <<d, 1>>, body |-> [under |-> <<d, 1>>, text |-> t]])
    /\ made = [x \in Devices |-> IF x = d THEN 1 ELSE 0]

-----------------------------------------------------------------------------
\* Opening the Seal, or a list query that settles under it.
Refetch(d) ==
  /\ sent[d] = None
  /\ view' = [view EXCEPT ![d] = row]
  /\ UNCHANGED <<row, versions, linked, minted, made, attached, sent>>

\* The editor is closed: what only it held is gone.
Close(d) ==
  /\ minted' = [minted EXCEPT ![d] = None]
  /\ attached' = [attached EXCEPT ![d] = {}]
  /\ UNCHANGED <<row, versions, linked, view, made, sent>>

NextKey(d) == <<d, made[d] + 1>>

\* useSealKeys(): a key is minted only when the cached row stores none.
Mint(d) ==
  /\ view[d].nek = None /\ minted[d] = None /\ made[d] < MaxKeys
  /\ minted' = [minted EXCEPT ![d] = NextKey(d)]
  /\ made' = [made EXCEPT ![d] = @ + 1]
  /\ UNCHANGED <<row, versions, linked, view, attached, sent>>

EditorKey(d) == IF view[d].nek # None THEN view[d].nek ELSE minted[d]

\* An attachment is encrypted under the key the editor holds.
Attach(d) ==
  /\ EditorKey(d) # None
  /\ attached' = [attached EXCEPT ![d] = @ \cup {EditorKey(d)}]
  /\ UNCHANGED <<row, versions, linked, view, minted, made, sent>>

BodyKeyFresh(d) == NextKey(d)   \* deviation: an edit encrypts under a new key
BodyKey(d) == IF EditorKey(d) # None THEN EditorKey(d) ELSE NextKey(d)

\* The update goes out and the cache shows it at once (onMutate).
Submit(d, data, withKey, files) ==
  /\ sent[d] = None
  /\ sent' = [sent EXCEPT ![d] = [data |-> data, withKey |-> withKey, files |-> files, undo |-> view[d]]]
  /\ view' = [view EXCEPT ![d] = data]
  /\ UNCHANGED <<row, versions, linked, minted, attached>>

\* performSave(), and an edit of the read-only view, with text in the body.
SaveText(d, t) ==
  LET k == BodyKey(d) IN
  /\ k = NextKey(d) => made[d] < MaxKeys
  /\ made' = IF k = NextKey(d) THEN [made EXCEPT ![d] = @ + 1] ELSE made
  /\ \E files \in SUBSET attached[d] :   \* those the text still names
       Submit(d, [nek |-> k, body |-> [under |-> k, text |-> t]], TRUE, files)

\* An emptied body keeps whatever key the cached row had.
SaveEmpty(d) ==
  /\ Submit(d, [nek |-> view[d].nek, body |-> None], TRUE, {})
  /\ UNCHANGED made

\* The same from the read-only view (onChange): no key is sent.
ClearInView(d) ==
  /\ Submit(d, [nek |-> view[d].nek, body |-> None], FALSE, {})
  /\ UNCHANGED made

SnapshotAll(body) == Append(versions, body)   \* deviation: no cap

\* insertVersionCapped(): the oldest versions go.
Snapshot(body) ==
  LET all == Append(versions, body) IN
  IF Len(all) > MaxVersions THEN Tail(all) ELSE all

Rollback(d) == view' = [view EXCEPT ![d] = sent[d].undo] /\ UNCHANGED attached

\* The device hears of the update, or takes it for failed.
Answer(d) ==
  \/ attached' = [attached EXCEPT ![d] = @ \ sent[d].files] /\ UNCHANGED view
  \/ Lossy /\ Rollback(d)

\* updateSeal() and linkFilesToNote() in one vault write.  The old head becomes
\* a version, unless one exists and it was saved within the compression window;
\* every encryption has its own nonce, so only two null bodies are the same.
Write(d) ==
  LET new == IF sent[d].withKey THEN sent[d].data ELSE [row EXCEPT !.body = sent[d].data.body] IN
  /\ sent[d] # None
  /\ row' = new
  /\ \E record \in BOOLEAN :
       /\ versions = <<>> /\ (row.body # None \/ new.body # None) => record
       /\ versions' = IF record THEN Snapshot(row.body) ELSE versions
  /\ linked' = IF new.nek # None THEN linked \cup sent[d].files ELSE linked
  /\ Answer(d)
  /\ sent' = [sent EXCEPT ![d] = None]
  /\ UNCHANGED <<minted, made>>

\* The update never arrives: the cache rolls back, the draft stays.
Lose(d) ==
  /\ Lossy /\ sent[d] # None
  /\ Rollback(d)
  /\ sent' = [sent EXCEPT ![d] = None]
  /\ UNCHANGED <<row, versions, linked, minted, made>>

\* restoreSealVersion(): the head's key is left as it is.
Restore(i) ==
  /\ row' = [row EXCEPT !.body = versions[i]]
  /\ versions' = Snapshot(row.body)
  /\ UNCHANGED <<linked, deviceVars>>

DeleteVersion(i) ==
  /\ versions' = RemoveAt(versions, i)
  /\ UNCHANGED <<row, linked, deviceVars>>

Next ==
  \/ \E d \in Devices : Refetch(d) \/ Close(d) \/ Mint(d) \/ Attach(d)
  \/ \E d \in Devices : \E t \in Texts : SaveText(d, t)
  \/ \E d \in Devices : SaveEmpty(d) \/ ClearInView(d) \/ Write(d) \/ Lose(d)
  \/ \E i \in DOMAIN versions : Restore(i) \/ DeleteVersion(i)

Spec        == InitHollow /\ [][Next]_vars
SpecWritten == InitWritten /\ [][Next]_vars

-----------------------------------------------------------------------------
\* The key in the head opens everything the Seal stores: the current body, every
\* retained version and every linked attachment - whichever devices saved,
\* restored, retried or emptied it, from however old a copy.
EverythingOpens ==
  /\ row.body # None => row.body.under = row.nek
  /\ \A i \in DOMAIN versions : versions[i] # None => versions[i].under = row.nek
  /\ linked \subseteq {row.nek}

\* The note key of a Seal never rotates during ordinary edits (schema.ts:221,
\* crypto.ts:335).
NoteKeyStands == [][row.nek # None => row'.nek = row.nek]_vars

=============================================================================
