--------------------------------- MODULE Tags ---------------------------------
(***************************************************************************)
(* Tags: the rows on the server (controllers/tags.ts, routers/tags.ts),    *)
(* the list a page keeps of them and changes before the server answers     *)
(* (useTagMutations.ts), and the tags of one open note: the picker and the *)
(* strip change its selection (AddTagButton.tsx, TagStrip.tsx), and every  *)
(* change sends the whole selection (useNoteModalMeta.ts, setTags).        *)
(* Another device works on the tags as well, not on the note.              *)
(*                                                                         *)
(* Left out: colours (a recolour is a rename without the name check), the  *)
(* time a tag was last used, which only orders the picker, the number of   *)
(* notes shown beside a tag, which "the next natural refetch corrects",    *)
(* and how a name is normalised: names of the model are normalised names.  *)
(***************************************************************************)
EXTENDS Naturals, Sequences, FiniteSets, SequencesExt, FiniteSetsExt

CONSTANTS MaxTags,     \* MAX_TAGS_PER_NOTE
          MaxIds,      \* tags ever made
          MaxNames,
          MaxCalls,    \* calls the page and the other device make
          MaxMishaps,  \* calls that fail or whose reply is lost
          Waits        \* the user leaves the note's tags alone while a tag is made

ASSUME TagsAssumption ==
    /\ {MaxTags, MaxIds, MaxNames} \subseteq Nat \ {0} /\ {MaxCalls, MaxMishaps} \subseteq Nat
    /\ Waits \in BOOLEAN

VARIABLES tagRows,     \* per id: its name, 0 when there is no such row
          noteTags,    \* the note's rows in the join table, in order
          tagList,     \* the page's cached list
          tagFetch,    \* the fetch of that list
          selection,   \* the note's tags in its modal
          tagCalls,
          mishaps,
          news,        \* history: a tag changed that no fetch has looked for since
          doubtful     \* history: the modal shows what was never saved for sure

tagVars == <<tagRows, noteTags, tagList, tagFetch, selection, tagCalls, mishaps, news, doubtful>>

Ids == 1 .. MaxIds
TagNames == 0 .. MaxNames
Selection == [ids : Seq(Ids), by : Nat]   \* by: the call that sends it
\* temps: the calls whose tag is shown before it has an id.
TagList == [names : [Ids -> TagNames], temps : SUBSET (1 .. MaxCalls)]
TagFetch == [stage : {"none", "asked", "read"}, names : [Ids -> TagNames]]
NoFetchOfTags == [stage |-> "none", names |-> [d \in Ids |-> 0]]
NoTagList == [names |-> [d \in Ids |-> 0], temps |-> {}]
\* A call carries what its callbacks remember: before, the list when it was made;
\* held, the selection its render saw. ids: what a call of the note sends.
Call(op, id, name) ==
    [op |-> op, id |-> id, name |-> name, here |-> TRUE, adds |-> FALSE, stage |-> "asked",
     before |-> NoTagList, held |-> [ids |-> <<>>, by |-> 0], ids |-> <<>>]
Past(call, stage) == [Call(call.op, call.id, call.name) EXCEPT !.stage = stage]

NamesLive == {d \in Ids : tagRows[d] # 0}
Named(n) == {d \in Ids : tagRows[d] = n}
UnansweredCalls(S) == {i \in 1 .. Len(tagCalls) : tagCalls[i].op \in S /\ tagCalls[i].stage \notin {"done", "undone"}}

TagsInit ==
    /\ tagRows = [d \in Ids |-> IF d = 1 THEN 1 ELSE 0]
    /\ noteTags \in {<<>>, <<1>>}
    /\ tagList = [names |-> tagRows, temps |-> {}]
    /\ tagFetch = NoFetchOfTags
    /\ selection = [ids |-> noteTags, by |-> 0]
    /\ tagCalls = <<>>
    /\ mishaps = 0
    /\ news = FALSE /\ doubtful = FALSE

--------------------------------------------------------------------------------
(* The page's own changes.                                                  *)

\* What is left of a selection, in its order.
Only(ids, S) ==
    LET kept == {i \in DOMAIN ids : ids[i] \in S}
        Rank(i) == Cardinality({j \in kept : j <= i})
    IN  [k \in 1 .. Cardinality(kept) |-> ids[CHOOSE i \in kept : Rank(i) = k]]

MayCall == Len(tagCalls) < MaxCalls
Newest == Len(tagCalls) + 1

\* handleTagsChange, called by a render that saw held.
SendTags(ids, held) ==
    /\ selection' = [ids |-> ids, by |-> Newest]
    /\ tagCalls' = Append(tagCalls, [Call("tags", 0, 0) EXCEPT !.held = held, !.ids = ids])

\* resolve: an id that is no tag any more is not shown.
Resolved == {d \in Range(selection.ids) : tagList.names[d] # 0}
AtLimit(ids) == Len(ids) >= MaxTags
Undisturbed == Waits => \A i \in UnansweredCalls({"create"}) : ~tagCalls[i].adds

PickTag(d) ==
    /\ MayCall /\ Undisturbed
    /\ tagList.names[d] # 0 /\ d \notin Range(selection.ids) /\ ~AtLimit(selection.ids)
    /\ SendTags(Append(selection.ids, d), selection)
    /\ UNCHANGED <<tagRows, noteTags, tagList, tagFetch, mishaps, news, doubtful>>

RemoveChip(d) ==
    /\ MayCall /\ Undisturbed
    /\ d \in Resolved
    /\ SendTags(Only(selection.ids, Ids \ {d}), selection)
    /\ UNCHANGED <<tagRows, noteTags, tagList, tagFetch, mishaps, news, doubtful>>

\* The mutations of the list cancel the fetch under way before they change it.
Changing(call, after) ==
    /\ MayCall
    /\ tagCalls' = Append(tagCalls, call)
    /\ tagList' = after
    /\ tagFetch' = NoFetchOfTags
    /\ UNCHANGED <<tagRows, noteTags, selection, mishaps, news, doubtful>>

Known(n) == \/ \E d \in Ids : tagList.names[d] = n
            \/ \E i \in tagList.temps : tagCalls[i].name = n

\* The picker creates and then selects; the tags page only creates.
CreateTag(n, adds) ==
    /\ adds => ~AtLimit(selection.ids) /\ ~Known(n)
    /\ adds => Undisturbed /\ (Waits => UnansweredCalls({"tags"}) = {})
    /\ ~adds => \A i \in UnansweredCalls({"create"}) : tagCalls[i].adds
    /\ Changing([Call("create", 0, n) EXCEPT !.adds = adds, !.held = IF adds THEN selection ELSE @],
                [tagList EXCEPT !.temps = @ \cup {Newest}])

RenameTag(d, n) ==
    /\ tagList.names[d] \notin {0, n}
    /\ Changing([Call("rename", d, n) EXCEPT !.before = tagList], [tagList EXCEPT !.names[d] = n])

DeleteTag(d) ==
    /\ tagList.names[d] # 0
    /\ Changing([Call("delete", d, 0) EXCEPT !.before = tagList], [tagList EXCEPT !.names[d] = 0])

\* The other device: only what its calls do on the server is of interest.
Elsewhere(op, d, n) ==
    /\ MayCall
    /\ op # "create" => tagRows[d] # 0
    /\ tagCalls' = Append(tagCalls, [Call(op, d, n) EXCEPT !.here = FALSE])
    /\ UNCHANGED <<tagRows, noteTags, tagList, tagFetch, selection, mishaps, news, doubtful>>

--------------------------------------------------------------------------------
(* The server. A call is answered "ok" or "failed"; a rename and a delete   *)
(* look first, in transactions of their own.                                *)

Ends(i, stage) == stage \in {"done", "undone"} \/ (~tagCalls[i].here /\ stage \in {"ok", "failed"})
Reaches(i, stage) ==
    tagCalls' = [tagCalls EXCEPT ![i] = IF Ends(i, stage) THEN Past(@, IF stage \in {"ok", "done"} THEN "done" ELSE "undone")
                                                          ELSE [@ EXCEPT !.stage = stage]]
Served(i) == UNCHANGED <<tagList, tagFetch, selection, mishaps, doubtful>>
Quietly(i, stage) == Reaches(i, stage) /\ Served(i) /\ UNCHANGED <<tagRows, noteTags, news>>

Made(i, d) ==
    tagCalls' = [tagCalls EXCEPT ![i] = IF tagCalls[i].here THEN [@ EXCEPT !.stage = "ok", !.id = d]
                                                           ELSE Past([@ EXCEPT !.id = d], "done")]
\* createTag: the name that is there already is the answer.
ServeCreate(i) ==
    /\ tagCalls[i].op = "create" /\ tagCalls[i].stage = "asked"
    /\ \/ \E d \in Named(tagCalls[i].name) :
            /\ Made(i, d)
            /\ UNCHANGED <<tagRows, news>>
       \/ \E d \in Ids :
            /\ Named(tagCalls[i].name) = {}
            /\ tagRows[d] = 0 /\ \A j \in 1 .. Len(tagCalls) : tagCalls[j].id # d
            /\ tagRows' = [tagRows EXCEPT ![d] = tagCalls[i].name]
            /\ Made(i, d)
            /\ news' = TRUE
    /\ UNCHANGED noteTags
    /\ Served(i)

\* assertOwner(await getTagById(…))
LookUp(i) ==
    /\ tagCalls[i].op \in {"rename", "delete"} /\ tagCalls[i].stage = "asked"
    /\ Quietly(i, IF tagRows[tagCalls[i].id] = 0 THEN "failed" ELSE "owned")

\* tagNameTaken
CheckName(i) ==
    /\ tagCalls[i].op = "rename" /\ tagCalls[i].stage = "owned"
    /\ Quietly(i, IF Named(tagCalls[i].name) \subseteq {tagCalls[i].id} THEN "free" ELSE "failed")

CheckedIsEnough(i) == TRUE
\* The unique index on the owner and the name.
NameIsFree(i) == Named(tagCalls[i].name) \subseteq {tagCalls[i].id}
\* updateTag: no row, no change; the index may still refuse it.
ServeRename(i) ==
    /\ tagCalls[i].op = "rename" /\ tagCalls[i].stage = "free"
    /\ \/ /\ tagRows[tagCalls[i].id] = 0
          /\ Reaches(i, "ok") /\ UNCHANGED <<tagRows, news>>
       \/ /\ tagRows[tagCalls[i].id] # 0 /\ ~NameIsFree(i)
          /\ Reaches(i, "failed") /\ UNCHANGED <<tagRows, news>>
       \/ /\ tagRows[tagCalls[i].id] # 0 /\ NameIsFree(i)
          /\ tagRows' = [tagRows EXCEPT ![tagCalls[i].id] = tagCalls[i].name]
          /\ news' = TRUE
          /\ Reaches(i, "ok")
    /\ UNCHANGED noteTags
    /\ Served(i)

LeftBehind(ids, d) == ids
\* deleteTagAndDetach: the join rows go with it.
Detached(ids, d) == Only(ids, Ids \ {d})
ServeDelete(i) ==
    /\ tagCalls[i].op = "delete" /\ tagCalls[i].stage = "owned"
    /\ tagRows' = [tagRows EXCEPT ![tagCalls[i].id] = 0]
    /\ noteTags' = Detached(noteTags, tagCalls[i].id)
    /\ news' = TRUE
    /\ Reaches(i, "ok")
    /\ Served(i)

SentAtOnce(i) == TRUE
\* One note's writes go out one at a time, in the order they were made.
MaySendTags(i) == \A j \in UnansweredCalls({"tags"}) : j >= i
\* getOwnedTagIds: an id that is no tag of the account is dropped.
Owned(ids) == Only(ids, NamesLive)
\* setTags
ServeTags(i) ==
    /\ tagCalls[i].op = "tags" /\ tagCalls[i].stage = "asked" /\ MaySendTags(i)
    /\ Len(tagCalls[i].ids) <= MaxTags
    /\ noteTags' = Owned(tagCalls[i].ids)
    /\ Reaches(i, "ok")
    /\ UNCHANGED <<tagRows, news>>
    /\ Served(i)

\* A call that never arrives, and one whose answer never does.
Mishap(i) ==
    /\ mishaps < MaxMishaps /\ mishaps' = mishaps + 1
    /\ tagCalls[i].here
    /\ \/ tagCalls[i].stage = "asked" /\ (tagCalls[i].op = "tags" => MaySendTags(i))
          /\ UNCHANGED doubtful
       \/ tagCalls[i].stage = "ok" /\ doubtful' = (doubtful \/ tagCalls[i].op = "tags")
    /\ Reaches(i, "failed")
    /\ UNCHANGED <<tagRows, noteTags, tagList, tagFetch, selection, news>>

--------------------------------------------------------------------------------
(* The page hears the answers.                                              *)

LeftAlone(i) == IF tagCalls[i].stage = "ok" THEN [NoFetchOfTags EXCEPT !.stage = "asked"] ELSE tagFetch
\* onSettled invalidates the list, whatever the answer: it is fetched from the start.
Invalidated(i) == [NoFetchOfTags EXCEPT !.stage = "asked"]
Heard(i, how) == /\ tagCalls[i].here /\ tagCalls[i].stage \in how
                 /\ UNCHANGED <<tagRows, noteTags, mishaps>>
Over(i) == IF tagCalls[i].stage = "ok" THEN "done" ELSE "undone"
TagsRefetched(i) == tagFetch' = Invalidated(i) /\ news' = FALSE

\* createAndAdd: add goes by the selection its render saw.
Added(i) == IF AtLimit(tagCalls[i].held.ids) \/ tagCalls[i].id \in Range(tagCalls[i].held.ids)
              THEN tagCalls[i].held.ids
              ELSE Append(tagCalls[i].held.ids, tagCalls[i].id)
Adds(i) == tagCalls[i].adds /\ Added(i) # tagCalls[i].held.ids
CreateSucceeds(i) ==
    /\ tagCalls[i].op = "create" /\ Heard(i, {"ok"})
    /\ TagsRefetched(i)
    /\ tagList' = [tagList EXCEPT !.temps = @ \ {i},
                                 !.names[tagCalls[i].id] = IF @ = 0 THEN tagCalls[i].name ELSE @]
    /\ LET heard == [tagCalls EXCEPT ![i] = Past(@, "done")]
           held == tagCalls[i].held
       IN \/ /\ Adds(i)
             /\ selection' = [ids |-> Added(i), by |-> Newest]
             /\ tagCalls' = Append(heard, [Call("tags", 0, 0) EXCEPT !.held = held, !.ids = Added(i)])
          \/ /\ ~Adds(i)
             /\ tagCalls' = heard
             /\ UNCHANGED selection
    /\ UNCHANGED doubtful

CreateFails(i) ==
    /\ tagCalls[i].op = "create" /\ Heard(i, {"failed"})
    /\ tagList' = [tagList EXCEPT !.temps = @ \ {i}]
    /\ TagsRefetched(i) /\ Reaches(i, "undone")
    /\ UNCHANGED <<selection, doubtful>>

\* A rename or a delete that failed puts the whole list back as it was.
ChangeAnswered(i) ==
    /\ tagCalls[i].op \in {"rename", "delete"} /\ Heard(i, {"ok", "failed"})
    /\ tagList' = IF tagCalls[i].stage = "failed" THEN tagCalls[i].before ELSE tagList
    /\ TagsRefetched(i) /\ Reaches(i, Over(i))
    /\ UNCHANGED <<selection, doubtful>>

TagsSaved(i) ==
    /\ tagCalls[i].op = "tags" /\ Heard(i, {"ok"})
    /\ Reaches(i, "done")
    /\ doubtful' = (doubtful /\ selection.by # i)
    /\ UNCHANGED <<tagList, tagFetch, selection, news>>

PutBackAnyway(i) == tagCalls[i].held
\* The selection goes back only if nothing was chosen since.
PutBack(i) == IF selection.by = i THEN tagCalls[i].held ELSE selection
TagsNotSaved(i) ==
    /\ tagCalls[i].op = "tags" /\ Heard(i, {"failed"})
    /\ Reaches(i, "undone")
    /\ selection' = PutBack(i)
    /\ doubtful' = (doubtful \/ \E j \in 1 .. Len(tagCalls) :
                                   tagCalls[i].held.by = j /\ tagCalls[j].stage = "undone")
    /\ UNCHANGED <<tagList, tagFetch, news>>

\* listTags, in one transaction.
ReadTags ==
    /\ tagFetch.stage = "asked"
    /\ tagFetch' = [stage |-> "read", names |-> tagRows]
    /\ UNCHANGED <<tagRows, noteTags, tagList, selection, tagCalls, mishaps, news, doubtful>>

FetchedTags ==
    /\ tagFetch.stage = "read"
    /\ tagList' = [names |-> tagFetch.names, temps |-> {}]
    /\ tagFetch' = NoFetchOfTags
    /\ UNCHANGED <<tagRows, noteTags, selection, tagCalls, mishaps, news, doubtful>>

--------------------------------------------------------------------------------
TagsNext ==
    \/ \E d \in Ids : PickTag(d) \/ RemoveChip(d) \/ DeleteTag(d)
    \/ \E d \in Ids, n \in TagNames \ {0} : RenameTag(d, n)
    \/ \E n \in TagNames \ {0}, adds \in BOOLEAN : CreateTag(n, adds)
    \/ \E n \in TagNames \ {0} : Elsewhere("create", 0, n)
    \/ \E d \in Ids : Elsewhere("delete", d, 0) \/ \E n \in TagNames \ {0} : Elsewhere("rename", d, n)
    \/ \E i \in 1 .. Len(tagCalls) :
         \/ ServeCreate(i) \/ LookUp(i) \/ CheckName(i) \/ ServeRename(i) \/ ServeDelete(i) \/ ServeTags(i)
         \/ Mishap(i) \/ CreateSucceeds(i) \/ CreateFails(i) \/ ChangeAnswered(i)
         \/ TagsSaved(i) \/ TagsNotSaved(i)
    \/ ReadTags \/ FetchedTags

TagsSpec == TagsInit /\ [][TagsNext]_tagVars

--------------------------------------------------------------------------------
(* The state is well formed: what is in the join table is a tag there is,   *)
(* once each and no more than the limit, which deleting tags and saving     *)
(* stale selections in any order keep so.                                   *)
TagsTypeOK ==
    /\ tagRows \in [Ids -> TagNames]
    /\ noteTags \in Seq(NamesLive) /\ IsInjective(noteTags) /\ Len(noteTags) <= MaxTags
    /\ tagList \in TagList /\ selection \in Selection
    /\ tagFetch \in TagFetch
    /\ mishaps \in 0 .. MaxMishaps /\ news \in BOOLEAN /\ doubtful \in BOOLEAN

(* Names are unique in an account although a rename asks whether the name   *)
(* is taken in a transaction that is over before it writes.                 *)
NamesAreUnique == \A d, e \in NamesLive : tagRows[d] = tagRows[e] => d = e

(* When the note's writes are answered, the server has the selection the    *)
(* modal shows, but for tags deleted since, whatever order the writes and   *)
(* their failures came in; not when a reply was lost, or when what was put  *)
(* back had itself failed.                                                  *)
ChoicesStand ==
    UnansweredCalls({"tags"}) = {} /\ ~doubtful =>
        Range(noteTags) = {d \in Range(selection.ids) : tagRows[d] # 0}

(* When every change of the list is answered and its last fetch is in, the  *)
(* page lists the tags there are, unless something has changed since        *)
(* elsewhere: what failed, succeeded or was rolled back in between leaves   *)
(* nothing behind.                                                          *)
SettledTagsAreTrue ==
    (\A i \in UnansweredCalls({"create", "rename", "delete"}) : ~tagCalls[i].here)
        /\ tagFetch.stage = "none" /\ ~news =>
        tagList.names = tagRows /\ tagList.temps = {}

(* A tag made in the picker is added to the note, and nothing else about    *)
(* the note's tags changes when the server answers.                         *)
OnlyAddsTheNewTag ==
    [][\A i \in 1 .. Len(tagCalls) :
         tagCalls[i].op = "create" /\ tagCalls[i].stage = "ok" /\ tagCalls'[i].stage = "done" =>
             Range(selection'.ids) \in {Range(selection.ids), Range(selection.ids) \cup {tagCalls[i].id}}]_tagVars

(* Names, a note's selection and the page's list agree with the server.     *)
TagsAgree == NamesAreUnique /\ ChoicesStand /\ SettledTagsAreTrue
===============================================================================
