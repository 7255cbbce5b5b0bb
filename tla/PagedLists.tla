----------------------------- MODULE PagedLists -----------------------------
(***************************************************************************)
(* The lists a member reads page by page while the rows behind them        *)
(* change: the Activity feed, which is a union over eight tables           *)
(* (server/modules/activity), the chat history, the documents of a Space   *)
(* and its Agent tasks; and the overview, which answers from three queries *)
(* that share no snapshot.                                                 *)
(*                                                                         *)
(* A page continues behind a cursor made of the time and the key of the    *)
(* last row shown.  Times are the server's milliseconds; rows of the same  *)
(* millisecond are ordered by key.  A row may be committed with an older   *)
(* time than rows already stored, as the time is taken before the insert.  *)
(***************************************************************************)
EXTENDS Integers, Sequences, FiniteSets, Functions

CONSTANTS
  NoItem,      \* null
  HomeSpace,   \* a Space the reader stays in
  OtherSpace,  \* a Space the reader may be removed from
  PageLimit,   \* rows per page
  MaxEdits     \* bound: changes of the rows

ASSUME ListsAssumption ==
  /\ HomeSpace # OtherSpace /\ NoItem \notin {HomeSpace, OtherSpace}
  /\ PageLimit \in Nat \ {0} /\ MaxEdits \in Nat

VARIABLES
  rows,      \* the stored rows
  edits,     \* number of changes so far
  reader,    \* the list being read
  overview   \* the overview being computed

listsVars == <<rows, edits, reader, overview>>

Spaces == {HomeSpace, OtherSpace}
Tables == {"connections", "research_spaces", "space_members", "chat_messages", "saved_papers",
           "documents", "agent_tasks", "agent_runs"}
NoTime == -1

Row(table, id, space, at) ==
  [table |-> table, id |-> id, space |-> space, at |-> at, then |-> NoTime, status |-> "none"]

In(table) == {r \in rows : r.table = table}
Accessible == {r.space : r \in In("space_members")}

-----------------------------------------------------------------------------
(* The union behind the Activity feed.  An event is ordered by its time and *)
(* its key, which starts with its kind; ranks stand for the alphabet.       *)

Rank ==
  [agent_run_created |-> 1, agent_task_created |-> 2, chat_message_created |-> 3,
   connection_accepted |-> 4, connection_requested |-> 5, document_uploaded |-> 6,
   member_joined |-> 7, paper_saved |-> 8, space_created |-> 9]

Category(kind) ==
  CASE kind \in {"agent_run_created", "agent_task_created"} -> "agents"
    [] kind = "document_uploaded" -> "knowledge"
    [] kind = "paper_saved" -> "research"
    [] OTHER -> "collaboration"

Event(kind, r, at) == [kind |-> kind, key |-> <<Rank[kind], r.id>>, at |-> at, space |-> r.space]

EventsOf(kind, table) == {Event(kind, r, r.at) : r \in {x \in In(table) : x.space \in Accessible}}

ConnectionRequested == {Event("connection_requested", r, r.at) : r \in In("connections")}
ConnectionAccepted ==
  {Event("connection_accepted", r, r.then) : r \in {x \in In("connections") : x.then # NoTime}}
SpaceCreated == EventsOf("space_created", "research_spaces")
MemberJoined == EventsOf("member_joined", "space_members")
ChatMessageCreated == EventsOf("chat_message_created", "chat_messages")
PaperSaved == EventsOf("paper_saved", "saved_papers")
DocumentUploaded == EventsOf("document_uploaded", "documents")
AgentTaskCreated == EventsOf("agent_task_created", "agent_tasks")
AgentRunCreated == EventsOf("agent_run_created", "agent_runs")

ActivityEvents ==
  UNION {ConnectionRequested, ConnectionAccepted, SpaceCreated, MemberJoined, ChatMessageCreated,
         PaperSaved, DocumentUploaded, AgentTaskCreated, AgentRunCreated}

FeedRows(query) ==
  {e \in ActivityEvents : /\ query.space \in {NoItem, e.space}
                          /\ query.category \in {NoItem, Category(e.kind)}}

-----------------------------------------------------------------------------
(* The lists of one Space.                                                  *)

Item(r) == [kind |-> r.table, key |-> <<0, r.id>>, at |-> r.at, space |-> r.space]

MessageRows(query) == {Item(r) : r \in {x \in In("chat_messages") : x.space = query.space}}
DocumentRows(query) == {Item(r) : r \in {x \in In("documents") : x.space = query.space}}

(* A task is listed with its latest run, and by the status of that run.     *)
RunId(task, attempt) == 10 * task + attempt
RunsOf(t) == {r \in In("agent_runs") : r.id \div 10 = t.id}
LatestRunOf(t) == {r \in RunsOf(t) : \A x \in RunsOf(t) : x.id <= r.id}

TaskRows(query) ==
  {Item(t) : t \in {x \in In("agent_tasks") :
      x.space = query.space /\ \E r \in LatestRunOf(x) : query.status \in {NoItem, r.status}}}

Listed(query) ==
  CASE query.list = "activity" -> FeedRows(query)
    [] query.list = "chat" -> MessageRows(query)
    [] query.list = "documents" -> DocumentRows(query)
    [] query.list = "tasks" -> TaskRows(query)

-----------------------------------------------------------------------------
(* One page.                                                                *)

(* Keys compare like strings: by kind, then by id.                          *)
KeyBefore(k, l) == k[1] < l[1] \/ (k[1] = l[1] /\ k[2] < l[2])
Before(e, f) == e.at < f.at \/ (e.at = f.at /\ KeyBefore(e.key, f.key))

(* Mutant of Behind: the cursor holds the time alone.                       *)
BehindTime(cursor, e) == cursor = NoItem \/ e.at < cursor.at

Behind(cursor, e) == cursor = NoItem \/ Before(e, cursor)

(* One row more than the page is fetched, to tell whether there is another. *)
PageOf(query, cursor) ==
  LET found == {e \in Listed(query) : Behind(cursor, e)}
      number == Cardinality(found)
  IN [items |-> [i \in 1 .. (IF number < PageLimit THEN number ELSE PageLimit) |->
                   CHOOSE e \in found : Cardinality({f \in found : Before(e, f)}) = i - 1],
      more |-> number > PageLimit]

-----------------------------------------------------------------------------
(* Reading.                                                                 *)

PageQueries ==
  {[list |-> "activity", space |-> NoItem, category |-> NoItem, status |-> NoItem],
   [list |-> "activity", space |-> OtherSpace, category |-> "collaboration", status |-> NoItem]}
  \cup {[list |-> l, space |-> OtherSpace, category |-> NoItem, status |-> NoItem] :
     l \in {"chat", "documents", "tasks"}}
  \cup {[list |-> "tasks", space |-> OtherSpace, category |-> NoItem, status |-> "queued"]}

ASSUME NoItemApart ==
  /\ NoItem \notin PageQueries
  /\ NoItem \notin [kind : DOMAIN Rank \cup Tables, key : Int \X Int, at : Int,
                  space : Spaces \cup {NoItem}]

Idle == [query |-> NoItem, phase |-> "idle", cursor |-> NoItem, seen |-> << >>,
         there |-> {}, was |-> {}, gained |-> {}]

NoOverview == [left |-> {}, spaces |-> {}, was |-> {}]

OpenList(query) ==
  /\ reader = Idle /\ overview = NoOverview
  /\ reader' = [Idle EXCEPT !.query = query, !.phase = "more", !.there = Listed(query)]
  /\ UNCHANGED <<rows, edits, overview>>

RequestPage ==
  /\ reader.phase = "more"
  /\ reader' = [reader EXCEPT !.phase = "asked", !.was = Accessible, !.gained = {}]
  /\ UNCHANGED <<rows, edits, overview>>

(* The Activity feed may be read without naming a Space; every other list   *)
(* answers space_not_found to a non-member.                                 *)
Admitted == reader.query.space = NoItem \/ reader.query.space \in Accessible

(* Activity and chat check the membership in a statement of its own.        *)
CheckMembership ==
  /\ reader.phase = "asked" /\ reader.query.list \in {"activity", "chat"}
  /\ reader' = [reader EXCEPT !.phase = IF Admitted THEN "checked" ELSE "refused"]
  /\ UNCHANGED <<rows, edits, overview>>

Answer ==
  LET page == PageOf(reader.query, reader.cursor) IN
  reader' = [reader EXCEPT
               !.seen = @ \o page.items,
               !.gained = {e.space : e \in Range(page.items)},
               !.phase = IF page.more THEN "more" ELSE "end",
               !.cursor = IF page.more THEN page.items[Len(page.items)] ELSE NoItem]

ReadPage ==
  /\ \/ reader.phase = "checked" /\ Answer
     \/ /\ reader.phase = "asked" /\ reader.query.list \in {"documents", "tasks"}
        /\ IF Admitted THEN Answer ELSE reader' = [reader EXCEPT !.phase = "refused"]
  /\ UNCHANGED <<rows, edits, overview>>

-----------------------------------------------------------------------------
(* The overview: recent activity, recent Spaces and active work, three      *)
(* queries in any order.                                                    *)

RecentActivity == {e.space : e \in ActivityEvents} \ {NoItem}
RecentSpaces == {e.space : e \in ActivityEvents} \ {NoItem}

(* Mutant of ActiveWork: the documents are not joined with the memberships. *)
ActiveWorkEverywhere ==
  {r.space : r \in {x \in In("documents") \cup In("agent_runs") : x.status = "queued"}}

ActiveWork ==
  {r.space : r \in {x \in In("documents") : x.status = "queued" /\ x.space \in Accessible}}
  \cup {r.space : r \in {x \in In("agent_runs") : x.status = "queued" /\ x.space \in Accessible}}

AskOverview ==
  /\ reader = Idle /\ overview = NoOverview
  /\ overview' = [left |-> {"activity", "spaces", "work"}, spaces |-> {}, was |-> Accessible]
  /\ UNCHANGED <<rows, edits, reader>>

RunQuery(part) ==
  /\ part \in overview.left
  /\ overview' = [overview EXCEPT !.left = @ \ {part},
       !.spaces = @ \cup CASE part = "activity" -> RecentActivity
                           [] part = "spaces" -> RecentSpaces
                           [] part = "work" -> ActiveWork]
  /\ UNCHANGED <<rows, edits, reader>>

-----------------------------------------------------------------------------
(* Writing.  "there" keeps the rows that were listed ever since the list    *)
(* was opened, "was" the Spaces the reader had access to while a request    *)
(* was answered.                                                            *)

Edit(new) ==
  /\ edits < MaxEdits
  /\ reader.phase \in {"more", "asked", "checked"} \/ overview.left # {}
  /\ edits' = edits + 1
  /\ rows' = new
  /\ \E query \in {reader.query} :
       reader' = IF query = NoItem THEN reader
                 ELSE [reader EXCEPT !.there = @ \cap Listed(query)', !.was = @ \cup Accessible']
  /\ overview' = IF overview = NoOverview THEN overview
                 ELSE [overview EXCEPT !.was = @ \cup Accessible']

Times == 1 .. 2

Created(table) == {r.id : r \in In(table)}
FreshId(table) == Cardinality(In(table)) + 1

\* Every row of a Space refers to it, and goes with it when it is deleted.
Standing == {NoItem} \cup {r.space : r \in In("research_spaces")}

InsertRow(table, space, at) ==
  /\ table \in {"connections", "chat_messages", "documents"}
  /\ (table = "connections") = (space = NoItem) /\ space \in Standing
  /\ FreshId(table) \notin Created(table)
  /\ Edit(rows \cup {[Row(table, FreshId(table), space, at) EXCEPT !.status = "queued"]})

SavePaper(space, at) ==
  /\ space \in Standing /\ {r \in In("saved_papers") : r.space = space} = {}
  /\ Edit(rows \cup {Row("saved_papers", IF space = HomeSpace THEN 1 ELSE 2, space, at)})

AddTask(space, at) ==
  LET t == FreshId("agent_tasks") IN
  /\ space \in Standing
  /\ t \notin Created("agent_tasks") /\ RunId(t, 1) \notin Created("agent_runs")
  /\ Edit(rows \cup {Row("agent_tasks", t, space, at),
                     [Row("agent_runs", RunId(t, 1), space, at) EXCEPT !.status = "queued"]})

AddRun(t, at) ==
  \E r \in LatestRunOf(t) :
    /\ r.status # "queued"
    /\ r.id + 1 \notin Created("agent_runs")
    /\ Edit(rows \cup {[Row("agent_runs", r.id + 1, t.space, at) EXCEPT !.status = "queued"]})

(* A document is indexed, a run ends.                                       *)
EndWork(r) ==
  /\ r.table \in {"documents", "agent_runs"} /\ r.status = "queued"
  /\ Edit((rows \ {r}) \cup {[r EXCEPT !.status = "over"]})

AcceptConnection(r, at) ==
  /\ r.table = "connections" /\ r.then = NoTime
  /\ Edit((rows \ {r}) \cup {[r EXCEPT !.then = at]})

DeleteRow(r) ==
  /\ r.table \in {"connections", "saved_papers", "documents"}
  /\ Edit(rows \ {r})

DeleteSpace == Edit({r \in rows : r.space # OtherSpace})

RemoveMember ==
  /\ OtherSpace \in Accessible
  /\ Edit(rows \ {r \in In("space_members") : r.space = OtherSpace})

AddMember(at) ==
  /\ OtherSpace \in Standing \ Accessible
  /\ Edit(rows \cup {Row("space_members", 2, OtherSpace, at)})

(* Two Spaces with a row of every table, of the same or different times.    *)
ListsInit ==
  /\ \E msg, run \in {0, 1}, members \in {{HomeSpace}, Spaces} :
       rows = {Row("connections", 1, NoItem, 1)}
         \cup {Row("research_spaces", 1, HomeSpace, 0), Row("research_spaces", 2, OtherSpace, 0)}
         \cup {Row("space_members", IF s = HomeSpace THEN 1 ELSE 2, s, 0) : s \in members}
         \cup {Row("chat_messages", 1, OtherSpace, msg), Row("chat_messages", 2, OtherSpace, 1)}
         \cup {Row("saved_papers", 1, HomeSpace, 1)}
         \cup {[Row("documents", 1, OtherSpace, 1) EXCEPT !.status = "queued"]}
         \cup {Row("agent_tasks", 1, OtherSpace, 0)}
         \cup {[Row("agent_runs", RunId(1, 1), OtherSpace, run) EXCEPT !.status = "queued"]}
  /\ edits = 0 /\ reader = Idle /\ overview = NoOverview

ListsNext ==
  \/ \E query \in PageQueries : OpenList(query)
  \/ RequestPage
  \/ CheckMembership
  \/ ReadPage
  \/ AskOverview
  \/ \E part \in {"activity", "spaces", "work"} : RunQuery(part)
  \/ \E at \in Times :
       \/ \E table \in {"connections", "chat_messages", "documents"}, s \in Spaces \cup {NoItem} :
            InsertRow(table, s, at)
       \/ \E s \in Spaces : SavePaper(s, at) \/ AddTask(s, at)
       \/ \E t \in In("agent_tasks") : AddRun(t, at)
       \/ \E r \in rows : AcceptConnection(r, at)
       \/ AddMember(at)
  \/ \E r \in rows : EndWork(r) \/ DeleteRow(r)
  \/ DeleteSpace
  \/ RemoveMember

ListsSpec == ListsInit /\ [][ListsNext]_listsVars
-----------------------------------------------------------------------------
(* Following the cursors to the end shows every row exactly once that was   *)
(* listed ever since the first page was asked for, newest first, whatever   *)
(* is added, removed or added again meanwhile and however many rows share   *)
(* a millisecond.                                                           *)
PagesComplete ==
  /\ \A i \in 2 .. Len(reader.seen) : Before(reader.seen[i], reader.seen[i - 1])
  /\ reader.phase = "end" => reader.there \subseteq Range(reader.seen)

(* A reply, whether it took one statement or three, names only Spaces the   *)
(* reader was a member of at some moment while it was computed.             *)
WithinMembership ==
  /\ reader.gained \subseteq reader.was \cup {NoItem}
  /\ overview.spaces \subseteq overview.was
=============================================================================
