----------------------------- MODULE SpacePages -----------------------------
(***************************************************************************)
(* The pages of a Space that list records and ask for results about them:  *)
(* saved papers and their comparison (features/research), or documents and *)
(* Ask Knowledge (features/knowledge).  A page is rendered from a cached   *)
(* list, which its own removals, other members and refreshes change while  *)
(* a result is being generated for what was selected or asked before.      *)
(*                                                                         *)
(* Abstracted: the records but for their identity, the status of documents *)
(* (the list may be polled at any time, as while one is being indexed),    *)
(* the order and size of the pages documents are listed in (PagedLists has *)
(* them), and of a question and its result all but what it was generated   *)
(* from (KnowledgeAnswers has the server's side).  The list of a Space is  *)
(* one query of TanStack Query, modelled as the pages use it: saved papers *)
(* are one reply; of documents a fetch reads again the pages shown, taken  *)
(* as read at once, or the next page.                                      *)
(***************************************************************************)
EXTENDS Naturals, Sequences, FiniteSets

CONSTANTS SpaceIds,
          Items,       \* papers or documents
          MinPapers, MaxPapers,  \* PAPER_COMPARISON_MIN_PAPERS and _MAX_PAPERS
          Initial,     \* the records there are at first
          MaxUpdates,  \* bound: updates asked for on the page or made elsewhere
          Nil          \* no record

ASSUME PageBounds ==
  /\ MinPapers \in Nat /\ MaxPapers \in Nat /\ MinPapers <= MaxPapers
  /\ Initial \subseteq SpaceIds \X Items /\ MaxUpdates \in Nat
  /\ \A S \in SUBSET Items : S # Nil

VARIABLES
  shelf,       \* whether the records are papers or documents
  records,     \* server: the records of each Space
  opened,      \* the page shown, and its Space
  url,         \* the selection in the URL of the comparison page
  list,        \* the list query of each Space
  comparison,  \* the mutation the comparison page observes
  asking,      \* the instance of AskKnowledge with the mutation it observes
  acts,        \* removals, uploads and reindexing that are under way
  updates,     \* how many updates there have been
  gone         \* history: the records whose removal the page has confirmed

actVars == <<acts, updates, gone>>
pagesVars == <<shelf, records, opened, url, list, comparison, asking, actVars>>

Records == SpaceIds \X Items

Selections ==
  {sel \in UNION {[1 .. n -> Items] : n \in 0 .. MaxPapers} :
     \A i, j \in DOMAIN sel : sel[i] = sel[j] => i = j}

\* phase, next: the fetch, and whether it is of the next page; reply, left:
\* what it read; data, more: what is shown, and whether there is a next page;
\* cut: history, a next page has replaced a fetch of what is shown.
Lists ==
  [phase : {"idle", "asked", "read"}, next : BOOLEAN, reply : SUBSET Items, left : BOOLEAN,
   data : {Nil} \cup SUBSET Items, more : BOOLEAN, failed : BOOLEAN, cut : BOOLEAN]

NoList ==
  [phase |-> "idle", next |-> FALSE, reply |-> {}, left |-> FALSE,
   data |-> Nil, more |-> FALSE, failed |-> FALSE, cut |-> FALSE]

PagesTypeOK ==
  /\ shelf \in {"papers", "documents"}
  /\ records \subseteq Records
  /\ updates \in 0 .. MaxUpdates
  /\ opened \in [at : {"away", "saved", "compare", "knowledge"}, space : SpaceIds]
  /\ url \in Selections
  /\ list \in [SpaceIds -> Lists]
  /\ comparison \in {Nil} \cup
       [space : SpaceIds, papers : Selections, at : {"pending", "success", "papers", "space", "error"}]
  /\ asking \in {Nil} \cup
       [key : SpaceIds, of : SpaceIds, at : {"idle", "pending", "success", "error"}]
  /\ acts \subseteq [kind : {"remove", "upload", "reindex"}, record : Records,
                     at : {"sent", "done", "refused"}, mounted : BOOLEAN]
  /\ gone \subseteq Records

PagesInit ==
  /\ shelf \in {"papers", "documents"}
  /\ records = Initial
  /\ \E s \in SpaceIds : opened = [at |-> "away", space |-> s]
  /\ url = << >>
  /\ list = [s \in SpaceIds |-> NoList]
  /\ comparison = Nil /\ asking = Nil
  /\ acts = {} /\ updates = 0 /\ gone = {}

-----------------------------------------------------------------------------
(* The list query.                                                         *)

Fetch(q) == [q EXCEPT !.phase = "asked", !.next = FALSE, !.reply = {}, !.left = FALSE]

\* A page that mounts, and a poll, join a request in flight.
Joined(q) == IF q.phase = "idle" THEN Fetch(q) ELSE q

\* Mutant of Refetched: a request in flight is always joined.
RefetchedLate(q) == IF q.phase = "idle" THEN Fetch(q) ELSE q

\* refetch and invalidateQueries replace a request in flight, unless it is
\* the first one.
Refetched(q) == IF q.phase = "idle" \/ q.data # Nil THEN Fetch(q) ELSE q

Mounted(s) == opened.at # "away" /\ opened.space = s

\* The page renders its records: neither loading nor the error panel.
Rendered(where, lists) ==
  /\ where.at # "away"
  /\ lists[where.space].data # Nil
  /\ ~lists[where.space].failed

-----------------------------------------------------------------------------
(* What a change of the page or of the list leaves of the page's state.    *)

PapersIn(sel) == {sel[i] : i \in DOMAIN sel}

\* The papers of a selection that are in S, in their order.
Filtered(sel, S) ==
  LET kept == {i \in DOMAIN sel : sel[i] \in S}
      Place(i) == Cardinality({j \in kept : j <= i})
  IN [n \in 1 .. Cardinality(kept) |-> sel[CHOOSE i \in kept : Place(i) = n]]

\* Mutant of Reconciled: the URL keeps papers that are no longer listed.
KeptAsChosen(sel, where, lists) == sel

\* reconcilePaperComparisonPaperIds, and the effect that rewrites the URL.
Reconciled(sel, where, lists) ==
  LET available == lists[where.space].data IN
  IF where.at # "compare" \/ available = Nil THEN sel
  ELSE Filtered(sel, available)

\* getAskKnowledgeInstanceKey
InstanceKey(s) == s

\* AskKnowledge is rendered unless the Space is known to have no documents,
\* and starts anew whenever it was not, or was with another key.
AskKept(where, lists) ==
  IF where.at # "knowledge" \/ ~Rendered(where, lists) \/ lists[where.space].data = {}
    THEN Nil
  ELSE IF asking # Nil /\ asking.key = InstanceKey(where.space) THEN asking
  ELSE [key |-> InstanceKey(where.space), of |-> where.space, at |-> "idle"]

\* The page goes on with these lists, at this URL.
Show(where, lists, sel) ==
  /\ opened' = where
  /\ list' = lists
  /\ url' = Reconciled(sel, where, lists)
  /\ asking' = AskKept(where, lists)

SetList(s, q) == Show(opened, [list EXCEPT ![s] = q], url)

\* What a fetch may find of the rows it looks for: all of them, or pages of
\* documents with others left behind them.  The rest of the rows that a next
\* page does not show may also be newer than the first page.
MayFind(rows, next, found, left) ==
  /\ found \subseteq rows
  /\ left => found \notin {{}, rows}
  /\ found # rows => shelf = "documents" /\ (next \/ left)

\* The request reads the records; the reply arrives, or two attempts fail.
ReadList(s) ==
  LET q == list[s]
      before == IF q.next THEN q.data ELSE {}
      rows == {i \in Items : <<s, i>> \in records} \ before
  IN
  /\ q.phase = "asked"
  /\ \E found \in SUBSET Items, left \in BOOLEAN :
       /\ MayFind(rows, q.next, found, left)
       /\ list' = [list EXCEPT ![s] = [q EXCEPT !.phase = "read", !.reply = before \cup found,
                                              !.left = left]]
  /\ UNCHANGED <<shelf, records, opened, url, comparison, asking, actVars>>

DeliverList(s) ==
  LET q == list[s] IN
  /\ q.phase = "read"
  /\ SetList(s, [NoList EXCEPT !.data = q.reply, !.more = q.left, !.cut = q.cut /\ q.next])
  /\ UNCHANGED <<shelf, records, comparison, actVars>>

ListFails(s) ==
  /\ list[s].phase # "idle"
  /\ SetList(s, [Fetch(list[s]) EXCEPT !.phase = "idle", !.failed = TRUE])
  /\ UNCHANGED <<shelf, records, comparison, actVars>>

\* The refetchInterval or "Refresh" of documents, "Try again" of either shelf.
Refresh(s) ==
  /\ Mounted(s)
  /\ \/ list[s].failed
     \/ shelf = "documents" /\ list[s].phase = "idle"
  /\ list' = [list EXCEPT ![s] = Refetched(@)]
  /\ UNCHANGED <<shelf, records, opened, url, comparison, asking, actVars>>

\* "Load more documents": fetchNextPage, disabled only while it is under way
\* already.  It replaces a fetch of the pages shown, silently.
LoadMore ==
  LET s == opened.space
      q == list[s]
  IN
  /\ opened.at = "knowledge" /\ Rendered(opened, list)
  /\ q.more /\ ~q.next
  /\ list' = [list EXCEPT ![s] = [Fetch(q) EXCEPT !.next = TRUE, !.cut = q.cut \/ q.phase # "idle"]]
  /\ UNCHANGED <<shelf, records, opened, url, comparison, asking, actVars>>

-----------------------------------------------------------------------------
(* Navigation.                                                             *)

Detached == {[a EXCEPT !.mounted = FALSE] : a \in acts}

\* Another page: its component starts with no mutation.
OpenPage(at, s) ==
  /\ at # opened.at
  /\ at \in (IF shelf = "papers" THEN {"saved", "compare"} ELSE {"knowledge"})
  /\ Show([at |-> at, space |-> s], [list EXCEPT ![s] = Joined(@)], << >>)
  /\ comparison' = Nil
  /\ acts' = Detached
  /\ UNCHANGED <<shelf, records, updates, gone>>

ClosePage ==
  /\ opened.at # "away"
  /\ Show([opened EXCEPT !.at = "away"], list, << >>)
  /\ comparison' = Nil
  /\ acts' = Detached
  /\ UNCHANGED <<shelf, records, updates, gone>>

\* Back or forward to the same page of another Space whose layout is cached:
\* the component stays.
JumpToSpace(s, sel) ==
  /\ opened.at # "away" /\ s # opened.space
  /\ sel # << >> => opened.at = "compare"
  /\ Show([opened EXCEPT !.space = s], [list EXCEPT ![s] = Joined(@)], sel)
  /\ UNCHANGED <<shelf, records, comparison, actVars>>

\* Back or forward to a selection made before.
Browse(sel) ==
  /\ opened.at = "compare"
  /\ Show(opened, list, sel)
  /\ UNCHANGED <<shelf, records, comparison, actVars>>

-----------------------------------------------------------------------------
(* The comparison page.                                                    *)

\* paperIdsEqual
SamePapers(left, right) == left = right

\* getPaperComparisonMutationView
MutationView ==
  IF comparison = Nil \/ comparison.space # opened.space THEN "idle"
  ELSE IF comparison.at # "space" /\ ~SamePapers(comparison.papers, url) THEN "idle"
  ELSE comparison.at

\* A Space that is gone takes the whole page.
Selecting ==
  /\ opened.at = "compare" /\ Rendered(opened, list)
  /\ MutationView \notin {"pending", "space"}

\* togglePaperComparisonPaperId
Toggle(p) ==
  /\ Selecting
  /\ p \in list[opened.space].data
  /\ \/ p \in PapersIn(url) /\ url' = Filtered(url, Items \ {p})
     \/ p \notin PapersIn(url) /\ Len(url) < MaxPapers /\ url' = Append(url, p)
  /\ UNCHANGED <<shelf, records, opened, list, comparison, asking, actVars>>

\* handleCompare, also as "Try again": the page observes the new mutation.
Compare ==
  /\ Selecting
  /\ Len(url) >= MinPapers
  /\ comparison' = [space |-> opened.space, papers |-> url, at |-> "pending"]
  /\ UNCHANGED <<shelf, records, opened, url, list, asking, actVars>>

\* The request ends: papers that are not saved in the Space are refused.
CompareEnds(end) ==
  /\ comparison # Nil
  /\ comparison.at = "pending"
  /\ end = "papers"
       => \E i \in DOMAIN comparison.papers : <<comparison.space, comparison.papers[i]>> \notin records
  /\ comparison' = [comparison EXCEPT !.at = end]
  /\ UNCHANGED <<shelf, records, opened, url, list, asking, actVars>>

\* "Refresh Saved Papers"
RefreshSelection ==
  /\ Selecting
  /\ MutationView = "papers"
  /\ SetList(opened.space, Refetched(list[opened.space]))
  /\ UNCHANGED <<shelf, records, comparison, actVars>>

-----------------------------------------------------------------------------
(* Ask Knowledge.                                                          *)

\* handleSubmit
Submit ==
  /\ asking # Nil
  /\ asking.at # "pending"
  /\ asking' = [asking EXCEPT !.of = opened.space, !.at = "pending"]
  /\ UNCHANGED <<shelf, records, opened, url, list, comparison, actVars>>

AskEnds(end) ==
  /\ asking # Nil
  /\ asking.at = "pending"
  /\ asking' = [asking EXCEPT !.at = end]
  /\ UNCHANGED <<shelf, records, opened, url, list, comparison, actVars>>

-----------------------------------------------------------------------------
(* Removing a record, and uploading or reindexing a document.              *)

\* The buttons of the page, disabled while the same mutation is pending.
Press(kind, i) ==
  /\ opened.at \in {"saved", "knowledge"}
  /\ Rendered(opened, list)
  /\ kind # "remove" => opened.at = "knowledge"
  /\ (i \in list[opened.space].data) = (kind # "upload")
  /\ \A a \in acts : ~(a.mounted /\ a.kind = kind)
  /\ updates < MaxUpdates
  /\ updates' = updates + 1
  /\ acts' = acts \cup {[kind |-> kind, record |-> <<opened.space, i>>, at |-> "sent",
                         mounted |-> TRUE]}
  /\ UNCHANGED <<shelf, records, opened, url, list, comparison, asking, gone>>

\* The server's part; a record that is gone is refused.
ServeAct(a) ==
  /\ a.at = "sent"
  /\ LET refused == a.kind # "upload" /\ a.record \notin records IN
     /\ acts' = (acts \ {a}) \cup {[a EXCEPT !.at = IF refused THEN "refused" ELSE "done"]}
     /\ records' = CASE a.kind = "remove" -> records \ {a.record}
                     [] a.kind = "upload" -> records \cup {a.record}
                     [] OTHER -> records
     /\ gone' = IF a.kind = "upload" THEN gone \ {a.record} ELSE gone
  /\ UNCHANGED <<shelf, opened, url, list, comparison, asking, updates>>

\* handleRemove, handleDelete, handleReindex and handleUpload go on: the list
\* is fetched again if it is shown, and the page says what was done.
FinishAct(a) ==
  LET s == a.record[1]
      visible == Mounted(s)
  IN /\ a.at = "done"
     /\ acts' = acts \ {a}
     /\ IF visible THEN SetList(s, Refetched(list[s]))
                 ELSE UNCHANGED <<opened, url, list, asking>>
     /\ gone' = IF visible /\ a.kind = "remove" /\ a.record \notin records
                  THEN gone \cup {a.record} ELSE gone
     /\ UNCHANGED <<shelf, records, comparison, updates>>

\* An error is shown; the list stays as it is.
ActFails(a) ==
  /\ acts' = acts \ {a}
  /\ UNCHANGED <<shelf, records, opened, url, list, comparison, asking, updates, gone>>

\* Another member saves, uploads or removes.
EditElsewhere(r) ==
  /\ updates < MaxUpdates
  /\ updates' = updates + 1
  /\ records' = IF r \in records THEN records \ {r} ELSE records \cup {r}
  /\ gone' = gone \ {r}
  /\ UNCHANGED <<shelf, opened, url, list, comparison, asking, acts>>

-----------------------------------------------------------------------------
PagesNext ==
  \/ \E s \in SpaceIds :
       \/ ReadList(s) \/ DeliverList(s) \/ ListFails(s) \/ Refresh(s)
       \/ \E at \in {"saved", "compare", "knowledge"} : OpenPage(at, s)
       \/ \E sel \in Selections : JumpToSpace(s, sel)
  \/ ClosePage
  \/ \E sel \in Selections : Browse(sel)
  \/ \E p \in Items : Toggle(p)
  \/ Compare \/ RefreshSelection \/ LoadMore \/ Submit
  \/ \E end \in {"success", "papers", "space", "error"} : CompareEnds(end)
  \/ \E end \in {"success", "error"} : AskEnds(end)
  \/ \E kind \in {"remove", "upload", "reindex"}, i \in Items : Press(kind, i)
  \/ \E a \in acts : ServeAct(a) \/ FinishAct(a) \/ ActFails(a)
  \/ \E r \in Records : EditElsewhere(r)

PagesSpec == PagesInit /\ [][PagesNext]_pagesVars

-----------------------------------------------------------------------------
(* Properties.                                                             *)

\* A result on the page fits it, whatever became of the list, the selection
\* and the Space since it was asked for: the papers of a comparison are all
\* still listed, and an answer was asked for in this Space.
ResultFitsPage ==
  /\ opened.at = "compare" /\ Rendered(opened, list) /\ MutationView = "success"
       => PapersIn(comparison.papers) \subseteq list[opened.space].data
  /\ asking # Nil /\ asking.at = "success" => asking.of = opened.space

\* Once a removal is confirmed and the list is not being refreshed, the list
\* lacks the record, whatever requests were in flight: unless, and only until
\* the pages shown are read again, "Load more documents" has replaced a
\* refresh of them.
RemovedStaysGone ==
  LET q == list[opened.space] IN
  Rendered(opened, list) /\ q.phase = "idle" /\ ~q.cut
    => \A i \in q.data : <<opened.space, i>> \notin gone
=============================================================================
