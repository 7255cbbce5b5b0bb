------------------------------ MODULE ChatFeed ------------------------------
(***************************************************************************)
(* The chat page of one member over disconnections: the realtime provider  *)
(* (services/realtime/realtime-provider.tsx) with its socket, subscription *)
(* and listeners, the page that merges the history it fetched with the     *)
(* messages it was told of (features/chat), and the other end of the       *)
(* socket (server/realtime/gateway.ts), which takes a subscription only    *)
(* after an await.                                                         *)
(*                                                                         *)
(* Messages are numbered as they are stored; all of these fit on the first *)
(* page of the history, and there may be earlier ones behind it            *)
(* (PagedLists has the paging).  Abstracted: presence, delays between      *)
(* connections, what the member sends (BrowserSession has its acks; once   *)
(* stored it reaches the page like anybody's), and the member's rights,    *)
(* of which a subscription may fail and an access may be revoked at any    *)
(* time.  What TanStack Query does is modelled as the page uses it.        *)
(***************************************************************************)
EXTENDS Integers, Sequences

CONSTANTS MaxMessages,  \* bound: messages stored
          MaxOpens,     \* bound: sockets that are counted as they open
          MaxWaiting    \* bound: commands, or revocations, under way on a socket

ASSUME FeedBounds ==
  MaxMessages \in Nat /\ MaxOpens \in Nat \ {0} /\ MaxWaiting \in Nat

VARIABLES
  stored,     \* server: the number of rows of chat_messages
  unsent,     \* server: messages stored and not yet broadcast
  link,       \* the provider's socket, with both its ends
  opens,      \* how many sockets have opened; hasConnected is opens > 0
  listeners,  \* listenersRef.current of the Space
  history,    \* the history query
  live,       \* liveMessages
  from,       \* history: messages stored when the history to be shown was due
  since       \* history: messages stored when the page last began to listen

server == <<stored, unsent>>
marks == <<from, since>>
feedVars == <<server, link, opens, listeners, history, live, marks>>

Messages == 1 .. MaxMessages
NoData == -1

NoLink ==
  [state |-> "closed", queue |-> << >>, checking |-> FALSE, subscribed |-> FALSE,
   events |-> << >>]

\* phase, asked, read: the fetch, of the messages or of earlier ones; data,
\* due: what is shown, and how many messages were stored as it was asked for.
NoHistory ==
  [phase |-> "idle", asked |-> 0, read |-> 0, data |-> NoData, due |-> 0, failed |-> FALSE]

FeedTypeOK ==
  /\ stored \in 0 .. MaxMessages
  /\ unsent \subseteq 1 .. stored
  /\ link \in [state : {"closed", "connecting", "open"},
               queue : Seq({"subscribe", "unsubscribe"}), checking : BOOLEAN,
               subscribed : BOOLEAN, events : Seq(Messages \cup {0})]
  /\ opens \in 0 .. MaxOpens
  /\ listeners \subseteq {"layout", "chat"}
  /\ history \in [phase : {"idle", "asked", "read", "earlier"}, asked : 0 .. stored,
                  read : 0 .. stored, data : NoData .. stored, due : 0 .. stored,
                  failed : BOOLEAN]
  /\ live \subseteq 1 .. stored
  /\ from \in 0 .. stored /\ since \in 0 .. stored

FeedInit ==
  /\ stored = 0 /\ unsent = {}
  /\ link = NoLink /\ opens = 0
  /\ listeners = {}
  /\ history = NoHistory /\ live = {}
  /\ from = 0 /\ since = 0

-----------------------------------------------------------------------------
(* The history query.                                                      *)

InFlight == history.phase # "idle"

Ask == [history EXCEPT !.phase = "asked", !.asked = stored, !.read = 0]

\* A page that mounts joins a request in flight.
FetchOnMount == IF InFlight THEN history ELSE Ask

\* Mutant of Refetch: a request in flight is always joined.
RefetchJoined == IF InFlight THEN history ELSE Ask

\* refetch replaces a request in flight, unless it is the first one.
Refetch == IF InFlight /\ history.data = NoData THEN history ELSE Ask

\* The server reads the rows; the reply is shown when it arrives.
ReadHistory ==
  /\ history.phase = "asked"
  /\ history' = [history EXCEPT !.phase = "read", !.read = stored]
  /\ UNCHANGED <<server, link, opens, listeners, live, marks>>

DeliverHistory ==
  /\ history.phase \in {"read", "earlier"}
  /\ history' = [NoHistory EXCEPT !.data = history.read, !.due = history.asked]
  /\ UNCHANGED <<server, link, opens, listeners, live, marks>>

HistoryFails ==
  /\ InFlight
  /\ history' = [NoHistory EXCEPT !.data = history.data, !.due = history.due, !.failed = TRUE]
  /\ UNCHANGED <<server, link, opens, listeners, live, marks>>

\* "Try again" of the error panel.
RetryHistory ==
  /\ "chat" \in listeners
  /\ history.failed
  /\ InFlight => history.data # NoData
  /\ history' = Ask
  /\ from' = stored
  /\ UNCHANGED <<server, link, opens, listeners, live, since>>

\* "Load earlier messages": fetchNextPage, disabled only while it is under way
\* already.  It replaces a refetch, silently: its page is added to those shown.
LoadEarlier ==
  /\ "chat" \in listeners
  /\ history.data # NoData /\ ~history.failed
  /\ history.phase # "earlier"
  /\ history' = [history EXCEPT !.phase = "earlier", !.asked = history.due, !.read = history.data]
  /\ from' = history.due
  /\ UNCHANGED <<server, link, opens, listeners, live, since>>

-----------------------------------------------------------------------------
(* Listeners: the layout of the Space holds one, the chat page another.    *)

\* retainSpaceListener and its release: the first and the last listener of a
\* Space send a command if the socket is open.
Command(kind) ==
  IF link.state = "open" THEN [link EXCEPT !.queue = Append(@, kind)] ELSE link

Retain(listener) ==
  /\ Len(link.queue) < MaxWaiting
  /\ link' = IF listeners = {} THEN Command("subscribe") ELSE link
  /\ listeners' = listeners \cup {listener}

Release(listener) ==
  /\ link' = IF listeners = {listener} THEN Command("unsubscribe") ELSE link
  /\ listeners' = listeners \ {listener}

OpenSpace ==
  /\ listeners = {}
  /\ Retain("layout")
  /\ UNCHANGED <<server, opens, history, live, marks>>

LeaveSpace ==
  /\ listeners = {"layout"}
  /\ Release("layout")
  /\ UNCHANGED <<server, opens, history, live, marks>>

OpenChat ==
  /\ listeners = {"layout"}
  /\ Retain("chat")
  /\ history' = FetchOnMount
  /\ live' = {}
  /\ from' = IF InFlight THEN history.asked ELSE stored
  /\ since' = stored
  /\ UNCHANGED <<server, opens>>

LeaveChat ==
  /\ "chat" \in listeners
  /\ Release("chat")
  /\ live' = {} /\ from' = 0 /\ since' = 0
  /\ UNCHANGED <<server, opens, history>>

-----------------------------------------------------------------------------
(* The socket, seen from the client.                                       *)

Connect ==
  /\ link.state = "closed"
  /\ link' = [NoLink EXCEPT !.state = "connecting"]
  /\ UNCHANGED <<server, opens, listeners, history, live, marks>>

\* "open": subscribes for every Space with listeners, and tells them when
\* this is not the first connection.
SocketOpens ==
  LET reconnected == opens > 0 /\ "chat" \in listeners IN
  /\ link.state = "connecting"
  /\ link' = [NoLink EXCEPT !.state = "open",
                !.queue = IF listeners = {} THEN << >> ELSE <<"subscribe">>]
  /\ opens' = IF opens < MaxOpens THEN opens + 1 ELSE opens
  /\ history' = IF reconnected THEN Refetch ELSE history
  /\ from' = IF reconnected /\ ~(InFlight /\ history.data = NoData) THEN stored ELSE from
  /\ UNCHANGED <<server, listeners, live, since>>

\* "close", before or after "open"; what was under way is lost.
LinkCloses ==
  /\ link.state # "closed"
  /\ link' = NoLink
  /\ UNCHANGED <<server, opens, listeners, history, live, marks>>

\* "message".  0 stands for space.access.revoked, which drops the listeners
\* and the queries of the Space and makes the client leave its pages.
ReceiveNotice ==
  /\ link.events # << >>
  /\ link' = [link EXCEPT !.events = Tail(@)]
  /\ IF Head(link.events) = 0
       THEN /\ listeners' = {}
            /\ history' = NoHistory
            /\ live' = {} /\ from' = 0 /\ since' = 0
       ELSE /\ live' = IF "chat" \in listeners THEN live \cup {Head(link.events)} ELSE live
            /\ UNCHANGED <<listeners, history, marks>>
  /\ UNCHANGED <<server, opens>>

-----------------------------------------------------------------------------
(* The server.                                                             *)

\* The queue of the socket: a subscription awaits the membership check.
TakeCommand ==
  /\ link.queue # << >>
  /\ ~link.checking
  /\ link' = IF Head(link.queue) = "subscribe"
               THEN [link EXCEPT !.queue = Tail(@), !.checking = TRUE]
               ELSE [link EXCEPT !.queue = Tail(@), !.subscribed = FALSE]
  /\ UNCHANGED <<server, opens, listeners, history, live, marks>>

TakeSubscription ==
  /\ link.checking
  /\ link' = [link EXCEPT !.checking = FALSE, !.subscribed = TRUE]
  /\ since' = IF link.subscribed \/ "chat" \notin listeners THEN since ELSE stored
  /\ UNCHANGED <<server, opens, listeners, history, live, from>>

\* An error, of which the client takes no notice: it stays connected.
SubscriptionFails ==
  /\ link.checking
  /\ link' = [link EXCEPT !.checking = FALSE]
  /\ UNCHANGED <<server, opens, listeners, history, live, marks>>

StoreMessage ==
  /\ stored < MaxMessages
  /\ stored' = stored + 1
  /\ unsent' = unsent \cup {stored + 1}
  /\ UNCHANGED <<link, opens, listeners, history, live, marks>>

\* broadcastMessage: messages stored close together may go out in any order.
Broadcast(m) ==
  /\ unsent' = unsent \ {m}
  /\ link' = IF link.subscribed THEN [link EXCEPT !.events = Append(@, m)] ELSE link
  /\ UNCHANGED <<stored, opens, listeners, history, live, marks>>

\* revokeMember or revokeSpace
Revoke ==
  /\ link.subscribed
  /\ Len(link.events) < MaxWaiting
  /\ link' = [link EXCEPT !.subscribed = FALSE, !.events = Append(@, 0)]
  /\ UNCHANGED <<server, opens, listeners, history, live, marks>>

-----------------------------------------------------------------------------
FeedNext ==
  \/ ReadHistory \/ DeliverHistory \/ HistoryFails \/ RetryHistory \/ LoadEarlier
  \/ OpenSpace \/ LeaveSpace \/ OpenChat \/ LeaveChat
  \/ Connect \/ SocketOpens \/ LinkCloses \/ ReceiveNotice
  \/ TakeCommand \/ TakeSubscription \/ SubscriptionFails
  \/ StoreMessage \/ (\E m \in unsent : Broadcast(m)) \/ Revoke

FeedSpec == FeedInit /\ [][FeedNext]_feedVars

-----------------------------------------------------------------------------
(* Properties.                                                             *)

\* mergeChatMessages of the history and what arrived since the page mounted.
MergeChatMessages == 1 .. history.data \cup live

\* The page is connected and subscribed, and nothing is on its way to it.
Settled ==
  /\ "chat" \in listeners
  /\ link.state = "open" /\ link.subscribed
  /\ link.queue = << >> /\ ~link.checking /\ link.events = << >>
  /\ ~InFlight /\ ~history.failed /\ unsent = {}

\* What a settled page lacks was stored after the history it shows was due and
\* before it began to listen: no disconnection, change of tab, failed request
\* or reordering loses anything else.
MissedOnlyBeforeListening ==
  Settled => \A m \in (1 .. stored) \ MergeChatMessages : from < m /\ m <= since

\* "Reconnect restores subscriptions and durable missed history": a settled
\* page that has reconnected shows every stored message.
HistoryRecovered == Settled /\ opens > 1 => MergeChatMessages = 1 .. stored
=============================================================================
