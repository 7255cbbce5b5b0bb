------------------------ MODULE SpaceRealtime_proofs ------------------------
(***************************************************************************)
(* Proofs about a Space in real time: its members and the sockets the hub  *)
(* has subscribed (SpaceAccess), the tab of a browser with its session     *)
(* (BrowserSession), and the chat page over disconnections (ChatFeed); for *)
(* any number of users, sockets, removals, accounts, requests, sessions,   *)
(* messages and connections.                                               *)
(*                                                                         *)
(* The first two answer late: a subscription is checked against the        *)
(* database, awaits, and is entered in the hub afterwards; an answer to a  *)
(* request reaches a tab that may show somebody else by then.  Neither     *)
(* holds a lock.  The hub compares the revisions that the subscription     *)
(* captured before its check (AdmissionsBacked), the tab the snapshot of   *)
(* the actor that the request took when it was sent.  The chat page has    *)
(* two sources, the history it fetches and what it is told: a message is   *)
(* in neither only if it came between the two.                             *)
(***************************************************************************)
EXTENDS SpaceAccess, BrowserSession, ChatFeed, SequenceTheorems, TLAPS

-----------------------------------------------------------------------------
(* The inductive invariants.                                                *)

(* u may be in the hub: a member, or a removal whose event is to come, or   *)
(* never will.                                                              *)
Backed(u) ==
  \/ u \in members
  \/ owed[u] > 0
  \/ spaceOwed
  \/ u \in unannounced

AwaitingCheck(k) == command[k].at \in {"check", "admitted"}

(* The revisions of the hub count the events that were raised, and no       *)
(* command has captured one of the future.                                  *)
RevisionsCount ==
  /\ \A u \in Users : memberRevision[u] + owed[u] <= MaxRemovals
  /\ spaceExists => ~spaceOwed /\ spaceRevision = 0
  /\ spaceOwed => spaceRevision = 0
  /\ \A k \in Sockets : AwaitingCheck(k) =>
       /\ command[k].member <= memberRevision[UserOf[k]]
       /\ command[k].space <= spaceRevision

(* As long as nothing was raised since a command captured its revisions,    *)
(* the membership it then read exists, or an event is still due.            *)
AdmissionsBacked ==
  \A k \in Sockets :
    command[k].at = "admitted" /\ RevisionCurrent(k) => Backed(UserOf[k])

AccessInv ==
  /\ AccessTypeOK
  /\ RevisionsCount
  /\ AdmissionsBacked
  /\ NoStaleAccess

(* Only an open socket has been told anything, and the hub forgets a socket *)
(* with its subscription.                                                   *)
OnlyOpenTold ==
  \A k \in Sockets :
    /\ socket[k] # "open" => told[k] = NotTold
    /\ socket[k] = "gone" => k \notin subscribed

(* A socket that subscribes again is dropped by whatever makes what it has  *)
(* captured stale.                                                          *)
SubscribedCurrent ==
  \A k \in subscribed : AwaitingCheck(k) => RevisionCurrent(k)

HubInv ==
  /\ AccessTypeOK
  /\ SubscribedCurrent
  /\ OnlyOpenTold
  /\ ToldTheTruth

-----------------------------------------------------------------------------
(* Types.                                                                   *)

Notices == [kind : {"nothing", "revoked", "presence"}, users : SUBSET Users]

(* What the hub tells sockets are notices about users.                      *)
LEMMA NoticeTypes ==
  /\ NotTold \in Notices /\ Revoked \in Notices
  /\ \A subs \in SUBSET Sockets : Present(subs) \subseteq Users
  /\ \A subs \in SUBSET Sockets : Presence(Present(subs)) \in Notices
<1>1. \A subs \in SUBSET Sockets : Present(subs) \subseteq Users
  BY SocketUsers DEF Present
<1>. QED
  BY <1>1 DEF NotTold, Revoked, Presence, Notices

LEMMA SendType ==
  ASSUME NEW notices \in [Sockets -> Notices], NEW ks, NEW notice \in Notices
  PROVE  Send(notices, ks, notice) \in [Sockets -> Notices]
  BY DEF Send

LEMMA BroadcastType ==
  ASSUME NEW notices \in [Sockets -> Notices], NEW subs \in SUBSET Sockets
  PROVE  BroadcastPresence(notices, subs) \in [Sockets -> Notices]
  BY NoticeTypes, SendType DEF BroadcastPresence

LEMMA LeaveType ==
  ASSUME NEW notices \in [Sockets -> Notices], NEW subs \in SUBSET Sockets, NEW k \in Sockets
  PROVE  Leave(k, subs, notices) \in [Sockets -> Notices]
<1>1. subs \ {k} \in SUBSET Sockets
  OBVIOUS
<1>. QED
  BY <1>1, BroadcastType DEF Leave

(* The commands that the steps of the gateway leave behind.                 *)
LEMMA CommandTypes ==
  /\ Idle \in Commands
  /\ \A stage \in Stages : [at |-> stage] \in Commands
  /\ AccessTypeOK => \A k \in Sockets : Captured(k, "check") \in Commands
  /\ \A c \in Commands : c.at = "check" => [c EXCEPT !.at = "admitted"] \in Commands
<1>1. Idle \in Commands
  BY DEF Commands
<1>2. \A stage \in Stages : [at |-> stage] \in Commands
  BY DEF Commands
<1>3. AccessTypeOK => \A k \in Sockets : Captured(k, "check") \in Commands
  BY SocketUsers DEF Commands, Captured, Subscribing, AccessTypeOK
<1>4. ASSUME NEW c \in Commands, c.at = "check"
      PROVE  [c EXCEPT !.at = "admitted"] \in Commands
  <2>1. c \in [at : {"check", "admitted"}, member : 0 .. MaxRemovals, space : 0 .. 1]
    BY <1>4 DEF Commands, Idle, Stages
  <2>. QED
    BY <2>1 DEF Commands
<1>. QED
  BY <1>1, <1>2, <1>3, <1>4

(* The parts of the type invariant, by who changes them.                    *)
DatabaseOK ==
  /\ spaceExists \in BOOLEAN
  /\ members \subseteq Users
  /\ connection \in [Invitees -> {"none", "pending", "accepted"}]
  /\ messages \in Seq(Users) /\ Len(messages) <= MaxSent

RequestsOK ==
  /\ granting \subseteq Invitees
  /\ owed \in [Users -> 0 .. MaxRemovals]
  /\ spaceOwed \in BOOLEAN
  /\ unannounced \subseteq Users

RevisionsOK ==
  /\ memberRevision \in [Users -> 0 .. MaxRemovals]
  /\ spaceRevision \in 0 .. 1

HubOK ==
  /\ socket \in [Sockets -> {"gone", "open", "closing"}]
  /\ subscribed \subseteq Sockets
  /\ told \in [Sockets -> Notices]

CommandsOK == command \in [Sockets -> Commands]

LEMMA TypeParts ==
  AccessTypeOK <=> DatabaseOK /\ RequestsOK /\ RevisionsOK /\ HubOK /\ CommandsOK
  BY DEF AccessTypeOK, DatabaseOK, RequestsOK, RevisionsOK, HubOK, CommandsOK, Notices

LEMMA AccessTypeInit == AccessInit => AccessTypeOK
<1>. SUFFICES ASSUME AccessInit
              PROVE  DatabaseOK /\ RequestsOK /\ RevisionsOK /\ HubOK /\ CommandsOK
  BY TypeParts
<1>. USE Bounds DEF AccessInit
<1>1. DatabaseOK
  <2>1. <<>> \in Seq(Users) /\ Len(<<>>) <= MaxSent
    BY EmptySeq
  <2>. QED
    BY <2>1 DEF DatabaseOK, Users
<1>2. RequestsOK /\ RevisionsOK
  <2>1. 0 \in 0 .. MaxRemovals /\ 0 \in 0 .. 1
    OBVIOUS
  <2>2. [u \in Users |-> 0] \in [Users -> 0 .. MaxRemovals]
    BY <2>1
  <2>. QED
    BY <2>1, <2>2 DEF RequestsOK, RevisionsOK
<1>3. HubOK /\ CommandsOK
  BY NoticeTypes, CommandTypes DEF HubOK, CommandsOK
<1>. QED
  BY <1>1, <1>2, <1>3

(* What a request does to the database and to the hub.                      *)
LEMMA TypeOfRequests ==
  ASSUME AccessTypeOK, RevisionsCount, NEW u \in Invitees,
         \/ RequestConnection(u) \/ AcceptConnection(u)
         \/ DeletePending(u) \/ RemoveConnection(u)
         \/ CheckGrant(u) \/ AddMember(u)
         \/ RemoveMember(u) \/ RaiseMemberRemoved(u) \/ LoseMemberRemoved(u)
  PROVE  AccessTypeOK'
<1>. SUFFICES DatabaseOK' /\ RequestsOK' /\ RevisionsOK' /\ HubOK' /\ CommandsOK'
  BY TypeParts, PTL
<1>0. DatabaseOK /\ RequestsOK /\ RevisionsOK /\ HubOK /\ CommandsOK /\ u \in Users
  BY TypeParts DEF Users
<1>. USE <1>0, Bounds DEF database, requests, revisions, hub
<1>1. CASE RequestConnection(u) \/ AcceptConnection(u) \/ DeletePending(u) \/ RemoveConnection(u)
  BY <1>1
  DEF RequestConnection, AcceptConnection, DeletePending, RemoveConnection,
      DatabaseOK, RequestsOK, RevisionsOK, HubOK, CommandsOK
<1>2. CASE CheckGrant(u)
  BY <1>2 DEF CheckGrant, DatabaseOK, RequestsOK, RevisionsOK, HubOK, CommandsOK
<1>3. CASE AddMember(u)
  BY <1>3 DEF AddMember, DatabaseOK, RequestsOK, RevisionsOK, HubOK, CommandsOK
<1>4. CASE RemoveMember(u)
  <2>1. owed[u] + 1 \in 0 .. MaxRemovals
    BY <1>4 DEF RemoveMember, RequestsOK, RevisionsOK
  <2>. QED
    BY <1>4, <2>1 DEF RemoveMember, DatabaseOK, RequestsOK, RevisionsOK, HubOK, CommandsOK
<1>5. CASE RaiseMemberRemoved(u)
  <2>. DEFINE dropped == {k \in subscribed : UserOf[k] = u}
  <2>1. owed[u] - 1 \in 0 .. MaxRemovals /\ memberRevision[u] + 1 \in 0 .. MaxRemovals
    BY <1>5 DEF RaiseMemberRemoved, RequestsOK, RevisionsOK, RevisionsCount
  <2>2. told' \in [Sockets -> Notices]
    <3>1. Send(told, dropped, Revoked) \in [Sockets -> Notices]
      BY SendType, NoticeTypes DEF HubOK
    <3>2. BroadcastPresence(Send(told, dropped, Revoked), subscribed \ dropped)
            \in [Sockets -> Notices]
      BY <3>1, BroadcastType DEF HubOK
    <3>. QED
      BY <1>5, <3>2 DEF RaiseMemberRemoved, RevokeMember, HubOK
  <2>3. RequestsOK' /\ RevisionsOK'
    BY <1>5, <2>1 DEF RaiseMemberRemoved, RevokeMember, RequestsOK, RevisionsOK
  <2>4. subscribed' \subseteq subscribed
    BY <1>5 DEF RaiseMemberRemoved, RevokeMember
  <2>. QED
    BY <1>5, <2>2, <2>3, <2>4 DEF RaiseMemberRemoved, DatabaseOK, HubOK, CommandsOK
<1>6. CASE LoseMemberRemoved(u)
  <2>1. owed[u] - 1 \in 0 .. MaxRemovals
    BY <1>6 DEF LoseMemberRemoved, RequestsOK
  <2>. QED
    BY <1>6, <2>1 DEF LoseMemberRemoved, DatabaseOK, RequestsOK, RevisionsOK, HubOK, CommandsOK
<1>. QED
  BY <1>1, <1>2, <1>3, <1>4, <1>5, <1>6

LEMMA TypeOfDeletion ==
  ASSUME AccessTypeOK, RevisionsCount, DeleteSpace \/ RaiseSpaceDeleted \/ LoseSpaceDeleted
  PROVE  AccessTypeOK'
<1>. SUFFICES DatabaseOK' /\ RequestsOK' /\ RevisionsOK' /\ HubOK' /\ CommandsOK'
  BY TypeParts, PTL
<1>0. DatabaseOK /\ RequestsOK /\ RevisionsOK /\ HubOK /\ CommandsOK
  BY TypeParts
<1>. USE <1>0, Bounds DEF database, requests, revisions, hub
<1>1. CASE DeleteSpace
  <2>1. <<>> \in Seq(Users) /\ Len(<<>>) <= MaxSent
    BY EmptySeq
  <2>2. DatabaseOK'
    BY <1>1, <2>1 DEF DeleteSpace, DatabaseOK
  <2>3. RequestsOK'
    BY <1>1 DEF DeleteSpace, RequestsOK
  <2>. QED
    BY <1>1, <2>2, <2>3 DEF DeleteSpace, RevisionsOK, HubOK, CommandsOK
<1>2. CASE RaiseSpaceDeleted
  <2>1. told' \in [Sockets -> Notices]
    BY <1>2, SendType, NoticeTypes DEF RaiseSpaceDeleted, RevokeSpace, HubOK
  <2>2. spaceRevision' \in 0 .. 1
    BY <1>2 DEF RaiseSpaceDeleted, RevokeSpace, RevisionsCount
  <2>. QED
    BY <1>2, <2>1, <2>2
    DEF RaiseSpaceDeleted, RevokeSpace, DatabaseOK, RequestsOK, RevisionsOK, HubOK, CommandsOK
<1>3. CASE LoseSpaceDeleted
  BY <1>3 DEF LoseSpaceDeleted, DatabaseOK, RequestsOK, RevisionsOK, HubOK, CommandsOK
<1>. QED
  BY <1>1, <1>2, <1>3

LEMMA TypeOfSockets ==
  ASSUME AccessTypeOK, NEW k \in Sockets,
         OpenSocket(k) \/ StartClosing(k) \/ SocketClosed(k) \/ Unsubscribe(k)
  PROVE  AccessTypeOK'
<1>. SUFFICES DatabaseOK' /\ RequestsOK' /\ RevisionsOK' /\ HubOK' /\ CommandsOK'
  BY TypeParts, PTL
<1>0. DatabaseOK /\ RequestsOK /\ RevisionsOK /\ HubOK /\ CommandsOK
  BY TypeParts
<1>. USE <1>0, NoticeTypes DEF database, requests, revisions, hub
<1>1. UNCHANGED <<database, requests, revisions, command>>
  BY DEF OpenSocket, StartClosing, SocketClosed, Unsubscribe
<1>2. DatabaseOK' /\ RequestsOK' /\ RevisionsOK' /\ CommandsOK'
  BY <1>1 DEF DatabaseOK, RequestsOK, RevisionsOK, CommandsOK
<1>3. CASE OpenSocket(k) \/ StartClosing(k)
  BY <1>2, <1>3 DEF OpenSocket, StartClosing, HubOK
<1>4. CASE SocketClosed(k)
  <2>1. told' \in [Sockets -> Notices]
    BY <1>4, LeaveType DEF SocketClosed, HubOK
  <2>. QED
    BY <1>2, <1>4, <2>1 DEF SocketClosed, HubOK
<1>5. CASE Unsubscribe(k)
  <2>1. [told EXCEPT ![k] = NotTold] \in [Sockets -> Notices]
    BY DEF HubOK
  <2>2. told' \in [Sockets -> Notices]
    BY <1>5, <2>1, LeaveType DEF Unsubscribe, HubOK
  <2>. QED
    BY <1>2, <1>5, <2>2 DEF Unsubscribe, HubOK
<1>. QED
  BY <1>3, <1>4, <1>5

LEMMA TypeOfCommands ==
  ASSUME AccessTypeOK, NEW k \in Sockets,
         \/ BeginSubscribe(k) \/ ReadForSubscribe(k) \/ FinishSubscribe(k)
         \/ BeginSend(k) \/ ReadForSend(k) \/ LockMembership(k)
         \/ CommitMessage(k) \/ BroadcastMessage(k) \/ CommandFails(k)
  PROVE  AccessTypeOK'
<1>. SUFFICES DatabaseOK' /\ RequestsOK' /\ RevisionsOK' /\ HubOK' /\ CommandsOK'
  BY TypeParts, PTL
<1>0. /\ DatabaseOK /\ RequestsOK /\ RevisionsOK /\ HubOK /\ CommandsOK
      /\ UserOf[k] \in Users
  BY TypeParts, SocketUsers
<1>. USE <1>0 DEF database, requests, revisions, hub
<1>1. RequestsOK' /\ RevisionsOK'
  BY DEF BeginSubscribe, ReadForSubscribe, FinishSubscribe, BeginSend, ReadForSend,
         LockMembership, CommitMessage, BroadcastMessage, CommandFails, RequestsOK, RevisionsOK
<1>2. CommandsOK'
  <2>1. \E c \in Commands : command' = [command EXCEPT ![k] = c]
    <3>1. CASE BeginSubscribe(k)
      BY <3>1, CommandTypes DEF BeginSubscribe
    <3>2. CASE ReadForSubscribe(k)
      BY <3>2, CommandTypes DEF ReadForSubscribe, CommandsOK
    <3>3. CASE FinishSubscribe(k) \/ BroadcastMessage(k) \/ CommandFails(k)
      BY <3>3, CommandTypes DEF FinishSubscribe, BroadcastMessage, CommandFails
    <3>4. CASE BeginSend(k) \/ ReadForSend(k) \/ LockMembership(k) \/ CommitMessage(k)
      BY <3>4, CommandTypes DEF BeginSend, ReadForSend, LockMembership, CommitMessage, Stages
    <3>. QED
      BY <3>1, <3>2, <3>3, <3>4
  <2>. QED
    BY <2>1 DEF CommandsOK
<1>3. CASE ~FinishSubscribe(k) /\ ~CommitMessage(k)
  <2>1. UNCHANGED <<database, hub>>
    BY <1>3 DEF BeginSubscribe, ReadForSubscribe, BeginSend, ReadForSend, LockMembership,
                BroadcastMessage, CommandFails
  <2>2. DatabaseOK' /\ HubOK'
    BY <2>1 DEF DatabaseOK, HubOK
  <2>. QED
    BY <1>1, <1>2, <2>2
<1>4. CASE CommitMessage(k)
  BY <1>1, <1>2, <1>4, Bounds DEF CommitMessage, DatabaseOK, HubOK
<1>5. CASE FinishSubscribe(k)
  <2>1. told' \in [Sockets -> Notices] /\ subscribed' \subseteq Sockets
    <3>. DEFINE now == subscribed \cup {k}
                snapshot == Send(told, {k}, Presence(Present(now)))
    <3>1. now \in SUBSET Sockets
      BY DEF HubOK
    <3>2. snapshot \in [Sockets -> Notices] /\ Send(told, {k}, Revoked) \in [Sockets -> Notices]
      BY <3>1, SendType, NoticeTypes DEF HubOK
    <3>3. BroadcastPresence(snapshot, now) \in [Sockets -> Notices]
      BY <3>1, <3>2, BroadcastType
    <3>. QED
      BY <1>5, <3>1, <3>2, <3>3 DEF FinishSubscribe, HubOK
  <2>. QED
    BY <1>1, <1>2, <1>5, <2>1 DEF FinishSubscribe, DatabaseOK, HubOK
<1>. QED
  BY <1>3, <1>4, <1>5

LEMMA AccessTypeKept ==
  AccessTypeOK /\ RevisionsCount /\ [AccessNext]_accessVars => AccessTypeOK'
<1>1. ASSUME AccessTypeOK, UNCHANGED accessVars
      PROVE  AccessTypeOK'
  BY <1>1 DEF accessVars, database, requests, revisions, hub, AccessTypeOK
<1>. QED
  BY <1>1, TypeOfRequests, TypeOfDeletion, TypeOfSockets, TypeOfCommands DEF AccessNext

-----------------------------------------------------------------------------
(* No stale access.                                                         *)

(* A user who is backed stays so until an event about it is raised, and     *)
(* the events of its removal and of the space's deletion change a revision. *)
LEMMA BackingKept ==
  ASSUME AccessTypeOK, RevisionsCount, [AccessNext]_accessVars, NEW u \in Users, Backed(u)
  PROVE  \/ Backed(u)'
         \/ memberRevision'[u] > memberRevision[u] /\ \A k \in subscribed' : UserOf[k] # u
         \/ spaceRevision' > spaceRevision /\ subscribed' = {}
<1>0. DatabaseOK /\ RequestsOK /\ RevisionsOK /\ HubOK /\ CommandsOK
  BY TypeParts
<1>1. CASE UNCHANGED <<members, owed, spaceOwed, unannounced>>
  BY <1>1 DEF Backed
<1>2. ASSUME NEW v \in Invitees, AddMember(v)
      PROVE  Backed(u)'
  BY <1>2 DEF AddMember, Backed
<1>3. ASSUME NEW v \in Invitees, RemoveMember(v)
      PROVE  Backed(u)'
  BY <1>0, <1>3 DEF RemoveMember, Backed, RequestsOK, Users
<1>4. ASSUME NEW v \in Invitees, RaiseMemberRemoved(v)
      PROVE  \/ Backed(u)'
             \/ memberRevision'[u] > memberRevision[u] /\ \A k \in subscribed' : UserOf[k] # u
  <2>1. CASE u = v
    BY <1>0, <1>4, <2>1 DEF RaiseMemberRemoved, RevokeMember, RevisionsOK
  <2>2. CASE u # v
    <3>1. owed'[u] = owed[u] /\ UNCHANGED <<members, spaceOwed, unannounced>>
      BY <1>0, <1>4, <2>2 DEF RaiseMemberRemoved, RequestsOK, database, Users
    <3>. QED
      BY <3>1 DEF Backed
  <2>. QED
    BY <2>1, <2>2
<1>5. ASSUME NEW v \in Invitees, LoseMemberRemoved(v)
      PROVE  Backed(u)'
  BY <1>0, <1>5 DEF LoseMemberRemoved, Backed, RequestsOK, database
<1>6. CASE DeleteSpace \/ LoseSpaceDeleted
  BY <1>6 DEF DeleteSpace, LoseSpaceDeleted, Backed
<1>7. CASE RaiseSpaceDeleted
  BY <1>0, <1>7 DEF RaiseSpaceDeleted, RevokeSpace, RevisionsOK
<1>8. ASSUME NEW v \in Invitees,
             \/ RequestConnection(v) \/ AcceptConnection(v)
             \/ DeletePending(v) \/ RemoveConnection(v) \/ CheckGrant(v)
      PROVE  UNCHANGED <<members, owed, spaceOwed, unannounced>>
  BY <1>8 DEF RequestConnection, AcceptConnection, DeletePending, RemoveConnection,
              CheckGrant, database, requests
<1>9. ASSUME NEW k \in Sockets,
             \/ OpenSocket(k) \/ StartClosing(k) \/ SocketClosed(k) \/ Unsubscribe(k)
             \/ BeginSubscribe(k) \/ ReadForSubscribe(k) \/ FinishSubscribe(k)
             \/ BeginSend(k) \/ ReadForSend(k) \/ LockMembership(k)
             \/ CommitMessage(k) \/ BroadcastMessage(k) \/ CommandFails(k)
      PROVE  UNCHANGED <<members, owed, spaceOwed, unannounced>>
  BY <1>9 DEF OpenSocket, StartClosing, SocketClosed, Unsubscribe, BeginSubscribe,
              ReadForSubscribe, FinishSubscribe, BeginSend, ReadForSend, LockMembership,
              CommitMessage, BroadcastMessage, CommandFails, database, requests
<1>. QED
  BY <1>1, <1>2, <1>3, <1>4, <1>5, <1>6, <1>7, <1>8, <1>9
  DEF AccessNext, accessVars, database, requests

(* Revisions only grow.                                                     *)
LEMMA RevisionsGrow ==
  ASSUME AccessTypeOK, [AccessNext]_accessVars
  PROVE  /\ \A u \in Users : memberRevision'[u] >= memberRevision[u]
         /\ spaceRevision' >= spaceRevision
<1>0. /\ memberRevision \in [Users -> Nat] /\ spaceRevision \in Nat
      /\ \A u \in Users : memberRevision[u] >= memberRevision[u]
  BY Bounds DEF AccessTypeOK
<1>1. ASSUME NEW v \in Invitees, RaiseMemberRemoved(v)
      PROVE  /\ \A u \in Users : memberRevision'[u] >= memberRevision[u]
             /\ spaceRevision' >= spaceRevision
  BY <1>0, <1>1 DEF RaiseMemberRemoved, RevokeMember
<1>2. CASE RaiseSpaceDeleted
  BY <1>0, <1>2 DEF RaiseSpaceDeleted, RevokeSpace
<1>3. CASE UNCHANGED revisions
  BY <1>0, <1>3 DEF revisions
<1>. QED
  BY <1>1, <1>2, <1>3
  DEF AccessNext, accessVars,
      RequestConnection, AcceptConnection, DeletePending, RemoveConnection, CheckGrant,
      AddMember, RemoveMember, LoseMemberRemoved, DeleteSpace, LoseSpaceDeleted,
      OpenSocket, StartClosing, SocketClosed, Unsubscribe, BeginSubscribe,
      ReadForSubscribe, FinishSubscribe, BeginSend, ReadForSend, LockMembership,
      CommitMessage, BroadcastMessage, CommandFails

(* A command that will enter a subscription has captured its revisions in   *)
(* this step, or captured them before; it passed its check in this step, or *)
(* has passed it before.                                                    *)
SubscribeKept(k) ==
  /\ AwaitingCheck(k)
  /\ command'[k].member = command[k].member
  /\ command'[k].space = command[k].space

CheckPassed(k) ==
  /\ command[k].at = "check"
  /\ command'[k].at = "admitted"
  /\ UserOf[k] \in members
  /\ UNCHANGED <<database, requests, revisions>>

CheckBegun(k) ==
  /\ command'[k] = Captured(k, "check")
  /\ UNCHANGED revisions

LEMMA CommandSteps ==
  ASSUME AccessTypeOK, [AccessNext]_accessVars, NEW k \in Sockets, AwaitingCheck(k)'
  PROVE  \/ SubscribeKept(k) /\ (command'[k] = command[k] \/ CheckPassed(k))
         \/ CheckBegun(k)
<1>0. command \in [Sockets -> Commands]
  BY DEF AccessTypeOK
<1>1. CASE command'[k] = command[k]
  BY <1>1 DEF AwaitingCheck, SubscribeKept
<1>2. CASE BeginSubscribe(k)
  BY <1>0, <1>2 DEF BeginSubscribe, CheckBegun
<1>3. CASE ReadForSubscribe(k)
  <2>1. CASE UserOf[k] \in members
    <3>1. command'[k] = [command[k] EXCEPT !.at = "admitted"] /\ command[k].at = "check"
      BY <1>0, <1>3, <2>1 DEF ReadForSubscribe
    <3>2. command[k] \in [at : {"check", "admitted"}, member : 0 .. MaxRemovals, space : 0 .. 1]
      BY <1>0, <3>1 DEF Commands, Idle, Stages
    <3>3. /\ command'[k].at = "admitted"
          /\ command'[k].member = command[k].member /\ command'[k].space = command[k].space
      BY <3>1, <3>2
    <3>4. UNCHANGED <<database, requests, revisions>>
      BY <1>3 DEF ReadForSubscribe
    <3>. QED
      BY <2>1, <3>1, <3>3, <3>4 DEF SubscribeKept, CheckPassed, AwaitingCheck
  <2>2. CASE UserOf[k] \notin members
    BY <1>0, <1>3, <2>2 DEF ReadForSubscribe, Idle, AwaitingCheck
  <2>. QED
    BY <2>1, <2>2
<1>4. CASE \/ FinishSubscribe(k) \/ BeginSend(k) \/ ReadForSend(k) \/ LockMembership(k)
           \/ CommitMessage(k) \/ BroadcastMessage(k) \/ CommandFails(k)
  BY <1>0, <1>4
  DEF FinishSubscribe, BeginSend, ReadForSend, LockMembership, CommitMessage,
      BroadcastMessage, CommandFails, Idle, AwaitingCheck
<1>5. ASSUME NEW j \in Sockets,
             \/ OpenSocket(j) \/ StartClosing(j) \/ SocketClosed(j) \/ Unsubscribe(j)
      PROVE  command' = command
  BY <1>5 DEF OpenSocket, StartClosing, SocketClosed, Unsubscribe
<1>6. ASSUME NEW j \in Sockets, j # k,
             \/ BeginSubscribe(j) \/ ReadForSubscribe(j) \/ FinishSubscribe(j)
             \/ BeginSend(j) \/ ReadForSend(j) \/ LockMembership(j)
             \/ CommitMessage(j) \/ BroadcastMessage(j) \/ CommandFails(j)
      PROVE  command'[k] = command[k]
  BY <1>0, <1>6
  DEF BeginSubscribe, ReadForSubscribe, FinishSubscribe, BeginSend, ReadForSend,
      LockMembership, CommitMessage, BroadcastMessage, CommandFails
<1>7. ASSUME NEW v \in Invitees,
             \/ RequestConnection(v) \/ AcceptConnection(v)
             \/ DeletePending(v) \/ RemoveConnection(v) \/ CheckGrant(v) \/ AddMember(v)
             \/ RemoveMember(v) \/ RaiseMemberRemoved(v) \/ LoseMemberRemoved(v)
      PROVE  command' = command
  BY <1>7 DEF RequestConnection, AcceptConnection, DeletePending, RemoveConnection,
              CheckGrant, AddMember, RemoveMember, RaiseMemberRemoved, LoseMemberRemoved
<1>8. ASSUME DeleteSpace \/ RaiseSpaceDeleted \/ LoseSpaceDeleted
      PROVE  command' = command
  BY <1>8 DEF DeleteSpace, RaiseSpaceDeleted, LoseSpaceDeleted
<1>. QED
  BY <1>1, <1>2, <1>3, <1>4, <1>5, <1>6, <1>7, <1>8 DEF AccessNext, accessVars

(* What a command has captured stays behind the revisions of the hub.       *)
LEMMA RevisionsCountKept ==
  ASSUME AccessTypeOK, RevisionsCount, [AccessNext]_accessVars
  PROVE  RevisionsCount'
<1>0. DatabaseOK /\ RequestsOK /\ RevisionsOK /\ HubOK /\ CommandsOK
  BY TypeParts
<1>a. /\ \A u \in Users : memberRevision[u] \in Nat /\ owed[u] \in Nat
      /\ spaceRevision \in Nat /\ MaxRemovals \in Nat
  BY <1>0, Bounds DEF RequestsOK, RevisionsOK
<1>1. (\A u \in Users : memberRevision[u] + owed[u] <= MaxRemovals)'
  <2>1. CASE UNCHANGED <<memberRevision, owed>>
    BY <2>1 DEF RevisionsCount
  <2>2. ASSUME NEW v \in Invitees, RemoveMember(v)
        PROVE  (\A u \in Users : memberRevision[u] + owed[u] <= MaxRemovals)'
    <3>1. memberRevision' = memberRevision /\ owed' = [owed EXCEPT ![v] = @ + 1]
          /\ memberRevision[v] + owed[v] < MaxRemovals
      BY <2>2 DEF RemoveMember, revisions
    <3>. QED
      BY <1>0, <1>a, <3>1 DEF RequestsOK, RevisionsCount
  <2>3. ASSUME NEW v \in Invitees, RaiseMemberRemoved(v)
        PROVE  (\A u \in Users : memberRevision[u] + owed[u] <= MaxRemovals)'
    <3>1. /\ memberRevision' = [memberRevision EXCEPT ![v] = @ + 1]
          /\ owed' = [owed EXCEPT ![v] = @ - 1]
      BY <2>3 DEF RaiseMemberRemoved, RevokeMember
    <3>. QED
      BY <1>0, <1>a, <3>1 DEF RequestsOK, RevisionsOK, RevisionsCount
  <2>4. ASSUME NEW v \in Invitees, LoseMemberRemoved(v)
        PROVE  (\A u \in Users : memberRevision[u] + owed[u] <= MaxRemovals)'
    <3>1. memberRevision' = memberRevision /\ owed' = [owed EXCEPT ![v] = @ - 1]
      BY <2>4 DEF LoseMemberRemoved, revisions
    <3>. QED
      BY <1>0, <1>a, <3>1 DEF RequestsOK, RevisionsOK, RevisionsCount
  <2>5. ASSUME NEW v \in Invitees,
               \/ RequestConnection(v) \/ AcceptConnection(v)
               \/ DeletePending(v) \/ RemoveConnection(v) \/ CheckGrant(v) \/ AddMember(v)
        PROVE  UNCHANGED <<memberRevision, owed>>
    BY <2>5 DEF RequestConnection, AcceptConnection, DeletePending, RemoveConnection,
                CheckGrant, AddMember, revisions, requests
  <2>6. ASSUME DeleteSpace \/ RaiseSpaceDeleted \/ LoseSpaceDeleted
        PROVE  UNCHANGED <<memberRevision, owed>>
    BY <2>6 DEF DeleteSpace, RaiseSpaceDeleted, LoseSpaceDeleted, revisions
  <2>7. ASSUME NEW k \in Sockets,
               \/ OpenSocket(k) \/ StartClosing(k) \/ SocketClosed(k) \/ Unsubscribe(k)
               \/ BeginSubscribe(k) \/ ReadForSubscribe(k) \/ FinishSubscribe(k)
               \/ BeginSend(k) \/ ReadForSend(k) \/ LockMembership(k)
               \/ CommitMessage(k) \/ BroadcastMessage(k) \/ CommandFails(k)
        PROVE  UNCHANGED <<memberRevision, owed>>
    BY <2>7 DEF OpenSocket, StartClosing, SocketClosed, Unsubscribe, BeginSubscribe,
                ReadForSubscribe, FinishSubscribe, BeginSend, ReadForSend, LockMembership,
                CommitMessage, BroadcastMessage, CommandFails, requests, revisions
  <2>8. UNCHANGED accessVars => UNCHANGED <<memberRevision, owed>>
    BY DEF accessVars, requests, revisions
  <2>. QED
    BY <2>1, <2>2, <2>3, <2>4, <2>5, <2>6, <2>7, <2>8 DEF AccessNext
<1>2. /\ spaceExists' => ~spaceOwed' /\ spaceRevision' = 0
      /\ spaceOwed' => spaceRevision' = 0
  <2>1. CASE UNCHANGED <<spaceExists, spaceOwed, spaceRevision>>
    BY <2>1 DEF RevisionsCount
  <2>2. CASE DeleteSpace
    BY <2>2 DEF DeleteSpace, RevisionsCount, revisions
  <2>3. CASE RaiseSpaceDeleted \/ LoseSpaceDeleted
    BY <2>3 DEF RaiseSpaceDeleted, LoseSpaceDeleted, RevisionsCount, database, revisions
  <2>4. ASSUME NEW v \in Invitees,
               \/ RequestConnection(v) \/ AcceptConnection(v)
               \/ DeletePending(v) \/ RemoveConnection(v) \/ CheckGrant(v) \/ AddMember(v)
               \/ RemoveMember(v) \/ RaiseMemberRemoved(v) \/ LoseMemberRemoved(v)
        PROVE  UNCHANGED <<spaceExists, spaceOwed, spaceRevision>>
    BY <2>4 DEF RequestConnection, AcceptConnection, DeletePending, RemoveConnection,
                CheckGrant, AddMember, RemoveMember, RaiseMemberRemoved, LoseMemberRemoved,
                database, revisions, requests
  <2>5. ASSUME NEW k \in Sockets,
               \/ OpenSocket(k) \/ StartClosing(k) \/ SocketClosed(k) \/ Unsubscribe(k)
               \/ BeginSubscribe(k) \/ ReadForSubscribe(k) \/ FinishSubscribe(k)
               \/ BeginSend(k) \/ ReadForSend(k) \/ LockMembership(k)
               \/ CommitMessage(k) \/ BroadcastMessage(k) \/ CommandFails(k)
        PROVE  UNCHANGED <<spaceExists, spaceOwed, spaceRevision>>
    BY <2>5 DEF OpenSocket, StartClosing, SocketClosed, Unsubscribe, BeginSubscribe,
                ReadForSubscribe, FinishSubscribe, BeginSend, ReadForSend, LockMembership,
                CommitMessage, BroadcastMessage, CommandFails, database, requests, revisions
  <2>6. UNCHANGED accessVars => UNCHANGED <<spaceExists, spaceOwed, spaceRevision>>
    BY DEF accessVars, database, requests, revisions
  <2>. QED
    BY <2>1, <2>2, <2>3, <2>4, <2>5, <2>6 DEF AccessNext
<1>3. ASSUME NEW k \in Sockets, AwaitingCheck(k)'
      PROVE  /\ command'[k].member <= memberRevision'[UserOf[k]]
             /\ command'[k].space <= spaceRevision'
  <2>1. CASE SubscribeKept(k)
    <3>1. /\ command[k].member <= memberRevision[UserOf[k]]
          /\ command[k].space <= spaceRevision
      BY <2>1 DEF SubscribeKept, RevisionsCount
    <3>2. command[k].member \in Nat /\ command[k].space \in Nat
      <4>1. command[k] \in Commands
        BY <1>0 DEF CommandsOK
      <4>. QED
        BY <2>1, <4>1, Bounds DEF SubscribeKept, AwaitingCheck, Commands, Idle, Stages
    <3>3. /\ memberRevision'[UserOf[k]] >= memberRevision[UserOf[k]]
          /\ spaceRevision' >= spaceRevision
      BY RevisionsGrow, SocketUsers
    <3>4. UserOf[k] \in Users /\ memberRevision'[UserOf[k]] \in Int /\ spaceRevision' \in Int
      BY AccessTypeKept, SocketUsers, Bounds DEF AccessTypeOK
    <3>. QED
      BY <1>a, <2>1, <3>1, <3>2, <3>3, <3>4 DEF SubscribeKept
  <2>2. CASE CheckBegun(k)
    BY <1>a, <2>2, SocketUsers DEF CheckBegun, Captured, Subscribing, revisions
  <2>. QED
    BY <1>3, <2>1, <2>2, CommandSteps
<1>. QED
  BY <1>1, <1>2, <1>3 DEF RevisionsCount

(* A check that passed is worth a membership as long as its revisions are   *)
(* current.                                                                 *)
LEMMA AdmissionsBackedKept ==
  ASSUME AccessTypeOK, RevisionsCount, AdmissionsBacked, [AccessNext]_accessVars
  PROVE  AdmissionsBacked'
<1>. SUFFICES ASSUME NEW k \in Sockets, command'[k].at = "admitted", RevisionCurrent(k)'
              PROVE  Backed(UserOf[k])'
  BY DEF AdmissionsBacked
<1>0. /\ UserOf[k] \in Users
      /\ command[k] \in Commands
      /\ memberRevision[UserOf[k]] \in Nat /\ spaceRevision \in Nat
      /\ command'[k].member = memberRevision'[UserOf[k]] /\ command'[k].space = spaceRevision'
  BY SocketUsers, Bounds DEF AccessTypeOK, RevisionCurrent
<1>1. AwaitingCheck(k)' /\ ~CheckBegun(k)
  BY DEF AwaitingCheck, CheckBegun, Captured, Subscribing
<1>2. SubscribeKept(k) /\ (command'[k] = command[k] \/ CheckPassed(k))
  BY <1>1, CommandSteps
<1>3. CASE CheckPassed(k)
  BY <1>3 DEF CheckPassed, Backed, database
<1>4. CASE command'[k] = command[k]
  <2>1. /\ command[k].member \in Nat /\ command[k].space \in Nat
        /\ command[k].member <= memberRevision[UserOf[k]]
        /\ command[k].space <= spaceRevision
    BY <1>0, <1>2, Bounds
    DEF RevisionsCount, SubscribeKept, AwaitingCheck, Commands, Idle, Stages
  <2>2. /\ memberRevision'[UserOf[k]] = memberRevision[UserOf[k]]
        /\ spaceRevision' = spaceRevision
    <3>1. /\ memberRevision'[UserOf[k]] >= memberRevision[UserOf[k]]
          /\ spaceRevision' >= spaceRevision
      BY <1>0, RevisionsGrow
    <3>. QED
      BY <1>0, <1>4, <2>1, <3>1
  <2>3. Backed(UserOf[k])
    BY <1>0, <1>4, <2>2 DEF AdmissionsBacked, RevisionCurrent
  <2>. QED
    BY <1>0, <2>2, <2>3, BackingKept
<1>. QED
  BY <1>2, <1>3, <1>4

(* Who is subscribed after a step was before it, or has just been entered.  *)
LEMMA Entries ==
  ASSUME [AccessNext]_accessVars, NEW k \in subscribed'
  PROVE  k \in subscribed \/ (k \in Sockets /\ FinishSubscribe(k))
<1>1. ASSUME NEW v \in Invitees,
             \/ RequestConnection(v) \/ AcceptConnection(v)
             \/ DeletePending(v) \/ RemoveConnection(v) \/ CheckGrant(v) \/ AddMember(v)
             \/ RemoveMember(v) \/ RaiseMemberRemoved(v) \/ LoseMemberRemoved(v)
      PROVE  subscribed' \subseteq subscribed
  BY <1>1 DEF RequestConnection, AcceptConnection, DeletePending, RemoveConnection,
              CheckGrant, AddMember, RemoveMember, RaiseMemberRemoved, RevokeMember,
              LoseMemberRemoved, hub
<1>2. ASSUME DeleteSpace \/ RaiseSpaceDeleted \/ LoseSpaceDeleted
      PROVE  subscribed' \subseteq subscribed
  BY <1>2 DEF DeleteSpace, RaiseSpaceDeleted, RevokeSpace, LoseSpaceDeleted, hub
<1>3. ASSUME NEW j \in Sockets,
             \/ OpenSocket(j) \/ StartClosing(j) \/ SocketClosed(j) \/ Unsubscribe(j)
             \/ BeginSubscribe(j) \/ ReadForSubscribe(j)
             \/ BeginSend(j) \/ ReadForSend(j) \/ LockMembership(j)
             \/ CommitMessage(j) \/ BroadcastMessage(j) \/ CommandFails(j)
      PROVE  subscribed' \subseteq subscribed
  BY <1>3 DEF OpenSocket, StartClosing, SocketClosed, Unsubscribe, BeginSubscribe,
              ReadForSubscribe, BeginSend, ReadForSend, LockMembership,
              CommitMessage, BroadcastMessage, CommandFails, hub
<1>4. ASSUME NEW j \in Sockets, FinishSubscribe(j)
      PROVE  k \in subscribed \/ j = k
  BY <1>4 DEF FinishSubscribe
<1>5. UNCHANGED accessVars => subscribed' = subscribed
  BY DEF accessVars, hub
<1>. QED
  BY <1>1, <1>2, <1>3, <1>4, <1>5 DEF AccessNext

(* A subscription is only entered by a command whose check is still worth   *)
(* something, and is dropped by the event its membership's end raises.      *)
LEMMA NoStaleAccessKept ==
  ASSUME AccessInv, [AccessNext]_accessVars
  PROVE  NoStaleAccess'
<1>. SUFFICES ASSUME NEW k \in Sockets, k \in subscribed'
              PROVE  Backed(UserOf[k])'
  <2>1. subscribed' \subseteq Sockets
    BY AccessTypeKept DEF AccessInv, AccessTypeOK
  <2>. QED
    BY <2>1 DEF NoStaleAccess, Backed
<1>0. AccessTypeOK /\ RevisionsCount /\ UserOf[k] \in Users
  BY SocketUsers DEF AccessInv
<1>1. k \in subscribed \/ FinishSubscribe(k)
  BY Entries DEF AccessInv
<1>2. CASE k \in subscribed
  <2>1. Backed(UserOf[k])
    BY <1>2 DEF AccessInv, NoStaleAccess, Backed
  <2>. QED
    BY <1>0, <2>1, BackingKept DEF AccessInv
<1>3. CASE k \notin subscribed /\ FinishSubscribe(k)
  <2>1. command[k].at = "admitted" /\ RevisionCurrent(k)
    BY <1>3 DEF FinishSubscribe
  <2>2. Backed(UserOf[k])
    BY <2>1 DEF AccessInv, AdmissionsBacked
  <2>3. UNCHANGED <<members, owed, spaceOwed, unannounced>>
    BY <1>3 DEF FinishSubscribe, database, requests
  <2>. QED
    BY <2>2, <2>3 DEF Backed
<1>. QED
  BY <1>1, <1>2, <1>3

LEMMA AccessInvInit == AccessInit => AccessInv
<1>. SUFFICES ASSUME AccessInit
              PROVE  AccessInv
  OBVIOUS
<1>1. AccessTypeOK
  BY AccessTypeInit
<1>2. RevisionsCount
  BY Bounds, SocketUsers DEF AccessInit, RevisionsCount, AwaitingCheck, Idle
<1>3. AdmissionsBacked /\ NoStaleAccess
  BY DEF AccessInit, AdmissionsBacked, NoStaleAccess, Idle
<1>. QED
  BY <1>1, <1>2, <1>3 DEF AccessInv

(* The inductive invariant of the access protocol: its three invariants, and *)
(* the counting of the revisions that answers are compared by.               *)
THEOREM AccessInvariant == AccessSpec => []AccessInv
<1>1. AccessInv /\ [AccessNext]_accessVars => AccessInv'
  BY AccessTypeKept, RevisionsCountKept, AdmissionsBackedKept, NoStaleAccessKept DEF AccessInv
<1>. QED
  BY <1>1, AccessInvInit, PTL DEF AccessSpec

(* The type invariant.                                                      *)
THEOREM AccessTypeCorrect == AccessSpec => []AccessTypeOK
  BY AccessInvariant, PTL DEF AccessInv

(* No socket stays subscribed beyond the membership of its user, unless the *)
(* event that drops it is due or was lost: a subscription checked before a  *)
(* removal does not enter the hub after its event.                          *)
THEOREM AccessNeverStale == AccessSpec => []NoStaleAccess
  BY AccessInvariant, PTL DEF AccessInv

-----------------------------------------------------------------------------
(* What sockets are told.                                                   *)

(* What HubInv says of what was told: notices and subs for told and         *)
(* subscribed, so that it can be said of the notices of half a step.        *)
TruthTold(notices, subs, k) ==
  socket[k] = "open" =>
    IF k \in subs THEN notices[k] = Presence(Present(subs)) ELSE notices[k].kind # "presence"

Unheard(notices, k) == socket[k] # "open" => notices[k] = NotTold

LEMMA HubParts ==
  HubInv <=>
    /\ AccessTypeOK
    /\ SubscribedCurrent
    /\ \A k \in Sockets : /\ socket[k] = "gone" => k \notin subscribed
                          /\ Unheard(told, k)
                          /\ TruthTold(told, subscribed, k)
  BY DEF HubInv, OnlyOpenTold, ToldTheTruth, TruthTold, Unheard

(* Whoever is still subscribed when a user leaves is told of it.            *)
LEMMA BroadcastTruth ==
  ASSUME NEW notices \in [Sockets -> Notices], NEW subs \in SUBSET Sockets, NEW k \in Sockets,
         Unheard(notices, k),
         socket[k] = "open" /\ k \notin subs => notices[k].kind # "presence"
  PROVE  /\ Unheard(BroadcastPresence(notices, subs), k)
         /\ TruthTold(BroadcastPresence(notices, subs), subs, k)
  BY DEF BroadcastPresence, Send, Unheard, TruthTold

(* The presence of a user with two sockets is the same without one of them. *)
LEMMA LeaveTruth ==
  ASSUME NEW notices \in [Sockets -> Notices], NEW subs \in SUBSET Sockets,
         NEW j \in Sockets, NEW k \in Sockets,
         Unheard(notices, k),
         k # j => TruthTold(notices, subs, k),
         k = j /\ socket[k] = "open" => notices[k].kind # "presence"
  PROVE  /\ Unheard(Leave(j, subs, notices), k)
         /\ TruthTold(Leave(j, subs, notices), subs \ {j}, k)
<1>. DEFINE rest == subs \ {j}
<1>0. rest \in SUBSET Sockets
  OBVIOUS
<1>1. CASE j \in subs /\ UserOf[j] \notin Present(rest)
  <2>1. Leave(j, subs, notices) = BroadcastPresence(notices, rest)
    BY <1>1 DEF Leave
  <2>2. socket[k] = "open" /\ k \notin rest => notices[k].kind # "presence"
    BY DEF TruthTold
  <2>. HIDE DEF rest
  <2>. QED
    BY <1>0, <2>1, <2>2, BroadcastTruth DEF rest
<1>2. CASE ~(j \in subs /\ UserOf[j] \notin Present(rest))
  <2>1. Leave(j, subs, notices) = notices
    BY <1>2 DEF Leave
  <2>2. Present(rest) = Present(subs)
    BY <1>2 DEF Present
  <2>. QED
    BY <2>1, <2>2 DEF TruthTold
<1>. QED
  BY <1>1, <1>2

(* An event that changes a revision drops the sockets it is about.          *)
LEMMA RevisionsDrop ==
  ASSUME AccessTypeOK, [AccessNext]_accessVars, NEW k \in Sockets, k \in subscribed'
  PROVE  /\ memberRevision'[UserOf[k]] = memberRevision[UserOf[k]]
         /\ spaceRevision' = spaceRevision
<1>0. memberRevision \in [Users -> Nat] /\ UserOf[k] \in Users
  BY SocketUsers, Bounds DEF AccessTypeOK
<1>1. ASSUME NEW v \in Invitees, RaiseMemberRemoved(v)
      PROVE  /\ memberRevision'[UserOf[k]] = memberRevision[UserOf[k]]
             /\ spaceRevision' = spaceRevision
  BY <1>0, <1>1 DEF RaiseMemberRemoved, RevokeMember
<1>2. CASE RaiseSpaceDeleted
  BY <1>2 DEF RaiseSpaceDeleted, RevokeSpace
<1>3. CASE UNCHANGED revisions
  BY <1>3 DEF revisions
<1>. QED
  BY <1>1, <1>2, <1>3
  DEF AccessNext, accessVars,
      RequestConnection, AcceptConnection, DeletePending, RemoveConnection, CheckGrant,
      AddMember, RemoveMember, LoseMemberRemoved, DeleteSpace, LoseSpaceDeleted,
      OpenSocket, StartClosing, SocketClosed, Unsubscribe, BeginSubscribe,
      ReadForSubscribe, FinishSubscribe, BeginSend, ReadForSend, LockMembership,
      CommitMessage, BroadcastMessage, CommandFails

LEMMA SubscribedCurrentKept ==
  ASSUME AccessTypeOK, SubscribedCurrent, [AccessNext]_accessVars
  PROVE  SubscribedCurrent'
<1>. SUFFICES ASSUME NEW k \in subscribed', AwaitingCheck(k)'
              PROVE  RevisionCurrent(k)'
  BY DEF SubscribedCurrent
<1>0. k \in Sockets
  BY Entries DEF AccessTypeOK
<1>1. CASE FinishSubscribe(k)
  BY <1>0, <1>1 DEF FinishSubscribe, AwaitingCheck, Idle, AccessTypeOK
<1>2. CASE CheckBegun(k)
  BY <1>2 DEF CheckBegun, Captured, Subscribing, RevisionCurrent, revisions
<1>3. CASE k \in subscribed /\ SubscribeKept(k)
  <2>1. RevisionCurrent(k)
    BY <1>3 DEF SubscribedCurrent, SubscribeKept
  <2>. QED
    BY <1>0, <1>3, <2>1, RevisionsDrop DEF RevisionCurrent, SubscribeKept
<1>. QED
  BY <1>0, <1>1, <1>2, <1>3, Entries, CommandSteps

LEMMA HubInvKept ==
  ASSUME HubInv, RevisionsCount, [AccessNext]_accessVars
  PROVE  HubInv'
<1>0. AccessTypeOK /\ HubOK /\ told \in [Sockets -> Notices] /\ subscribed \in SUBSET Sockets
  BY TypeParts DEF HubInv, HubOK
<1>1. AccessTypeOK'
  BY <1>0, AccessTypeKept
<1>a. SubscribedCurrent'
  BY SubscribedCurrentKept DEF HubInv
<1>. SUFFICES ASSUME NEW k \in Sockets
              PROVE  /\ socket'[k] = "gone" => k \notin subscribed'
                     /\ socket'[k] # "open" => told'[k] = NotTold
                     /\ socket'[k] = "open" =>
                          IF k \in subscribed' THEN told'[k] = Presence(Present(subscribed'))
                          ELSE told'[k].kind # "presence"
  BY <1>1, <1>a DEF HubInv, OnlyOpenTold, ToldTheTruth, Present, Presence
<1>. DEFINE Told == /\ socket'[k] = "gone" => k \notin subscribed'
                    /\ socket'[k] # "open" => told'[k] = NotTold
                    /\ socket'[k] = "open" =>
                         IF k \in subscribed' THEN told'[k] = Presence(Present(subscribed'))
                         ELSE told'[k].kind # "presence"
<1>2. /\ socket[k] = "gone" => k \notin subscribed
      /\ \A j \in Sockets : Unheard(told, j) /\ TruthTold(told, subscribed, j)
  BY HubParts
<1>3. CASE UNCHANGED hub
  BY <1>2, <1>3 DEF hub, Unheard, TruthTold
<1>4. ASSUME NEW v \in Invitees, RaiseMemberRemoved(v)
      PROVE  Told
  <2>. DEFINE dropped == {j \in subscribed : UserOf[j] = v}
              noticed == Send(told, dropped, Revoked)
              rest == subscribed \ dropped
  <2>1. socket' = socket /\ subscribed' = rest
        /\ told' = IF dropped = {} THEN told ELSE BroadcastPresence(noticed, rest)
    BY <1>4 DEF RaiseMemberRemoved, RevokeMember
  <2>2. CASE dropped = {}
    BY <1>2, <2>1, <2>2 DEF Unheard, TruthTold
  <2>3. CASE dropped # {}
    <3>1. noticed \in [Sockets -> Notices] /\ rest \in SUBSET Sockets
      BY <1>0, SendType, NoticeTypes
    <3>2. Unheard(noticed, k)
      BY <1>2 DEF Unheard, Send
    <3>3. socket[k] = "open" /\ k \notin rest => noticed[k].kind # "presence"
      BY <1>0, <1>2 DEF Send, TruthTold, Revoked
    <3>. HIDE DEF noticed, rest
    <3>4. Unheard(BroadcastPresence(noticed, rest), k)
          /\ TruthTold(BroadcastPresence(noticed, rest), rest, k)
      BY <3>1, <3>2, <3>3, BroadcastTruth
    <3>5. told' = BroadcastPresence(noticed, rest)
      BY <2>1, <2>3
    <3>6. socket[k] = "gone" => k \notin rest
      BY <1>2 DEF rest
    <3>. QED
      BY <2>1, <3>4, <3>5, <3>6 DEF Unheard, TruthTold
  <2>. QED
    BY <2>2, <2>3
<1>5. CASE RaiseSpaceDeleted
  BY <1>0, <1>2, <1>5 DEF RaiseSpaceDeleted, RevokeSpace, Send, Revoked, Unheard, TruthTold
<1>6. ASSUME NEW j \in Sockets, OpenSocket(j)
      PROVE  Told
  BY <1>0, <1>2, <1>6 DEF OpenSocket, HubOK, Unheard, TruthTold, NotTold
<1>7. ASSUME NEW j \in Sockets, StartClosing(j)
      PROVE  Told
  BY <1>0, <1>2, <1>7 DEF StartClosing, HubOK, Unheard, TruthTold, NotTold
<1>8. ASSUME NEW j \in Sockets, SocketClosed(j)
      PROVE  Told
  <2>1. /\ Unheard(Leave(j, subscribed, told), k)
        /\ TruthTold(Leave(j, subscribed, told), subscribed \ {j}, k)
    BY <1>0, <1>2, <1>8, LeaveTruth DEF SocketClosed
  <2>2. /\ socket' = [socket EXCEPT ![j] = "gone"] /\ subscribed' = subscribed \ {j}
        /\ told' = Leave(j, subscribed, told) /\ socket[j] = "closing"
    BY <1>8 DEF SocketClosed
  <2>. QED
    BY <1>0, <1>2, <2>1, <2>2 DEF HubOK, Unheard, TruthTold
<1>9. ASSUME NEW j \in Sockets, Unsubscribe(j)
      PROVE  Told
  <2>. DEFINE notices == [told EXCEPT ![j] = NotTold]
  <2>1. notices \in [Sockets -> Notices]
    BY <1>0, NoticeTypes
  <2>2. /\ Unheard(notices, k)
        /\ k # j => TruthTold(notices, subscribed, k)
        /\ k = j /\ socket[k] = "open" => notices[k].kind # "presence"
    BY <1>0, <1>2 DEF Unheard, TruthTold, NotTold
  <2>3. /\ Unheard(Leave(j, subscribed, notices), k)
        /\ TruthTold(Leave(j, subscribed, notices), subscribed \ {j}, k)
    <3>. HIDE DEF notices
    <3>. QED
      BY <1>0, <2>1, <2>2, LeaveTruth
  <2>4. /\ socket' = socket /\ subscribed' = subscribed \ {j}
        /\ told' = Leave(j, subscribed, notices)
    BY <1>9 DEF Unsubscribe
  <2>. QED
    BY <1>0, <1>2, <2>3, <2>4 DEF Unheard, TruthTold
<1>10. ASSUME NEW j \in Sockets, FinishSubscribe(j)
       PROVE  Told
  <2>. DEFINE now == subscribed \cup {j}
              snapshot == Send(told, {j}, Presence(Present(now)))
  <2>0. socket' = socket
    BY <1>10 DEF FinishSubscribe
  <2>1. CASE subscribed' = subscribed /\ told' = told
    BY <1>2, <2>0, <2>1 DEF Unheard, TruthTold
  <2>2. CASE /\ Registered(j) /\ ~RevisionCurrent(j)
             /\ told' = Send(told, {j}, Revoked) /\ subscribed' = subscribed
    <3>1. j \notin subscribed
      BY <1>10, <2>2 DEF FinishSubscribe, HubInv, SubscribedCurrent, AwaitingCheck
    <3>. QED
      BY <1>0, <1>2, <2>0, <2>2, <3>1 DEF Send, Revoked, Unheard, TruthTold
  <2>3. CASE /\ Registered(j)
             /\ subscribed' = now
             /\ told' = IF UserOf[j] \in Present(subscribed) THEN snapshot
                        ELSE BroadcastPresence(snapshot, now)
    <3>1. now \in SUBSET Sockets
      BY <1>0
    <3>2. snapshot \in [Sockets -> Notices]
      BY <1>0, <3>1, SendType, NoticeTypes
    <3>3. Unheard(snapshot, k)
      BY <1>2 DEF Send, Unheard
    <3>4. socket[k] = "open" /\ k \notin now => snapshot[k].kind # "presence"
      BY <1>2 DEF Send, TruthTold
    <3>5. socket[k] = "gone" => k \notin now
      BY <1>2, <2>3 DEF Registered
    <3>6. CASE UserOf[j] \in Present(subscribed)
      <4>1. Present(now) = Present(subscribed)
        BY <3>6 DEF Present
      <4>2. TruthTold(snapshot, now, k)
        BY <1>0, <1>2, <4>1 DEF Send, TruthTold
      <4>. HIDE DEF now, snapshot
      <4>. QED
        BY <2>0, <2>3, <3>3, <3>5, <3>6, <4>2 DEF Unheard, TruthTold
    <3>7. CASE UserOf[j] \notin Present(subscribed)
      <4>. HIDE DEF now, snapshot
      <4>1. /\ Unheard(BroadcastPresence(snapshot, now), k)
            /\ TruthTold(BroadcastPresence(snapshot, now), now, k)
        BY <3>1, <3>2, <3>3, <3>4, BroadcastTruth
      <4>. QED
        BY <2>0, <2>3, <3>5, <3>7, <4>1 DEF Unheard, TruthTold
    <3>. QED
      BY <3>6, <3>7
  <2>. QED
    BY <1>10, <2>1, <2>2, <2>3 DEF FinishSubscribe
<1>11. (UNCHANGED hub => Told) /\ (RaiseSpaceDeleted => Told)
  BY <1>3, <1>5
<1>. HIDE DEF Told
<1>. QED
  <2>1. ASSUME NEW v \in Invitees,
               \/ RequestConnection(v) \/ AcceptConnection(v)
               \/ DeletePending(v) \/ RemoveConnection(v) \/ CheckGrant(v) \/ AddMember(v)
               \/ RemoveMember(v) \/ LoseMemberRemoved(v)
        PROVE  UNCHANGED hub
    BY <2>1 DEF RequestConnection, AcceptConnection, DeletePending, RemoveConnection,
                CheckGrant, AddMember, RemoveMember, LoseMemberRemoved
  <2>2. ASSUME DeleteSpace \/ LoseSpaceDeleted
        PROVE  UNCHANGED hub
    BY <2>2 DEF DeleteSpace, LoseSpaceDeleted
  <2>3. ASSUME NEW j \in Sockets,
               \/ BeginSubscribe(j) \/ ReadForSubscribe(j)
               \/ BeginSend(j) \/ ReadForSend(j) \/ LockMembership(j)
               \/ CommitMessage(j) \/ BroadcastMessage(j) \/ CommandFails(j)
        PROVE  UNCHANGED hub
    BY <2>3 DEF BeginSubscribe, ReadForSubscribe, BeginSend, ReadForSend, LockMembership,
                CommitMessage, BroadcastMessage, CommandFails
  <2>4. UNCHANGED accessVars => UNCHANGED hub
    BY DEF accessVars
  <2>5. Told
    BY <1>4, <1>6, <1>7, <1>8, <1>9, <1>10, <1>11, <2>1, <2>2, <2>3, <2>4 DEF AccessNext
  <2>. QED
    BY <2>5 DEF Told

(* What an open socket was last told is what the hub holds: every change of *)
(* the subscriptions, by whatever interleaving of removals, closings and    *)
(* commands, leaves each open socket with a true notice.                    *)
THEOREM SocketsToldTheTruth == AccessSpec => []ToldTheTruth
<1>1. AccessInit => HubInv
  <2>. SUFFICES ASSUME AccessInit
                PROVE  HubInv
    OBVIOUS
  <2>1. AccessTypeOK
    BY AccessTypeInit
  <2>2. subscribed = {} /\ \A k \in Sockets : socket[k] = "gone" /\ told[k] = NotTold
    BY DEF AccessInit
  <2>3. OnlyOpenTold /\ ToldTheTruth
    BY <2>2 DEF OnlyOpenTold, ToldTheTruth
  <2>. QED
    BY <2>1, <2>2, <2>3 DEF HubInv, SubscribedCurrent
<1>2. HubInv /\ AccessInv /\ [AccessNext]_accessVars => HubInv'
  BY HubInvKept DEF AccessInv
<1>3. AccessSpec => []HubInv
  BY <1>1, <1>2, AccessInvariant, PTL DEF AccessSpec
<1>. QED
  BY <1>3, PTL DEF HubInv

-----------------------------------------------------------------------------
(* The session of a tab.                                                    *)

LoggingIn == mutation # NoMutation /\ mutation.kind = "login"
LoggingOut == mutation # NoMutation /\ mutation.kind = "logout"
LoginReceived == LoggingIn /\ mutation.at = "received"

(* A token that was once sent to the browser is issued for good, to the     *)
(* user the login was for.                                                  *)
CookieIssued ==
  /\ cookie # 0 => session[cookie] # "none"
  /\ LoggingIn /\ mutation.at # "sent" =>
       /\ mutation.token # 0
       /\ session[mutation.token] # "none"
       /\ holder[mutation.token] = mutation.user
  /\ LoginReceived => cookie = mutation.token
  /\ LoggingOut /\ mutation.at = "received" => cookie = 0

TokensIssued ==
  /\ CookieIssued
  /\ probe.at = "asked" /\ probe.token # 0 => session[probe.token] # "none"

(* What is owned belongs to the present actor: a change of the actor        *)
(* disowns the requests and the socket, and a login that took its snapshot  *)
(* of nobody.                                                               *)
MutationOwned ==
  /\ LoggingOut => actor = None /\ probe = NoRequest
  /\ LoggingIn => resolved /\ (mutation.owned => actor = None)

PagesOwned ==
  /\ \A r \in Requests : request[r] # NoRequest /\ request[r].owned => actor # None
  /\ tabSocket.owned => actor # None
  /\ actor = None => shown = {}

(* The rest holds as long as every login and logout was answered (~loose).  *)
(* Who is signed in is the cookie's holder, and while nobody is the cookie  *)
(* speaks for nobody, or a login has just brought it.                       *)
ActorAnswered ==
  /\ actor # None => cookie # 0 /\ holder[cookie] = actor
  /\ resolved /\ actor = None /\ ~LoggingOut =>
       (LoginReceived /\ mutation.owned) \/ Speaks(cookie) = None
  /\ LoggingIn /\ ~LoginReceived => actor = None /\ mutation.owned

(* The answer a session probe brings is still true when it is used.         *)
ProbeAnswered ==
  /\ probe.at = "asked" =>
       probe.token = cookie \/ (actor = None /\ resolved /\ Speaks(probe.token) = None)
  /\ probe.at = "answered" /\ probe.user = None =>
       Speaks(cookie) = None \/ (actor = None /\ resolved)
  /\ probe.at = "answered" /\ probe.user # None =>
       /\ cookie # 0 /\ holder[cookie] = probe.user
       /\ actor = None /\ resolved => LoginReceived /\ mutation.owned

(* So is what an owned request or the owned socket brings.                  *)
RequestAnswered(x) ==
  x # NoRequest /\ x.owned =>
    /\ x.at = "asked" => x.token = cookie
    /\ x.at = "answered" => IF x.user = None THEN Speaks(cookie) = None ELSE x.user = actor

AnswersOwn ==
  /\ \A r \in Requests : RequestAnswered(request[r])
  /\ tabSocket.owned => tabSocket.user = actor
  /\ shown \subseteq {actor}

Answered == ActorAnswered /\ ProbeAnswered /\ AnswersOwn

SessionInv ==
  /\ SessionTypeOK
  /\ TokensIssued
  /\ MutationOwned
  /\ PagesOwned
  /\ ~loose => Answered

(* Types.                                                                   *)

Flights == {NoRequest} \cup RequestInFlight

Mutations ==
  {NoMutation}
    \cup [at : {"sent", "served", "received"}, kind : {"login"}, user : Accounts,
          token : Tokens \cup {0}, owned : BOOLEAN]
    \cup [at : {"sent", "served", "received"}, kind : {"logout"}, token : Tokens \cup {0}]

ServerOK ==
  /\ session \in [Tokens -> {"none", "live", "ended"}]
  /\ holder \in [Tokens -> Accounts \cup {None}]
  /\ late \subseteq Tokens

BrowserOK ==
  /\ cookie \in Tokens \cup {0}
  /\ actor \in Accounts \cup {None}
  /\ resolved \in BOOLEAN /\ (actor # None => resolved)
  /\ loose \in BOOLEAN
  /\ probe \in Flights
  /\ mutation \in Mutations

PagesOK ==
  /\ request \in [Requests -> Flights]
  /\ shown \subseteq Accounts
  /\ tabSocket \in [user : Accounts \cup {None}, owned : BOOLEAN]
  /\ pending \in BOOLEAN /\ (pending => tabSocket.owned)

LEMMA SessionTypeParts == SessionTypeOK <=> ServerOK /\ BrowserOK /\ PagesOK
  BY DEF SessionTypeOK, ServerOK, BrowserOK, PagesOK, Flights, Mutations

(* What the steps make of requests and of a login under way.                *)
LEMMA FlightTypes ==
  /\ NoRequest \in Flights
  /\ BrowserOK => Asked(cookie) \in Flights
  /\ \A x \in Flights : Disowned(x) \in Flights
  /\ ServerOK => \A x \in Flights : x.at = "asked" => Reply(x) \in Flights
<1>1. NoRequest \in Flights
  BY DEF Flights
<1>2. BrowserOK => Asked(cookie) \in Flights
  BY DEF Flights, BrowserOK, Asked, RequestInFlight
<1>3. ASSUME NEW x \in Flights
      PROVE  Disowned(x) \in Flights
  <2>1. CASE x = NoRequest
    BY <2>1, <1>1 DEF Disowned
  <2>2. CASE x \in [at : {"asked"}, token : Tokens \cup {0}, owned : BOOLEAN]
    BY <2>2 DEF Disowned, Flights, RequestInFlight, NoRequest
  <2>3. CASE x \in [at : {"answered"}, user : Accounts \cup {None}, owned : BOOLEAN]
    BY <2>3 DEF Disowned, Flights, RequestInFlight, NoRequest
  <2>. QED
    BY <2>1, <2>2, <2>3 DEF Flights, RequestInFlight
<1>4. ASSUME ServerOK, NEW x \in Flights, x.at = "asked"
      PROVE  Reply(x) \in Flights
  <2>1. x \in [at : {"asked"}, token : Tokens \cup {0}, owned : BOOLEAN]
    BY <1>4 DEF Flights, RequestInFlight, NoRequest
  <2>2. Speaks(x.token) \in Accounts \cup {None}
    BY <1>4, <2>1 DEF Speaks, ServerOK
  <2>. QED
    BY <2>1, <2>2 DEF Reply, Flights, RequestInFlight
<1>. QED
  BY <1>1, <1>2, <1>3, <1>4

LEMMA MutationTypes ==
  /\ NoMutation \in Mutations
  /\ \A m \in Mutations, u \in Accounts \cup {None} : Bystander(u, m) \in Mutations
  /\ \A m \in Mutations : m # NoMutation =>
       /\ [m EXCEPT !.at = "served"] \in Mutations
       /\ [m EXCEPT !.at = "received"] \in Mutations
       /\ m.kind \in {"login", "logout"} /\ m.token \in Tokens \cup {0}
       /\ m.kind = "login" => m.user \in Accounts
       /\ m.kind = "login" => \A t \in Tokens : [m EXCEPT !.at = "served", !.token = t] \in Mutations
<1>. USE DEF Mutations, NoMutation
<1>1. ASSUME NEW m \in Mutations, NEW u \in Accounts \cup {None}
      PROVE  Bystander(u, m) \in Mutations
  <2>1. CASE m \in [at : {"sent", "served", "received"}, kind : {"login"}, user : Accounts,
                    token : Tokens \cup {0}, owned : BOOLEAN]
    BY <2>1 DEF Bystander
  <2>2. CASE m = NoMutation \/ m.kind # "login"
    BY <2>2 DEF Bystander
  <2>. QED
    BY <2>1, <2>2
<1>2. ASSUME NEW m \in Mutations, m # NoMutation
      PROVE  /\ [m EXCEPT !.at = "served"] \in Mutations
             /\ [m EXCEPT !.at = "received"] \in Mutations
             /\ m.kind \in {"login", "logout"} /\ m.token \in Tokens \cup {0}
             /\ m.kind = "login" => m.user \in Accounts
             /\ m.kind = "login" =>
                  \A t \in Tokens : [m EXCEPT !.at = "served", !.token = t] \in Mutations
  <2>1. CASE m \in [at : {"sent", "served", "received"}, kind : {"login"}, user : Accounts,
                    token : Tokens \cup {0}, owned : BOOLEAN]
    BY <2>1
  <2>2. CASE m \in [at : {"sent", "served", "received"}, kind : {"logout"},
                    token : Tokens \cup {0}]
    BY <2>2
  <2>. QED
    BY <1>2, <2>1, <2>2
<1>. QED
  BY <1>1, <1>2

(* A login or logout that has come somewhere is one.                        *)
LEMMA UnderWay == mutation.at \in {"sent", "served", "received"} => mutation # NoMutation
  BY DEF NoMutation

LEMMA SessionTypeInit == SessionInit => SessionTypeOK
<1>. SUFFICES ASSUME SessionInit
              PROVE  ServerOK /\ BrowserOK /\ PagesOK
  BY SessionTypeParts
<1>1. ServerOK /\ cookie \in Tokens \cup {0}
  BY TabConstants DEF SessionInit, ServerOK, Tokens
<1>2. BrowserOK
  BY <1>1, FlightTypes, MutationTypes DEF SessionInit, BrowserOK
<1>3. PagesOK
  BY FlightTypes DEF SessionInit, PagesOK, NoSocket
<1>. QED
  BY <1>1, <1>2, <1>3

LEMMA TypeOfTransition ==
  ASSUME PagesOK, NEW u \in Accounts \cup {None}, TransitionClientActor(u)
  PROVE  PagesOK' /\ actor' = u
<1>1. CASE u = actor
  BY <1>1 DEF TransitionClientActor, PagesOK
<1>2. CASE u # actor
  BY <1>2, FlightTypes
  DEF TransitionClientActor, ClearProtectedState, Retire, PagesOK
<1>. QED
  BY <1>1, <1>2 DEF TransitionClientActor

LEMMA TypeOfProbes ==
  ASSUME SessionTypeOK, BeginProbe \/ ServeProbe \/ FinishProbe \/ ProbeFails
  PROVE  SessionTypeOK'
<1>. SUFFICES ServerOK' /\ BrowserOK' /\ PagesOK'
  BY SessionTypeParts, PTL
<1>0. ServerOK /\ BrowserOK /\ PagesOK
  BY SessionTypeParts
<1>. USE <1>0, FlightTypes DEF sessionRows
<1>1. ServerOK'
  BY DEF BeginProbe, ServeProbe, FinishProbe, ProbeFails, ServerOK
<1>2. CASE BeginProbe \/ ServeProbe \/ ProbeFails
  <2>1. probe' \in Flights
    BY <1>2 DEF BeginProbe, ServeProbe, ProbeFails, BrowserOK
  <2>2. UNCHANGED <<cookie, actor, resolved, mutation, loose, request, shown, tabSocket, pending>>
    BY <1>2 DEF BeginProbe, ServeProbe, ProbeFails
  <2>. QED
    BY <1>1, <2>1, <2>2 DEF BrowserOK, PagesOK
<1>3. CASE FinishProbe
  <2>1. probe.user \in Accounts \cup {None}
    BY <1>3 DEF FinishProbe, BrowserOK, Flights, RequestInFlight, NoRequest
  <2>2. PagesOK' /\ actor' = probe.user
    BY <1>3, <2>1, TypeOfTransition DEF FinishProbe
  <2>3. mutation' \in Mutations
    BY <1>3, <2>1, MutationTypes DEF FinishProbe, BrowserOK
  <2>4. BrowserOK'
    BY <1>3, <2>1, <2>2, <2>3 DEF FinishProbe, BrowserOK
  <2>. QED
    BY <1>1, <2>2, <2>4
<1>. QED
  BY <1>2, <1>3

LEMMA EndedType ==
  ASSUME ServerOK, NEW t \in Tokens \cup {0}
  PROVE  Ended(t) \in [Tokens -> {"none", "live", "ended"}]
  BY DEF ServerOK, Ended

LEMMA TypeOfLogins ==
  ASSUME SessionTypeOK,
         \/ \E u \in Accounts : BeginLogin(u)
         \/ \E t \in Tokens : ServeLogin(t) \/ ServeLateLogout(t) \/ Expire(t)
         \/ BeginLogout \/ ServeLogout \/ ReceiveReply \/ FinishLogin \/ FinishLogout
         \/ MutationFails
  PROVE  SessionTypeOK'
<1>. SUFFICES ServerOK' /\ BrowserOK' /\ PagesOK'
  BY SessionTypeParts, PTL
<1>0. ServerOK /\ BrowserOK /\ PagesOK
  BY SessionTypeParts
<1>. USE <1>0 DEF sessionRows
<1>1. ASSUME NEW u \in Accounts, BeginLogin(u)
      PROVE  ServerOK' /\ BrowserOK' /\ PagesOK'
  <2>1. mutation' \in Mutations
    BY <1>1 DEF BeginLogin, Mutations
  <2>. QED
    BY <1>1, <2>1 DEF BeginLogin, ServerOK, BrowserOK, PagesOK
<1>2. ASSUME NEW t \in Tokens, ServeLogin(t)
      PROVE  ServerOK' /\ BrowserOK' /\ PagesOK'
  <2>1. mutation # NoMutation /\ mutation.kind = "login"
    BY <1>2, UnderWay DEF ServeLogin
  <2>2. mutation' \in Mutations /\ mutation.user \in Accounts
    BY <1>2, <2>1, MutationTypes DEF ServeLogin, BrowserOK
  <2>3. ServerOK'
    BY <1>2, <2>2 DEF ServeLogin, ServerOK
  <2>. QED
    BY <1>2, <2>2, <2>3 DEF ServeLogin, BrowserOK, PagesOK
<1>3. ASSUME NEW t \in Tokens, ServeLateLogout(t) \/ Expire(t)
      PROVE  ServerOK' /\ BrowserOK' /\ PagesOK'
  <2>1. session' \in [Tokens -> {"none", "live", "ended"}]
    BY <1>3, EndedType DEF ServeLateLogout, Expire
  <2>. QED
    BY <1>3, <2>1 DEF ServeLateLogout, Expire, ServerOK, BrowserOK, PagesOK
<1>4. CASE BeginLogout
  <2>1. PagesOK' /\ actor' = None
    BY <1>4, TypeOfTransition DEF BeginLogout, SetPrincipal
  <2>2. mutation' \in Mutations
    <3>1. [at |-> "sent", kind |-> "logout", token |-> cookie] \in Mutations
      BY DEF BrowserOK, Mutations
    <3>2. Bystander(None, mutation) \in Mutations
      BY <1>0, MutationTypes DEF BrowserOK
    <3>3. mutation' \in {[at |-> "sent", kind |-> "logout", token |-> cookie],
                         Bystander(None, mutation)}
      BY <1>4 DEF BeginLogout
    <3>. QED
      BY <3>1, <3>2, <3>3
  <2>3. BrowserOK'
    BY <1>4, <2>1, <2>2, FlightTypes DEF BeginLogout, SetPrincipal, CancelProbe, BrowserOK
  <2>. QED
    BY <1>4, <2>1, <2>3 DEF BeginLogout, ServerOK
<1>5. CASE ServeLogout
  <2>1. mutation # NoMutation
    BY <1>5, UnderWay DEF ServeLogout
  <2>2. mutation' \in Mutations /\ mutation.token \in Tokens \cup {0}
    BY <1>5, <2>1, MutationTypes DEF ServeLogout, BrowserOK
  <2>3. session' \in [Tokens -> {"none", "live", "ended"}]
    BY <1>5, <2>2, EndedType DEF ServeLogout
  <2>. QED
    BY <1>5, <2>2, <2>3 DEF ServeLogout, ServerOK, BrowserOK, PagesOK
<1>6. CASE ReceiveReply
  <2>1. mutation # NoMutation
    BY <1>6, UnderWay DEF ReceiveReply
  <2>2. mutation' \in Mutations /\ mutation.token \in Tokens \cup {0}
    BY <1>6, <2>1, MutationTypes DEF ReceiveReply, BrowserOK
  <2>. QED
    BY <1>6, <2>2 DEF ReceiveReply, ServerOK, BrowserOK, PagesOK
<1>7. CASE FinishLogin
  <2>1. mutation # NoMutation /\ mutation.user \in Accounts
    BY <1>7, UnderWay, MutationTypes DEF FinishLogin, BrowserOK
  <2>2. CASE mutation.owned
    <3>1. PagesOK' /\ actor' = mutation.user
      BY <1>7, <2>1, <2>2, TypeOfTransition DEF FinishLogin, SetPrincipal
    <3>2. BrowserOK'
      BY <1>7, <2>1, <2>2, <3>1, FlightTypes, MutationTypes
      DEF FinishLogin, SetPrincipal, CancelProbe, BrowserOK
    <3>. QED
      BY <1>7, <3>1, <3>2 DEF FinishLogin, ServerOK
  <2>3. CASE ~mutation.owned
    BY <1>7, <2>3, MutationTypes DEF FinishLogin, ServerOK, BrowserOK, PagesOK
  <2>. QED
    BY <2>2, <2>3
<1>8. CASE FinishLogout
  BY <1>8, MutationTypes DEF FinishLogout, ServerOK, BrowserOK, PagesOK
<1>9. CASE MutationFails
  <2>1. late' \subseteq Tokens
    BY <1>9, MutationTypes DEF MutationFails, ServerOK, BrowserOK
  <2>2. loose' \in BOOLEAN
    BY <1>9 DEF MutationFails, BrowserOK
  <2>. QED
    BY <1>9, <2>1, <2>2, MutationTypes DEF MutationFails, ServerOK, BrowserOK, PagesOK
<1>. QED
  BY <1>1, <1>2, <1>3, <1>4, <1>5, <1>6, <1>7, <1>8, <1>9

LEMMA TypeOfPages ==
  ASSUME SessionTypeOK,
         \/ \E r \in Requests : BeginRequest(r) \/ ServeRequest(r) \/ FinishRequest(r)
         \/ ConnectTab \/ ReceiveEvent \/ SendMessage \/ ReceiveAck \/ TabSocketClosed
  PROVE  SessionTypeOK'
<1>. SUFFICES ServerOK' /\ BrowserOK' /\ PagesOK'
  BY SessionTypeParts, PTL
<1>0. ServerOK /\ BrowserOK /\ PagesOK
  BY SessionTypeParts
<1>. USE <1>0 DEF sessionRows
<1>1. ServerOK'
  BY DEF BeginRequest, ServeRequest, FinishRequest, ConnectTab, ReceiveEvent, SendMessage,
         ReceiveAck, TabSocketClosed, ServerOK
<1>2. ASSUME NEW r \in Requests, BeginRequest(r) \/ ServeRequest(r)
      PROVE  BrowserOK' /\ PagesOK'
  BY <1>2, FlightTypes DEF BeginRequest, ServeRequest, BrowserOK, PagesOK
<1>3. ASSUME NEW r \in Requests, FinishRequest(r)
      PROVE  BrowserOK' /\ PagesOK'
  <2>1. request[r].user \in Accounts \cup {None}
    BY <1>3 DEF FinishRequest, PagesOK, Flights, RequestInFlight, NoRequest
  <2>2. CASE /\ request[r].user # None
             /\ shown' = shown \cup {request[r].user}
             /\ request' = [request EXCEPT ![r] = NoRequest]
             /\ UNCHANGED <<actor, resolved, probe, mutation, tabSocket, pending>>
    BY <1>3, <2>1, <2>2, FlightTypes DEF FinishRequest, BrowserOK, PagesOK
  <2>3. CASE /\ CancelProbe
             /\ mutation' = Bystander(None, mutation)
             /\ actor' = None /\ resolved' = TRUE
             /\ request' = [q \in Requests |-> IF q = r THEN NoRequest ELSE Disowned(request[q])]
             /\ ClearProtectedState
             /\ Retire
    <3>1. mutation' \in Mutations
      BY <2>3, MutationTypes DEF BrowserOK
    <3>2. request' \in [Requests -> Flights]
      BY <2>3, FlightTypes DEF PagesOK
    <3>3. PagesOK'
      BY <2>3, <3>2 DEF ClearProtectedState, Retire, PagesOK
    <3>. QED
      BY <1>3, <2>3, <3>1, <3>3, FlightTypes DEF FinishRequest, CancelProbe, BrowserOK
  <2>4. CASE /\ request' = [request EXCEPT ![r] = NoRequest]
             /\ UNCHANGED <<actor, resolved, probe, mutation, shown, tabSocket, pending>>
    BY <1>3, <2>4, FlightTypes DEF FinishRequest, BrowserOK, PagesOK
  <2>. QED
    BY <1>3, <2>2, <2>3, <2>4 DEF FinishRequest
<1>4. CASE ConnectTab
  <2>1. Speaks(cookie) \in Accounts \cup {None}
    BY DEF Speaks, ServerOK, BrowserOK
  <2>. QED
    BY <1>1, <1>4, <2>1 DEF ConnectTab, BrowserOK, PagesOK
<1>5. CASE ReceiveEvent
  BY <1>1, <1>5 DEF ReceiveEvent, BrowserOK, PagesOK
<1>6. CASE SendMessage \/ ReceiveAck
  BY <1>1, <1>6 DEF SendMessage, ReceiveAck, BrowserOK, PagesOK
<1>7. CASE TabSocketClosed
  BY <1>1, <1>7 DEF TabSocketClosed, NoSocket, BrowserOK, PagesOK
<1>. QED
  BY <1>1, <1>2, <1>3, <1>4, <1>5, <1>6, <1>7

LEMMA SessionTypeKept == SessionTypeOK /\ [SessionNext]_sessionVars => SessionTypeOK'
<1>1. ASSUME SessionTypeOK, UNCHANGED sessionVars
      PROVE  SessionTypeOK'
  BY <1>1 DEF sessionVars, sessionRows, SessionTypeOK
<1>. QED
  BY <1>1, TypeOfProbes, TypeOfLogins, TypeOfPages DEF SessionNext, SessionStep

(* The type invariant.                                                      *)
THEOREM SessionTypeCorrect == SessionSpec => []SessionTypeOK
  BY SessionTypeInit, SessionTypeKept, PTL DEF SessionSpec

-----------------------------------------------------------------------------
(* Tokens and owners.                                                       *)

(* The steps that change rows of sessions, the cookie or what is under way. *)
ProbeStep == BeginProbe \/ ServeProbe \/ FinishProbe \/ ProbeFails

PageStep ==
  \/ \E r \in Requests : BeginRequest(r) \/ ServeRequest(r) \/ FinishRequest(r)
  \/ ConnectTab \/ ReceiveEvent \/ SendMessage \/ ReceiveAck \/ TabSocketClosed

(* A session that was issued keeps its holder and never comes back.         *)
TokenKept(t) ==
  /\ t # 0 => session'[t] # "none" /\ holder'[t] = holder[t]
  /\ t # 0 /\ session'[t] = "live" => session[t] = "live"

LEMMA TokensLast ==
  ASSUME SessionTypeOK, [SessionNext]_sessionVars
  PROVE  \A t \in Tokens \cup {0} : (t # 0 => session[t] # "none") => TokenKept(t)
<1>. SUFFICES ASSUME NEW t \in Tokens \cup {0}, t # 0 => session[t] # "none"
              PROVE  TokenKept(t)
  OBVIOUS
<1>0. 0 \notin Tokens /\ ServerOK /\ BrowserOK
  BY SessionTypeParts DEF Tokens
<1>1. CASE UNCHANGED <<session, holder>>
  BY <1>1 DEF TokenKept
<1>2. ASSUME NEW s \in Tokens \cup {0}, session' = Ended(s), holder' = holder
      PROVE  TokenKept(t)
  BY <1>0, <1>2 DEF TokenKept, Ended, ServerOK
<1>3. ASSUME NEW s \in Tokens, ServeLogin(s)
      PROVE  TokenKept(t)
  <2>1. s # t
    BY <1>0, <1>3 DEF ServeLogin
  <2>. QED
    BY <1>0, <1>3, <2>1 DEF ServeLogin, TokenKept, ServerOK
<1>4. ASSUME NEW s \in Tokens, ServeLateLogout(s) \/ Expire(s)
      PROVE  TokenKept(t)
  BY <1>2, <1>4 DEF ServeLateLogout, Expire
<1>5. CASE ServeLogout
  <2>1. mutation.token \in Tokens \cup {0}
    BY <1>0, <1>5, UnderWay, MutationTypes DEF ServeLogout, BrowserOK
  <2>. QED
    BY <1>2, <1>5, <2>1 DEF ServeLogout
<1>6. CASE \/ ProbeStep \/ PageStep
           \/ \E u \in Accounts : BeginLogin(u)
           \/ BeginLogout \/ ReceiveReply \/ FinishLogin \/ FinishLogout \/ MutationFails
           \/ UNCHANGED sessionVars
  BY <1>1, <1>6
  DEF ProbeStep, PageStep, BeginProbe, ServeProbe, FinishProbe, ProbeFails, BeginLogin,
      BeginLogout, ReceiveReply, FinishLogin, FinishLogout, MutationFails,
      BeginRequest, ServeRequest, FinishRequest, ConnectTab, ReceiveEvent, SendMessage,
      ReceiveAck, TabSocketClosed, sessionRows, sessionVars
<1>. QED
  BY <1>3, <1>4, <1>5, <1>6 DEF SessionNext, SessionStep, ProbeStep, PageStep

(* What happens to the login or logout under way and to the cookie.         *)
MutationKept ==
  /\ cookie' = cookie
  /\ \/ mutation' = mutation \/ mutation' = NoMutation
     \/ \E u \in Accounts \cup {None} : mutation' = Bystander(u, mutation)

LEMMA BystanderSame ==
  ASSUME NEW m \in Mutations, NEW u \in Accounts \cup {None}
  PROVE  /\ Bystander(u, m) = NoMutation <=> m = NoMutation
         /\ m # NoMutation =>
              /\ Bystander(u, m).kind = m.kind
              /\ Bystander(u, m).at = m.at
              /\ Bystander(u, m).token = m.token
              /\ m.kind = "login" => Bystander(u, m).user = m.user
              /\ m.kind = "login" =>
                   Bystander(u, m).owned = (IF u # actor THEN FALSE ELSE m.owned)
<1>1. CASE m \in [at : {"sent", "served", "received"}, kind : {"login"}, user : Accounts,
                  token : Tokens \cup {0}, owned : BOOLEAN]
  <2>1. CASE u = actor
    BY <1>1, <2>1 DEF Bystander
  <2>2. CASE u # actor
    <3>1. Bystander(u, m) = [m EXCEPT !.owned = FALSE] /\ m # NoMutation
      BY <1>1, <2>2 DEF Bystander, NoMutation
    <3>2. [m EXCEPT !.owned = FALSE] # NoMutation
      BY <1>1 DEF NoMutation
    <3>. QED
      BY <1>1, <2>2, <3>1, <3>2
  <2>. QED
    BY <2>1, <2>2
<1>2. CASE m = NoMutation \/ m.kind # "login"
  BY <1>2 DEF Bystander
<1>. QED
  BY <1>1, <1>2 DEF Mutations

(* Apart from the five steps below, a step keeps the cookie and the login   *)
(* or logout, ends it, or disowns it.                                       *)
LEMMA MutationSteps ==
  ASSUME SessionTypeOK, [SessionNext]_sessionVars
  PROVE  \/ MutationKept
         \/ \E u \in Accounts : BeginLogin(u)
         \/ \E t \in Tokens : ServeLogin(t)
         \/ BeginLogout \/ ServeLogout \/ ReceiveReply
<1>0. BrowserOK /\ PagesOK
  BY SessionTypeParts
<1>1. CASE FinishProbe
  <2>1. probe.user \in Accounts \cup {None}
    BY <1>0, <1>1 DEF FinishProbe, BrowserOK, Flights, RequestInFlight, NoRequest
  <2>. QED
    BY <1>1, <2>1 DEF FinishProbe, MutationKept
<1>2. CASE BeginProbe \/ ServeProbe \/ ProbeFails
  BY <1>2 DEF BeginProbe, ServeProbe, ProbeFails, MutationKept
<1>3. CASE FinishLogin \/ FinishLogout \/ MutationFails
  BY <1>3 DEF FinishLogin, FinishLogout, MutationFails, MutationKept
<1>4. ASSUME NEW t \in Tokens, ServeLateLogout(t) \/ Expire(t)
      PROVE  MutationKept
  BY <1>4 DEF ServeLateLogout, Expire, MutationKept
<1>5. CASE PageStep \/ UNCHANGED sessionVars
  BY <1>5 DEF PageStep, BeginRequest, ServeRequest, FinishRequest, ConnectTab, ReceiveEvent,
              SendMessage, ReceiveAck, TabSocketClosed, sessionVars, MutationKept
<1>. QED
  BY <1>1, <1>2, <1>3, <1>4, <1>5 DEF SessionNext, SessionStep, PageStep

(* A probe is sent with the cookie; one that is still unanswered was sent.  *)
LEMMA ProbeSteps ==
  ASSUME SessionTypeOK, [SessionNext]_sessionVars, probe'.at = "asked"
  PROVE  probe' = probe \/ (BeginProbe /\ probe'.token = cookie)
<1>1. NoRequest.at # "asked"
  BY DEF NoRequest
<1>2. CASE ProbeStep
  BY <1>1, <1>2
  DEF ProbeStep, BeginProbe, ServeProbe, FinishProbe, ProbeFails, Asked, Reply
<1>3. CASE probe' = probe \/ CancelProbe
  BY <1>1, <1>3 DEF CancelProbe
<1>4. CASE FinishLogin \/ BeginLogout
  BY <1>3, <1>4 DEF FinishLogin, BeginLogout, SetPrincipal
<1>5. ASSUME NEW r \in Requests, FinishRequest(r)
      PROVE  probe' = probe \/ CancelProbe
  BY <1>5 DEF FinishRequest
<1>6. CASE \/ \E u \in Accounts : BeginLogin(u)
           \/ \E t \in Tokens : ServeLogin(t) \/ ServeLateLogout(t) \/ Expire(t)
           \/ ServeLogout \/ ReceiveReply \/ FinishLogout \/ MutationFails
           \/ \E r \in Requests : BeginRequest(r) \/ ServeRequest(r)
           \/ ConnectTab \/ ReceiveEvent \/ SendMessage \/ ReceiveAck \/ TabSocketClosed
           \/ UNCHANGED sessionVars
  BY <1>3, <1>6
  DEF BeginLogin, ServeLogin, ServeLateLogout, Expire, ServeLogout, ReceiveReply,
      FinishLogout, MutationFails, BeginRequest, ServeRequest, ConnectTab, ReceiveEvent,
      SendMessage, ReceiveAck, TabSocketClosed, sessionVars
<1>. QED
  BY <1>2, <1>3, <1>4, <1>5, <1>6 DEF SessionNext, SessionStep, ProbeStep

LEMMA TokensIssuedKept ==
  ASSUME SessionTypeOK, TokensIssued, [SessionNext]_sessionVars
  PROVE  TokensIssued'
<1>0. /\ ServerOK /\ BrowserOK /\ 0 \notin Tokens
      /\ cookie \in Tokens \cup {0} /\ mutation \in Mutations
  BY SessionTypeParts DEF Tokens, BrowserOK
<1>1. CookieIssued'
  <2>0. CookieIssued /\ (cookie # 0 => TokenKept(cookie))
    BY <1>0, TokensLast DEF TokensIssued, CookieIssued
  <2>a. LoggingIn /\ mutation.at # "sent" => TokenKept(mutation.token)
    BY <1>0, TokensLast, MutationTypes DEF TokensIssued, CookieIssued, LoggingIn
  <2>1. CASE MutationKept
    <3>1. CASE mutation' = NoMutation
      BY <1>0, <2>0, <2>1, <3>1
      DEF MutationKept, TokenKept, CookieIssued, LoggingIn, LoggingOut, LoginReceived
    <3>2. CASE mutation' = mutation
      BY <1>0, <2>0, <2>a, <2>1, <3>2
      DEF MutationKept, TokenKept, CookieIssued, LoggingIn, LoggingOut, LoginReceived
    <3>3. CASE \E u \in Accounts \cup {None} : mutation' = Bystander(u, mutation)
      <4>1. CASE mutation = NoMutation
        BY <1>0, <3>2, <3>3, <4>1 DEF Bystander
      <4>2. CASE mutation # NoMutation
        <5>1. /\ cookie' = cookie /\ mutation' # NoMutation
              /\ mutation'.kind = mutation.kind /\ mutation'.at = mutation.at
              /\ mutation'.token = mutation.token
              /\ mutation.kind = "login" => mutation'.user = mutation.user
          BY <1>0, <2>1, <3>3, <4>2, BystanderSame DEF MutationKept
        <5>. QED
          BY <1>0, <2>0, <2>a, <4>2, <5>1
          DEF TokenKept, CookieIssued, LoggingIn, LoggingOut, LoginReceived
      <4>. QED
        BY <4>1, <4>2
    <3>. QED
      BY <2>1, <3>1, <3>2, <3>3 DEF MutationKept
  <2>2. ASSUME NEW u \in Accounts, BeginLogin(u)
        PROVE  CookieIssued'
    BY <1>0, <2>0, <2>2
    DEF BeginLogin, CookieIssued, LoggingIn, LoggingOut, LoginReceived, sessionRows
  <2>3. ASSUME NEW t \in Tokens, ServeLogin(t)
        PROVE  CookieIssued'
    <3>1. mutation # NoMutation /\ mutation.kind = "login"
      BY <2>3, UnderWay DEF ServeLogin
    <3>2. /\ mutation' = [mutation EXCEPT !.at = "served", !.token = t]
          /\ session'[t] = "live" /\ holder'[t] = mutation.user /\ cookie' = cookie
      BY <1>0, <2>3 DEF ServeLogin, ServerOK
    <3>3. /\ mutation'.kind = "login" /\ mutation'.at = "served" /\ mutation'.token = t
          /\ mutation'.user = mutation.user
      BY <1>0, <3>1, <3>2 DEF Mutations, NoMutation
    <3>. QED
      BY <1>0, <2>0, <3>2, <3>3
      DEF TokenKept, CookieIssued, LoggingIn, LoggingOut, LoginReceived
  <2>4. CASE BeginLogout
    <3>1. cookie' = cookie
      BY <2>4 DEF BeginLogout
    <3>2. CASE mutation' = [at |-> "sent", kind |-> "logout", token |-> cookie]
      BY <2>0, <3>1, <3>2
      DEF TokenKept, CookieIssued, LoggingIn, LoggingOut, LoginReceived
    <3>3. CASE mutation' = Bystander(None, mutation)
      BY <1>0, <2>0, <2>a, <3>1, <3>3, BystanderSame, ZenonT(60)
      DEF TokenKept, CookieIssued, LoggingIn, LoggingOut, LoginReceived
    <3>. QED
      BY <2>4, <3>2, <3>3 DEF BeginLogout
  <2>5. CASE ServeLogout
    <3>1. mutation # NoMutation /\ mutation.kind = "logout"
      BY <2>5, UnderWay DEF ServeLogout
    <3>2. mutation'.kind = "logout" /\ mutation'.at = "served" /\ cookie' = cookie
      BY <1>0, <2>5, <3>1 DEF ServeLogout, Mutations, NoMutation
    <3>. QED
      BY <2>0, <3>2 DEF TokenKept, CookieIssued, LoggingIn, LoggingOut, LoginReceived
  <2>6. CASE ReceiveReply
    <3>1. mutation # NoMutation /\ mutation.at = "served"
      BY <2>6, UnderWay DEF ReceiveReply
    <3>2. /\ mutation' = [mutation EXCEPT !.at = "received"]
          /\ cookie' = IF mutation.kind = "login" THEN mutation.token ELSE 0
          /\ UNCHANGED <<session, holder>>
      BY <2>6 DEF ReceiveReply, sessionRows
    <3>3. CASE mutation.kind = "login"
      <4>1. /\ mutation'.kind = "login" /\ mutation'.at = "received"
            /\ mutation'.token = mutation.token /\ mutation'.user = mutation.user
        BY <1>0, <3>1, <3>2, <3>3 DEF Mutations, NoMutation
      <4>. QED
        BY <2>0, <3>1, <3>2, <3>3, <4>1 DEF CookieIssued, LoggingIn, LoggingOut, LoginReceived
    <3>4. CASE mutation.kind = "logout"
      <4>1. mutation'.kind = "logout" /\ mutation'.at = "received"
        BY <1>0, <3>1, <3>2, <3>4 DEF Mutations, NoMutation
      <4>. QED
        BY <2>0, <3>1, <3>2, <3>4, <4>1 DEF CookieIssued, LoggingIn, LoggingOut, LoginReceived
    <3>. QED
      BY <1>0, <3>1, <3>3, <3>4, MutationTypes
  <2>. QED
    BY <2>1, <2>2, <2>3, <2>4, <2>5, <2>6, MutationSteps
<1>2. probe'.at = "asked" /\ probe'.token # 0 => session'[probe'.token] # "none"
  <2>. SUFFICES ASSUME probe'.at = "asked", probe'.token # 0
                PROVE  session'[probe'.token] # "none"
    OBVIOUS
  <2>1. CASE probe' = probe
    <3>1. probe.token \in Tokens
      BY <1>0, <2>1 DEF BrowserOK, Flights, RequestInFlight, NoRequest
    <3>2. TokenKept(probe.token)
      BY <2>1, <3>1, TokensLast DEF TokensIssued
    <3>. QED
      BY <2>1, <3>2 DEF TokenKept
  <2>2. CASE BeginProbe /\ probe'.token = cookie
    BY <2>2 DEF BeginProbe, TokensIssued, CookieIssued, sessionRows
  <2>. QED
    BY <2>1, <2>2, ProbeSteps
<1>. QED
  BY <1>1, <1>2 DEF TokensIssued

LEMMA DisownedTypes ==
  ASSUME NEW x \in Flights
  PROVE  /\ Disowned(x) = NoRequest <=> x = NoRequest
         /\ x # NoRequest => ~Disowned(x).owned
<1>1. CASE x = NoRequest
  BY <1>1 DEF Disowned
<1>2. CASE x \in [at : {"asked"}, token : Tokens \cup {0}, owned : BOOLEAN]
  BY <1>2 DEF Disowned, NoRequest
<1>3. CASE x \in [at : {"answered"}, user : Accounts \cup {None}, owned : BOOLEAN]
  BY <1>3 DEF Disowned, NoRequest
<1>. QED
  BY <1>1, <1>2, <1>3 DEF Flights, RequestInFlight

(* A login or logout that stands by goes on; the login has lost its tab     *)
(* when the actor changes.                                                  *)
LEMMA BystanderGoesOn ==
  ASSUME mutation \in Mutations, NEW u \in Accounts \cup {None},
         mutation' = Bystander(u, mutation)
  PROVE  /\ LoggingIn' <=> LoggingIn
         /\ LoggingOut' <=> LoggingOut
         /\ LoginReceived' <=> LoginReceived
         /\ u = actor => mutation' = mutation
         /\ u # actor /\ LoggingIn => ~mutation'.owned
<1>1. mutation = NoMutation \/ u = actor => mutation' = mutation
  BY DEF Bystander
<1>2. CASE mutation = NoMutation \/ u = actor
  BY <1>1, <1>2 DEF LoggingIn, LoggingOut, LoginReceived
<1>3. CASE mutation # NoMutation /\ u # actor
  <2>1. mutation' # NoMutation /\ mutation'.kind = mutation.kind /\ mutation'.at = mutation.at
    BY <1>3, BystanderSame
  <2>2. mutation.kind = "login" => ~mutation'.owned
    <3>. SUFFICES ASSUME mutation.kind = "login"
                  PROVE  mutation'.owned = FALSE
      OBVIOUS
    <3>. QED
      BY <1>3, BystanderSame
  <2>. QED
    BY <1>3, <2>1, <2>2 DEF LoggingIn, LoggingOut, LoginReceived
<1>. QED
  BY <1>2, <1>3

(* A login or logout under way belongs to a tab that shows nobody, and      *)
(* while a logout is under way no session probe runs.                       *)
LEMMA MutationOwnedKept ==
  ASSUME SessionTypeOK, MutationOwned, PagesOwned, [SessionNext]_sessionVars
  PROVE  MutationOwned'
<1>0. BrowserOK /\ PagesOK /\ mutation \in Mutations /\ actor \in Accounts \cup {None}
  BY SessionTypeParts DEF BrowserOK
<1>. USE DEF LoggingIn, LoggingOut
<1>1. CASE BeginProbe
  BY <1>1 DEF BeginProbe, SessionFresh, MutationOwned
<1>2. CASE ServeProbe \/ ProbeFails
  BY <1>2 DEF ServeProbe, ProbeFails, MutationOwned, NoRequest
<1>3. CASE FinishProbe
  <2>1. probe.user \in Accounts \cup {None} /\ probe # NoRequest
    BY <1>0, <1>3 DEF FinishProbe, BrowserOK, Flights, RequestInFlight, NoRequest
  <2>2. actor' = probe.user /\ resolved' = TRUE /\ mutation' = Bystander(probe.user, mutation)
    BY <1>3 DEF FinishProbe, TransitionClientActor
  <2>3. ~LoggingOut' /\ (LoggingIn' => LoggingIn)
    BY <1>0, <2>1, <2>2, BystanderGoesOn DEF MutationOwned
  <2>4. CASE probe.user = actor
    BY <1>0, <2>1, <2>2, <2>3, <2>4, BystanderGoesOn DEF MutationOwned
  <2>5. CASE probe.user # actor
    BY <1>0, <2>1, <2>2, <2>3, <2>5, BystanderGoesOn DEF MutationOwned
  <2>. QED
    BY <2>4, <2>5
<1>4. ASSUME NEW u \in Accounts, BeginLogin(u)
      PROVE  MutationOwned'
  BY <1>4 DEF BeginLogin, MutationOwned
<1>5. ASSUME NEW t \in Tokens, ServeLogin(t)
      PROVE  MutationOwned'
  <2>1. mutation # NoMutation /\ mutation.kind = "login"
    BY <1>5, UnderWay DEF ServeLogin
  <2>2. mutation'.kind = "login" /\ mutation'.owned = mutation.owned
    BY <1>0, <1>5, <2>1 DEF ServeLogin, Mutations, NoMutation
  <2>3. UNCHANGED <<actor, resolved, probe>>
    BY <1>5 DEF ServeLogin
  <2>. QED
    BY <2>1, <2>2, <2>3 DEF MutationOwned
<1>6. CASE BeginLogout
  <2>1. actor # None /\ actor' = None /\ probe' = NoRequest /\ resolved' = TRUE
    BY <1>6 DEF BeginLogout, SetPrincipal, CancelProbe, TransitionClientActor
  <2>2. CASE mutation' = [at |-> "sent", kind |-> "logout", token |-> cookie]
    BY <2>1, <2>2 DEF MutationOwned
  <2>3. CASE mutation' = Bystander(None, mutation)
    BY <1>0, <2>1, <2>3, BystanderSame DEF MutationOwned
  <2>. QED
    BY <1>6, <2>2, <2>3 DEF BeginLogout
<1>7. CASE ServeLogout
  <2>1. mutation # NoMutation /\ mutation.kind = "logout"
    BY <1>7, UnderWay DEF ServeLogout
  <2>2. mutation'.kind = "logout" /\ UNCHANGED <<actor, probe>>
    BY <1>0, <1>7, <2>1 DEF ServeLogout, Mutations, NoMutation
  <2>. QED
    BY <2>1, <2>2 DEF MutationOwned
<1>8. CASE ReceiveReply
  <2>1. mutation # NoMutation
    BY <1>8, UnderWay DEF ReceiveReply
  <2>2. /\ mutation'.kind = mutation.kind
        /\ mutation.kind = "login" => mutation'.owned = mutation.owned
        /\ UNCHANGED <<actor, resolved, probe>>
    BY <1>0, <1>8, <2>1 DEF ReceiveReply, Mutations, NoMutation
  <2>. QED
    BY <1>0, <2>1, <2>2, MutationTypes DEF MutationOwned
<1>9. CASE FinishLogin \/ FinishLogout \/ MutationFails
  BY <1>9 DEF FinishLogin, FinishLogout, MutationFails, MutationOwned
<1>10. ASSUME NEW r \in Requests, FinishRequest(r)
       PROVE  MutationOwned'
  <2>1. CASE UNCHANGED <<actor, resolved, probe, mutation>>
    BY <2>1 DEF MutationOwned
  <2>2. CASE /\ Owns(request[r])
             /\ CancelProbe
             /\ mutation' = Bystander(None, mutation)
             /\ actor' = None /\ resolved' = TRUE
    BY <1>0, <2>2, BystanderSame DEF MutationOwned, CancelProbe
  <2>. QED
    BY <1>10, <2>1, <2>2 DEF FinishRequest
<1>11. CASE \/ \E t \in Tokens : ServeLateLogout(t) \/ Expire(t)
            \/ \E r \in Requests : BeginRequest(r) \/ ServeRequest(r)
            \/ ConnectTab \/ ReceiveEvent \/ SendMessage \/ ReceiveAck \/ TabSocketClosed
            \/ UNCHANGED sessionVars
  <2>1. UNCHANGED <<actor, resolved, probe, mutation>>
    BY <1>11
    DEF ServeLateLogout, Expire, BeginRequest, ServeRequest, ConnectTab, ReceiveEvent,
        SendMessage, ReceiveAck, TabSocketClosed, sessionVars
  <2>. QED
    BY <2>1 DEF MutationOwned
<1>. QED
  BY <1>1, <1>2, <1>3, <1>4, <1>5, <1>6, <1>7, <1>8, <1>9, <1>10, <1>11
  DEF SessionNext, SessionStep

(* A change of the actor leaves nothing owned and nothing shown.            *)
LEMMA ActorChanged ==
  ASSUME PagesOK, NEW u, u # actor, TransitionClientActor(u)
  PROVE  /\ actor' = u
         /\ \A r \in Requests : request'[r] # NoRequest => ~request'[r].owned
         /\ ~tabSocket'.owned
         /\ shown' = {}
<1>1. \A r \in Requests : request'[r] = Disowned(request[r]) /\ request[r] \in Flights
  BY DEF TransitionClientActor, PagesOK
<1>2. ~tabSocket'.owned /\ shown' = {} /\ actor' = u
  BY DEF TransitionClientActor, Retire, ClearProtectedState, PagesOK
<1>. QED
  BY <1>1, <1>2, DisownedTypes

LEMMA PagesOwnedKept ==
  ASSUME SessionTypeOK, PagesOwned, [SessionNext]_sessionVars
  PROVE  PagesOwned'
<1>0. BrowserOK /\ PagesOK
  BY SessionTypeParts
<1>1. ASSUME NEW u, TransitionClientActor(u)
      PROVE  PagesOwned'
  <2>1. CASE u = actor
    BY <1>1, <2>1 DEF TransitionClientActor, PagesOwned
  <2>2. CASE u # actor
    BY <1>0, <1>1, <2>2, ActorChanged DEF PagesOwned
  <2>. QED
    BY <2>1, <2>2
<1>2. CASE UNCHANGED <<actor, request, shown, tabSocket>>
  BY <1>2 DEF PagesOwned
<1>3. CASE FinishProbe \/ BeginLogout \/ FinishLogin
  BY <1>1, <1>2, <1>3 DEF FinishProbe, BeginLogout, FinishLogin, SetPrincipal
<1>4. ASSUME NEW r \in Requests, BeginRequest(r)
      PROVE  PagesOwned'
  BY <1>0, <1>4 DEF BeginRequest, PagesOwned, PagesOK
<1>5. ASSUME NEW r \in Requests, ServeRequest(r)
      PROVE  PagesOwned'
  <2>1. /\ request[r] # NoRequest
        /\ request'[r].owned = request[r].owned
        /\ \A q \in Requests \ {r} : request'[q] = request[q]
        /\ UNCHANGED <<actor, shown, tabSocket>>
    BY <1>0, <1>5 DEF ServeRequest, Reply, NoRequest, PagesOK
  <2>. QED
    BY <2>1 DEF PagesOwned
<1>6. ASSUME NEW r \in Requests, FinishRequest(r)
      PROVE  PagesOwned'
  <2>0. request[r] # NoRequest /\ request[r] \in Flights
    BY <1>0, <1>6 DEF FinishRequest, NoRequest, PagesOK
  <2>1. CASE /\ Owns(request[r])
             /\ request' = [request EXCEPT ![r] = NoRequest]
             /\ UNCHANGED <<actor, tabSocket>>
    BY <1>0, <2>0, <2>1 DEF Owns, PagesOwned, PagesOK
  <2>2. CASE /\ actor' = None
             /\ request' = [q \in Requests |-> IF q = r THEN NoRequest ELSE Disowned(request[q])]
             /\ ClearProtectedState
             /\ Retire
    <3>1. \A q \in Requests : request'[q] # NoRequest => ~request'[q].owned
      BY <1>0, <2>2, DisownedTypes DEF PagesOK
    <3>2. ~tabSocket'.owned /\ shown' = {}
      BY <1>0, <2>2 DEF Retire, ClearProtectedState, PagesOK
    <3>. QED
      BY <3>1, <3>2 DEF PagesOwned
  <2>3. CASE /\ request' = [request EXCEPT ![r] = NoRequest]
             /\ UNCHANGED <<actor, shown, tabSocket>>
    BY <1>0, <2>3 DEF PagesOwned, PagesOK
  <2>. QED
    BY <1>6, <2>1, <2>2, <2>3 DEF FinishRequest
<1>7. CASE ConnectTab \/ ReceiveEvent \/ TabSocketClosed
  BY <1>7 DEF ConnectTab, ReceiveEvent, TabSocketClosed, Owns, NoSocket, PagesOwned
<1>8. CASE \/ BeginProbe \/ ServeProbe \/ ProbeFails
           \/ \E u \in Accounts : BeginLogin(u)
           \/ \E t \in Tokens : ServeLogin(t) \/ ServeLateLogout(t) \/ Expire(t)
           \/ ServeLogout \/ ReceiveReply \/ FinishLogout \/ MutationFails
           \/ SendMessage \/ ReceiveAck \/ UNCHANGED sessionVars
  BY <1>2, <1>8
  DEF BeginProbe, ServeProbe, ProbeFails, BeginLogin, ServeLogin, ServeLateLogout, Expire,
      ServeLogout, ReceiveReply, FinishLogout, MutationFails, SendMessage, ReceiveAck,
      sessionVars
<1>. QED
  BY <1>3, <1>4, <1>5, <1>6, <1>7, <1>8 DEF SessionNext, SessionStep

(* Nothing owned and nothing shown is nobody's data.                        *)
NothingOwned ==
  /\ \A r \in Requests : request[r] # NoRequest => ~request[r].owned
  /\ ~tabSocket.owned
  /\ shown = {}

LEMMA NothingOwnedAnswers == NothingOwned => AnswersOwn
  BY DEF NothingOwned, AnswersOwn, RequestAnswered

(* While nobody is signed in nothing is owned.                              *)
LEMMA NobodyOwns == PagesOwned /\ actor = None => NothingOwned
  BY DEF PagesOwned, NothingOwned

(* A step that leaves the actor, the cookie and the pages alone leaves the  *)
(* answers right: a session may end, none comes back.                       *)
LEMMA AnswersKept ==
  ASSUME AnswersOwn, TokenKept(cookie),
         UNCHANGED <<cookie, actor, request, shown, tabSocket>>
  PROVE  AnswersOwn'
<1>1. Speaks(cookie) = None => Speaks(cookie)' = None
  BY DEF Speaks, TokenKept
<1>. QED
  BY <1>1 DEF AnswersOwn, RequestAnswered

(* A probe that ends or is cancelled has no more answer.                    *)
LEMMA NoProbeAnswers == probe = NoRequest => ProbeAnswered
  BY DEF ProbeAnswered, NoRequest

(* The session probe's steps.                                               *)
LEMMA AnsweredByProbe ==
  ASSUME SessionTypeOK, MutationOwned, Answered, ProbeStep, TokenKept(cookie)
  PROVE  Answered'
<1>0. BrowserOK /\ PagesOK /\ mutation \in Mutations /\ UNCHANGED <<session, holder, cookie>>
  BY SessionTypeParts
  DEF BrowserOK, ProbeStep, BeginProbe, ServeProbe, FinishProbe, ProbeFails, sessionRows
<1>1. CASE BeginProbe \/ ServeProbe \/ ProbeFails
  <2>1. UNCHANGED <<actor, resolved, mutation, request, shown, tabSocket>>
    BY <1>1 DEF BeginProbe, ServeProbe, ProbeFails
  <2>2. ActorAnswered'
    BY <1>0, <2>1
    DEF Answered, ActorAnswered, Speaks, LoggingIn, LoggingOut, LoginReceived
  <2>3. AnswersOwn'
    BY <1>0, <2>1, AnswersKept DEF Answered
  <2>4. CASE BeginProbe
    <3>1. probe'.at = "asked" /\ probe'.token = cookie'
      BY <1>0, <2>4 DEF BeginProbe, Asked
    <3>. QED
      BY <2>2, <2>3, <3>1 DEF Answered, ProbeAnswered
  <2>5. CASE ServeProbe
    <3>1. /\ probe.at = "asked" /\ probe # NoRequest
          /\ probe'.at = "answered" /\ probe'.user = Speaks(probe.token)
      BY <2>5 DEF ServeProbe, Reply, NoRequest
    <3>2. probe.token = cookie \/ (actor = None /\ resolved /\ Speaks(probe.token) = None)
      BY <3>1 DEF Answered, ProbeAnswered
    <3>3. Speaks(cookie)' = Speaks(cookie)
      BY <1>0 DEF Speaks
    <3>4. probe'.user # None =>
            /\ probe.token = cookie /\ cookie # 0 /\ holder[cookie] = probe'.user
            /\ actor = None /\ resolved => LoginReceived /\ mutation.owned
      BY <3>1, <3>2 DEF Speaks, Answered, ActorAnswered, MutationOwned
    <3>5. ProbeAnswered'
      BY <1>0, <2>1, <3>1, <3>2, <3>3, <3>4 DEF ProbeAnswered, LoginReceived, LoggingIn
    <3>. QED
      BY <2>2, <2>3, <3>5 DEF Answered
  <2>6. CASE ProbeFails
    BY <2>2, <2>3, <2>6, NoProbeAnswers DEF ProbeFails, Answered, ProbeAnswered, NoRequest
  <2>. QED
    BY <1>1, <2>4, <2>5, <2>6
<1>2. CASE FinishProbe
  <2>1. probe.user \in Accounts \cup {None} /\ probe # NoRequest /\ probe.at = "answered"
    BY <1>0, <1>2 DEF FinishProbe, BrowserOK, Flights, RequestInFlight, NoRequest
  <2>2. /\ probe' = NoRequest /\ actor' = probe.user /\ resolved' = TRUE
        /\ mutation' = Bystander(probe.user, mutation)
        /\ TransitionClientActor(probe.user)
    BY <1>2 DEF FinishProbe, TransitionClientActor
  <2>3. ~LoggingOut /\ (LoggingIn => resolved)
    BY <2>1 DEF MutationOwned
  <2>4. LoggingIn /\ ~LoginReceived => probe.user = None /\ actor = None /\ mutation.owned
    BY <2>1, <2>3 DEF Answered, ActorAnswered, ProbeAnswered
  <2>5. CASE probe.user = actor
    <3>1. UNCHANGED <<mutation, request, shown, tabSocket, actor>>
      BY <1>0, <2>1, <2>2, <2>5, BystanderGoesOn DEF TransitionClientActor
    <3>2. AnswersOwn'
      BY <1>0, <3>1, AnswersKept DEF Answered
    <3>3. actor = None => (LoginReceived /\ mutation.owned) \/ Speaks(cookie) = None
      BY <2>1, <2>3, <2>5 DEF Answered, ActorAnswered, ProbeAnswered
    <3>4. ActorAnswered'
      BY <1>0, <2>2, <3>1, <3>3
      DEF Answered, ActorAnswered, Speaks, LoggingIn, LoggingOut, LoginReceived
    <3>. QED
      BY <2>2, <3>2, <3>4 DEF Answered, ProbeAnswered, NoRequest
  <2>6. CASE probe.user # actor
    <3>1. NothingOwned'
      BY <1>0, <2>2, <2>6, ActorChanged DEF NothingOwned
    <3>2. AnswersOwn'
      BY <3>1 DEF NothingOwned, AnswersOwn, RequestAnswered
    <3>3. actor' # None => cookie' # 0 /\ holder'[cookie'] = actor'
      BY <1>0, <2>1, <2>2 DEF Answered, ProbeAnswered
    <3>4. actor' = None => Speaks(cookie)' = None
      BY <1>0, <2>1, <2>2, <2>6 DEF Answered, ProbeAnswered, Speaks
    <3>5. LoggingIn' /\ ~LoginReceived' => FALSE
      BY <1>0, <2>1, <2>2, <2>4, <2>6, BystanderGoesOn
    <3>. QED
      BY <2>2, <3>2, <3>3, <3>4, <3>5 DEF Answered, ActorAnswered, ProbeAnswered, NoRequest
  <2>. QED
    BY <2>5, <2>6
<1>. QED
  BY <1>1, <1>2 DEF ProbeStep

(* A login is sent, a session is issued, and the reply arrives: until then  *)
(* nobody is signed in, and the cookie speaks for nobody.                   *)
LEMMA AnsweredByLogin ==
  ASSUME SessionTypeOK, MutationOwned, PagesOwned, Answered,
         \A t \in Tokens \cup {0} : t = cookie \/ (probe.at = "asked" /\ t = probe.token)
                                  => TokenKept(t),
         \/ \E u \in Accounts : BeginLogin(u)
         \/ \E t \in Tokens : ServeLogin(t)
         \/ ReceiveReply /\ LoggingIn
  PROVE  Answered'
<1>0. /\ BrowserOK /\ PagesOK /\ mutation \in Mutations /\ cookie \in Tokens \cup {0}
      /\ TokenKept(cookie)
      /\ probe.at = "asked" => TokenKept(probe.token)
  BY SessionTypeParts DEF BrowserOK, Flights, RequestInFlight, NoRequest
<1>1. UNCHANGED <<actor, resolved, probe, request, shown, tabSocket>>
  BY DEF BeginLogin, ServeLogin, ReceiveReply
<1>2. actor = None /\ resolved /\ ~LoggingOut /\ ~LoginReceived
  <2>1. CASE \E u \in Accounts : BeginLogin(u)
    BY <2>1 DEF BeginLogin, Admitted, LoggingOut, LoginReceived, LoggingIn
  <2>2. CASE \E t \in Tokens : ServeLogin(t)
    BY <2>2, UnderWay
    DEF ServeLogin, Answered, ActorAnswered, MutationOwned, LoggingOut, LoginReceived, LoggingIn
  <2>3. CASE ReceiveReply /\ LoggingIn
    BY <2>3
    DEF ReceiveReply, Answered, ActorAnswered, MutationOwned, LoggingOut, LoginReceived, LoggingIn
  <2>. QED
    BY <2>1, <2>2, <2>3
<1>3. Speaks(cookie) = None
  BY <1>2 DEF Answered, ActorAnswered
<1>4. ~(probe.at = "answered" /\ probe.user # None)
  BY <1>2 DEF Answered, ProbeAnswered
<1>5. AnswersOwn'
  <2>1. NothingOwned'
    BY <1>1, <1>2, NobodyOwns DEF NothingOwned
  <2>. QED
    BY <2>1 DEF NothingOwned, AnswersOwn, RequestAnswered
<1>6. CASE cookie' = cookie
  <2>1. Speaks(cookie)' = None
    BY <1>0, <1>3, <1>6 DEF Speaks, TokenKept
  <2>2. probe.at = "asked" /\ Speaks(probe.token) = None => Speaks(probe.token)' = None
    BY <1>0, <1>1 DEF Speaks, TokenKept
  <2>3. ProbeAnswered'
    BY <1>1, <1>2, <1>4, <1>6, <2>1, <2>2 DEF Answered, ProbeAnswered
  <2>4. LoggingIn' /\ ~LoginReceived' => mutation'.owned
    <3>1. CASE \E u \in Accounts : BeginLogin(u)
      BY <3>1 DEF BeginLogin
    <3>2. CASE \E t \in Tokens : ServeLogin(t)
      <4>1. LoggingIn /\ mutation.owned
        BY <1>2, <3>2, UnderWay DEF ServeLogin, LoggingIn, Answered, ActorAnswered
      <4>. QED
        BY <1>0, <3>2, <4>1 DEF ServeLogin, LoggingIn, Mutations, NoMutation
    <3>3. CASE ReceiveReply /\ LoggingIn
      BY <1>0, <3>3 DEF ReceiveReply, LoggingIn, LoginReceived, Mutations, NoMutation
    <3>. QED
      BY <3>1, <3>2, <3>3
  <2>5. ActorAnswered'
    BY <1>1, <1>2, <2>1, <2>4 DEF ActorAnswered
  <2>. QED
    BY <1>5, <2>3, <2>5 DEF Answered
<1>7. CASE ReceiveReply /\ LoggingIn
  <2>1. LoginReceived' /\ mutation'.owned
    <3>1. mutation.owned
      BY <1>2, <1>7 DEF Answered, ActorAnswered
    <3>. QED
      BY <1>0, <1>7, <3>1 DEF ReceiveReply, LoggingIn, LoginReceived, Mutations, NoMutation
  <2>2. UNCHANGED session /\ UNCHANGED holder
    BY <1>7 DEF ReceiveReply, sessionRows
  <2>3. probe.at = "asked" => Speaks(probe.token) = None
    BY <1>3 DEF Answered, ProbeAnswered
  <2>4. probe.at = "asked" => Speaks(probe.token)' = None
    BY <1>1, <2>2, <2>3 DEF Speaks
  <2>5. ProbeAnswered'
    BY <1>1, <1>2, <1>4, <2>4 DEF ProbeAnswered
  <2>6. ActorAnswered'
    BY <1>1, <1>2, <2>1 DEF ActorAnswered
  <2>. QED
    BY <1>5, <2>5, <2>6 DEF Answered
<1>. QED
  BY <1>6, <1>7 DEF BeginLogin, ServeLogin

(* A logout begins, is served, and its reply clears the cookie; nobody is   *)
(* signed in and no probe runs.                                             *)
LEMMA AnsweredByLogout ==
  ASSUME SessionTypeOK, MutationOwned, PagesOwned, ~loose',
         BeginLogout \/ ServeLogout \/ (ReceiveReply /\ LoggingOut)
  PROVE  Answered'
<1>0. BrowserOK /\ PagesOK /\ mutation \in Mutations
  BY SessionTypeParts DEF BrowserOK
<1>1. /\ actor' = None /\ probe' = NoRequest /\ NothingOwned'
      /\ LoggingOut' /\ ~LoggingIn'
  <2>1. CASE BeginLogout
    <3>1. /\ actor # None /\ TransitionClientActor(None) /\ probe' = NoRequest
          /\ mutation' = [at |-> "sent", kind |-> "logout", token |-> cookie]
      BY <2>1 DEF BeginLogout, SetPrincipal, CancelProbe
    <3>2. LoggingOut' /\ ~LoggingIn'
      BY <3>1 DEF LoggingOut, LoggingIn, NoMutation
    <3>. QED
      BY <1>0, <3>1, <3>2, ActorChanged DEF NothingOwned
  <2>2. CASE ServeLogout \/ (ReceiveReply /\ LoggingOut)
    <3>1. LoggingOut /\ UNCHANGED <<actor, probe, request, shown, tabSocket>>
      BY <2>2, UnderWay DEF ServeLogout, ReceiveReply, LoggingOut
    <3>2. mutation' # NoMutation /\ mutation'.kind = "logout"
      BY <1>0, <2>2, <3>1 DEF ServeLogout, ReceiveReply, LoggingOut, Mutations, NoMutation
    <3>3. actor = None /\ probe = NoRequest /\ NothingOwned
      BY <3>1, NobodyOwns DEF MutationOwned
    <3>. QED
      BY <3>1, <3>2, <3>3 DEF LoggingOut, LoggingIn, NothingOwned
  <2>. QED
    BY <2>1, <2>2
<1>2. ActorAnswered'
  BY <1>1 DEF ActorAnswered
<1>3. ProbeAnswered' /\ AnswersOwn'
  BY <1>1 DEF ProbeAnswered, NoRequest, NothingOwned, AnswersOwn, RequestAnswered
<1>. QED
  BY <1>2, <1>3 DEF Answered

(* A login or logout ends: finished, it leaves what the actor and the       *)
(* cookie say the same, whatever an earlier one had left.                   *)
LEMMA AnsweredAtEnd ==
  ASSUME SessionTypeOK, TokensIssued, MutationOwned, PagesOwned, ~loose => Answered,
         TokenKept(cookie), ~loose', FinishLogin \/ FinishLogout \/ MutationFails
  PROVE  Answered'
<1>0. /\ BrowserOK /\ PagesOK /\ mutation \in Mutations
      /\ mutation' = NoMutation /\ ~LoggingIn' /\ ~LoggingOut'
      /\ mutation # NoMutation /\ UNCHANGED <<session, holder, cookie>>
  BY SessionTypeParts, UnderWay
  DEF BrowserOK, FinishLogin, FinishLogout, MutationFails, LoggingIn, LoggingOut, sessionRows
<1>1. CASE FinishLogin /\ mutation.owned
  <2>1. /\ LoginReceived /\ actor = None
        /\ mutation.user # None
    BY <1>0, <1>1, MutationTypes, TabConstants
    DEF FinishLogin, LoginReceived, LoggingIn, MutationOwned
  <2>2. /\ actor' = mutation.user /\ probe' = NoRequest
        /\ TransitionClientActor(mutation.user)
    BY <1>1 DEF FinishLogin, SetPrincipal, CancelProbe, TransitionClientActor
  <2>3. cookie # 0 /\ holder[cookie] = mutation.user
    BY <2>1 DEF TokensIssued, CookieIssued, LoginReceived
  <2>4. NothingOwned'
    BY <1>0, <2>1, <2>2, ActorChanged DEF NothingOwned
  <2>5. ActorAnswered'
    BY <1>0, <2>1, <2>2, <2>3 DEF ActorAnswered
  <2>6. ProbeAnswered' /\ AnswersOwn'
    BY <2>2, <2>4 DEF ProbeAnswered, NoRequest, NothingOwned, AnswersOwn, RequestAnswered
  <2>. QED
    BY <2>5, <2>6 DEF Answered
<1>2. CASE FinishLogout
  <2>1. /\ actor = None /\ probe = NoRequest /\ cookie = 0 /\ NothingOwned
        /\ UNCHANGED <<actor, probe, request, shown, tabSocket>>
    BY <1>0, <1>2, NobodyOwns
    DEF FinishLogout, LoggingOut, MutationOwned, TokensIssued, CookieIssued
  <2>2. ActorAnswered'
    BY <1>0, <2>1 DEF ActorAnswered, Speaks
  <2>3. NothingOwned'
    BY <2>1 DEF NothingOwned
  <2>4. ProbeAnswered' /\ AnswersOwn'
    BY <2>1, <2>3 DEF ProbeAnswered, NoRequest, NothingOwned, AnswersOwn, RequestAnswered
  <2>. QED
    BY <2>2, <2>4 DEF Answered
<1>3. CASE MutationFails \/ (FinishLogin /\ ~mutation.owned)
  <2>1. /\ ~loose /\ LoggingIn /\ ~(LoginReceived /\ mutation.owned)
        /\ UNCHANGED <<actor, resolved, probe, request, shown, tabSocket>>
    BY <1>0, <1>3, MutationTypes DEF MutationFails, FinishLogin, LoggingIn, LoginReceived
  <2>2. ~LoggingOut /\ Answered /\ Speaks(cookie)' = Speaks(cookie)
    BY <1>0, <2>1 DEF LoggingOut, LoggingIn, Speaks
  <2>3. ActorAnswered'
    BY <1>0, <2>1, <2>2 DEF Answered, ActorAnswered
  <2>4. probe.at = "asked" => Speaks(probe.token)' = Speaks(probe.token)
    BY <1>0, <2>1 DEF Speaks
  <2>5. ~(probe.at = "answered" /\ probe.user # None /\ actor = None /\ resolved)
    BY <2>1, <2>2 DEF Answered, ProbeAnswered
  <2>6. ProbeAnswered'
    BY <1>0, <2>1, <2>2, <2>4, <2>5 DEF Answered, ProbeAnswered
  <2>7. AnswersOwn'
    BY <1>0, <2>1, <2>2, AnswersKept DEF Answered
  <2>. QED
    BY <2>3, <2>6, <2>7 DEF Answered
<1>. QED
  BY <1>1, <1>2, <1>3

(* A request takes a step: those of the others bring what they brought.     *)
LEMMA OtherRequests ==
  ASSUME AnswersOwn, UNCHANGED <<cookie, actor>>, Speaks(cookie)' \in {Speaks(cookie), None},
         NEW r \in Requests, \A q \in Requests \ {r} : request'[q] = request[q],
         RequestAnswered(request[r])'
  PROVE  \A q \in Requests : RequestAnswered(request[q])'
<1>1. ASSUME NEW q \in Requests \ {r}
      PROVE  RequestAnswered(request[q])'
  <2>1. request'[q] = request[q] /\ RequestAnswered(request[q])
    BY <1>1 DEF AnswersOwn
  <2>. QED
    BY <2>1 DEF RequestAnswered
<1>. QED
  BY <1>1

LEMMA AnswersByPages ==
  ASSUME SessionTypeOK, PagesOwned, ActorAnswered, AnswersOwn, PageStep,
         UNCHANGED <<actor, session, holder, cookie>>
  PROVE  AnswersOwn'
<1>0. PagesOK /\ Speaks(cookie)' = Speaks(cookie)
  BY SessionTypeParts DEF Speaks
<1>1. actor # None => Speaks(cookie) \in {actor, None}
  BY DEF ActorAnswered, Speaks
<1>2. ASSUME NEW r \in Requests, BeginRequest(r)
      PROVE  AnswersOwn'
  <2>1. /\ request'[r] = Asked(cookie) /\ \A q \in Requests \ {r} : request'[q] = request[q]
        /\ UNCHANGED <<shown, tabSocket>>
    BY <1>0, <1>2 DEF BeginRequest, PagesOK
  <2>2. RequestAnswered(request[r])'
    BY <2>1 DEF RequestAnswered, Asked
  <2>. QED
    BY <1>0, <2>1, <2>2, OtherRequests DEF AnswersOwn
<1>3. ASSUME NEW r \in Requests, ServeRequest(r)
      PROVE  AnswersOwn'
  <2>1. /\ request[r].at = "asked" /\ request'[r] = Reply(request[r])
        /\ \A q \in Requests \ {r} : request'[q] = request[q]
        /\ UNCHANGED <<shown, tabSocket>>
    BY <1>0, <1>3 DEF ServeRequest, PagesOK
  <2>2. /\ request[r] # NoRequest /\ request'[r].at = "answered"
        /\ request'[r].user = Speaks(request[r].token) /\ request'[r].owned = request[r].owned
    BY <2>1 DEF Reply, NoRequest
  <2>3. request[r].owned => actor # None /\ request[r].token = cookie
    BY <2>1, <2>2 DEF PagesOwned, AnswersOwn, RequestAnswered
  <2>4. RequestAnswered(request[r])'
    BY <1>0, <1>1, <2>2, <2>3 DEF RequestAnswered
  <2>. QED
    BY <1>0, <2>1, <2>4, OtherRequests DEF AnswersOwn
<1>4. ASSUME NEW r \in Requests, FinishRequest(r)
      PROVE  AnswersOwn'
  <2>0. request[r].at = "answered" /\ request[r] # NoRequest
    BY <1>4 DEF FinishRequest, NoRequest
  <2>1. request[r].owned => RequestAnswered(request[r]) /\ actor # None
    BY <2>0 DEF AnswersOwn, PagesOwned
  <2>2. CASE request' = [request EXCEPT ![r] = NoRequest]
    <3>1. /\ request'[r] = NoRequest /\ \A q \in Requests \ {r} : request'[q] = request[q]
      BY <1>0, <2>2 DEF PagesOK
    <3>2. \A q \in Requests : RequestAnswered(request[q])'
      BY <1>0, <3>1, OtherRequests DEF RequestAnswered
    <3>3. tabSocket' = tabSocket /\ shown' \subseteq {actor}
      BY <1>4, <2>0, <2>1 DEF FinishRequest, Owns, RequestAnswered, AnswersOwn
    <3>. QED
      BY <3>2, <3>3 DEF AnswersOwn
  <2>3. CASE Owns(request[r]) /\ actor' = None
    BY <2>1, <2>3 DEF Owns
  <2>. QED
    BY <1>4, <2>2, <2>3 DEF FinishRequest
<1>5. CASE ConnectTab
  <2>1. UNCHANGED <<request, shown>> /\ tabSocket'.user = actor
    BY <1>1, <1>5 DEF ConnectTab
  <2>. QED
    BY <1>0, <2>1 DEF AnswersOwn, RequestAnswered
<1>6. CASE ReceiveEvent
  BY <1>0, <1>6 DEF ReceiveEvent, Owns, AnswersOwn, RequestAnswered
<1>7. CASE TabSocketClosed
  BY <1>0, <1>7 DEF TabSocketClosed, NoSocket, AnswersOwn, RequestAnswered
<1>8. CASE SendMessage \/ ReceiveAck
  BY <1>0, <1>8 DEF SendMessage, ReceiveAck, AnswersOwn, RequestAnswered
<1>. QED
  BY <1>2, <1>3, <1>4, <1>5, <1>6, <1>7, <1>8 DEF PageStep

(* A step that leaves the cookie, the actor and what is under way alone.    *)
LEMMA ActorKept ==
  ASSUME Answered, TokenKept(cookie), probe.at = "asked" => TokenKept(probe.token),
         UNCHANGED <<cookie, actor, resolved, probe, mutation>>
  PROVE  ActorAnswered' /\ ProbeAnswered'
<1>1. Speaks(cookie) = None => Speaks(cookie)' = None
  BY DEF Speaks, TokenKept
<1>2. cookie # 0 => holder'[cookie] = holder[cookie]
  BY DEF TokenKept
<1>3. probe.at = "asked" /\ Speaks(probe.token) = None => Speaks(probe.token)' = None
  BY DEF Speaks, TokenKept
<1>4. ActorAnswered'
  BY <1>1, <1>2 DEF Answered, ActorAnswered, LoggingIn, LoggingOut, LoginReceived
<1>5. ProbeAnswered'
  BY <1>1, <1>2, <1>3 DEF Answered, ProbeAnswered, LoggingIn, LoginReceived
<1>. QED
  BY <1>4, <1>5

(* A 401 for the actor's own request signs out an actor whose session has   *)
(* ended.                                                                   *)
RefusedRequest(r) == FinishRequest(r) /\ Owns(request[r]) /\ request[r].user = None

LEMMA SignedOut ==
  ASSUME SessionTypeOK, PagesOwned, Answered, NEW r \in Requests, RefusedRequest(r)
  PROVE  Answered' /\ Speaks(cookie) = None
<1>0. /\ BrowserOK /\ PagesOK /\ mutation \in Mutations
      /\ UNCHANGED <<session, holder, cookie>>
  BY SessionTypeParts DEF BrowserOK, RefusedRequest, FinishRequest, sessionRows
<1>1. request[r] # NoRequest /\ request[r].at = "answered"
  BY DEF RefusedRequest, FinishRequest, NoRequest
<1>2. actor # None /\ Speaks(cookie) = None
  BY <1>1 DEF RefusedRequest, Owns, PagesOwned, Answered, AnswersOwn, RequestAnswered
<1>3. /\ probe' = NoRequest /\ mutation' = Bystander(None, mutation) /\ actor' = None
      /\ request' = [q \in Requests |-> IF q = r THEN NoRequest ELSE Disowned(request[q])]
      /\ ClearProtectedState /\ Retire
  BY DEF RefusedRequest, FinishRequest, CancelProbe
<1>4. \A q \in Requests : request'[q] # NoRequest => ~request'[q].owned
  BY <1>0, <1>3, DisownedTypes DEF PagesOK
<1>5. ~tabSocket'.owned /\ shown' = {}
  BY <1>0, <1>3 DEF Retire, ClearProtectedState, PagesOK
<1>6. AnswersOwn'
  BY <1>4, <1>5 DEF AnswersOwn, RequestAnswered
<1>7. LoggingIn' /\ ~LoginReceived' => FALSE
  BY <1>0, <1>2, <1>3, BystanderGoesOn DEF Answered, ActorAnswered
<1>8. ActorAnswered' /\ ProbeAnswered'
  BY <1>0, <1>2, <1>3, <1>7 DEF ActorAnswered, ProbeAnswered, NoRequest, Speaks
<1>. QED
  BY <1>2, <1>6, <1>8 DEF Answered

(* The steps of the pages, and the ends of sessions on the server.          *)
LEMMA AnsweredByPages ==
  ASSUME SessionTypeOK, PagesOwned, Answered,
         TokenKept(cookie), probe.at = "asked" => TokenKept(probe.token),
         \/ PageStep \/ UNCHANGED sessionVars
         \/ \E t \in Tokens : ServeLateLogout(t) \/ Expire(t)
  PROVE  Answered'
<1>1. CASE \E r \in Requests : RefusedRequest(r)
  BY <1>1, SignedOut
<1>2. CASE PageStep /\ ~\E r \in Requests : RefusedRequest(r)
  <2>1. UNCHANGED <<session, holder, cookie, actor, resolved, probe, mutation>>
    BY <1>2
    DEF PageStep, BeginRequest, ServeRequest, FinishRequest, ConnectTab, ReceiveEvent,
        SendMessage, ReceiveAck, TabSocketClosed, RefusedRequest, sessionRows
  <2>. QED
    BY <1>2, <2>1, ActorKept, AnswersByPages DEF Answered
<1>3. CASE \/ UNCHANGED sessionVars
           \/ \E t \in Tokens : ServeLateLogout(t) \/ Expire(t)
  <2>1. UNCHANGED <<cookie, actor, resolved, probe, mutation, request, shown, tabSocket>>
    BY <1>3 DEF ServeLateLogout, Expire, sessionVars
  <2>. QED
    BY <2>1, ActorKept, AnswersKept DEF Answered
<1>. QED
  BY <1>1, <1>2, <1>3

-----------------------------------------------------------------------------
(* The invariant and what follows from it.                                  *)

LEMMA SessionInvInit == SessionInit => SessionInv
<1>. SUFFICES ASSUME SessionInit
              PROVE  SessionInv
  OBVIOUS
<1>0. SessionTypeOK
  BY SessionTypeInit
<1>1. /\ actor = None /\ ~resolved /\ probe = NoRequest /\ mutation = NoMutation
      /\ ~LoggingIn /\ ~LoggingOut /\ NothingOwned
  BY DEF SessionInit, LoggingIn, LoggingOut, NothingOwned, NoSocket
<1>2. TokensIssued
  BY <1>1, TabConstants
  DEF SessionInit, TokensIssued, CookieIssued, LoginReceived, NoRequest, Tokens
<1>3. MutationOwned /\ PagesOwned
  BY <1>1 DEF MutationOwned, PagesOwned, NothingOwned
<1>4. ActorAnswered /\ ProbeAnswered /\ AnswersOwn
  BY <1>1, NoProbeAnswers, NothingOwnedAnswers DEF ActorAnswered
<1>. QED
  BY <1>0, <1>2, <1>3, <1>4 DEF SessionInv, Answered

(* Only the end of a login or logout makes good for one that was not        *)
(* answered.                                                                *)
LEMMA LooseUntilTheEnd ==
  ASSUME [SessionNext]_sessionVars, ~loose'
  PROVE  ~loose \/ FinishLogin \/ FinishLogout
<1>1. CASE UNCHANGED loose
  BY <1>1
<1>2. CASE BeginLogout \/ MutationFails
  BY <1>2 DEF BeginLogout, MutationFails
<1>3. CASE \/ ProbeStep \/ PageStep \/ UNCHANGED sessionVars
           \/ \E u \in Accounts : BeginLogin(u)
           \/ \E t \in Tokens : ServeLogin(t) \/ ServeLateLogout(t) \/ Expire(t)
           \/ ServeLogout \/ ReceiveReply
  BY <1>1, <1>3
  DEF ProbeStep, PageStep, BeginProbe, ServeProbe, FinishProbe, ProbeFails, BeginLogin,
      ServeLogin, ServeLateLogout, Expire, ServeLogout, ReceiveReply, BeginRequest,
      ServeRequest, FinishRequest, ConnectTab, ReceiveEvent, SendMessage, ReceiveAck,
      TabSocketClosed, sessionVars
<1>. QED
  BY <1>2, <1>3 DEF SessionNext, SessionStep, ProbeStep, PageStep

LEMMA SessionInvKept == SessionInv /\ [SessionNext]_sessionVars => SessionInv'
<1>. SUFFICES ASSUME SessionInv, [SessionNext]_sessionVars
              PROVE  SessionInv'
  OBVIOUS
<1>0. SessionTypeOK /\ TokensIssued /\ MutationOwned /\ PagesOwned /\ (~loose => Answered)
  BY DEF SessionInv
<1>1. SessionTypeOK' /\ TokensIssued' /\ MutationOwned' /\ PagesOwned'
  BY <1>0, SessionTypeKept, TokensIssuedKept, MutationOwnedKept, PagesOwnedKept
<1>2. ASSUME ~loose'
      PROVE  Answered'
  <2>0. cookie \in Tokens \cup {0} /\ mutation \in Mutations
        /\ (probe.at = "asked" => probe.token \in Tokens \cup {0})
    BY <1>0, SessionTypeParts DEF BrowserOK, Flights, RequestInFlight, NoRequest
  <2>1. TokenKept(cookie) /\ (probe.at = "asked" => TokenKept(probe.token))
    BY <1>0, <2>0, TokensLast DEF TokensIssued, CookieIssued
  <2>2. CASE FinishLogin \/ FinishLogout \/ MutationFails
    BY <1>0, <1>2, <2>1, <2>2, AnsweredAtEnd
  <2>3. CASE ~(FinishLogin \/ FinishLogout \/ MutationFails)
    <3>1. Answered
      BY <1>0, <1>2, <2>3, LooseUntilTheEnd
    <3>2. CASE ProbeStep
      BY <1>0, <2>1, <3>1, <3>2, AnsweredByProbe
    <3>3. CASE \/ \E u \in Accounts : BeginLogin(u)
               \/ \E t \in Tokens : ServeLogin(t)
               \/ ReceiveReply /\ LoggingIn
      BY <1>0, <2>1, <3>1, <3>3, AnsweredByLogin
    <3>4. CASE BeginLogout \/ ServeLogout \/ (ReceiveReply /\ LoggingOut)
      BY <1>0, <1>2, <3>4, AnsweredByLogout
    <3>5. CASE \/ PageStep \/ UNCHANGED sessionVars
               \/ \E t \in Tokens : ServeLateLogout(t) \/ Expire(t)
      BY <1>0, <2>1, <3>1, <3>5, AnsweredByPages
    <3>6. ReceiveReply => LoggingIn \/ LoggingOut
      BY <2>0, UnderWay, MutationTypes DEF ReceiveReply, LoggingIn, LoggingOut
    <3>. QED
      BY <2>3, <3>2, <3>3, <3>4, <3>5, <3>6
      DEF SessionNext, SessionStep, ProbeStep, PageStep
  <2>. QED
    BY <2>2, <2>3
<1>. QED
  BY <1>1, <1>2 DEF SessionInv

(* The inductive invariant of the tab's session.                            *)
THEOREM SessionInvariant == SessionSpec => []SessionInv
  BY SessionInvInit, SessionInvKept, PTL DEF SessionSpec

(* Whoever the tab shows as signed in is the user its cookie was issued to, *)
(* unless a login or logout ended without its answer.                       *)
THEOREM ActorIsCookies == SessionSpec => []SignedInAsCookie
<1>1. SessionInv => SignedInAsCookie
  BY DEF SessionInv, Answered, ActorAnswered, SignedInAsCookie
<1>. QED
  BY <1>1, SessionInvariant, PTL

(* Answers and messages of former actors are never shown to the next.       *)
THEOREM OnlyOwnDataShown == SessionSpec => []NoForeignData
<1>1. SessionInv => NoForeignData
  BY DEF SessionInv, PagesOwned, Answered, AnswersOwn, NoForeignData
<1>. QED
  BY <1>1, SessionInvariant, PTL

(* An actor who does not log out is signed out only when the session of the *)
(* cookie has ended: neither an older probe nor an older request's 401 does *)
(* it.                                                                      *)
THEOREM ExpiryIsTrue == SessionSpec => NoFalseExpiry
<1>1. ASSUME SessionInv, [SessionNext]_sessionVars,
             actor # None, actor' = None, ~loose, ~BeginLogout
      PROVE  Speaks(cookie) = None
  <2>0. SessionTypeOK /\ PagesOwned /\ Answered /\ mutation \in Mutations
    BY <1>1, SessionTypeParts DEF SessionInv, BrowserOK
  <2>1. CASE FinishProbe
    BY <1>1, <2>0, <2>1 DEF FinishProbe, TransitionClientActor, Answered, ProbeAnswered
  <2>2. CASE \E r \in Requests : FinishRequest(r)
    <3>1. \E r \in Requests : RefusedRequest(r)
      BY <1>1, <2>2 DEF FinishRequest, RefusedRequest
    <3>. QED
      BY <2>0, <3>1, SignedOut
  <2>3. CASE FinishLogin
    <3>1. mutation.user # None
      BY <2>0, <2>3, UnderWay, MutationTypes, TabConstants DEF FinishLogin
    <3>. QED
      BY <1>1, <2>3, <3>1 DEF FinishLogin, SetPrincipal, TransitionClientActor
  <2>4. CASE UNCHANGED actor
    BY <1>1, <2>4
  <2>5. CASE \/ BeginProbe \/ ServeProbe \/ ProbeFails \/ UNCHANGED sessionVars
             \/ \E u \in Accounts : BeginLogin(u)
             \/ \E t \in Tokens : ServeLogin(t) \/ ServeLateLogout(t) \/ Expire(t)
             \/ ServeLogout \/ ReceiveReply \/ FinishLogout \/ MutationFails
             \/ \E r \in Requests : BeginRequest(r) \/ ServeRequest(r)
             \/ ConnectTab \/ ReceiveEvent \/ SendMessage \/ ReceiveAck \/ TabSocketClosed
    BY <2>4, <2>5
    DEF BeginProbe, ServeProbe, ProbeFails, BeginLogin, ServeLogin, ServeLateLogout, Expire,
        ServeLogout, ReceiveReply, FinishLogout, MutationFails, BeginRequest, ServeRequest,
        ConnectTab, ReceiveEvent, SendMessage, ReceiveAck, TabSocketClosed, sessionVars
  <2>. QED
    BY <1>1, <2>1, <2>2, <2>3, <2>5 DEF SessionNext, SessionStep
<1>2. SessionInv /\ [SessionNext]_sessionVars =>
        [actor # None /\ actor' = None /\ ~loose /\ ~BeginLogout
           => Speaks(cookie) = None]_sessionVars
  BY <1>1
<1>. QED
  BY <1>2, SessionInvariant, PTL DEF SessionSpec, NoFalseExpiry

-----------------------------------------------------------------------------
(* The inductive invariant of a chat page (ChatFeed).                       *)

(* A history that is shown, or about to be, was read when it was due or     *)
(* later; and a page waits for the one under way, if there is one.          *)
HistoryDue ==
  /\ history.phase \in {"read", "earlier"} => history.asked <= history.read
  /\ history.data # NoData => history.due <= history.data
  /\ "chat" \in listeners /\ InFlight => from <= history.asked
  /\ "chat" \in listeners /\ ~InFlight /\ ~history.failed => from <= history.data

Told(m) == \E i \in DOMAIN link.events : link.events[i] = m

(* While the page is subscribed, what was stored since it began to listen   *)
(* is yet to be broadcast, on its way, or shown.                            *)
NothingLost ==
  "chat" \in listeners /\ link.subscribed = TRUE =>
    \A m \in 1 .. stored : m <= since \/ m \in unsent \/ m \in live \/ Told(m)

(* What is on its way has been stored.                                      *)
EventsStored == \A i \in DOMAIN link.events : link.events[i] <= stored

FeedInv == FeedTypeOK /\ HistoryDue /\ EventsStored /\ NothingLost

(* The parts of the type invariant.                                         *)
Links ==
  [state : {"closed", "connecting", "open"}, queue : Seq({"subscribe", "unsubscribe"}),
   checking : BOOLEAN, subscribed : BOOLEAN, events : Seq(Messages \cup {0})]

Histories(n) ==
  [phase : {"idle", "asked", "read", "earlier"}, asked : 0 .. n, read : 0 .. n,
   data : NoData .. n, due : 0 .. n, failed : BOOLEAN]

ServerTyped == stored \in 0 .. MaxMessages /\ unsent \subseteq 1 .. stored
SocketTyped == link \in Links /\ opens \in 0 .. MaxOpens
PageTyped ==
  /\ listeners \subseteq {"layout", "chat"}
  /\ history \in Histories(stored)
  /\ live \subseteq 1 .. stored
  /\ from \in 0 .. stored /\ since \in 0 .. stored

LEMMA FeedTypeParts ==
  /\ FeedTypeOK <=> ServerTyped /\ SocketTyped /\ PageTyped
  /\ FeedTypeOK' <=> ServerTyped' /\ SocketTyped' /\ PageTyped'
  BY DEF FeedTypeOK, ServerTyped, SocketTyped, PageTyped, Links, Histories

LEMMA FreshLink == NoLink \in Links
  BY DEF NoLink, Links

(* A request for the history, and a history of fewer rows.                  *)
LEMMA Asking ==
  ASSUME FeedTypeOK
  PROVE  /\ NoHistory \in Histories(stored) /\ NoHistory.phase = "idle"
         /\ Ask \in Histories(stored)
         /\ Ask.phase = "asked" /\ Ask.asked = stored
         /\ Ask.data = history.data /\ Ask.due = history.due
<1>1. /\ stored \in Nat /\ history \in Histories(stored)
      /\ 0 \in 0 .. stored /\ NoData \in NoData .. stored /\ stored \in 0 .. stored
  BY FeedBounds DEF FeedTypeOK, NoData, Histories
<1>2. NoHistory \in Histories(stored) /\ NoHistory.phase = "idle"
  BY <1>1 DEF Histories, NoHistory
<1>3. /\ Ask \in Histories(stored)
      /\ Ask.phase = "asked" /\ Ask.asked = stored
      /\ Ask.data = history.data /\ Ask.due = history.due
  BY <1>1 DEF Histories, Ask
<1>. QED  BY <1>2, <1>3

LEMMA MoreRows ==
  ASSUME NEW n \in Nat
  PROVE  Histories(n) \subseteq Histories(n + 1)
  BY DEF Histories, NoData

(* What the steps of the history, the listeners and the socket leave.       *)
LEMMA CommandTyped ==
  ASSUME link \in Links, NEW kind \in {"subscribe", "unsubscribe"}
  PROVE  /\ Command(kind) \in Links
         /\ Command(kind).subscribed = link.subscribed /\ Command(kind).events = link.events
<1>1. CASE link.state = "open"
  <2>1. Append(link.queue, kind) \in Seq({"subscribe", "unsubscribe"})
    BY DEF Links
  <2>. QED  BY <1>1, <2>1 DEF Command, Links
<1>2. CASE link.state # "open"
  BY <1>2 DEF Command
<1>. QED  BY <1>1, <1>2

LEMMA ListenersTyped ==
  ASSUME link \in Links, listeners \subseteq {"layout", "chat"}, NEW a \in {"layout", "chat"},
         Retain(a) \/ Release(a)
  PROVE  /\ link' \in Links /\ listeners' \subseteq {"layout", "chat"}
         /\ link'.subscribed = link.subscribed /\ link'.events = link.events
         /\ Retain(a) => listeners' = listeners \cup {a}
         /\ Release(a) => listeners' = listeners \ {a}
  BY CommandTyped DEF Retain, Release

-----------------------------------------------------------------------------
LEMMA FeedTypeInit == FeedInit => FeedInv
  BY FreshLink, FeedBounds
  DEF FeedInit, FeedInv, FeedTypeOK, HistoryDue, EventsStored, NoLink, NothingLost, NoHistory, NoData, Links, InFlight

(* The steps of the history.                                                *)
LEMMA HistorySteps ==
  ASSUME FeedInv, ReadHistory \/ DeliverHistory \/ HistoryFails \/ RetryHistory \/ LoadEarlier
  PROVE  FeedInv'
<1>. USE DEF FeedInv
<1>1. ServerTyped /\ SocketTyped /\ PageTyped
  BY FeedTypeParts
<1>0. stored \in 0 .. stored /\ 0 \in 0 .. stored
  BY <1>1, FeedBounds DEF ServerTyped
<1>2. (ServerTyped /\ SocketTyped)' /\ EventsStored' /\ NothingLost'
  <2>1. UNCHANGED <<server, link, opens, listeners, live, since>>
    BY DEF ReadHistory, DeliverHistory, HistoryFails, RetryHistory, LoadEarlier, marks
  <2>. QED
    BY <1>1, <2>1 DEF server, ServerTyped, SocketTyped, EventsStored, NothingLost, Told
<1>3. PageTyped' /\ HistoryDue'
  <2>1. CASE ReadHistory
    <3>1. /\ history' = [history EXCEPT !.phase = "read", !.read = stored]
          /\ UNCHANGED <<stored, listeners, live, from, since>> /\ history.phase = "asked"
      BY <2>1 DEF ReadHistory, server, marks
    <3>2. /\ history'.phase = "read" /\ history'.asked = history.asked /\ history'.read = stored
          /\ history'.data = history.data /\ history'.due = history.due
          /\ history' \in Histories(stored) /\ history.asked \in 0 .. stored
      BY <1>0, <1>1, <3>1 DEF PageTyped, Histories
    <3>. QED  BY <1>1, <3>1, <3>2 DEF PageTyped, HistoryDue, InFlight
  <2>2. CASE DeliverHistory
    <3>1. /\ history' = [NoHistory EXCEPT !.data = history.read, !.due = history.asked]
          /\ UNCHANGED <<stored, listeners, live, from, since>>
          /\ history.phase \in {"read", "earlier"}
      BY <2>2 DEF DeliverHistory, server, marks
    <3>0. history.read \in NoData .. stored /\ history.asked \in 0 .. stored
      BY <1>1 DEF PageTyped, Histories, NoData
    <3>2. /\ history'.phase = "idle" /\ history'.data = history.read /\ history'.due = history.asked
          /\ history' \in Histories(stored)
      BY <1>0, <3>0, <3>1 DEF Histories, NoHistory
    <3>3. /\ history.asked <= history.read
          /\ "chat" \in listeners => from <= history.asked
          /\ from \in Int /\ history.asked \in Int /\ history.read \in Int
      BY <1>1, <3>1 DEF HistoryDue, InFlight, PageTyped, Histories
    <3>. QED  BY <1>1, <3>1, <3>2, <3>3 DEF PageTyped, HistoryDue, InFlight
  <2>3. CASE HistoryFails
    <3>1. /\ history' = [NoHistory EXCEPT !.data = history.data, !.due = history.due, !.failed = TRUE]
          /\ UNCHANGED <<stored, listeners, live, from, since>>
      BY <2>3 DEF HistoryFails, server, marks
    <3>2. /\ history'.phase = "idle" /\ history'.failed = TRUE
          /\ history'.data = history.data /\ history'.due = history.due
          /\ history' \in Histories(stored)
      BY <1>0, <1>1, <3>1 DEF PageTyped, Histories, NoHistory
    <3>. QED  BY <1>1, <3>1, <3>2 DEF PageTyped, HistoryDue, InFlight
  <2>4. CASE RetryHistory
    BY <1>0, <1>1, <2>4, Asking DEF RetryHistory, server, PageTyped, HistoryDue, InFlight, ServerTyped
  <2>5. CASE LoadEarlier
    <3>1. /\ history' = [history EXCEPT !.phase = "earlier", !.asked = history.due,
                                        !.read = history.data]
          /\ from' = history.due /\ history.data # NoData
          /\ UNCHANGED <<stored, listeners, live, since>>
      BY <2>5 DEF LoadEarlier, server
    <3>2. history.data \in 0 .. stored /\ history.due \in 0 .. stored /\ history.due <= history.data
      BY <1>1, <3>1 DEF PageTyped, Histories, NoData, HistoryDue
    <3>3. /\ history'.phase = "earlier" /\ history'.asked = history.due
          /\ history'.read = history.data /\ history'.data = history.data
          /\ history'.due = history.due /\ history' \in Histories(stored)
      BY <1>1, <3>1, <3>2 DEF PageTyped, Histories
    <3>. QED  BY <1>1, <3>1, <3>2, <3>3 DEF PageTyped, HistoryDue, InFlight
  <2>. QED  BY <2>1, <2>2, <2>3, <2>4, <2>5
<1>. QED  BY <1>2, <1>3, FeedTypeParts

(* The steps of the layout and of the chat page.                            *)
LEMMA ListenerSteps ==
  ASSUME FeedInv, OpenSpace \/ LeaveSpace \/ OpenChat \/ LeaveChat
  PROVE  FeedInv'
<1>. USE DEF FeedInv
<1>1. ServerTyped /\ SocketTyped /\ PageTyped
  BY FeedTypeParts
<1>2. UNCHANGED server /\ opens' = opens /\ ServerTyped'
  BY <1>1 DEF OpenSpace, LeaveSpace, OpenChat, LeaveChat, server, ServerTyped
<1>3. /\ SocketTyped' /\ listeners' \subseteq {"layout", "chat"}
      /\ link'.subscribed = link.subscribed /\ link'.events = link.events
      /\ OpenSpace => listeners' = {"layout"}
      /\ LeaveSpace => listeners' = {}
      /\ LeaveChat => listeners' = listeners \ {"chat"}
  BY <1>1, <1>2, ListenersTyped DEF OpenSpace, LeaveSpace, OpenChat, LeaveChat, SocketTyped, PageTyped
<1>0. EventsStored' /\ 0 \in 0 .. stored
  BY <1>1, <1>2, <1>3, FeedBounds DEF EventsStored, server, ServerTyped
<1>4. CASE OpenChat
  <2>1. /\ history' \in Histories(stored) /\ history'.phase # "idle"
        /\ history'.asked = from' /\ from' \in 0 .. stored
        /\ history'.phase \in {"read", "earlier"} => history'.asked <= history'.read
        /\ history'.data # NoData => history'.due <= history'.data
    <3>1. CASE InFlight
      BY <1>1, <1>4, <3>1 DEF OpenChat, FetchOnMount, InFlight, PageTyped, Histories, HistoryDue
    <3>2. CASE ~InFlight
      BY <1>1, <1>4, <3>2, Asking DEF OpenChat, FetchOnMount, PageTyped, ServerTyped, HistoryDue
    <3>. QED  BY <3>1, <3>2
  <2>2. live' = {} /\ since' = stored
    BY <1>4 DEF OpenChat
  <2>3. PageTyped'
    BY <1>1, <1>2, <1>3, <2>1, <2>2 DEF PageTyped, server, ServerTyped
  <2>4. HistoryDue'
    BY <2>1, <1>1 DEF HistoryDue, InFlight, ServerTyped
  <2>5. NothingLost'
    BY <1>1, <1>2, <2>2 DEF NothingLost, server, ServerTyped
  <2>. QED  BY <1>0, <1>2, <1>3, <2>3, <2>4, <2>5, FeedTypeParts
<1>5. CASE OpenSpace \/ LeaveSpace \/ LeaveChat
  <2>1. /\ "chat" \notin listeners' /\ history' = history
        /\ \/ live' = live /\ from' = from /\ since' = since
           \/ live' = {} /\ from' = 0 /\ since' = 0
    BY <1>1, <1>3, <1>5 DEF OpenSpace, LeaveSpace, LeaveChat, marks
  <2>2. PageTyped'
    BY <1>0, <1>1, <1>2, <1>3, <2>1 DEF PageTyped, server
  <2>3. HistoryDue' /\ NothingLost'
    BY <2>1 DEF HistoryDue, NothingLost, InFlight
  <2>. QED  BY <1>0, <1>2, <1>3, <2>2, <2>3, FeedTypeParts
<1>. QED  BY <1>4, <1>5

(* The socket opens and closes.                                             *)
LEMMA SocketSteps ==
  ASSUME FeedInv, Connect \/ SocketOpens \/ LinkCloses
  PROVE  FeedInv'
<1>. USE DEF FeedInv
<1>1. ServerTyped /\ SocketTyped /\ PageTyped
  BY FeedTypeParts
<1>2. /\ UNCHANGED <<server, listeners, live, since>> /\ ServerTyped'
      /\ Connect \/ LinkCloses => UNCHANGED <<opens, history, from>>
  BY <1>1 DEF Connect, SocketOpens, LinkCloses, server, marks, ServerTyped
<1>3. SocketTyped' /\ link'.subscribed = FALSE
  <2>1. opens' \in 0 .. MaxOpens
    BY <1>1, <1>2, FeedBounds DEF SocketTyped, SocketOpens
  <2>2. /\ << >> \in Seq({"subscribe", "unsubscribe"})
        /\ <<"subscribe">> \in Seq({"subscribe", "unsubscribe"})
    OBVIOUS
  <2>3. link' \in Links /\ link'.subscribed = FALSE
    BY <2>2, FreshLink DEF Connect, SocketOpens, LinkCloses, NoLink, Links
  <2>. QED  BY <2>1, <2>3 DEF SocketTyped
<1>4. NothingLost' /\ EventsStored'
  <2>1. link'.events = << >>
    <3>1. \/ link' = NoLink \/ link' = [NoLink EXCEPT !.state = "connecting"]
          \/ \E q : link' = [NoLink EXCEPT !.state = "open", !.queue = q]
      BY DEF Connect, SocketOpens, LinkCloses
    <3>2. NoLink.events = << >>
      BY DEF NoLink
    <3>3. [NoLink EXCEPT !.state = "connecting"].events = NoLink.events
      BY DEF NoLink
    <3>4. ASSUME NEW q PROVE [NoLink EXCEPT !.state = "open", !.queue = q].events = NoLink.events
      BY DEF NoLink
    <3>. QED  BY <3>1, <3>2, <3>3, <3>4
  <2>. QED  BY <1>3, <2>1 DEF NothingLost, EventsStored
<1>5. CASE Connect \/ LinkCloses
  BY <1>1, <1>2, <1>3, <1>4, <1>5, FeedTypeParts DEF PageTyped, HistoryDue, InFlight, server
<1>6. CASE SocketOpens
  <2>1. \/ history' = history /\ from' = from
        \/ history' = Ask /\ from' = stored
    BY <1>6 DEF SocketOpens, Refetch
  <2>2. PageTyped' /\ HistoryDue'
    <3>1. CASE history' = history /\ from' = from
      BY <1>1, <1>2, <3>1 DEF PageTyped, HistoryDue, InFlight, server
    <3>2. CASE history' = Ask /\ from' = stored
      BY <1>1, <1>2, <3>2, Asking DEF PageTyped, HistoryDue, InFlight, server, ServerTyped
    <3>. QED  BY <2>1, <3>1, <3>2
  <2>. QED  BY <1>2, <1>3, <1>4, <2>2, FeedTypeParts
<1>. QED  BY <1>5, <1>6

(* A notice that is received is shown, or ends the page.                    *)
LEMMA NoticeSteps ==
  ASSUME FeedInv, ReceiveNotice
  PROVE  FeedInv'
<1>. USE DEF FeedInv
<1>1. ServerTyped /\ SocketTyped /\ PageTyped
  BY FeedTypeParts
<1>2. UNCHANGED <<server, opens>> /\ ServerTyped' /\ stored \in Nat /\ 0 \in 0 .. stored
  BY <1>1, FeedBounds DEF ReceiveNotice, server, ServerTyped
<1>. DEFINE ev == link.events
<1>3. ev \in Seq(Messages \cup {0}) /\ ev # << >>
  BY <1>1 DEF ReceiveNotice, SocketTyped, Links
<1>4. /\ Tail(ev) \in Seq(Messages \cup {0}) /\ Len(Tail(ev)) = Len(ev) - 1 /\ Len(ev) \in Nat \ {0}
      /\ \A i \in 1 .. Len(Tail(ev)) : Tail(ev)[i] = ev[i + 1] /\ i + 1 \in DOMAIN ev
      /\ Head(ev) = ev[1] /\ 1 \in DOMAIN ev /\ Head(ev) \in Messages \cup {0}
  BY <1>3
<1>5. link' \in Links /\ link'.events = Tail(ev) /\ link'.subscribed = link.subscribed
  <2>1. link' = [link EXCEPT !.events = Tail(ev)]
    BY DEF ReceiveNotice
  <2>. QED  BY <1>1, <1>4, <2>1 DEF SocketTyped, Links
<1>6. SocketTyped' /\ EventsStored'
  <2>. SUFFICES ASSUME NEW i \in DOMAIN (link'.events) PROVE link'.events[i] <= stored'
    BY <1>1, <1>2, <1>5 DEF SocketTyped, EventsStored
  <2>1. i \in 1 .. Len(Tail(ev)) /\ link'.events[i] = ev[i + 1] /\ i + 1 \in DOMAIN ev
    BY <1>4, <1>5
  <2>. QED  BY <1>2, <2>1 DEF EventsStored, server
<1>7. CASE Head(ev) = 0
  <2>1. /\ listeners' = {} /\ history' = NoHistory
        /\ live' = {} /\ from' = 0 /\ since' = 0
    BY <1>7 DEF ReceiveNotice
  <2>2. PageTyped'
    BY <1>1, <1>2, <2>1, Asking DEF PageTyped, server
  <2>3. HistoryDue' /\ NothingLost'
    BY <2>1 DEF HistoryDue, NothingLost, NoHistory
  <2>. QED  BY <1>2, <1>6, <2>2, <2>3, FeedTypeParts
<1>8. CASE Head(ev) # 0
  <2>1. /\ live' = IF "chat" \in listeners THEN live \cup {Head(ev)} ELSE live
        /\ UNCHANGED <<stored, unsent, listeners, history, from, since>>
    BY <1>2, <1>8 DEF ReceiveNotice, marks, server
  <2>2. Head(ev) \in 1 .. stored
    <3>1. Head(ev) <= stored /\ Head(ev) \in Messages
      BY <1>4, <1>8 DEF EventsStored
    <3>. QED  BY <1>2, <3>1, FeedBounds DEF Messages
  <2>3. PageTyped' /\ HistoryDue'
    BY <1>1, <2>1, <2>2 DEF PageTyped, HistoryDue, InFlight
  <2>4. NothingLost'
    <3>. SUFFICES ASSUME "chat" \in listeners, link.subscribed = TRUE, NEW m \in 1 .. stored,
                         ~(m <= since), m \notin unsent, m \notin live'
                  PROVE  Told(m)'
      BY <1>5, <2>1 DEF NothingLost
    <3>1. live \subseteq live' /\ Head(ev) \in live'
      BY <2>1
    <3>2. PICK i \in DOMAIN ev : ev[i] = m
      BY <3>1 DEF NothingLost, Told
    <3>3. i # 1 /\ i \in 1 .. Len(ev)
      BY <1>3, <1>4, <3>1, <3>2
    <3>4. i - 1 \in 1 .. Len(Tail(ev)) /\ Tail(ev)[i - 1] = m
      BY <1>4, <3>2, <3>3
    <3>. QED  BY <1>4, <1>5, <3>4 DEF Told
  <2>. QED  BY <1>2, <1>6, <2>3, <2>4, FeedTypeParts
<1>. QED  BY <1>7, <1>8

(* The commands of the client are taken, and its access is revoked.         *)
LEMMA GatewaySteps ==
  ASSUME FeedInv, TakeCommand \/ TakeSubscription \/ SubscriptionFails \/ Revoke
  PROVE  FeedInv'
<1>. USE DEF FeedInv
<1>1. ServerTyped /\ SocketTyped /\ PageTyped
  BY FeedTypeParts
<1>2. /\ UNCHANGED <<stored, unsent, opens, listeners, history, live, from>>
      /\ stored \in Nat /\ stored \in 0 .. stored
      /\ since' \in {since, stored}
      /\ ~TakeSubscription => since' = since
  BY <1>1, FeedBounds DEF TakeCommand, TakeSubscription, SubscriptionFails, Revoke, server, marks, ServerTyped
<1>3. ServerTyped' /\ PageTyped' /\ HistoryDue'
  <2>1. since' \in 0 .. stored
    BY <1>1, <1>2 DEF PageTyped
  <2>. QED  BY <1>1, <1>2, <2>1 DEF ServerTyped, PageTyped, HistoryDue, InFlight
<1>4. /\ link' \in Links
      /\ ~Revoke => link'.events = link.events
      /\ ~TakeSubscription => link'.subscribed = link.subscribed \/ link'.subscribed = FALSE
  <2>1. CASE TakeCommand
    <3>1. link.queue \in Seq({"subscribe", "unsubscribe"}) /\ link.queue # << >>
      BY <1>1, <2>1 DEF TakeCommand, SocketTyped, Links
    <3>2. Tail(link.queue) \in Seq({"subscribe", "unsubscribe"})
      BY <3>1
    <3>. QED  BY <1>1, <2>1, <3>2 DEF TakeCommand, SocketTyped, Links
  <2>2. CASE TakeSubscription \/ SubscriptionFails
    BY <1>1, <2>2 DEF TakeSubscription, SubscriptionFails, SocketTyped, Links
  <2>3. CASE Revoke
    <3>1. Append(link.events, 0) \in Seq(Messages \cup {0})
      BY <1>1 DEF SocketTyped, Links
    <3>. QED  BY <1>1, <2>3, <3>1 DEF Revoke, SocketTyped, Links
  <2>. QED  BY <2>1, <2>2, <2>3
<1>5. SocketTyped'
  BY <1>1, <1>2, <1>4 DEF SocketTyped
<1>6. EventsStored'
  <2>1. CASE Revoke
    <3>1. /\ link.events \in Seq(Messages \cup {0})
          /\ link' = [link EXCEPT !.subscribed = FALSE, !.events = Append(link.events, 0)]
      BY <1>1, <2>1 DEF Revoke, SocketTyped, Links
    <3>2. link'.events = Append(link.events, 0)
      BY <1>1, <3>1 DEF SocketTyped, Links
    <3>3. \A i \in DOMAIN (link'.events) :
            \/ i \in DOMAIN link.events /\ link'.events[i] = link.events[i]
            \/ link'.events[i] = 0
      BY <3>1, <3>2
    <3>. QED  BY <1>2, <3>3 DEF EventsStored
  <2>2. CASE ~Revoke
    BY <1>2, <1>4, <2>2 DEF EventsStored
  <2>. QED  BY <2>1, <2>2
<1>7. NothingLost'
  <2>1. CASE TakeSubscription
    <3>. SUFFICES ASSUME "chat" \in listeners, NEW m \in 1 .. stored
                  PROVE  m <= since' \/ m \in unsent \/ m \in live \/ Told(m)'
      BY <1>2 DEF NothingLost
    <3>1. CASE link.subscribed = TRUE
      <4>1. since' = since
        BY <2>1, <3>1 DEF TakeSubscription
      <4>. QED  BY <1>4, <2>1, <3>1, <4>1 DEF NothingLost, Told, TakeSubscription, Revoke
    <3>2. CASE link.subscribed = FALSE
      <4>1. since' = stored
        BY <2>1, <3>2 DEF TakeSubscription
      <4>. QED  BY <1>2, <4>1
    <3>. QED  BY <1>1, <3>1, <3>2 DEF SocketTyped, Links
  <2>2. CASE Revoke
    BY <1>1, <2>2 DEF Revoke, NothingLost, SocketTyped, Links
  <2>3. CASE ~TakeSubscription /\ ~Revoke
    <3>1. link'.events = link.events /\ (link'.subscribed = TRUE => link.subscribed = TRUE)
      BY <1>4, <2>3
    <3>2. UNCHANGED <<stored, unsent, listeners, live, since>>
      BY <1>2, <2>3
    <3>3. \A m : Told(m)' <=> Told(m)
      BY <3>1 DEF Told
    <3>. QED  BY <3>1, <3>2, <3>3 DEF NothingLost
  <2>. QED  BY <2>1, <2>2, <2>3
<1>. QED  BY <1>3, <1>5, <1>6, <1>7, FeedTypeParts

(* A message is stored, and told to the page if it is subscribed.           *)
LEMMA MessageSteps ==
  ASSUME FeedInv, StoreMessage \/ \E m \in unsent : Broadcast(m)
  PROVE  FeedInv'
<1>. USE DEF FeedInv
<1>1. ServerTyped /\ SocketTyped /\ PageTyped /\ stored \in Nat
  BY FeedTypeParts, FeedBounds DEF ServerTyped
<1>2. CASE StoreMessage
  <2>1. /\ stored' = stored + 1 /\ unsent' = unsent \cup {stored + 1} /\ stored < MaxMessages
        /\ UNCHANGED <<link, opens, listeners, history, live, from, since>>
    BY <1>2 DEF StoreMessage, marks
  <2>2. ServerTyped' /\ SocketTyped'
    BY <1>1, <2>1, FeedBounds DEF ServerTyped, SocketTyped
  <2>3. PageTyped' /\ HistoryDue'
    BY <1>1, <2>1, MoreRows DEF PageTyped, HistoryDue, InFlight
  <2>4. EventsStored'
    <3>1. \A i \in DOMAIN link.events : link.events[i] \in Int
      BY <1>1, FeedBounds DEF SocketTyped, Links, Messages
    <3>. QED  BY <1>1, <2>1, <3>1 DEF EventsStored
  <2>5. NothingLost'
    BY <1>1, <2>1 DEF NothingLost, Told
  <2>. QED  BY <2>2, <2>3, <2>4, <2>5, FeedTypeParts
<1>3. ASSUME NEW m \in unsent, Broadcast(m) PROVE FeedInv'
  <2>1. /\ unsent' = unsent \ {m}
        /\ link' = IF link.subscribed THEN [link EXCEPT !.events = Append(link.events, m)] ELSE link
        /\ UNCHANGED <<stored, opens, listeners, history, live, from, since>>
    BY <1>3 DEF Broadcast, marks
  <2>2. m \in 1 .. stored /\ m \in Messages
    BY <1>1, FeedBounds DEF ServerTyped, Messages
  <2>3. ServerTyped' /\ PageTyped' /\ HistoryDue'
    BY <1>1, <2>1 DEF ServerTyped, PageTyped, HistoryDue, InFlight
  <2>4. CASE link.subscribed = TRUE
    <3>1. link.events \in Seq(Messages \cup {0}) /\ Append(link.events, m) \in Seq(Messages \cup {0})
      BY <1>1, <2>2 DEF SocketTyped, Links
    <3>2. link' \in Links /\ link'.events = Append(link.events, m)
      BY <1>1, <2>1, <2>4, <3>1 DEF SocketTyped, Links
    <3>3. /\ \A i \in DOMAIN link.events : i \in DOMAIN (link'.events) /\ link'.events[i] = link.events[i]
          /\ \A i \in DOMAIN (link'.events) : i \in DOMAIN link.events \/ link'.events[i] = m
          /\ \E i \in DOMAIN (link'.events) : link'.events[i] = m
      BY <3>1, <3>2
    <3>4. EventsStored'
      BY <1>1, <2>1, <2>2, <3>3 DEF EventsStored
    <3>5. NothingLost'
      BY <2>1, <2>4, <3>3 DEF NothingLost, Told
    <3>6. SocketTyped'
      BY <1>1, <2>1, <3>2 DEF SocketTyped
    <3>. QED  BY <2>3, <3>4, <3>5, <3>6, FeedTypeParts
  <2>5. CASE link.subscribed = FALSE
    <3>1. link' = link
      BY <2>1, <2>5
    <3>2. SocketTyped' /\ EventsStored' /\ NothingLost'
      BY <1>1, <2>1, <2>5, <3>1 DEF SocketTyped, EventsStored, NothingLost
    <3>. QED  BY <2>3, <3>2, FeedTypeParts
  <2>. QED  BY <1>1, <2>4, <2>5 DEF SocketTyped, Links
<1>. QED  BY <1>2, <1>3

LEMMA FeedStutters == FeedInv /\ UNCHANGED feedVars => FeedInv'
  BY DEF FeedInv, FeedTypeOK, HistoryDue, EventsStored, NothingLost, Told, InFlight, feedVars,
         server, marks

(* The page of the chat: its types, what its history owes and what is on    *)
(* its way to it.                                                           *)
THEOREM FeedInvariant == FeedSpec => []FeedInv
<1>1. FeedInv /\ [FeedNext]_feedVars => FeedInv'
  BY HistorySteps, ListenerSteps, SocketSteps, NoticeSteps, GatewaySteps, MessageSteps,
     FeedStutters DEF FeedNext
<1>. QED  BY <1>1, FeedTypeInit, PTL DEF FeedSpec

(* What a settled chat page lacks was stored after the history it shows was *)
(* due and before it began to listen, whatever was lost, reordered, retried or      *)
(* revoked between.                                                         *)
THEOREM NothingElseMissed == FeedSpec => []MissedOnlyBeforeListening
<1>1. FeedInv => MissedOnlyBeforeListening
  <2>. SUFFICES ASSUME FeedInv, Settled, NEW m \in (1 .. stored) \ MergeChatMessages
                PROVE  from < m /\ m <= since
    BY DEF MissedOnlyBeforeListening
  <2>1. /\ "chat" \in listeners /\ link.subscribed = TRUE /\ link.events = << >>
        /\ ~InFlight /\ ~history.failed /\ unsent = {}
    BY DEF Settled, FeedInv, FeedTypeOK
  <2>2. /\ stored \in Nat /\ from \in Nat /\ from <= history.data /\ history.data \in NoData .. stored
        /\ m \in 1 .. stored /\ m \notin 1 .. history.data /\ m \notin live
    BY <2>1, FeedBounds DEF FeedInv, FeedTypeOK, HistoryDue, MergeChatMessages
  <2>3. from < m
    BY <2>2 DEF NoData
  <2>4. ~Told(m)
    BY <2>1 DEF Told
  <2>. QED  BY <2>1, <2>2, <2>3, <2>4 DEF FeedInv, NothingLost
<1>. QED  BY <1>1, FeedInvariant, PTL
=============================================================================
