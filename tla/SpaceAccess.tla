---------------------------- MODULE SpaceAccess ----------------------------
(***************************************************************************)
(* One research space as the database and the realtime hub see it: who is  *)
(* a member (modules/members, modules/spaces, modules/connections), which  *)
(* sockets are subscribed to it (server/realtime/hub.ts), the subscribe    *)
(* and send commands of the gateway with the awaits that split them        *)
(* (server/realtime/gateway.ts), and the insertion of a chat message       *)
(* (modules/chat).  The database is changed by one request and the hub is  *)
(* told of it by the continuation of that request, so between the two      *)
(* steps the hub acts on a membership that no longer exists.               *)
(*                                                                         *)
(* Abstracted: message bodies, roles other than owner and member, the rate *)
(* limits and the validation of a command (a refused command changes       *)
(* nothing: it is a command that was not sent).  The queue of a socket     *)
(* runs one command at a time, so what waits in it is the choice of the    *)
(* next command.  Who may act on a membership cannot change between the    *)
(* checks of a request and its write (the owner of a space never changes,  *)
(* a member leaves by deleting its own row), so those reads are part of    *)
(* the write.                                                              *)
(***************************************************************************)
EXTENDS Naturals, Sequences, FiniteSets

CONSTANTS Owner,        \* the user who owns the space
          Invitees,     \* the other users
          Sockets,      \* places for a socket: one at a time uses a place
          UserOf,       \* the user whose session opens the socket
          MaxRemovals,  \* bound: removals of one user
          MaxSent   \* bound: messages of the space

Users == {Owner} \cup Invitees

ASSUME OwnerApart == Owner \notin Invitees
ASSUME SocketUsers == UserOf \in [Sockets -> Users]
ASSUME Bounds == MaxRemovals \in Nat /\ MaxSent \in Nat

VARIABLES
  spaceExists,  \* the row of research_spaces
  members,      \* the rows of space_members, by user
  connection,   \* the connection of a user and the owner: none, pending or accepted
  messages,     \* the senders of the rows of chat_messages
  granting,     \* addMember requests whose checks have passed
  owed,         \* memberRemoved events whose delete has committed
  spaceOwed,    \* the spaceDeleted event is still to be raised
  unannounced,  \* users whose removal no event will announce
  memberRevision, spaceRevision,  \* hub: memberAccessRevisions, spaceAccessRevisions
  socket,       \* readyState, and "gone" when the hub has no entry for it
  subscribed,   \* the sockets whose subscriptions hold the space
  command,      \* the command a socket's queue is running
  told          \* what the last event about access told the client

database == <<spaceExists, members, connection, messages>>
requests == <<granting, owed, spaceOwed, unannounced>>
revisions == <<memberRevision, spaceRevision>>
hub == <<socket, subscribed, told>>
accessVars == <<database, requests, revisions, hub, command>>

NotTold == [kind |-> "nothing", users |-> {}]
Revoked == [kind |-> "revoked", users |-> {}]
Presence(users) == [kind |-> "presence", users |-> users]

Idle == [at |-> "idle"]
Stages == {"admission", "authorisation", "insertion", "reply"}
Subscribing(stage, m, s) == [at |-> stage, member |-> m, space |-> s]

Commands ==
  {Idle} \cup [at : Stages]
         \cup [at : {"check", "admitted"}, member : 0 .. MaxRemovals, space : 0 .. 1]

AccessTypeOK ==
  /\ spaceExists \in BOOLEAN
  /\ members \subseteq Users
  /\ connection \in [Invitees -> {"none", "pending", "accepted"}]
  /\ messages \in Seq(Users) /\ Len(messages) <= MaxSent
  /\ granting \subseteq Invitees
  /\ owed \in [Users -> 0 .. MaxRemovals]
  /\ spaceOwed \in BOOLEAN
  /\ unannounced \subseteq Users
  /\ memberRevision \in [Users -> 0 .. MaxRemovals]
  /\ spaceRevision \in 0 .. 1
  /\ socket \in [Sockets -> {"gone", "open", "closing"}]
  /\ subscribed \subseteq Sockets
  /\ command \in [Sockets -> Commands]
  /\ told \in [Sockets -> [kind : {"nothing", "revoked", "presence"}, users : SUBSET Users]]

-----------------------------------------------------------------------------
(* The hub.                                                                *)

\* getPresentUserIds, over the sockets that are subscribed.
Present(subs) == {UserOf[k] : k \in subs}

\* send skips a socket that is not open.
Send(notices, ks, notice) ==
  [k \in Sockets |-> IF k \in ks /\ socket[k] = "open" THEN notice ELSE notices[k]]

\* broadcastPresence
BroadcastPresence(notices, subs) == Send(notices, subs, Presence(Present(subs)))

\* Mutant of Leave: nobody is told.
LeaveSilently(k, subs, notices) == notices

\* unsubscribe, and the part of unregister it shares: the others are told
\* only when the user has no other subscribed socket.
Leave(k, subs, notices) ==
  LET rest == subs \ {k} IN
  IF k \in subs /\ UserOf[k] \notin Present(rest)
    THEN BroadcastPresence(notices, rest)
    ELSE notices

\* revokeMember
RevokeMember(u) ==
  LET dropped == {k \in subscribed : UserOf[k] = u}
      noticed == Send(told, dropped, Revoked)
  IN /\ memberRevision' = [memberRevision EXCEPT ![u] = @ + 1]
     /\ subscribed' = subscribed \ dropped
     /\ told' = IF dropped = {} THEN told
                ELSE BroadcastPresence(noticed, subscribed \ dropped)

\* revokeSpace
RevokeSpace ==
  /\ spaceRevision' = spaceRevision + 1
  /\ subscribed' = {}
  /\ told' = Send(told, subscribed, Revoked)

\* captureAccessRevision
Captured(k, stage) == Subscribing(stage, memberRevision[UserOf[k]], spaceRevision)

-----------------------------------------------------------------------------
AccessInit ==
  /\ spaceExists = TRUE
  /\ members = {Owner}
  /\ connection = [u \in Invitees |-> "none"]
  /\ messages = <<>>
  /\ granting = {}
  /\ owed = [u \in Users |-> 0]
  /\ spaceOwed = FALSE
  /\ unannounced = {}
  /\ memberRevision = [u \in Users |-> 0]
  /\ spaceRevision = 0
  /\ socket = [k \in Sockets |-> "gone"]
  /\ subscribed = {}
  /\ command = [k \in Sockets |-> Idle]
  /\ told = [k \in Sockets |-> NotTold]

-----------------------------------------------------------------------------
(* Connections, membership and the space: REST requests.                   *)

\* requestConnection, by either side; the pair has at most one row.
RequestConnection(u) ==
  /\ connection[u] = "none"
  /\ connection' = [connection EXCEPT ![u] = "pending"]
  /\ UNCHANGED <<spaceExists, members, messages, requests, revisions, hub, command>>

\* actOnConnection by the recipient.  What was read first is in the where
\* clause of the update again, so the update alone decides.
AcceptConnection(u) ==
  /\ connection[u] = "pending"
  /\ connection' = [connection EXCEPT ![u] = "accepted"]
  /\ UNCHANGED <<spaceExists, members, messages, requests, revisions, hub, command>>

\* A rejection by the recipient or a cancellation by the requester.
DeletePending(u) ==
  /\ connection[u] = "pending"
  /\ connection' = [connection EXCEPT ![u] = "none"]
  /\ UNCHANGED <<spaceExists, members, messages, requests, revisions, hub, command>>

\* removeConnection, by either side; the memberships that exist stay.
RemoveConnection(u) ==
  /\ connection[u] = "accepted"
  /\ connection' = [connection EXCEPT ![u] = "none"]
  /\ UNCHANGED <<spaceExists, members, messages, requests, revisions, hub, command>>

\* addMember by the owner: every check up to areAccepted.
CheckGrant(u) ==
  /\ spaceExists
  /\ connection[u] = "accepted"
  /\ u \notin granting
  /\ granting' = granting \cup {u}
  /\ UNCHANGED <<database, owed, spaceOwed, unannounced, revisions, hub, command>>

\* repository.add: nothing is written on a conflict, nor when the space the
\* row refers to is gone.
AddMember(u) ==
  /\ u \in granting
  /\ granting' = granting \ {u}
  /\ members' = IF spaceExists THEN members \cup {u} ELSE members
  /\ UNCHANGED <<spaceExists, connection, messages, owed, spaceOwed, unannounced,
                 revisions, hub, command>>

\* A message of u is being inserted: its transaction holds the row FOR SHARE.
RowShared(u) == \E k \in Sockets : command[k].at = "insertion" /\ UserOf[k] = u

\* removeMember: the delete commits.
RemoveMember(u) ==
  /\ u \in members \ {Owner}
  /\ ~RowShared(u)
  /\ memberRevision[u] + owed[u] < MaxRemovals
  /\ u \notin unannounced
  /\ members' = members \ {u}
  /\ owed' = [owed EXCEPT ![u] = @ + 1]
  /\ UNCHANGED <<spaceExists, connection, messages, granting, spaceOwed, unannounced,
                 revisions, hub, command>>

\* removeMember goes on when the reply to the delete arrives.
RaiseMemberRemoved(u) ==
  /\ owed[u] > 0
  /\ owed' = [owed EXCEPT ![u] = @ - 1]
  /\ RevokeMember(u)
  /\ UNCHANGED <<database, granting, spaceOwed, unannounced, spaceRevision, socket, command>>

\* The reply is lost: removeMember throws and raises nothing.
LoseMemberRemoved(u) ==
  /\ owed[u] > 0
  /\ owed' = [owed EXCEPT ![u] = @ - 1]
  /\ unannounced' = unannounced \cup {u}
  /\ UNCHANGED <<database, granting, spaceOwed, revisions, hub, command>>

\* deleteSpace: the rows that refer to the space go with it.
DeleteSpace ==
  /\ spaceExists
  /\ \A u \in Users : ~RowShared(u)
  /\ spaceExists' = FALSE
  /\ members' = {}
  /\ messages' = <<>>
  /\ spaceOwed' = TRUE
  /\ UNCHANGED <<connection, granting, owed, unannounced, revisions, hub, command>>

RaiseSpaceDeleted ==
  /\ spaceOwed
  /\ spaceOwed' = FALSE
  /\ RevokeSpace
  /\ UNCHANGED <<database, granting, owed, unannounced, memberRevision, socket, command>>

LoseSpaceDeleted ==
  /\ spaceOwed
  /\ spaceOwed' = FALSE
  /\ unannounced' = Users
  /\ UNCHANGED <<database, granting, owed, revisions, hub, command>>

-----------------------------------------------------------------------------
(* Sockets.                                                                *)

\* initializeSocket; the place is free once the last command on it has ended.
OpenSocket(k) ==
  /\ socket[k] = "gone"
  /\ command[k] = Idle
  /\ socket' = [socket EXCEPT ![k] = "open"]
  /\ UNCHANGED <<database, requests, revisions, subscribed, told, command>>

\* close or terminate, by the heartbeat, by the end of the session, by the
\* peer, or by a send that finds the buffer full: the hub keeps the entry
\* until the socket emits "close".
StartClosing(k) ==
  /\ socket[k] = "open"
  /\ socket' = [socket EXCEPT ![k] = "closing"]
  /\ told' = [told EXCEPT ![k] = NotTold]
  /\ UNCHANGED <<database, requests, revisions, subscribed, command>>

\* The "close" event: unregister.
SocketClosed(k) ==
  /\ socket[k] = "closing"
  /\ socket' = [socket EXCEPT ![k] = "gone"]
  /\ subscribed' = subscribed \ {k}
  /\ told' = Leave(k, subscribed, told)
  /\ UNCHANGED <<database, requests, revisions, command>>

-----------------------------------------------------------------------------
(* Commands.  A command goes on after its socket has gone.                 *)

Registered(k) == socket[k] # "gone"

\* dispatch of space.subscribe up to its await.
BeginSubscribe(k) ==
  /\ Registered(k)
  /\ command[k] = Idle
  /\ command' = [command EXCEPT ![k] = Captured(k, "check")]
  /\ UNCHANGED <<database, requests, revisions, hub>>

\* getSpace reads the membership; without one the command ends in an error.
ReadForSubscribe(k) ==
  /\ command[k].at = "check"
  /\ command' = [command EXCEPT ![k] =
                   IF UserOf[k] \in members THEN [@ EXCEPT !.at = "admitted"] ELSE Idle]
  /\ UNCHANGED <<database, requests, revisions, hub>>

\* Mutant of RevisionCurrent: only the revision of the space is compared.
RevisionOfSpaceCurrent(k) == command[k].space = spaceRevision

\* subscribeIfCurrent: the revisions are those captured before the read.
RevisionCurrent(k) ==
  /\ command[k].member = memberRevision[UserOf[k]]
  /\ command[k].space = spaceRevision

FinishSubscribe(k) ==
  /\ command[k].at = "admitted"
  /\ command' = [command EXCEPT ![k] = Idle]
  /\ \/ /\ Registered(k) /\ RevisionCurrent(k)
        /\ LET now == subscribed \cup {k}
               snapshot == Send(told, {k}, Presence(Present(now)))
           IN /\ subscribed' = now
              /\ told' = IF UserOf[k] \in Present(subscribed)
                           THEN snapshot
                           ELSE BroadcastPresence(snapshot, now)
     \/ /\ Registered(k) /\ ~RevisionCurrent(k)
        /\ told' = Send(told, {k}, Revoked)
        /\ UNCHANGED subscribed
     \/ /\ ~Registered(k)
        /\ UNCHANGED <<subscribed, told>>
  /\ UNCHANGED <<database, requests, revisions, socket>>

\* space.unsubscribe has no await.
Unsubscribe(k) ==
  /\ Registered(k)
  /\ command[k] = Idle
  /\ k \in subscribed
  /\ subscribed' = subscribed \ {k}
  /\ told' = Leave(k, subscribed, [told EXCEPT ![k] = NotTold])
  /\ UNCHANGED <<database, requests, revisions, socket, command>>

\* chat.message.send: refused unless the socket is subscribed.
BeginSend(k) ==
  /\ k \in subscribed
  /\ command[k] = Idle
  /\ Len(messages) < MaxSent
  /\ command' = [command EXCEPT ![k] = [at |-> "authorisation"]]
  /\ UNCHANGED <<database, requests, revisions, hub>>

\* getSpace, and the same read in sendMessage.
ReadForSend(k) ==
  /\ command[k].at = "authorisation"
  /\ command' = [command EXCEPT ![k] =
                   IF UserOf[k] \in members THEN [at |-> "admission"] ELSE Idle]
  /\ UNCHANGED <<database, requests, revisions, hub>>

\* The transaction of insert: the membership is read FOR SHARE.
LockMembership(k) ==
  /\ command[k].at = "admission"
  /\ command' = [command EXCEPT ![k] =
                   IF UserOf[k] \in members THEN [at |-> "insertion"] ELSE Idle]
  /\ UNCHANGED <<database, requests, revisions, hub>>

CommitMessage(k) ==
  /\ command[k].at = "insertion"
  /\ Len(messages) < MaxSent
  /\ messages' = Append(messages, UserOf[k])
  /\ command' = [command EXCEPT ![k] = [at |-> "reply"]]
  /\ UNCHANGED <<spaceExists, members, connection, requests, revisions, hub>>

\* broadcastMessage and the ack.
BroadcastMessage(k) ==
  /\ command[k].at = "reply"
  /\ command' = [command EXCEPT ![k] = Idle]
  /\ UNCHANGED <<database, requests, revisions, hub>>

\* A statement fails: the command ends in an error, a transaction rolls back.
CommandFails(k) ==
  /\ command[k] # Idle
  /\ command[k].at # "admitted"
  /\ command' = [command EXCEPT ![k] = Idle]
  /\ UNCHANGED <<database, requests, revisions, hub>>

-----------------------------------------------------------------------------
AccessNext ==
  \/ \E u \in Invitees :
       \/ RequestConnection(u) \/ AcceptConnection(u)
       \/ DeletePending(u) \/ RemoveConnection(u)
       \/ CheckGrant(u) \/ AddMember(u)
       \/ RemoveMember(u) \/ RaiseMemberRemoved(u) \/ LoseMemberRemoved(u)
  \/ DeleteSpace \/ RaiseSpaceDeleted \/ LoseSpaceDeleted
  \/ \E k \in Sockets :
       \/ OpenSocket(k) \/ StartClosing(k) \/ SocketClosed(k)
       \/ BeginSubscribe(k) \/ ReadForSubscribe(k) \/ FinishSubscribe(k)
       \/ Unsubscribe(k)
       \/ BeginSend(k) \/ ReadForSend(k) \/ LockMembership(k)
       \/ CommitMessage(k) \/ BroadcastMessage(k) \/ CommandFails(k)

AccessSpec == AccessInit /\ [][AccessNext]_accessVars

-----------------------------------------------------------------------------
(* Properties.                                                             *)

\* A socket that is subscribed belongs to a member, unless the event that will
\* drop it is still to be raised or was lost with the reply to the delete: no
\* subscription slips in between the removal of a member and its event.
NoStaleAccess ==
  \A k \in subscribed :
    \/ UserOf[k] \in members
    \/ owed[UserOf[k]] > 0
    \/ spaceOwed
    \/ UserOf[k] \in unannounced

\* What an open socket was last told is what the hub holds: the users now
\* present when it is subscribed, the loss of its access or nothing when not.
ToldTheTruth ==
  \A k \in Sockets : socket[k] = "open" =>
    IF k \in subscribed
      THEN told[k] = Presence(Present(subscribed))
      ELSE told[k].kind # "presence"

=============================================================================
