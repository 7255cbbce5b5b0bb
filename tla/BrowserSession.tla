--------------------------- MODULE BrowserSession ---------------------------
(***************************************************************************)
(* One tab of the browser client: who it shows as signed in, and whose     *)
(* data it shows (src/features/auth, src/app/query-client.ts,              *)
(* src/services).  The cookie is changed by the replies to logins and      *)
(* logouts when the network delivers them; the actor is changed by the     *)
(* code that runs later.  Between the two run session probes, answers to   *)
(* requests of former actors, and messages of their sockets.               *)
(*                                                                         *)
(* A snapshot of the ownership is current until the next change of the     *)
(* actor, so it is the Boolean "owned" of what took it.  Abstracted: the   *)
(* pages, credentials (a login with bad ones is a login that fails), and   *)
(* the contents of answers but for the user whose they are.  Other tabs    *)
(* are not modelled.                                                       *)
(***************************************************************************)
EXTENDS Naturals, FiniteSets

CONSTANTS Accounts,
          Requests,   \* places for a protected request
          MaxTokens,  \* bound: sessions issued
          None

ASSUME TabConstants == None \notin Accounts /\ MaxTokens \in Nat \ {0}

Tokens == 1 .. MaxTokens

VARIABLES
  session,   \* server: none yet, live or ended, by token
  holder,    \* server: the user a token was issued to
  cookie,    \* the token the browser sends, 0 for none
  actor,     \* actorOwnership.snapshot.actorId, and the user of the session query
  resolved,  \* the session query has data
  probe,     \* the session query's request
  mutation,  \* activeSessionMutation
  late,      \* tokens whose logout the client has given up
  loose,     \* history: the last login or logout left a cookie nobody answers for
  request,   \* apiRequest with authMode "protected"
  shown,     \* the users whose data the query cache holds
  tabSocket, \* socketRef.current, or the socket it held last
  pending    \* a chat message waits for its ack

sessionRows == <<session, holder, late>>
sessionVars == <<sessionRows, cookie, actor, resolved, probe, mutation, loose, request,
                 shown, tabSocket, pending>>

\* The user a token speaks for.
Speaks(token) == IF token # 0 /\ session[token] = "live" THEN holder[token] ELSE None

NoMutation == [at |-> "none"]
NoSocket == [user |-> None, owned |-> FALSE]
Asked(token) == [at |-> "asked", token |-> token, owned |-> TRUE]
NoRequest == [at |-> "none"]

RequestInFlight == [at : {"asked"}, token : Tokens \cup {0}, owned : BOOLEAN]
              \cup [at : {"answered"}, user : Accounts \cup {None}, owned : BOOLEAN]

SessionTypeOK ==
  /\ session \in [Tokens -> {"none", "live", "ended"}]
  /\ holder \in [Tokens -> Accounts \cup {None}]
  /\ cookie \in Tokens \cup {0}
  /\ actor \in Accounts \cup {None}
  /\ resolved \in BOOLEAN /\ (actor # None => resolved)
  /\ probe \in {NoRequest} \cup RequestInFlight
  /\ mutation \in {NoMutation}
       \cup [at : {"sent", "served", "received"}, kind : {"login"}, user : Accounts,
             token : Tokens \cup {0}, owned : BOOLEAN]
       \cup [at : {"sent", "served", "received"}, kind : {"logout"}, token : Tokens \cup {0}]
  /\ late \subseteq Tokens
  /\ loose \in BOOLEAN
  /\ request \in [Requests -> {NoRequest} \cup RequestInFlight]
  /\ shown \subseteq Accounts
  /\ tabSocket \in [user : Accounts \cup {None}, owned : BOOLEAN]
  /\ pending \in BOOLEAN /\ (pending => tabSocket.owned)

\* A page is loaded, with or without a cookie of an earlier session.
SessionInit ==
  /\ \E u \in Accounts :
       \/ /\ session = [t \in Tokens |-> IF t = 1 THEN "live" ELSE "none"]
          /\ holder = [t \in Tokens |-> IF t = 1 THEN u ELSE None]
          /\ cookie = 1
       \/ /\ session = [t \in Tokens |-> "none"]
          /\ holder = [t \in Tokens |-> None]
          /\ cookie = 0
  /\ actor = None
  /\ resolved = FALSE
  /\ probe = NoRequest
  /\ mutation = NoMutation
  /\ late = {}
  /\ loose = FALSE
  /\ request = [r \in Requests |-> NoRequest]
  /\ shown = {}
  /\ tabSocket = NoSocket
  /\ pending = FALSE

-----------------------------------------------------------------------------
(* Changing the actor.                                                     *)

\* A request, or nothing, whose snapshot is no longer current.
Disowned(x) == IF x = NoRequest THEN NoRequest ELSE [x EXCEPT !.owned = FALSE]

\* Mutant of ClearProtectedState: the cached answers stay.
ClearNothing == UNCHANGED shown

\* clearProtectedClientState
ClearProtectedState == shown' = {}

\* retire of the realtime provider: its socket is closed and what waits for
\* an ack is rejected.
Retire ==
  /\ tabSocket' = [tabSocket EXCEPT !.owned = FALSE]
  /\ pending' = FALSE

\* transitionClientActor: nothing changes when the actor does not.
TransitionClientActor(u) ==
  /\ actor' = u
  /\ IF u = actor
       THEN UNCHANGED <<request, shown, tabSocket, pending>>
       ELSE /\ request' = [r \in Requests |-> Disowned(request[r])]
            /\ ClearProtectedState
            /\ Retire

\* What a login page took its snapshot for.
Bystander(u, m) ==
  IF u # actor /\ m # NoMutation /\ m.kind = "login" THEN [m EXCEPT !.owned = FALSE] ELSE m

\* setPrincipal, which cancels the session probe first.
CancelProbe == probe' = NoRequest

SetPrincipal(u) ==
  /\ CancelProbe
  /\ TransitionClientActor(u)
  /\ resolved' = TRUE

-----------------------------------------------------------------------------
(* The session query: on load, when the network is back, on "Try again".   *)

\* Mutant of SessionFresh: data is stale at once.
NeverFresh == FALSE

\* What setPrincipal(null) wrote stays fresh for longer than a logout may take.
SessionFresh == mutation # NoMutation /\ mutation.kind = "logout"

BeginProbe ==
  /\ probe = NoRequest
  /\ ~SessionFresh
  /\ probe' = Asked(cookie)
  /\ UNCHANGED <<sessionRows, cookie, actor, resolved, mutation, loose, request, shown, tabSocket, pending>>

Reply(x) == [at |-> "answered", user |-> Speaks(x.token), owned |-> x.owned]

ServeProbe ==
  /\ probe.at = "asked"
  /\ probe' = Reply(probe)
  /\ UNCHANGED <<sessionRows, cookie, actor, resolved, mutation, loose, request, shown, tabSocket, pending>>

\* Nobody but the probe has changed the actor since it was sent, or it would
\* have been cancelled; the snapshot is compared nevertheless.
FinishProbe ==
  /\ probe.at = "answered"
  /\ probe' = NoRequest
  /\ TransitionClientActor(probe.user)
  /\ mutation' = Bystander(probe.user, mutation)
  /\ resolved' = TRUE
  /\ UNCHANGED <<sessionRows, cookie, loose>>

\* A network failure: the data that is there stays.
ProbeFails ==
  /\ probe # NoRequest
  /\ probe' = NoRequest
  /\ UNCHANGED <<sessionRows, cookie, actor, resolved, mutation, loose, request, shown, tabSocket, pending>>

-----------------------------------------------------------------------------
(* Logins and logouts: runSessionMutation admits one at a time.            *)

Admitted == mutation = NoMutation

\* The login or register page, shown when the session query knows of nobody.
BeginLogin(u) ==
  /\ resolved
  /\ actor = None
  /\ Admitted
  /\ mutation' = [at |-> "sent", kind |-> "login", user |-> u, token |-> 0, owned |-> TRUE]
  /\ UNCHANGED <<sessionRows, cookie, actor, resolved, probe, loose, request, shown, tabSocket, pending>>

\* logout signs out locally, then tells the server unless another login or
\* logout is under way; the failure is swallowed.
BeginLogout ==
  /\ actor # None
  /\ SetPrincipal(None)
  /\ IF Admitted
       THEN /\ mutation' = [at |-> "sent", kind |-> "logout", token |-> cookie]
            /\ UNCHANGED loose
       ELSE /\ mutation' = Bystander(None, mutation)
            /\ loose' = TRUE
  /\ UNCHANGED <<sessionRows, cookie>>

\* The server issues a session, or deletes the one of the cookie.
ServeLogin(t) ==
  /\ mutation.at = "sent" /\ mutation.kind = "login"
  /\ session[t] = "none"
  /\ \A s \in Tokens : s < t => session[s] # "none"
  /\ session' = [session EXCEPT ![t] = "live"]
  /\ holder' = [holder EXCEPT ![t] = mutation.user]
  /\ mutation' = [mutation EXCEPT !.at = "served", !.token = t]
  /\ UNCHANGED <<late, cookie, actor, resolved, probe, loose, request, shown, tabSocket, pending>>

Ended(t) == IF t = 0 THEN session ELSE [session EXCEPT ![t] = "ended"]

ServeLogout ==
  /\ mutation.at = "sent" /\ mutation.kind = "logout"
  /\ session' = Ended(mutation.token)
  /\ mutation' = [mutation EXCEPT !.at = "served"]
  /\ UNCHANGED <<holder, late, cookie, actor, resolved, probe, loose, request, shown, tabSocket, pending>>

\* The reply arrives: the browser sets or clears the cookie.
ReceiveReply ==
  /\ mutation.at = "served"
  /\ mutation' = [mutation EXCEPT !.at = "received"]
  /\ cookie' = IF mutation.kind = "login" THEN mutation.token ELSE 0
  /\ UNCHANGED <<sessionRows, actor, resolved, probe, loose, request, shown, tabSocket, pending>>

\* The page that asked goes on, unless the actor has changed meanwhile.
FinishLogin ==
  /\ mutation.at = "received" /\ mutation.kind = "login"
  /\ mutation' = NoMutation
  /\ IF mutation.owned
       THEN SetPrincipal(mutation.user) /\ loose' = FALSE
       ELSE UNCHANGED <<actor, resolved, probe, loose, request, shown, tabSocket, pending>>
  /\ UNCHANGED <<sessionRows, cookie>>

FinishLogout ==
  /\ mutation.at = "received" /\ mutation.kind = "logout"
  /\ mutation' = NoMutation
  /\ loose' = FALSE
  /\ UNCHANGED <<sessionRows, cookie, actor, resolved, probe, request, shown, tabSocket, pending>>

\* The deadline of 15 s, a network failure or a refusal.  A logout may still
\* reach the server; a session a login left there is nobody's, unless its
\* cookie has arrived.
MutationFails ==
  /\ mutation # NoMutation
  /\ mutation' = NoMutation
  /\ late' = IF mutation.kind = "logout" /\ mutation.at = "sent" /\ mutation.token # 0
               THEN late \cup {mutation.token} ELSE late
  /\ loose' = (loose \/ mutation.kind = "logout" \/ mutation.at = "received")
  /\ UNCHANGED <<session, holder, cookie, actor, resolved, probe, request, shown, tabSocket, pending>>

ServeLateLogout(t) ==
  /\ t \in late
  /\ late' = late \ {t}
  /\ session' = Ended(t)
  /\ UNCHANGED <<holder, cookie, actor, resolved, probe, mutation, loose, request, shown, tabSocket, pending>>

\* A session expires.
Expire(t) ==
  /\ session[t] = "live"
  /\ session' = Ended(t)
  /\ UNCHANGED <<holder, late, cookie, actor, resolved, probe, mutation, loose, request, shown, tabSocket, pending>>

-----------------------------------------------------------------------------
(* Protected requests of the pages.                                        *)

BeginRequest(r) ==
  /\ actor # None
  /\ request[r] = NoRequest
  /\ request' = [request EXCEPT ![r] = Asked(cookie)]
  /\ UNCHANGED <<sessionRows, cookie, actor, resolved, probe, mutation, loose, shown, tabSocket, pending>>

ServeRequest(r) ==
  /\ request[r].at = "asked"
  /\ request' = [request EXCEPT ![r] = Reply(@)]
  /\ UNCHANGED <<sessionRows, cookie, actor, resolved, probe, mutation, loose, shown, tabSocket, pending>>

\* Mutant of Owns: the snapshot is not compared.
OwnsAlways(x) == TRUE

\* throwIfAborted, and actorOwnership.owns before a session is expired: the
\* change of the actor has aborted the signal of the request.
Owns(x) == x.owned

\* An answer: its data, or a 401 that signs the actor out; nothing when the
\* request is not the actor's any more.
FinishRequest(r) ==
  /\ request[r].at = "answered"
  /\ \/ /\ Owns(request[r]) /\ request[r].user # None
        /\ shown' = shown \cup {request[r].user}
        /\ request' = [request EXCEPT ![r] = NoRequest]
        /\ UNCHANGED <<actor, resolved, probe, mutation, tabSocket, pending>>
     \/ /\ Owns(request[r]) /\ request[r].user = None
        /\ CancelProbe
        /\ mutation' = Bystander(None, mutation)
        /\ actor' = None /\ resolved' = TRUE
        /\ request' = [q \in Requests |-> IF q = r THEN NoRequest ELSE Disowned(request[q])]
        /\ ClearProtectedState
        /\ Retire
     \/ /\ ~Owns(request[r])
        /\ request' = [request EXCEPT ![r] = NoRequest]
        /\ UNCHANGED <<actor, resolved, probe, mutation, shown, tabSocket, pending>>
  /\ UNCHANGED <<sessionRows, cookie, loose>>

-----------------------------------------------------------------------------
(* The realtime provider of the actor.                                     *)

\* connect; the upgrade is refused without a session.
ConnectTab ==
  /\ actor # None
  /\ ~tabSocket.owned
  /\ Speaks(cookie) # None
  /\ tabSocket' = [user |-> Speaks(cookie), owned |-> TRUE]
  /\ UNCHANGED <<sessionRows, cookie, actor, resolved, probe, mutation, loose, request, shown, pending>>

\* A message reaches the listeners of a socket that is still the provider's.
ReceiveEvent ==
  /\ tabSocket.user # None
  /\ Owns(tabSocket)
  /\ shown' = shown \cup {tabSocket.user}
  /\ UNCHANGED <<sessionRows, cookie, actor, resolved, probe, mutation, loose, request, tabSocket, pending>>

\* sendChatMessage
SendMessage ==
  /\ tabSocket.owned
  /\ ~pending
  /\ pending' = TRUE
  /\ UNCHANGED <<sessionRows, cookie, actor, resolved, probe, mutation, loose, request, shown, tabSocket>>

\* The ack or the error that names the command.
ReceiveAck ==
  /\ pending
  /\ pending' = FALSE
  /\ UNCHANGED <<sessionRows, cookie, actor, resolved, probe, mutation, loose, request, shown, tabSocket>>

\* The "close" event rejects what waits and leads to another connect.
TabSocketClosed ==
  /\ tabSocket.owned
  /\ tabSocket' = NoSocket
  /\ pending' = FALSE
  /\ UNCHANGED <<sessionRows, cookie, actor, resolved, probe, mutation, loose, request, shown>>

-----------------------------------------------------------------------------
SessionStep ==
  \/ BeginProbe \/ ServeProbe \/ FinishProbe \/ ProbeFails
  \/ \E u \in Accounts : BeginLogin(u)
  \/ \E t \in Tokens : ServeLogin(t) \/ ServeLateLogout(t) \/ Expire(t)
  \/ BeginLogout \/ ServeLogout \/ ReceiveReply \/ FinishLogin \/ FinishLogout
  \/ MutationFails

SessionNext ==
  \/ SessionStep
  \/ \E r \in Requests : BeginRequest(r) \/ ServeRequest(r) \/ FinishRequest(r)
  \/ ConnectTab \/ ReceiveEvent \/ SendMessage \/ ReceiveAck \/ TabSocketClosed

SessionSpec == SessionInit /\ [][SessionNext]_sessionVars

-----------------------------------------------------------------------------
(* Properties.                                                             *)

\* Whoever is shown as signed in is the user the cookie was issued to, as long
\* as no login or logout has ended without its answer.
SignedInAsCookie == actor # None /\ ~loose => cookie # 0 /\ holder[cookie] = actor

\* Only the actor's data is shown, whatever answers and messages of former
\* actors still arrive, and nothing while nobody is signed in.
NoForeignData ==
  /\ actor = None => shown = {}
  /\ ~loose => shown \subseteq {actor}

\* A live session is not given up because an older one was refused: an actor
\* who does not log out is signed out only when the session has ended.
NoFalseExpiry ==
  [][actor # None /\ actor' = None /\ ~loose /\ ~BeginLogout
       => Speaks(cookie) = None]_sessionVars

=============================================================================
