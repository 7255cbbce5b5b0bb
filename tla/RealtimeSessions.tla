-------------------------- MODULE RealtimeSessions --------------------------
(***************************************************************************)
(* Sessions and the sockets opened with them: modules/auth issues and ends *)
(* sessions, server/realtime/gateway.ts checks the session when a socket   *)
(* is upgraded and again at every heartbeat, and closes the sockets of a   *)
(* session that has ended.  The upgrade awaits its check before the socket *)
(* is registered, so a session may end unseen in between; the heartbeat is *)
(* what catches it.                                                        *)
(*                                                                         *)
(* The actions are composed with the start and the stop of the process in  *)
(* ServerLifecycle.  Abstracted: users, cookies and token hashes (a session *)
(* is named by its token), the commands a socket carries (SpaceAccess).    *)
(***************************************************************************)
EXTENDS Naturals, FiniteSets

CONSTANTS Sessions,  \* tokens
          Sockets,   \* places for a socket: one at a time uses a place
          None

ASSUME NoneApart == None \notin Sessions

VARIABLES
  session,  \* the row of a token: none yet, live, or gone
  ending,   \* logouts whose delete has committed and whose event is to come
  socket,   \* upgrade or readyState of each place
  of,       \* the token the socket was opened with
  alive,    \* runtime: a pong has arrived since the last heartbeat
  check,    \* the session check a socket waits for
  pinged,   \* a ping the peer has not answered
  peer,     \* whether the other end still answers
  gateway   \* attached, closing, or closed

sessionVars == <<session, ending>>
socketVars == <<socket, of, alive, check, pinged, peer>>
gatewayVars == <<sessionVars, socketVars, gateway>>

\* The sockets runtime holds: it forgets one at its "close" event.
Registered == {k \in Sockets : socket[k] \in {"open", "closing"}}

GatewayTypeOK ==
  /\ session \in [Sessions -> {"none", "live", "ended"}]
  /\ ending \subseteq Sessions
  /\ socket \in [Sockets -> {"free", "upgrading", "open", "closing"}]
  /\ of \in [Sockets -> Sessions \cup {None}]
  /\ alive \in [Sockets -> BOOLEAN]
  /\ check \in [Sockets -> {"none", "asked", "live", "ended", "failed"}]
  /\ pinged \in [Sockets -> BOOLEAN]
  /\ peer \in [Sockets -> {"answers", "lost"}]
  /\ gateway \in {"attached", "closing", "closed"}
  /\ \A k \in Sockets : of[k] = None <=> socket[k] = "free"

GatewayInit ==
  /\ session = [s \in Sessions |-> "none"]
  /\ ending = {}
  /\ socket = [k \in Sockets |-> "free"]
  /\ of = [k \in Sockets |-> None]
  /\ alive = [k \in Sockets |-> FALSE]
  /\ check = [k \in Sockets |-> "none"]
  /\ pinged = [k \in Sockets |-> FALSE]
  /\ peer = [k \in Sockets |-> "answers"]
  /\ gateway = "attached"

-----------------------------------------------------------------------------
(* Sessions.                                                               *)

\* issueSession, by register or login.
Login(s) ==
  /\ session[s] = "none"
  /\ session' = [session EXCEPT ![s] = "live"]
  /\ UNCHANGED <<ending, socketVars, gateway>>

\* logout: the delete commits.  A repeated logout deletes nothing.
Logout(s) ==
  /\ session[s] = "live"
  /\ session' = [session EXCEPT ![s] = "ended"]
  /\ ending' = ending \cup {s}
  /\ UNCHANGED <<socketVars, gateway>>

\* sessionEnded, closeSession: close on every registered socket of the token.
RaiseSessionEnded(s) ==
  /\ s \in ending
  /\ ending' = ending \ {s}
  /\ socket' = [k \in Sockets |->
                  IF of[k] = s /\ socket[k] = "open" THEN "closing" ELSE socket[k]]
  /\ UNCHANGED <<session, of, alive, check, pinged, peer, gateway>>

\* The reply to the delete is lost: logout throws and raises nothing.
LoseSessionEnded(s) ==
  /\ s \in ending
  /\ ending' = ending \ {s}
  /\ UNCHANGED <<session, socketVars, gateway>>

\* expiresAt passes: findUserBySessionHash no longer finds the row.
Expire(s) ==
  /\ session[s] = "live"
  /\ session' = [session EXCEPT ![s] = "ended"]
  /\ UNCHANGED <<ending, socketVars, gateway>>

-----------------------------------------------------------------------------
(* The check both the upgrade and the heartbeat await.                     *)

ReadSession(k) ==
  /\ check[k] = "asked"
  /\ \/ check' = [check EXCEPT ![k] = IF session[of[k]] = "live" THEN "live" ELSE "ended"]
     \/ check' = [check EXCEPT ![k] = "failed"]
  /\ UNCHANGED <<sessionVars, socket, of, alive, pinged, peer, gateway>>

Answered(k) == check[k] \in {"live", "ended", "failed"}

-----------------------------------------------------------------------------
(* The life of a socket.                                                   *)

\* upgradeHandler up to its await.
RequestUpgrade(k, s) ==
  /\ gateway = "attached"
  /\ socket[k] = "free"
  /\ session[s] # "none"
  /\ socket' = [socket EXCEPT ![k] = "upgrading"]
  /\ of' = [of EXCEPT ![k] = s]
  /\ check' = [check EXCEPT ![k] = "asked"]
  /\ UNCHANGED <<sessionVars, alive, pinged, peer, gateway>>

\* handleUpgrade and initializeSocket, or a refusal: the answer was not a
\* user, or the WebSocket server has stopped taking sockets.
FinishUpgrade(k) ==
  /\ socket[k] = "upgrading"
  /\ Answered(k)
  /\ check' = [check EXCEPT ![k] = "none"]
  /\ \/ /\ check[k] = "live" /\ gateway = "attached"
        /\ socket' = [socket EXCEPT ![k] = "open"]
        /\ alive' = [alive EXCEPT ![k] = TRUE]
        /\ UNCHANGED of
     \/ /\ check[k] # "live" \/ gateway # "attached"
        /\ socket' = [socket EXCEPT ![k] = "free"]
        /\ of' = [of EXCEPT ![k] = None]
        /\ UNCHANGED alive
  /\ UNCHANGED <<sessionVars, pinged, peer, gateway>>

\* The interval: a socket that has not answered since the last round is
\* terminated, the others are asked about.
Heartbeat ==
  /\ gateway = "attached"
  /\ Registered # {}
  /\ LET silent == {k \in Registered : ~alive[k]}
         asked == Registered \ silent
     IN /\ socket' = [k \in Sockets |-> IF k \in silent THEN "closing" ELSE socket[k]]
        /\ alive' = [k \in Sockets |-> alive[k] /\ k \notin asked]
        /\ check' = [k \in Sockets |-> IF k \in asked THEN "asked" ELSE check[k]]
  /\ UNCHANGED <<sessionVars, of, pinged, peer, gateway>>

\* Mutant of FinishCheck: only a check that fails ends the socket.
FinishCheckLeniently(k) ==
  /\ k \in Registered
  /\ Answered(k)
  /\ check' = [check EXCEPT ![k] = "none"]
  /\ socket' = [socket EXCEPT ![k] = IF check[k] = "failed" THEN "closing" ELSE @]
  /\ pinged' = [pinged EXCEPT ![k] = @ \/ socket[k] = "open"]
  /\ UNCHANGED <<sessionVars, of, alive, peer, gateway>>

\* The answer to a heartbeat's check: ping, close 4001, or terminate.
FinishCheck(k) ==
  /\ k \in Registered
  /\ Answered(k)
  /\ check' = [check EXCEPT ![k] = "none"]
  /\ \/ /\ check[k] = "live"
        /\ pinged' = [pinged EXCEPT ![k] = @ \/ socket[k] = "open"]
        /\ UNCHANGED socket
     \/ /\ check[k] # "live"
        /\ socket' = [socket EXCEPT ![k] = "closing"]
        /\ UNCHANGED pinged
  /\ UNCHANGED <<sessionVars, of, alive, peer, gateway>>

Pong(k) ==
  /\ pinged[k]
  /\ peer[k] = "answers"
  /\ pinged' = [pinged EXCEPT ![k] = FALSE]
  /\ alive' = [alive EXCEPT ![k] = k \in Registered]
  /\ UNCHANGED <<sessionVars, socket, of, check, peer, gateway>>

\* The other end vanishes without a word.
LosePeer(k) ==
  /\ socket[k] = "open"
  /\ peer[k] = "answers"
  /\ peer' = [peer EXCEPT ![k] = "lost"]
  /\ UNCHANGED <<sessionVars, socket, of, alive, check, pinged, gateway>>

\* The other end closes.
PeerCloses(k) ==
  /\ socket[k] = "open"
  /\ peer[k] = "answers"
  /\ socket' = [socket EXCEPT ![k] = "closing"]
  /\ UNCHANGED <<sessionVars, of, alive, check, pinged, peer, gateway>>

\* The "close" event, at the latest when ws gives up the closing handshake.
\* A check in flight goes on, and acts on a socket that is closed.
SocketClosed(k) ==
  /\ socket[k] = "closing"
  /\ socket' = [socket EXCEPT ![k] = "free"]
  /\ of' = [of EXCEPT ![k] = None]
  /\ alive' = [alive EXCEPT ![k] = FALSE]
  /\ check' = [check EXCEPT ![k] = "none"]
  /\ pinged' = [pinged EXCEPT ![k] = FALSE]
  /\ peer' = [peer EXCEPT ![k] = "answers"]
  /\ UNCHANGED <<sessionVars, gateway>>

-----------------------------------------------------------------------------
(* close() of the gateway.                                                 *)

CloseGateway ==
  /\ gateway = "attached"
  /\ gateway' = "closing"
  /\ socket' = [k \in Sockets |-> IF socket[k] = "open" THEN "closing" ELSE socket[k]]
  /\ UNCHANGED <<sessionVars, of, alive, check, pinged, peer>>

\* The callback of WebSocketServer.close: the last socket has gone.
GatewayClosed ==
  /\ gateway = "closing"
  /\ Registered = {}
  /\ gateway' = "closed"
  /\ UNCHANGED <<sessionVars, socketVars>>

=============================================================================
