--------------------------- MODULE MCSpaceRealtime ---------------------------
(***************************************************************************)
(* A Space in real time, each part on its own: who is a member and which   *)
(* sockets the hub has subscribed (an owner with one socket, a user with   *)
(* two), whose session a tab of the browser shows, and what the chat page  *)
(* shows over disconnections.  They share no state.                        *)
(***************************************************************************)
EXTENDS SpaceAccess, BrowserSession, ChatFeed, TLC

CONSTANTS olga, ivan, ko, ka, kb

MCUserOf == ko :> olga @@ ka :> ivan @@ kb :> ivan

VARIABLE view

vars == <<view, accessVars, sessionVars, feedVars>>

Init ==
  /\ view \in {"space", "tab", "chat"}
  /\ AccessInit
  /\ SessionInit
  /\ view = "tab" \/ cookie = 0
  /\ FeedInit

Next ==
  \/ view = "space" /\ AccessNext /\ UNCHANGED <<view, sessionVars, feedVars>>
  \/ view = "tab" /\ SessionNext /\ UNCHANGED <<view, accessVars, feedVars>>
  \/ view = "chat" /\ FeedNext /\ UNCHANGED <<view, accessVars, sessionVars>>

Spec == Init /\ [][Next]_vars

\* The two sockets of one user are alike.
Alike == Permutations({ka, kb})
=============================================================================
