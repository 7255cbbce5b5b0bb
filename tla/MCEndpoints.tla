----------------------------- MODULE MCEndpoints -----------------------------
(***************************************************************************)
(* The two ends of the connection, one at a time: one browser tab of a     *)
(* member, on one kind of page (the pages that create Agent work, the page *)
(* that follows a run, or a list), or the server process with its sockets. *)
(* They share no state but the database rows each of them models, so a tab *)
(* that moves from one kind of page to another starts that kind anew.      *)
(***************************************************************************)
EXTENDS AgentCommands, RunFollowing, PagedLists, ServerLifecycle

VARIABLE seen

tabVars == <<commandsVars, followingVars, listsVars>>
endVars == <<seen, tabVars, vars>>

(* What is not seen stands still: a page that is not open, a server that    *)
(* never listens.                                                           *)
EndsInit ==
  /\ seen \in {"commands", "following", "lists", "server"}
  /\ IF seen = "commands" THEN CommandsInit
     ELSE /\ agent = NoValue /\ joined = NoValue /\ tasks = << >> /\ form = NoValue
          /\ calls = {} /\ sent = 0 /\ view = NoValue
  /\ IF seen = "following" THEN FollowingInit
     ELSE /\ runs = << >> /\ admitted = FALSE /\ changed = 0
          /\ page = NoReply /\ shown = NoReplies /\ flight = NoReplies
  /\ IF seen = "lists" THEN ListsInit
     ELSE rows = {} /\ edits = 0 /\ reader = Idle /\ overview = NoOverview
  /\ IF seen = "server" THEN Init
     ELSE /\ GatewayInit
          /\ http = "closed" /\ startup = "none" /\ starting = None /\ shutdown = "none"
          /\ stop = [c \in Components |-> "none"] /\ loop = [c \in Components |-> "off"]
          /\ running = FALSE /\ runtime = "idle" /\ worker = "constructed"
          /\ claim = "none" /\ stopRequested = FALSE

EndsNext ==
  \/ seen = "commands" /\ CommandsNext /\ UNCHANGED <<seen, followingVars, listsVars, vars>>
  \/ seen = "following" /\ FollowingNext /\ UNCHANGED <<seen, commandsVars, listsVars, vars>>
  \/ seen = "lists" /\ ListsNext /\ UNCHANGED <<seen, commandsVars, followingVars, vars>>
  \/ seen = "server" /\ Next /\ UNCHANGED <<seen, tabVars>>

EndsSpec == EndsInit /\ [][EndsNext]_endVars /\ FollowingFairness /\ Fairness
=============================================================================
