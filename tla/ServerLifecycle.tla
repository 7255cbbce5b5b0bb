-------------------------- MODULE ServerLifecycle --------------------------
(***************************************************************************)
(* The start and the stop of the server process: startup-lifecycle.ts, the *)
(* shutdown of index.ts, the start and stop of the two background          *)
(* components (DocumentIndexingWorker and ConfiguredAgentRuntime with its  *)
(* AgentWorker), and the sessions and sockets of RealtimeSessions.         *)
(*                                                                         *)
(* A signal, a failing component or an error of the HTTP server requests   *)
(* the shutdown, possibly while a component is still starting.  The waits  *)
(* of AgentWorker.stop are bounded by timers, so its end needs nothing     *)
(* else; every other wait is for an answer.  Microtasks that no other      *)
(* event can come between are one step.                                    *)
(***************************************************************************)
EXTENDS RealtimeSessions

VARIABLES
  http,      \* the HTTP server: binding, listening, failed or closed
  startup,   \* startupPromise: none, running or settled
  starting,  \* startingComponent
  shutdown,  \* the resource the shutdown is closing
  stop,      \* stopResults, by component
  loop,      \* the loop of each component: off, on, or over
  running,   \* DocumentIndexingWorker.running
  runtime,   \* ConfiguredAgentRuntime.#state
  worker,    \* AgentWorker.#state
  claim,     \* the claim AgentWorker.#startInternal waits for
  stopRequested  \* AgentWorker.#stopRequested

Components == {"indexer", "agent"}

ASSUME NoComponent == None \notin Components

\* Mutant of StopsWhileStarting: every component is waited for.
StopsNone == {}

\* stopWhileStarting
StopsWhileStarting == {"agent"}

processVars == <<http, startup, starting, shutdown>>
componentVars == <<stop, loop, running, runtime, worker, claim, stopRequested>>
vars == <<gatewayVars, processVars, componentVars>>

TypeOK ==
  /\ GatewayTypeOK
  /\ http \in {"binding", "listening", "failed", "closed"}
  /\ startup \in {"none", "running", "settled"}
  /\ starting \in Components \cup {None}
  /\ shutdown \in {"none", "workers", "gateway", "http", "database", "done"}
  /\ stop \in [Components -> {"none", "requested", "called", "settled"}]
  /\ loop \in [Components -> {"off", "on", "over"}]
  /\ running \in BOOLEAN
  /\ runtime \in {"idle", "starting", "ready", "stopping", "stopped", "failed"}
  /\ worker \in {"constructed", "starting", "running", "stopping", "stopped", "failed"}
  /\ claim \in {"none", "asked", "answered"}
  /\ stopRequested \in BOOLEAN

Init ==
  /\ GatewayInit
  /\ http = "binding"
  /\ startup = "none"
  /\ starting = None
  /\ shutdown = "none"
  /\ stop = [c \in Components |-> "none"]
  /\ loop = [c \in Components |-> "off"]
  /\ running = FALSE
  /\ runtime = "idle"
  /\ worker = "constructed"
  /\ claim = "none"
  /\ stopRequested = FALSE

-----------------------------------------------------------------------------
(* Requesting the shutdown.                                                *)

\* shutdown() and shutdownComponents(): the first call counts, and asks the
\* component that is starting to stop if it can be stopped meanwhile.
RequestShutdown(whileStarting) ==
  IF shutdown = "none"
    THEN /\ shutdown' = "workers"
         /\ stop' = [c \in Components |->
                       IF c = whileStarting /\ c \in StopsWhileStarting
                         THEN "requested" ELSE stop[c]]
    ELSE UNCHANGED <<shutdown, stop>>

\* SIGINT or SIGTERM.  listen() and its "listening" or "error" event happen in
\* one turn of the event loop, in which no signal is delivered.
Signal ==
  /\ http # "binding"
  /\ shutdown = "none"
  /\ RequestShutdown(starting)
  /\ UNCHANGED <<gatewayVars, http, startup, starting,
                 loop, running, runtime, worker, claim, stopRequested>>

\* onServerError: the port is taken, or the server fails later.
ServerError ==
  /\ http \in {"binding", "listening"}
  /\ shutdown = "none"
  /\ http' = IF http = "binding" THEN "failed" ELSE http
  /\ RequestShutdown(starting)
  /\ UNCHANGED <<gatewayVars, startup, starting,
                 loop, running, runtime, worker, claim, stopRequested>>

-----------------------------------------------------------------------------
(* Starting the components in order.                                       *)

\* "listening": the first component starts.
Listen ==
  /\ http = "binding"
  /\ http' = "listening"
  /\ startup' = "running"
  /\ starting' = "indexer"
  /\ UNCHANGED <<gatewayVars, shutdown, componentVars>>

\* The loop over the components goes on after the indexer has started.
StartAgentRuntime ==
  IF shutdown # "none"
    THEN /\ startup' = "settled"
         /\ starting' = None
         /\ UNCHANGED runtime
    ELSE /\ starting' = "agent"
         /\ runtime' = "starting"
         /\ UNCHANGED startup

\* DocumentIndexingWorker.start: the recovery has been answered.
IndexerStarted ==
  /\ starting = "indexer"
  /\ running' = TRUE
  /\ loop' = [loop EXCEPT !["indexer"] = "on"]
  /\ StartAgentRuntime
  /\ UNCHANGED <<gatewayVars, http, shutdown, stop, worker, claim, stopRequested>>

\* start throws: onComponentStartError unless a shutdown is under way.
IndexerStartFails ==
  /\ starting = "indexer"
  /\ startup' = "settled"
  /\ starting' = None
  /\ RequestShutdown("indexer")
  /\ UNCHANGED <<gatewayVars, http, loop, running, runtime, worker, claim, stopRequested>>

\* The worker is started by a microtask of the runtime, unless the runtime
\* has been stopped since.
WorkerStart ==
  /\ runtime = "starting"
  /\ worker = "constructed"
  /\ worker' = "starting"
  /\ claim' = "asked"
  /\ UNCHANGED <<gatewayVars, processVars, stop, loop, running, runtime, stopRequested>>

\* Mutant of FirstClaimAnswered: the request to stop is not looked at.
FirstClaimAnsweredDeaf ==
  /\ claim = "asked"
  /\ claim' = "answered"
  /\ worker' = "running"
  /\ loop' = [loop EXCEPT !["agent"] = "on"]
  /\ UNCHANGED <<gatewayVars, processVars, stop, running, runtime, stopRequested>>

\* #startInternal: the first claim is answered, perhaps after the worker was
\* told to stop; the start of the runtime has then been settled by its stop.
FirstClaimAnswered ==
  /\ claim = "asked"
  /\ claim' = "answered"
  /\ IF stopRequested
       THEN /\ worker' = "stopped"
            /\ UNCHANGED <<loop, runtime, startup, starting>>
       ELSE /\ worker' = "running"
            /\ loop' = [loop EXCEPT !["agent"] = "on"]
            /\ runtime' = "ready"
            /\ startup' = "settled"
            /\ starting' = None
  /\ UNCHANGED <<gatewayVars, http, shutdown, stop, running, stopRequested>>

FirstClaimFails ==
  /\ claim = "asked"
  /\ claim' = "answered"
  /\ IF stopRequested
       THEN /\ worker' = "stopped"
            /\ UNCHANGED <<runtime, startup, starting, shutdown, stop>>
       ELSE /\ worker' = "failed"
            /\ runtime' = "failed"
            /\ startup' = "settled"
            /\ starting' = None
            /\ RequestShutdown("agent")
  /\ UNCHANGED <<gatewayVars, http, loop, running, stopRequested>>

-----------------------------------------------------------------------------
(* Stopping them in reverse order, each one once.                          *)

\* The shutdown asks a component to stop when the start has settled and the
\* components after it have stopped.
RequestStop(c) ==
  /\ shutdown = "workers"
  /\ startup # "running"
  /\ stop[c] = "none"
  /\ c = "indexer" => stop["agent"] = "settled"
  /\ stop' = [stop EXCEPT ![c] = "requested"]
  /\ UNCHANGED <<gatewayVars, processVars, loop, running, runtime, worker, claim, stopRequested>>

\* DocumentIndexingWorker.stop
CallIndexerStop ==
  /\ stop["indexer"] = "requested"
  /\ stop' = [stop EXCEPT !["indexer"] = "called"]
  /\ running' = FALSE
  /\ UNCHANGED <<gatewayVars, processVars, loop, runtime, worker, claim, stopRequested>>

\* ConfiguredAgentRuntime.stop and AgentWorker.stop: a start that is under
\* way settles at once, whatever its claim does.
CallAgentStop ==
  /\ stop["agent"] = "requested"
  /\ stop' = [stop EXCEPT !["agent"] = "called"]
  /\ runtime' = "stopping"
  /\ worker' = "stopping"
  /\ stopRequested' = TRUE
  /\ IF runtime = "starting"
       THEN startup' = "settled" /\ starting' = None
       ELSE UNCHANGED <<startup, starting>>
  /\ UNCHANGED <<gatewayVars, http, shutdown, loop, running, claim>>

\* runLoop of the indexer ends its iteration and finds running false.
IndexerLoopEnds ==
  /\ loop["indexer"] = "on"
  /\ ~running
  /\ loop' = [loop EXCEPT !["indexer"] = "over"]
  /\ UNCHANGED <<gatewayVars, processVars, stop, running, runtime, worker, claim, stopRequested>>

\* #runLoop of the agent worker likewise; what it executes may never end.
AgentLoopEnds ==
  /\ loop["agent"] = "on"
  /\ stopRequested
  /\ loop' = [loop EXCEPT !["agent"] = "over"]
  /\ UNCHANGED <<gatewayVars, processVars, stop, running, runtime, worker, claim, stopRequested>>

IndexerStopped ==
  /\ stop["indexer"] = "called"
  /\ loop["indexer"] # "on"
  /\ stop' = [stop EXCEPT !["indexer"] = "settled"]
  /\ UNCHANGED <<gatewayVars, processVars, loop, running, runtime, worker, claim, stopRequested>>

\* #stopInternal: each thing it waits for has ended or its timer has.
AgentStopped ==
  /\ stop["agent"] = "called"
  /\ stop' = [stop EXCEPT !["agent"] = "settled"]
  /\ worker' = "stopped"
  /\ runtime' = "stopped"
  /\ UNCHANGED <<gatewayVars, processVars, loop, running, claim, stopRequested>>

-----------------------------------------------------------------------------
(* The shutdown closes one resource after the other; one that fails to     *)
(* close is logged and passed over.                                        *)

WorkersStopped ==
  /\ shutdown = "workers"
  /\ stop["indexer"] = "settled"
  /\ shutdown' = "gateway"
  /\ CloseGateway
  /\ UNCHANGED <<http, startup, starting, componentVars>>

GatewayStopped ==
  /\ shutdown = "gateway"
  /\ shutdown' = "http"
  /\ GatewayClosed
  /\ UNCHANGED <<http, startup, starting, componentVars>>

\* A server that does not listen has nothing to close.
HttpStopped ==
  /\ shutdown = "http"
  /\ shutdown' = "database"
  /\ http' = IF http = "listening" THEN "closed" ELSE http
  /\ UNCHANGED <<gatewayVars, startup, starting, componentVars>>

DatabaseClosed ==
  /\ shutdown = "database"
  /\ shutdown' = "done"
  /\ UNCHANGED <<gatewayVars, http, startup, starting, componentVars>>

-----------------------------------------------------------------------------
\* Requests arrive while the HTTP server listens.
SessionStep ==
  \/ \E s \in Sessions :
       \/ http = "listening" /\ Login(s)
       \/ http = "listening" /\ Logout(s)
       \/ RaiseSessionEnded(s) \/ LoseSessionEnded(s) \/ Expire(s)
  \/ \E k \in Sockets, s \in Sessions : http = "listening" /\ RequestUpgrade(k, s)

\* Once the database is closed every check fails.
CheckAnswered(k) == ReadSession(k) /\ (shutdown = "done" => check'[k] = "failed")

SocketStep(k) ==
  \/ CheckAnswered(k) \/ FinishUpgrade(k) \/ FinishCheck(k)
  \/ Pong(k) \/ LosePeer(k) \/ PeerCloses(k) \/ SocketClosed(k)

GatewayStep ==
  /\ SessionStep \/ Heartbeat \/ (\E k \in Sockets : SocketStep(k))
  /\ UNCHANGED <<processVars, componentVars>>

StartStep ==
  \/ Listen \/ IndexerStarted \/ IndexerStartFails
  \/ WorkerStart \/ FirstClaimAnswered \/ FirstClaimFails

\* What the shutdown waits for.
StopProgress ==
  \/ \E c \in Components : RequestStop(c)
  \/ CallIndexerStop \/ CallAgentStop \/ IndexerLoopEnds
  \/ IndexerStopped \/ AgentStopped
  \/ WorkersStopped \/ GatewayStopped \/ HttpStopped \/ DatabaseClosed

\* The shutdown is over and nothing is left to answer.
Finished ==
  /\ shutdown = "done"
  /\ UNCHANGED vars

Next == \/ GatewayStep \/ Signal \/ ServerError \/ StartStep
        \/ StopProgress \/ AgentLoopEnds \/ Finished

\* Answers come, except to the first claim and to what the agent worker
\* executes; closing handshakes end, the interval and the timers fire, and the
\* loop of the indexer ends its iteration.
Fairness ==
  /\ WF_vars(http = "binding" /\ (Listen \/ ServerError))
  /\ WF_vars(IndexerStarted \/ IndexerStartFails)
  /\ WF_vars(StopProgress)
  /\ WF_vars(Heartbeat /\ UNCHANGED <<processVars, componentVars>>)
  /\ \A k \in Sockets :
       /\ WF_vars(CheckAnswered(k) /\ UNCHANGED <<processVars, componentVars>>)
       /\ WF_vars((FinishUpgrade(k) \/ FinishCheck(k)) /\ UNCHANGED <<processVars, componentVars>>)
       /\ WF_vars(SocketClosed(k) /\ UNCHANGED <<processVars, componentVars>>)

Spec == Init /\ [][Next]_vars /\ Fairness

-----------------------------------------------------------------------------
(* Properties.                                                             *)

\* The loop of a component never starts once its stop has been called, however
\* late the answer its start was waiting for.
NoRevival ==
  [][\A c \in Components :
       loop[c] = "off" /\ loop'[c] = "on" => stop'[c] \in {"none", "requested"}]_vars

\* A shutdown ends, even one that is requested while the agent runtime starts
\* and its first claim is never answered.
ShutdownEnds == shutdown # "none" ~> shutdown = "done"

\* No socket stays open with a session that has ended (when the event of the
\* logout is lost, the session expires, or it ends during an upgrade) or with a
\* peer that has vanished.
DeadSocketDropped ==
  \A k \in Sockets :
    socket[k] = "open" /\ (session[of[k]] = "ended" \/ peer[k] = "lost")
      ~> socket[k] # "open"

=============================================================================
