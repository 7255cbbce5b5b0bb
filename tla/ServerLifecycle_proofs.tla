----------------------- MODULE ServerLifecycle_proofs -----------------------
(***************************************************************************)
(* Proofs about the start and the stop of the server process               *)
(* (ServerLifecycle), for any number of sessions and sockets.              *)
(*                                                                         *)
(* A component may be asked to stop while an answer that its start waits   *)
(* for is on its way.  The indexer is safe because the shutdown asks it    *)
(* only after the start has settled (IndexerUndisturbed), the agent worker *)
(* because it is told before its stop waits for anything (WorkerTold).     *)
(* What has been closed stays so, because whatever could bring it back     *)
(* looks at the state of the shutdown first (ShutdownInv).                 *)
(***************************************************************************)
EXTENDS ServerLifecycle, TLAPS

-----------------------------------------------------------------------------
(* The inductive invariant.                                                 *)

ProcessTypeOK ==
  /\ http \in {"binding", "listening", "failed", "closed"}
  /\ startup \in {"none", "running", "settled"}
  /\ starting \in Components \cup {None}
  /\ shutdown \in {"none", "workers", "gateway", "http", "database", "done"}
  /\ stop \in [Components -> {"none", "requested", "called", "settled"}]
  /\ loop \in [Components -> {"off", "on", "over"}]
  /\ running \in BOOLEAN
  /\ runtime \in {"idle", "starting", "ready", "stopping", "stopped", "failed"}
  /\ worker \in {"constructed", "starting", "running", "stopping", "stopped", "failed"}
  /\ claim \in {"none", "asked", "answered"}
  /\ stopRequested \in BOOLEAN

(* Nothing starts, or is asked to stop, before the server listens or fails  *)
(* to.                                                                      *)
NotYetListening ==
  http = "binding" =>
    /\ starting = None /\ runtime = "idle" /\ claim = "none"
    /\ shutdown = "none" /\ \A c \in Components : stop[c] = "none"

(* The indexer is not asked to stop while it starts.                        *)
IndexerUndisturbed ==
  starting = "indexer" => startup = "running" /\ stop["indexer"] = "none"

(* A worker whose stop has been called knows it.                            *)
WorkerTold == stop["agent"] \in {"called", "settled"} => stopRequested = TRUE

LifecycleInv == ProcessTypeOK /\ NotYetListening /\ IndexerUndisturbed /\ WorkerTold

LEMMA LifecycleInit == Init => GatewayTypeOK /\ LifecycleInv
<1>1. GatewayInit => GatewayTypeOK
  BY DEF GatewayInit, GatewayTypeOK
<1>2. Init => LifecycleInv
  <2>1. Init => ProcessTypeOK
    BY DEF Init, ProcessTypeOK, Components
  <2>2. Init => NotYetListening /\ IndexerUndisturbed /\ WorkerTold
    BY NoComponent DEF Init, NotYetListening, IndexerUndisturbed, WorkerTold, Components
  <2>. QED  BY <2>1, <2>2 DEF LifecycleInv
<1>. QED  BY <1>1, <1>2 DEF Init

-----------------------------------------------------------------------------
(* The gateway.                                                             *)

LEMMA SessionTyped ==
  ASSUME GatewayTypeOK, SessionStep
  PROVE  GatewayTypeOK'
<1>1. CASE \E s \in Sessions : Login(s) \/ Logout(s) \/ LoseSessionEnded(s) \/ Expire(s)
  BY <1>1 DEF Login, Logout, LoseSessionEnded, Expire, GatewayTypeOK, socketVars
<1>2. ASSUME NEW s \in Sessions, RaiseSessionEnded(s) PROVE GatewayTypeOK'
  BY <1>2 DEF RaiseSessionEnded, GatewayTypeOK
<1>3. ASSUME NEW k \in Sockets, NEW s \in Sessions, RequestUpgrade(k, s) PROVE GatewayTypeOK'
  BY <1>3, NoneApart DEF RequestUpgrade, GatewayTypeOK, sessionVars
<1>. QED  BY <1>1, <1>2, <1>3 DEF SessionStep

LEMMA HeartbeatTyped ==
  ASSUME GatewayTypeOK, Heartbeat
  PROVE  GatewayTypeOK'
  BY DEF Heartbeat, GatewayTypeOK, sessionVars, Registered

LEMMA SocketTyped ==
  ASSUME GatewayTypeOK, NEW k \in Sockets, SocketStep(k)
  PROVE  GatewayTypeOK'
<1>. USE DEF GatewayTypeOK, sessionVars, Registered
<1>1. CASE CheckAnswered(k)
  BY <1>1 DEF CheckAnswered, ReadSession
<1>2. CASE FinishUpgrade(k)
  <2>1. CASE check[k] = "live" /\ gateway = "attached"
    BY <1>2, <2>1, NoneApart DEF FinishUpgrade
  <2>2. CASE check[k] # "live" \/ gateway # "attached"
    BY <1>2, <2>2, NoneApart DEF FinishUpgrade
  <2>. QED  BY <2>1, <2>2
<1>3. CASE FinishCheck(k)
  BY <1>3 DEF FinishCheck
<1>4. CASE Pong(k)
  BY <1>4 DEF Pong
<1>5. CASE LosePeer(k) \/ PeerCloses(k)
  BY <1>5 DEF LosePeer, PeerCloses
<1>6. CASE SocketClosed(k)
  BY <1>6, NoneApart DEF SocketClosed
<1>. QED  BY <1>1, <1>2, <1>3, <1>4, <1>5, <1>6 DEF SocketStep

(* The shutdown closes it; everything else leaves it alone.                 *)
LEMMA ShutdownTyped ==
  ASSUME GatewayTypeOK, WorkersStopped \/ GatewayStopped
  PROVE  GatewayTypeOK'
<1>1. CASE WorkersStopped
  BY <1>1 DEF WorkersStopped, CloseGateway, GatewayTypeOK, sessionVars
<1>2. CASE GatewayStopped
  BY <1>2 DEF GatewayStopped, GatewayClosed, GatewayTypeOK, sessionVars, socketVars
<1>. QED  BY <1>1, <1>2

LEMMA GatewayUntouched ==
  ASSUME GatewayTypeOK, UNCHANGED gatewayVars
  PROVE  GatewayTypeOK'
  BY DEF GatewayTypeOK, gatewayVars, sessionVars, socketVars

-----------------------------------------------------------------------------
(* The process.                                                             *)

(* Asking for the shutdown asks the agent to stop at most, and the indexer  *)
(* never.                                                                   *)
LEMMA Requesting ==
  ASSUME ProcessTypeOK, NEW c, RequestShutdown(c)
  PROVE  /\ shutdown' \in {shutdown, "workers"}
         /\ stop' \in [Components -> {"none", "requested", "called", "settled"}]
         /\ stop'["indexer"] = stop["indexer"]
         /\ stop'["agent"] \in {stop["agent"], "requested"}
  BY DEF RequestShutdown, ProcessTypeOK, Components, StopsWhileStarting

LEMMA RequestSteps ==
  ASSUME LifecycleInv, Signal \/ ServerError
  PROVE  LifecycleInv'
<1>1. PICK c : RequestShutdown(c)
  BY DEF Signal, ServerError
<1>2. /\ UNCHANGED <<startup, starting, loop, running, runtime, worker, claim, stopRequested>>
      /\ http' \in {"listening", "failed", "closed"}
  BY DEF Signal, ServerError, LifecycleInv, ProcessTypeOK
<1>3. ProcessTypeOK'
  BY <1>1, <1>2, Requesting DEF LifecycleInv, ProcessTypeOK
<1>. QED
  BY <1>1, <1>2, <1>3, Requesting
  DEF LifecycleInv, NotYetListening, IndexerUndisturbed, WorkerTold

LEMMA StartSteps ==
  ASSUME LifecycleInv, StartStep
  PROVE  LifecycleInv'
<1>. USE NoComponent DEF LifecycleInv, ProcessTypeOK, NotYetListening, IndexerUndisturbed, WorkerTold
<1>1. CASE Listen
  BY <1>1 DEF Listen, componentVars, Components
<1>2. CASE IndexerStarted
  <2>1. ProcessTypeOK'
    BY <1>2 DEF IndexerStarted, StartAgentRuntime, Components
  <2>2. NotYetListening' /\ IndexerUndisturbed' /\ WorkerTold'
    BY <1>2 DEF IndexerStarted, StartAgentRuntime, Components
  <2>. QED  BY <2>1, <2>2
<1>3. CASE WorkerStart
  BY <1>3 DEF WorkerStart, processVars
<1>4. CASE FirstClaimAnswered
  <2>1. ProcessTypeOK'
    BY <1>4 DEF FirstClaimAnswered, Components
  <2>2. NotYetListening' /\ IndexerUndisturbed' /\ WorkerTold'
    BY <1>4 DEF FirstClaimAnswered, Components
  <2>. QED  BY <2>1, <2>2
<1>5. CASE IndexerStartFails
  <2>1. ProcessTypeOK'
    BY <1>5, Requesting DEF IndexerStartFails, Components
  <2>2. NotYetListening' /\ IndexerUndisturbed' /\ WorkerTold'
    BY <1>5, Requesting DEF IndexerStartFails, Components
  <2>. QED  BY <2>1, <2>2
<1>6. CASE FirstClaimFails
  <2>1. ProcessTypeOK'
    BY <1>6, Requesting DEF FirstClaimFails, Components
  <2>2. NotYetListening' /\ IndexerUndisturbed' /\ WorkerTold'
    BY <1>6, Requesting DEF FirstClaimFails, Components
  <2>. QED  BY <2>1, <2>2
<1>. QED  BY <1>1, <1>2, <1>3, <1>4, <1>5, <1>6 DEF StartStep

LEMMA StopSteps ==
  ASSUME LifecycleInv, StopProgress \/ AgentLoopEnds
  PROVE  LifecycleInv'
<1>. USE NoComponent
     DEF LifecycleInv, ProcessTypeOK, NotYetListening, IndexerUndisturbed, WorkerTold, Components
<1>1. ASSUME NEW c \in Components, RequestStop(c) PROVE LifecycleInv'
  BY <1>1 DEF RequestStop, processVars
<1>2. CASE CallIndexerStop
  <2>1. ProcessTypeOK'
    <3>1. stop' \in [Components -> {"none", "requested", "called", "settled"}]
      BY <1>2 DEF CallIndexerStop
    <3>2. running' \in BOOLEAN
      BY <1>2 DEF CallIndexerStop
    <3>. QED  BY <1>2, <3>1, <3>2 DEF CallIndexerStop, processVars
  <2>2. NotYetListening' /\ IndexerUndisturbed' /\ WorkerTold'
    BY <1>2 DEF CallIndexerStop, processVars
  <2>. QED  BY <2>1, <2>2
<1>3. CASE CallAgentStop
  <2>1. ProcessTypeOK'
    BY <1>3 DEF CallAgentStop
  <2>2. NotYetListening' /\ IndexerUndisturbed' /\ WorkerTold'
    BY <1>3 DEF CallAgentStop
  <2>. QED  BY <2>1, <2>2
<1>4. CASE IndexerLoopEnds \/ AgentLoopEnds
  BY <1>4 DEF IndexerLoopEnds, AgentLoopEnds, processVars
<1>5. CASE IndexerStopped
  BY <1>5 DEF IndexerStopped, processVars
<1>6. CASE AgentStopped
  BY <1>6 DEF AgentStopped, processVars
<1>7. CASE WorkersStopped \/ GatewayStopped \/ HttpStopped \/ DatabaseClosed
  BY <1>7 DEF WorkersStopped, GatewayStopped, HttpStopped, DatabaseClosed, componentVars
<1>. QED  BY <1>1, <1>2, <1>3, <1>4, <1>5, <1>6, <1>7 DEF StopProgress

LEMMA ProcessUntouched ==
  ASSUME LifecycleInv, UNCHANGED <<processVars, componentVars>>
  PROVE  LifecycleInv'
  BY DEF LifecycleInv, ProcessTypeOK, NotYetListening, IndexerUndisturbed, WorkerTold,
         processVars, componentVars

LEMMA GatewayKept ==
  ASSUME GatewayTypeOK, [Next]_vars
  PROVE  GatewayTypeOK'
<1>1. CASE GatewayStep
  BY <1>1, SessionTyped, HeartbeatTyped, SocketTyped DEF GatewayStep
<1>2. CASE Signal \/ ServerError \/ StartStep \/ AgentLoopEnds \/ Finished \/ UNCHANGED vars
  <2>1. UNCHANGED gatewayVars
    BY <1>2 DEF Signal, ServerError, StartStep, Listen, IndexerStarted, IndexerStartFails, WorkerStart,
       FirstClaimAnswered, FirstClaimFails, AgentLoopEnds, Finished, vars
  <2>. QED  BY <2>1, GatewayUntouched
<1>3. CASE StopProgress
  <2>1. WorkersStopped \/ GatewayStopped \/ UNCHANGED gatewayVars
    BY <1>3 DEF StopProgress, RequestStop, CallIndexerStop, CallAgentStop, IndexerLoopEnds,
       IndexerStopped, AgentStopped, HttpStopped, DatabaseClosed
  <2>. QED  BY <2>1, ShutdownTyped, GatewayUntouched
<1>. QED  BY <1>1, <1>2, <1>3 DEF Next

LEMMA LifecycleKept ==
  ASSUME LifecycleInv, [Next]_vars
  PROVE  LifecycleInv'
<1>1. CASE GatewayStep \/ Finished \/ UNCHANGED vars
  BY <1>1, ProcessUntouched DEF GatewayStep, Finished, vars
<1>. QED  BY <1>1, RequestSteps, StartSteps, StopSteps DEF Next

-----------------------------------------------------------------------------
(* The process is never asked to stop before it could start, no start of    *)
(* the indexer is disturbed, and a worker that is stopped knows it.         *)
THEOREM LifecycleInvariant == Spec => []LifecycleInv
  BY LifecycleInit, LifecycleKept, PTL DEF Spec

(* Every variable of the process, its sessions and sockets keeps its type,  *)
(* and a place for a socket is free exactly when it names no session.       *)
THEOREM LifecycleTypeCorrect == Spec => []TypeOK
<1>1. GatewayTypeOK /\ LifecycleInv => TypeOK
  BY DEF TypeOK, LifecycleInv, ProcessTypeOK
<1>. QED  BY <1>1, LifecycleInit, LifecycleKept, GatewayKept, PTL DEF Spec

(* The loop of a component never starts once its stop has been called,      *)
(* however late the answer that its start was waiting for.                  *)
THEOREM StoppedStaysStopped == Spec => NoRevival
<1>1. ASSUME LifecycleInv, [Next]_vars, NEW c \in Components, loop[c] = "off", loop'[c] = "on"
      PROVE  stop'[c] \in {"none", "requested"}
  <2>. USE DEF LifecycleInv, ProcessTypeOK, Components
  <2>1. \/ IndexerStarted /\ c = "indexer"
        \/ FirstClaimAnswered /\ stopRequested # TRUE /\ c = "agent"
    <3>1. CASE GatewayStep \/ Signal \/ ServerError \/ AgentLoopEnds \/ Finished \/ UNCHANGED vars
      BY <1>1, <3>1 DEF GatewayStep, Signal, ServerError, AgentLoopEnds, Finished, vars, componentVars
    <3>2. CASE StartStep
      BY <1>1, <3>2 DEF StartStep, Listen, IndexerStarted, IndexerStartFails, WorkerStart,
         FirstClaimAnswered, FirstClaimFails, componentVars
    <3>3. CASE StopProgress
      BY <1>1, <3>3 DEF StopProgress, RequestStop, CallIndexerStop, CallAgentStop, IndexerLoopEnds,
         IndexerStopped, AgentStopped, WorkersStopped, GatewayStopped, HttpStopped,
         DatabaseClosed, componentVars
    <3>. QED  BY <1>1, <3>1, <3>2, <3>3 DEF Next
  <2>2. CASE IndexerStarted /\ c = "indexer"
    BY <1>1, <2>2 DEF IndexerStarted, IndexerUndisturbed
  <2>3. CASE FirstClaimAnswered /\ stopRequested # TRUE /\ c = "agent"
    BY <1>1, <2>3 DEF FirstClaimAnswered, WorkerTold
  <2>. QED  BY <2>1, <2>2, <2>3
<1>2. LifecycleInv /\ [Next]_vars =>
        [\A c \in Components :
           loop[c] = "off" /\ loop'[c] = "on" => stop'[c] \in {"none", "requested"}]_vars
  BY <1>1
<1>. QED  BY <1>2, LifecycleInvariant, PTL DEF Spec, NoRevival

-----------------------------------------------------------------------------
(* The order of the shutdown.                                               *)

(* A gateway that is closing lets no socket open, and is closed once the    *)
(* last has gone.                                                           *)
GatewayQuiet ==
  /\ gateway # "attached" => \A k \in Sockets : socket[k] # "open"
  /\ gateway = "closed" => Registered = {}

(* The gateway is closed in its turn, and only then.                        *)
GatewayInTurn ==
  /\ shutdown \in {"none", "workers"} => gateway = "attached"
  /\ shutdown = "gateway" => gateway = "closing"
  /\ shutdown \in {"http", "database", "done"} => gateway = "closed"

(* Components stop in reverse order, and what has stopped stays so.         *)
ComponentsInTurn ==
  /\ shutdown = "none" => \A c \in Components : stop[c] = "none"
  /\ stop["indexer"] # "none" => stop["agent"] = "settled"
  /\ stop["indexer"] = "settled" => loop["indexer"] # "on"
  /\ stop["agent"] = "settled" => worker = "stopped" /\ runtime = "stopped"
  /\ shutdown \in {"gateway", "http", "database", "done"} => stop["indexer"] = "settled"

ServerInTurn == shutdown \in {"database", "done"} => http # "listening"

ShutdownInv == GatewayQuiet /\ GatewayInTurn /\ ComponentsInTurn /\ ServerInTurn

LEMMA ShutdownInit == Init => ShutdownInv
  BY DEF Init, GatewayInit, ShutdownInv, GatewayQuiet, GatewayInTurn, ComponentsInTurn, ServerInTurn,
         Registered, Components

(* What happens to sockets by itself.                                       *)
LEMMA GatewayStepQuiet ==
  ASSUME GatewayTypeOK, ShutdownInv, GatewayStep
  PROVE  ShutdownInv'
<1>1. /\ UNCHANGED <<http, shutdown, stop, loop, worker, runtime>>
      /\ gateway' = gateway
  <2>1. UNCHANGED <<processVars, componentVars>>
    BY DEF GatewayStep
  <2>2. gateway' = gateway
    BY DEF GatewayStep, SessionStep, Login, Logout, RaiseSessionEnded, LoseSessionEnded, Expire,
           RequestUpgrade, Heartbeat, SocketStep, CheckAnswered, ReadSession, FinishUpgrade, FinishCheck,
           Pong, LosePeer, PeerCloses, SocketClosed, socketVars
  <2>. QED  BY <2>1, <2>2 DEF processVars, componentVars
<1>2. ASSUME NEW k \in Sockets
      PROVE  /\ socket'[k] = "open" => socket[k] = "open" \/ gateway = "attached"
             /\ socket'[k] = "closing" => socket[k] \in {"open", "closing"}
  <2>. USE DEF GatewayTypeOK
  <2>1. CASE SessionStep
    BY <2>1 DEF SessionStep, Login, Logout, RaiseSessionEnded, LoseSessionEnded, Expire,
                RequestUpgrade, socketVars
  <2>2. CASE Heartbeat
    BY <2>2 DEF Heartbeat, Registered
  <2>3. ASSUME NEW j \in Sockets, SocketStep(j)
        PROVE  /\ socket'[k] = "open" => socket[k] = "open" \/ gateway = "attached"
               /\ socket'[k] = "closing" => socket[k] \in {"open", "closing"}
    <3>1. CASE CheckAnswered(j) \/ Pong(j) \/ LosePeer(j)
      BY <3>1 DEF CheckAnswered, ReadSession, Pong, LosePeer
    <3>2. CASE FinishUpgrade(j)
      BY <3>2 DEF FinishUpgrade
    <3>3. CASE FinishCheck(j)
      BY <3>3 DEF FinishCheck, Registered
    <3>4. CASE PeerCloses(j) \/ SocketClosed(j)
      BY <3>4 DEF PeerCloses, SocketClosed
    <3>. QED  BY <2>3, <3>1, <3>2, <3>3, <3>4 DEF SocketStep
  <2>. QED  BY <2>1, <2>2, <2>3 DEF GatewayStep
<1>3. GatewayQuiet'
  BY <1>1, <1>2 DEF ShutdownInv, GatewayQuiet, Registered
<1>. QED
  BY <1>1, <1>3 DEF ShutdownInv, GatewayInTurn, ComponentsInTurn, ServerInTurn

(* A request for the shutdown asks a component at most, and before anything *)
(* has stopped.                                                             *)
LEMMA RequestInTurn ==
  ASSUME LifecycleInv, ShutdownInv, NEW c, RequestShutdown(c),
         gateway' = gateway, socket' = socket, loop' = loop,
         stop["agent"] = "settled" => worker' = worker /\ runtime' = runtime,
         http' = http \/ http' # "listening"
  PROVE  ShutdownInv'
<1>1. \/ shutdown' = shutdown /\ stop' = stop
      \/ /\ shutdown = "none" /\ shutdown' = "workers"
         /\ stop["agent"] = "none" /\ stop["indexer"] = "none"
         /\ stop'["indexer"] = "none" /\ stop'["agent"] \in {"none", "requested"}
  BY DEF RequestShutdown, ShutdownInv, ComponentsInTurn, Components, StopsWhileStarting,
         LifecycleInv, ProcessTypeOK
<1>2. GatewayQuiet' /\ GatewayInTurn'
  BY <1>1 DEF ShutdownInv, GatewayQuiet, GatewayInTurn, Registered
<1>3. ComponentsInTurn' /\ ServerInTurn'
  BY <1>1 DEF ShutdownInv, ComponentsInTurn, ServerInTurn, Components
<1>. QED  BY <1>2, <1>3 DEF ShutdownInv

LEMMA StartInTurn ==
  ASSUME LifecycleInv, ShutdownInv, Signal \/ ServerError \/ StartStep
  PROVE  ShutdownInv'
<1>1. gateway' = gateway /\ socket' = socket
  BY DEF Signal, ServerError, StartStep, Listen, IndexerStarted, IndexerStartFails, WorkerStart,
         FirstClaimAnswered, FirstClaimFails, gatewayVars, socketVars
<1>2. CASE Signal \/ ServerError \/ IndexerStartFails
  BY <1>1, <1>2, RequestInTurn DEF Signal, ServerError, IndexerStartFails
<1>3. CASE FirstClaimFails
  <2>1. stop["agent"] = "settled" => worker = "stopped" /\ runtime = "stopped" /\ stopRequested = TRUE
    BY DEF ShutdownInv, ComponentsInTurn, LifecycleInv, WorkerTold
  <2>2. loop' = loop /\ http' = http /\ (stop["agent"] = "settled" => worker' = worker /\ runtime' = runtime)
    BY <1>3, <2>1 DEF FirstClaimFails
  <2>3. CASE stopRequested = TRUE
    <3>1. UNCHANGED <<shutdown, stop>>
      BY <1>3, <2>3 DEF FirstClaimFails
    <3>. QED
      BY <1>1, <2>2, <3>1
      DEF ShutdownInv, GatewayQuiet, GatewayInTurn, ComponentsInTurn, ServerInTurn, Registered, Components
  <2>4. CASE stopRequested # TRUE
    <3>1. RequestShutdown("agent")
      BY <1>3, <2>4 DEF FirstClaimFails, LifecycleInv, ProcessTypeOK
    <3>. QED  BY <1>1, <2>2, <3>1, RequestInTurn
  <2>. QED  BY <2>3, <2>4
<1>4. CASE Listen \/ IndexerStarted \/ WorkerStart \/ FirstClaimAnswered
  <2>1. UNCHANGED <<shutdown, stop>>
    BY <1>4 DEF Listen, IndexerStarted, WorkerStart, FirstClaimAnswered, processVars, componentVars
  <2>2. GatewayQuiet' /\ GatewayInTurn'
    BY <1>1, <2>1 DEF ShutdownInv, GatewayQuiet, GatewayInTurn, Registered
  <2>3. ServerInTurn'
    BY <1>4, <2>1 DEF Listen, IndexerStarted, WorkerStart, FirstClaimAnswered, processVars,
       ShutdownInv, ServerInTurn, LifecycleInv, NotYetListening
  <2>4. stop["indexer"] = "settled" => loop'["indexer"] # "on"
    BY <1>4 DEF Listen, IndexerStarted, WorkerStart, FirstClaimAnswered, componentVars,
       ShutdownInv, ComponentsInTurn, LifecycleInv, ProcessTypeOK, IndexerUndisturbed, Components
  <2>5. stop["agent"] = "settled" => worker' = "stopped" /\ runtime' = "stopped"
    <3>1. stop["agent"] = "settled" => worker = "stopped" /\ runtime = "stopped" /\ stopRequested = TRUE
                                         /\ shutdown # "none"
      BY DEF ShutdownInv, ComponentsInTurn, LifecycleInv, WorkerTold, Components
    <3>. QED
      BY <1>4, <3>1 DEF Listen, IndexerStarted, StartAgentRuntime, WorkerStart, FirstClaimAnswered, componentVars
  <2>. QED  BY <2>1, <2>2, <2>3, <2>4, <2>5 DEF ShutdownInv, ComponentsInTurn
<1>. QED  BY <1>2, <1>3, <1>4 DEF StartStep

LEMMA StopInTurn ==
  ASSUME LifecycleInv, ShutdownInv, StopProgress \/ AgentLoopEnds
  PROVE  ShutdownInv'
<1>. USE DEF ShutdownInv, ComponentsInTurn, ServerInTurn, GatewayInTurn, Components
<1>1. CASE \/ \E c \in Components : RequestStop(c)
           \/ CallIndexerStop \/ CallAgentStop \/ IndexerLoopEnds \/ AgentLoopEnds
           \/ IndexerStopped \/ AgentStopped
  <2>1. gateway' = gateway /\ socket' = socket /\ http' = http /\ shutdown' = shutdown
    BY <1>1 DEF RequestStop, CallIndexerStop, CallAgentStop, IndexerLoopEnds, AgentLoopEnds, IndexerStopped,
       AgentStopped, gatewayVars, socketVars, processVars
  <2>2. GatewayQuiet' /\ GatewayInTurn' /\ ServerInTurn'
    BY <2>1 DEF GatewayQuiet, Registered
  <2>3. ComponentsInTurn'
    <3>. USE DEF LifecycleInv, ProcessTypeOK
    <3>1. ASSUME NEW c \in Components, RequestStop(c) PROVE ComponentsInTurn'
      BY <2>1, <3>1 DEF RequestStop
    <3>2. CASE CallIndexerStop
      BY <2>1, <3>2 DEF CallIndexerStop
    <3>3. CASE CallAgentStop
      BY <2>1, <3>3 DEF CallAgentStop
    <3>4. CASE IndexerLoopEnds \/ AgentLoopEnds
      BY <2>1, <3>4 DEF IndexerLoopEnds, AgentLoopEnds
    <3>5. CASE IndexerStopped
      BY <2>1, <3>5 DEF IndexerStopped
    <3>6. CASE AgentStopped
      BY <2>1, <3>6 DEF AgentStopped
    <3>. QED  BY <1>1, <3>1, <3>2, <3>3, <3>4, <3>5, <3>6
  <2>. QED  BY <2>2, <2>3
<1>2. CASE WorkersStopped
  <2>1. GatewayQuiet'
    BY <1>2 DEF WorkersStopped, CloseGateway, GatewayQuiet
  <2>. QED  BY <1>2, <2>1 DEF WorkersStopped, CloseGateway, componentVars
<1>3. CASE GatewayStopped
  <2>1. GatewayQuiet'
    BY <1>3 DEF GatewayStopped, GatewayClosed, GatewayQuiet, Registered, socketVars
  <2>. QED  BY <1>3, <2>1 DEF GatewayStopped, GatewayClosed, componentVars
<1>4. CASE HttpStopped \/ DatabaseClosed
  <2>1. GatewayQuiet'
    BY <1>4 DEF HttpStopped, DatabaseClosed, GatewayQuiet, Registered, gatewayVars, socketVars
  <2>. QED  BY <1>4, <2>1 DEF HttpStopped, DatabaseClosed, componentVars, gatewayVars
<1>. QED  BY <1>1, <1>2, <1>3, <1>4 DEF StopProgress

LEMMA ShutdownKept ==
  ASSUME GatewayTypeOK, LifecycleInv, ShutdownInv, [Next]_vars
  PROVE  ShutdownInv'
<1>1. CASE Finished \/ UNCHANGED vars
  BY <1>1 DEF Finished, vars, gatewayVars, socketVars, processVars, componentVars, ShutdownInv,
     GatewayQuiet, GatewayInTurn, ComponentsInTurn, ServerInTurn, Registered
<1>. QED  BY <1>1, GatewayStepQuiet, StartInTurn, StopInTurn DEF Next

LEMMA ShutdownInvariant == Spec => [](GatewayTypeOK /\ LifecycleInv /\ ShutdownInv)
  BY LifecycleInit, LifecycleKept, GatewayKept, ShutdownInit, ShutdownKept, PTL DEF Spec

(* The shutdown closes nothing that is still in use: the gateway closes     *)
(* only after the loop of the indexer and the agent worker have stopped,    *)
(* the HTTP server only after the last socket has gone, and the database    *)
(* after all of them; nothing comes back meanwhile, whatever the start was  *)
(* still waiting for when the shutdown was requested.  What the agent       *)
(* worker executes is the exception: its stop does not wait for it for ever.*)
THEOREM ShutdownInOrder ==
  Spec => [](/\ shutdown \in {"gateway", "http", "database", "done"} =>
                  /\ loop["indexer"] # "on"
                  /\ worker = "stopped" /\ runtime = "stopped"
                  /\ \A k \in Sockets : socket[k] # "open"
             /\ shutdown \in {"http", "database", "done"} => Registered = {}
             /\ shutdown \in {"database", "done"} => http # "listening")
<1>1. GatewayTypeOK /\ LifecycleInv /\ ShutdownInv =>
        /\ shutdown \in {"gateway", "http", "database", "done"} =>
             /\ loop["indexer"] # "on"
             /\ worker = "stopped" /\ runtime = "stopped"
             /\ \A k \in Sockets : socket[k] # "open"
        /\ shutdown \in {"http", "database", "done"} => Registered = {}
        /\ shutdown \in {"database", "done"} => http # "listening"
  BY DEF ShutdownInv, GatewayQuiet, GatewayInTurn, ComponentsInTurn, ServerInTurn
<1>. QED  BY <1>1, ShutdownInvariant, PTL
=============================================================================
