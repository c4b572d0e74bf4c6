------------------------------- MODULE Status -------------------------------
(***************************************************************************)
(* The parent worker process: MonitoredAgentServer (monitored_server.py)   *)
(* feeds WorkerStatus (status.py) from three hooks of the SDK, and the     *)
(* HTTP endpoints report it.  /readyz awaits the SDK's own health check    *)
(* between the request and the snapshot it answers from.                   *)
(*                                                                         *)
(* The SDK (AgentServer) is external: its connection task registers,       *)
(* serves, loses the socket, retries, gives up, or is cancelled by aclose; *)
(* its job executors report their status any number of times.              *)
(***************************************************************************)
EXTENDS Naturals, FiniteSets

CONSTANTS
  Executor,        \* job executors, one per dispatched job
  Probe,           \* concurrent requests of /readyz
  MaxConnections   \* bound on registrations

ASSUME ExecutorAssumption == IsFiniteSet(Executor)
ASSUME MaxConnectionsAssumption == MaxConnections \in Nat

VARIABLES
  connectionState,  \* WorkerStatus.connection_state
  websocket,        \* WorkerStatus.websocket is not None
  connections,      \* WorkerStatus.connections
  jobs,             \* WorkerStatus.jobs, "none" for an executor not seen yet
  started, active, processed, failed,   \* the session counters
  probe,            \* where each request of /readyz is
  link,             \* the SDK's connection task
  socketOpen,       \* the registered socket has not been closed
  executor,         \* the SDK's status of each executor
  sdkHealthy, draining, closing, ended  \* SDK health, drain, aclose, run() returned

countVars == <<started, active, processed, failed>>
serverVars == <<connectionState, websocket, connections, link, socketOpen,
                draining, closing, ended>>
vars == <<serverVars, jobs, countVars, probe, executor, sdkHealthy>>

Final == {"stopping", "stopped", "failed"}
States == Final \cup {"starting", "connecting", "connected", "reconnecting"}

\* Mutant: the state is overwritten whatever it was.
DisconnectedAlways ==
  /\ websocket' = FALSE
  /\ connectionState' = IF connections > 0 THEN "reconnecting" ELSE "connecting"

\* WorkerStatus.disconnected
Disconnected ==
  /\ websocket' = FALSE
  /\ connectionState' =
       IF connectionState \in Final THEN connectionState
       ELSE IF connections > 0 THEN "reconnecting" ELSE "connecting"

\* Mutant: a socket counts as connected until the hook drops it.
ConnectedIfHeld == websocket

\* snapshot()["connection"]["connected"]
Connected == websocket /\ socketOpen

-----------------------------------------------------------------------------
\* The connection task and the life of the server.

Rest == UNCHANGED <<jobs, countVars, probe, executor, sdkHealthy>>

StartConnecting ==
  /\ link = "idle" /\ ~closing /\ ~ended
  /\ link' = "connecting"
  /\ connectionState' = "connecting"
  /\ UNCHANGED <<websocket, connections, socketOpen, draining, closing, ended>> /\ Rest

\* _run_ws is entered after a successful registration handshake.
Register ==
  /\ link = "connecting" /\ ~closing
  /\ connections < MaxConnections
  /\ link' = "serving" /\ socketOpen' = TRUE
  /\ websocket' = TRUE
  /\ connectionState' = "connected"
  /\ connections' = connections + 1
  /\ UNCHANGED <<draining, closing, ended>> /\ Rest

\* The peer closes the socket; _run_ws has not noticed yet.
SocketCloses ==
  /\ socketOpen
  /\ socketOpen' = FALSE
  /\ UNCHANGED <<connectionState, websocket, connections, link, draining, closing, ended>>
  /\ Rest

\* _run_ws returns or raises, and the SDK will register again.
ServingEnds ==
  /\ link = "serving" /\ ~closing
  /\ link' = "connecting" /\ socketOpen' = FALSE
  /\ Disconnected
  /\ UNCHANGED <<connections, draining, closing, ended>> /\ Rest

\* The SDK gives up: _connection_task raises.
ConnectingFails ==
  /\ link = "connecting" /\ ~closing
  /\ link' = "over"
  /\ connectionState' = "failed"
  /\ websocket' = FALSE
  /\ UNCHANGED <<connections, socketOpen, draining, closing, ended>> /\ Rest

Drain ==
  /\ ~draining
  /\ draining' = TRUE
  /\ UNCHANGED <<connectionState, websocket, connections, link, socketOpen, closing, ended>>
  /\ Rest

\* Mutant: the socket is still reported while the server stops.
AcloseKeepsSocket ==
  /\ closing' = TRUE
  /\ connectionState' = "stopping"
  /\ UNCHANGED <<websocket, connections, link, socketOpen, draining, ended>> /\ Rest

\* aclose(); the SDK then cancels its connection task.
Aclose ==
  /\ closing' = TRUE
  /\ connectionState' = "stopping"
  /\ websocket' = FALSE
  /\ UNCHANGED <<connections, link, socketOpen, draining, ended>> /\ Rest

\* The cancellation unwinds _run_ws and _connection_task.
ConnectionCancelled ==
  /\ closing /\ link \in {"connecting", "serving"}
  /\ link' = "over" /\ socketOpen' = FALSE
  /\ Disconnected
  /\ UNCHANGED <<connections, draining, closing, ended>> /\ Rest

\* The finally clause of run().
RunEnds ==
  /\ ~ended
  /\ link = "over" \/ (link = "idle" /\ closing)
  /\ ended' = TRUE
  /\ connectionState' = "stopped"
  /\ websocket' = FALSE
  /\ UNCHANGED <<connections, link, socketOpen, draining, closing>> /\ Rest

-----------------------------------------------------------------------------
\* Jobs.

\* Mutant: every callback of a finished job is counted.
ObserveEveryJob(e, state) ==
  /\ jobs' = [jobs EXCEPT ![e] = state]
  /\ started' = started + (IF jobs[e] = "none" THEN 1 ELSE 0)
  /\ active' = active + (IF jobs[e] = "none" THEN 1 ELSE 0)
                      - (IF state # "running" /\ active > 0 THEN 1 ELSE 0)
  /\ processed' = processed + (IF state # "running" THEN 1 ELSE 0)
  /\ failed' = failed + (IF state = "failed" THEN 1 ELSE 0)

\* WorkerStatus.observe_job
ObserveJob(e, state) ==
  LET new == IF jobs[e] = "none" THEN 1 ELSE 0
      over == IF jobs[e] \in {"none", "running"} /\ state # "running" THEN 1 ELSE 0
  IN  /\ jobs' = [jobs EXCEPT ![e] = IF over = 1 THEN state
                                     ELSE IF new = 1 THEN "running" ELSE @]
      /\ started' = started + new
      /\ active' = active + new - over
      /\ processed' = processed + over
      /\ failed' = failed + (IF state = "failed" THEN over ELSE 0)

\* The SDK calls back with whatever the executor's status is now, as often as it
\* likes; the first callback may already find the job over.
UpdateJobStatus(e) ==
  /\ executor[e] # "none"
  /\ ObserveJob(e, executor[e])
  /\ UNCHANGED <<serverVars, probe, executor, sdkHealthy>>

JobRuns(e) ==
  /\ executor[e] = "none" /\ ~ended
  /\ executor' = [executor EXCEPT ![e] = "running"]
  /\ UNCHANGED <<serverVars, jobs, countVars, probe, sdkHealthy>>

JobEnds(e, result) ==
  /\ executor[e] = "running"
  /\ executor' = [executor EXCEPT ![e] = result]
  /\ UNCHANGED <<serverVars, jobs, countVars, probe, sdkHealthy>>

-----------------------------------------------------------------------------
\* /readyz

ChangeHealth ==
  /\ sdkHealthy' = ~sdkHealthy
  /\ UNCHANGED <<serverVars, jobs, countVars, probe, executor>>

ProbeStep == UNCHANGED <<serverVars, jobs, countVars, executor, sdkHealthy>>

AskHealth(p) ==
  /\ probe[p] \in {"idle", "ready", "notReady"} /\ ~ended
  /\ probe' = [probe EXCEPT ![p] = "asking"]
  /\ ProbeStep

\* sdk_health: the SDK's status code, or False on a timeout or any exception.
SdkHealth(p) ==
  /\ probe[p] = "asking"
  /\ \E healthy \in {sdkHealthy, FALSE} :
       probe' = [probe EXCEPT ![p] = IF healthy THEN "healthy" ELSE "unhealthy"]
  /\ ProbeStep

\* The answer is taken from a snapshot made after the await.
Ready(p) ==
  /\ probe[p] \in {"healthy", "unhealthy"}
  /\ LET isReady == /\ Connected /\ ~draining
                    /\ connectionState = "connected" /\ probe[p] = "healthy"
     IN  probe' = [probe EXCEPT ![p] = IF isReady THEN "ready" ELSE "notReady"]
  /\ ProbeStep

-----------------------------------------------------------------------------
Init ==
  /\ connectionState = "starting" /\ websocket = FALSE /\ connections = 0
  /\ jobs = [e \in Executor |-> "none"]
  /\ started = 0 /\ active = 0 /\ processed = 0 /\ failed = 0
  /\ probe = [p \in Probe |-> "idle"]
  /\ link = "idle" /\ socketOpen = FALSE
  /\ executor = [e \in Executor |-> "none"]
  /\ sdkHealthy = FALSE /\ draining = FALSE /\ closing = FALSE /\ ended = FALSE

Next ==
  \/ StartConnecting
  \/ Register
  \/ SocketCloses
  \/ ServingEnds
  \/ ConnectingFails
  \/ Drain
  \/ Aclose
  \/ ConnectionCancelled
  \/ RunEnds
  \/ ChangeHealth
  \/ \E e \in Executor :
       \/ UpdateJobStatus(e)
       \/ JobRuns(e)
       \/ \E result \in {"success", "failed"} : JobEnds(e, result)
  \/ \E p \in Probe : AskHealth(p) \/ SdkHealth(p) \/ Ready(p)

Spec == Init /\ [][Next]_vars

-----------------------------------------------------------------------------
\* Type invariant of the worker process.
TypeOK ==
  /\ connectionState \in States
  /\ link \in {"idle", "connecting", "serving", "over"}
  /\ jobs \in [Executor -> {"none", "running", "success", "failed"}]
  /\ executor \in [Executor -> {"none", "running", "success", "failed"}]
  /\ probe \in [Probe -> {"idle", "asking", "healthy", "unhealthy", "ready", "notReady"}]
  /\ {websocket, socketOpen, sdkHealthy, draining, closing, ended} \subseteq BOOLEAN

\* The inductive invariant behind what is reported of the connection: the hooks hold a
\* socket only while the connection task serves it, and a worker that began to stop does
\* not connect again.
ConnectionInv ==
  /\ websocket => connectionState = "connected" /\ link = "serving" /\ ~closing
  /\ connectionState \in {"stopping", "stopped"} => closing \/ ended
  /\ ended => link = "over" \/ (link = "idle" /\ closing)

\* README "while that socket is open": whatever order registration, loss, retry and
\* shutdown come in, "connected" is reported only for the socket being served, and
\* then the state agrees.
ConnectionIsReported ==
  Connected => connectionState = "connected" /\ link = "serving" /\ ~closing

\* README "readyz: 200 only after registration, while that socket is open, the worker
\* is not draining/stopping": true of the moment of the answer, although the socket,
\* drain and aclose may all change while the health check is awaited.
ReadyAnswerIsTrue ==
  [][ \A p \in Probe :
        probe[p] # "ready" /\ probe'[p] = "ready" =>
          link = "serving" /\ socketOpen /\ ~draining /\ ~closing ]_vars

\* The session counters agree with each other and with the jobs seen, whatever
\* callbacks are repeated, late, or skipped: no job is counted twice or lost.
SessionsAddUp ==
  LET In(states) == Cardinality({e \in Executor : jobs[e] \in states})
  IN  /\ active = In({"running"})
      /\ processed = In({"success", "failed"})
      /\ failed = In({"failed"})
      /\ started = active + processed

\* A worker that began to stop never reports that it connects again: the hooks that
\* unwind after aclose leave the state alone.
StoppingIsFinal ==
  [][ (connectionState \in {"stopping", "stopped"} =>
         connectionState' \in {"stopping", "stopped"}) ]_vars

=============================================================================
