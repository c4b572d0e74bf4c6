---------------------------- MODULE StatusProofs ----------------------------
(***************************************************************************)
(* Theorems about Status, for any jobs, probes and number of connections.  *)
(***************************************************************************)
EXTENDS Status, FiniteSetTheorems, TLAPS

LEMMA TypeStep ==
  ASSUME TypeOK, [Next]_vars
  PROVE  TypeOK'
<1> USE DEF TypeOK, serverVars, countVars, Rest, ProbeStep, Disconnected, Final, States
<1>1. CASE StartConnecting \/ Register \/ SocketCloses \/ ServingEnds \/ ConnectingFails
  BY <1>1 DEF StartConnecting, Register, SocketCloses, ServingEnds, ConnectingFails
<1>2. CASE Drain \/ Aclose \/ ConnectionCancelled \/ RunEnds \/ ChangeHealth
  BY <1>2 DEF Drain, Aclose, ConnectionCancelled, RunEnds, ChangeHealth
<1>3. ASSUME NEW e \in Executor, UpdateJobStatus(e) PROVE TypeOK'
  BY <1>3 DEF UpdateJobStatus, ObserveJob
<1>4. ASSUME NEW e \in Executor, JobRuns(e) PROVE TypeOK'
  BY <1>4 DEF JobRuns
<1>5. ASSUME NEW e \in Executor, NEW result \in {"success", "failed"}, JobEnds(e, result)
      PROVE  TypeOK'
  BY <1>5 DEF JobEnds
<1>6. ASSUME NEW p \in Probe, AskHealth(p) \/ SdkHealth(p) \/ Ready(p) PROVE TypeOK'
  BY <1>6 DEF AskHealth, SdkHealth, Ready
<1>7. CASE UNCHANGED vars
  BY <1>7 DEF vars
<1>8. QED
  BY <1>1, <1>2, <1>3, <1>4, <1>5, <1>6, <1>7 DEF Next

LEMMA ConnectionStep ==
  ASSUME TypeOK, ConnectionInv, [Next]_vars
  PROVE  ConnectionInv'
<1> USE DEF TypeOK, ConnectionInv, serverVars, Disconnected, Final
<1>1. CASE StartConnecting \/ Register \/ SocketCloses \/ ServingEnds \/ ConnectingFails
  BY <1>1 DEF StartConnecting, Register, SocketCloses, ServingEnds, ConnectingFails
<1>2. CASE Drain \/ Aclose \/ ConnectionCancelled \/ RunEnds
  BY <1>2 DEF Drain, Aclose, ConnectionCancelled, RunEnds
<1>3. CASE UNCHANGED serverVars
  BY <1>3
<1>4. QED
  BY <1>1, <1>2, <1>3 DEF Next, vars, ChangeHealth, UpdateJobStatus, JobRuns, JobEnds, AskHealth,
     SdkHealth, Ready, ProbeStep

\* The state of the hooks agrees with the connection task.
THEOREM ConnectionIsInvariant == Spec => [](TypeOK /\ ConnectionInv)
<1>1. Init => TypeOK /\ ConnectionInv
  BY DEF Init, TypeOK, ConnectionInv, Final, States
<1>2. TypeOK /\ ConnectionInv /\ [Next]_vars => TypeOK' /\ ConnectionInv'
  BY TypeStep, ConnectionStep
<1>3. QED
  BY <1>1, <1>2, PTL DEF Spec

\* snapshot() reports a connection only while its socket is served.
THEOREM ConnectionReported == Spec => []ConnectionIsReported
<1>1. ConnectionInv => ConnectionIsReported
  BY DEF ConnectionInv, ConnectionIsReported, Connected
<1>2. QED
  BY <1>1, ConnectionIsInvariant, PTL

\* /readyz answers 200 only of a served socket of a worker that neither drains nor stops,
\* although it asked for the SDK's health some time before.
THEOREM ReadyzIsTrue == Spec => ReadyAnswerIsTrue
<1> DEFINE Answer == \A p \in Probe :
                       probe[p] # "ready" /\ probe'[p] = "ready" =>
                         link = "serving" /\ socketOpen /\ ~draining /\ ~closing
<1>1. TypeOK /\ ConnectionInv /\ [Next]_vars => [Answer]_vars
  <2> SUFFICES ASSUME TypeOK, ConnectionInv, Next, NEW p \in Probe,
                      probe[p] # "ready", probe'[p] = "ready"
               PROVE  link = "serving" /\ socketOpen /\ ~draining /\ ~closing
    OBVIOUS
  <2>1. PICK q \in Probe : Ready(q)
    BY DEF Next, StartConnecting, Register, SocketCloses, ServingEnds, ConnectingFails, Drain, Aclose,
       ConnectionCancelled, RunEnds, ChangeHealth, UpdateJobStatus, JobRuns, JobEnds, AskHealth,
       SdkHealth, ProbeStep, Rest, TypeOK
  <2>2. q = p
    BY <2>1 DEF Ready, TypeOK
  <2>3. QED
    BY <2>1, <2>2 DEF Ready, Connected, ConnectionInv, TypeOK
<1>2. QED
  BY <1>1, ConnectionIsInvariant, PTL DEF ReadyAnswerIsTrue, Spec

\* No hook that runs after aclose() or run() makes the worker connect again.
THEOREM StoppingStays == Spec => StoppingIsFinal
<1>1. TypeOK /\ ConnectionInv /\ [Next]_vars
      => [(connectionState \in {"stopping", "stopped"}
             => connectionState' \in {"stopping", "stopped"})]_vars
  <2> SUFFICES ASSUME TypeOK, ConnectionInv, Next, connectionState \in {"stopping", "stopped"}
               PROVE  connectionState' \in {"stopping", "stopped"}
    OBVIOUS
  <2> USE DEF ConnectionInv, serverVars, Disconnected, Final
  <2>1. CASE StartConnecting \/ Register \/ SocketCloses \/ ServingEnds \/ ConnectingFails
    BY <2>1 DEF StartConnecting, Register, SocketCloses, ServingEnds, ConnectingFails
  <2>2. CASE Drain \/ Aclose \/ ConnectionCancelled \/ RunEnds
    BY <2>2 DEF Drain, Aclose, ConnectionCancelled, RunEnds
  <2>3. CASE UNCHANGED serverVars
    BY <2>3
  <2>4. QED
    BY <2>1, <2>2, <2>3 DEF Next, ChangeHealth, UpdateJobStatus, JobRuns, JobEnds, AskHealth,
       SdkHealth, Ready, ProbeStep
<1>2. QED
  BY <1>1, ConnectionIsInvariant, PTL DEF StoppingIsFinal, Spec

-----------------------------------------------------------------------------
\* The session counters.

\* The executors whose job was last seen in one of these states.
Jobs(states) == {e \in Executor : jobs[e] \in states}

LEMMA JobsFinite ==
  ASSUME NEW states
  PROVE  IsFiniteSet(Jobs(states)) /\ Cardinality(Jobs(states)) \in Nat
BY ExecutorAssumption, FS_Subset, FS_CardinalityType DEF Jobs

\* A job that changes its state is counted at most once more or once less.
LEMMA JobsStep ==
  ASSUME TypeOK, NEW e \in Executor, NEW state, NEW states,
         jobs' = [jobs EXCEPT ![e] = state]
  PROVE  Cardinality(Jobs(states)') =
           CASE state \in states /\ jobs[e] \notin states -> Cardinality(Jobs(states)) + 1
             [] state \notin states /\ jobs[e] \in states -> Cardinality(Jobs(states)) - 1
             [] OTHER -> Cardinality(Jobs(states))
<1>1. jobs'[e] = state /\ \A k \in Executor \ {e} : jobs'[k] = jobs[k]
  BY DEF TypeOK
<1>2. Jobs(states)' = IF state \in states THEN Jobs(states) \cup {e} ELSE Jobs(states) \ {e}
  BY <1>1 DEF Jobs
<1>3. e \in Jobs(states) <=> jobs[e] \in states
  BY DEF Jobs
<1>4. CASE state \in states
  BY <1>2, <1>3, <1>4, JobsFinite, FS_AddElement
<1>5. CASE state \notin states
  BY <1>2, <1>3, <1>5, JobsFinite, FS_RemoveElement
<1>6. QED
  BY <1>4, <1>5

\* observe_job counts what it records.
LEMMA ObserveAddsUp ==
  ASSUME TypeOK, SessionsAddUp, NEW e \in Executor,
         NEW state \in {"running", "success", "failed"}, ObserveJob(e, state)
  PROVE  SessionsAddUp'
<1> DEFINE R == Cardinality(Jobs({"running"}))
           P == Cardinality(Jobs({"success", "failed"}))
           F == Cardinality(Jobs({"failed"}))
<1>1. active = R /\ processed = P /\ failed = F /\ started = active + processed
  BY DEF SessionsAddUp, Jobs
<1>2. R \in Nat /\ P \in Nat /\ F \in Nat
  BY JobsFinite
<1>3. SUFFICES active' = R' /\ processed' = P' /\ failed' = F' /\ started' = active' + processed'
  BY DEF SessionsAddUp, Jobs
<1> HIDE DEF R, P, F
<1>4. CASE jobs[e] \in {"success", "failed"} \/ (jobs[e] = "running" /\ state = "running")
  <2>1. jobs' = jobs
    BY <1>4 DEF ObserveJob, TypeOK
  <2>2. R' = R /\ P' = P /\ F' = F
    BY <2>1 DEF R, P, F, Jobs
  <2>3. QED
    BY <1>1, <1>2, <1>4, <2>2 DEF ObserveJob
<1>5. CASE jobs[e] \in {"none", "running"} /\ state # jobs[e]
  <2>1. jobs' = [jobs EXCEPT ![e] = state]
    BY <1>5 DEF ObserveJob
  <2>2. R' = IF state = "running" THEN R + 1 ELSE IF jobs[e] = "running" THEN R - 1 ELSE R
    <3>1. /\ state \in {"running"} <=> state = "running"
          /\ jobs[e] \in {"running"} <=> jobs[e] = "running"
      OBVIOUS
    <3>2. R' = CASE state \in {"running"} /\ jobs[e] \notin {"running"} -> R + 1
                 [] state \notin {"running"} /\ jobs[e] \in {"running"} -> R - 1
                 [] OTHER -> R
      BY <2>1, JobsStep DEF R
    <3>3. QED
      BY <1>5, <3>1, <3>2
  <2>3. P' = IF state = "running" THEN P ELSE P + 1
    <3>1. jobs[e] \notin {"success", "failed"}
      BY <1>5
    <3>2. P' = IF state \in {"success", "failed"} THEN P + 1 ELSE P
      BY <2>1, <3>1, JobsStep DEF P
    <3>3. state = "running" <=> state \notin {"success", "failed"}
      OBVIOUS
    <3>4. QED
      BY <3>2, <3>3
  <2>4. F' = IF state = "failed" THEN F + 1 ELSE F
    <3>1. jobs[e] \notin {"failed"} /\ (state \in {"failed"} <=> state = "failed")
      BY <1>5
    <3>2. F' = CASE state \in {"failed"} /\ jobs[e] \notin {"failed"} -> F + 1
                 [] state \notin {"failed"} /\ jobs[e] \in {"failed"} -> F - 1
                 [] OTHER -> F
      BY <2>1, JobsStep DEF F
    <3>3. QED
      BY <3>1, <3>2
  <2>5. QED
    BY <1>1, <1>2, <1>5, <2>2, <2>3, <2>4 DEF ObserveJob
<1>6. QED
  BY <1>4, <1>5 DEF TypeOK

\* However often and late the SDK's callbacks come, the counters agree with the jobs.
THEOREM SessionsAlwaysAddUp == Spec => []SessionsAddUp
<1>1. Init => SessionsAddUp
  BY FS_EmptySet DEF Init, SessionsAddUp
<1>2. TypeOK /\ SessionsAddUp /\ [Next]_vars => SessionsAddUp'
  <2> SUFFICES ASSUME TypeOK, SessionsAddUp, [Next]_vars PROVE SessionsAddUp'
    OBVIOUS
  <2>1. ASSUME NEW e \in Executor, UpdateJobStatus(e) PROVE SessionsAddUp'
    BY <2>1, ObserveAddsUp DEF UpdateJobStatus, TypeOK
  <2>2. CASE UNCHANGED <<jobs, countVars>>
    BY <2>2 DEF SessionsAddUp, countVars
  <2>3. QED
    BY <2>1, <2>2 DEF Next, vars, Rest, ProbeStep, StartConnecting, Register, SocketCloses, ServingEnds,
       ConnectingFails, Drain, Aclose, ConnectionCancelled, RunEnds, ChangeHealth, JobRuns, JobEnds,
       AskHealth, SdkHealth, Ready
<1>3. QED
  BY <1>1, <1>2, ConnectionIsInvariant, PTL DEF Spec
=============================================================================
