---------------------------- MODULE ContainedProofs ----------------------------
(***************************************************************************)
(* Proofs about ContainedRun, for every set of compositions and of         *)
(* connections, every number of faults and of pushes by others, with and   *)
(* without a job that kills its processes.                                 *)
(***************************************************************************)
EXTENDS ContainedInvariant, TLAPS

(* The stretches of the thread and the parts of the invariant are visible  *)
(* in the proofs about single actions.                                     *)
USE DEF BeforeBind, BeforeSpawn, Running, Closing, Disposing, Freeing, Reporting,
        AfterFree, PcType, Enforced,
        ContainedInv, ContainedTypeOK, IntentBeforeEffect, ProcsInv, LifeInv, ReportInv,
        HelperInv, ModeInv, BrokerInv, LedgerInv, PushInv, RecordsInv,
        Inert, Landed, LaunchesEgress, RunnerAccepts, Executor, Markers, Reasons,
        NoReport, ExecType, LifeType, BrokerType, ConnStates, HelperType, RefType,
        lifeVars, egressVars, runVars

(***************************************************************************)
(* The log.                                                                *)
(***************************************************************************)
(* The outcome of an append, as far as the invariant is concerned.         *)
Logged(k, failed) ==
  /\ wal' \in [mem : SUBSET WalEventKind, disk : SUBSET WalEventKind, torn : BOOLEAN]
  /\ faults' \in 0..MaxFaults
  /\ WalClosed'
  /\ wal.disk \subseteq wal'.disk /\ wal'.disk \subseteq wal.disk \cup {k}
  /\ pc' # failed => k \in wal'.disk

\* What an append leaves, whether it succeeds, is refused or fails half way:
\* the log stays closed under prerequisites and grows by the one event, and a
\* thread that moves on has it on disk (DurableRunWal.append).
LEMMA Appended ==
  ASSUME ContainedTypeOK, WalClosed, NEW k \in WalEventKind, NEW next, NEW failed,
         append(k, next, failed)
  PROVE  Logged(k, failed) /\ pc' \in {next, failed}
<1>. USE DEF WalClosed, Logged
<1>1. faults' \in 0..MaxFaults
  BY FaultsAssumption DEF append, Fault
<1>2. CASE wal' = Written(k) /\ Admits(k) /\ pc' = next
  BY <1>1, <1>2 DEF Written, Admits, ValidEventSequence
<1>3. CASE UNCHANGED wal /\ pc' = failed
  BY <1>1, <1>3
<1>4. CASE wal' \in Unwritten(k) /\ Admits(k) /\ pc' = failed
  <2>1. prerequisites[k] \subseteq wal.mem \cup {k}
    BY <1>4 DEF Admits, ValidEventSequence
  <2>2. CASE wal' = wal
    BY <1>1, <1>4, <2>2
  <2>3. CASE wal' = [wal EXCEPT !.torn = TRUE]
    BY <1>1, <1>4, <2>3
  <2>4. CASE wal' = [wal EXCEPT !.disk = @ \cup {k}, !.torn = @ \/ wal.mem # wal.disk]
    <3>1. /\ wal'.mem = wal.mem /\ wal'.disk = wal.disk \cup {k}
          /\ wal' = [mem |-> wal.mem, disk |-> wal.disk \cup {k},
                     torn |-> wal.torn \/ wal.mem # wal.disk]
      BY <2>4
    <3>2. wal' \in [mem : SUBSET WalEventKind, disk : SUBSET WalEventKind, torn : BOOLEAN]
      BY <3>1
    <3>. QED
      BY <1>1, <1>4, <2>1, <3>1, <3>2
  <2>. QED
    BY <1>4, <2>2, <2>3, <2>4 DEF Unwritten
<1>. QED
  BY <1>2, <1>3, <1>4 DEF append

\* The prerequisites the proofs rely on (validate_event_sequence).
LEMMA Prerequisites ==
  /\ WalEventKind = DOMAIN prerequisites
  /\ "PROCESS_CREATED" \in prerequisites["PROCESS_EXITED"]
  /\ "CONTAINMENT_PREPARED" \in prerequisites["CONTAINMENT_RELEASED"]
BY DEF prerequisites, WalEventKind, EgressKinds

\* The kinds of events the run logs.
LEMMA KindsKnown ==
  {"RUN_CLAIMED", "PROCESS_CREATE_INTENT", "PROCESS_CREATED", "PROCESS_EXITED",
   "BROKER_STARTED", "BROKER_STOPPED", "CONTAINMENT_PREPARED",
   "CONTAINMENT_RECONCILED", "CONTAINMENT_RELEASED", "REPORT_MATERIALIZED",
   "REPORT_PUBLISH_INTENT", "REPORT_PUBLISHED", "PUSH_INTENT", "PUSH_CONFIRMED",
   "EGRESS_YES", "EGRESS_NO"} \subseteq WalEventKind
BY DEF WalEventKind, EgressKinds


\* An event stands on disk only with its prerequisites.
LEMMA OnDisk ==
  ASSUME ContainedTypeOK, WalClosed
  PROVE  /\ "PROCESS_EXITED" \in wal.disk => "PROCESS_CREATED" \in wal.disk
         /\ "CONTAINMENT_RELEASED" \in wal.disk => "CONTAINMENT_PREPARED" \in wal.disk
BY Prerequisites DEF WalClosed

(***************************************************************************)
(* The try block around the executor.                                      *)
(***************************************************************************)
\* The steps of process_project around the executor keep the invariant.
LEMMA ScopeKeeps ==
  ASSUME ContainedInv,
         \/ OpenWal
         \/ ActivateScope
         \/ RunnerRefusesLauncher
         \/ DisposeUncontained
         \/ ReleaseReservation
  PROVE  ContainedInv'
<1>1. CASE OpenWal
  <2>1. append("RUN_CLAIMED", "scope", "dispose")
    BY <1>1 DEF OpenWal
  <2>2. Logged("RUN_CLAIMED", "dispose") /\ pc' \in {"scope", "dispose"}
    BY <2>1, Appended, KindsKnown
  <2>. QED
    BY <1>1, <2>2 DEF OpenWal, Logged, Handlers
<1>2. CASE ActivateScope
  BY <1>2, FaultsAssumption DEF ActivateScope, WalClosed, Handlers
<1>3. CASE RunnerRefusesLauncher
  BY <1>3, FaultsAssumption DEF RunnerRefusesLauncher, WalClosed, Handlers
<1>4. CASE DisposeUncontained
  BY <1>4, FaultsAssumption DEF DisposeUncontained, WalClosed, Handlers
<1>5. CASE ReleaseReservation
  <2>1. held' \in BOOLEAN
    BY <1>5 DEF ReleaseReservation
  <2>. QED
    BY <1>5, <2>1 DEF ReleaseReservation, WalClosed, Handlers
<1>. QED
  BY <1>1, <1>2, <1>3, <1>4, <1>5

(***************************************************************************)
(* The report and its push.                                                *)
(***************************************************************************)
\* A push that lands moves the branch and leaves a landed report.
LEMMA PushLands ==
  ASSUME ref \in RefType,
         ref' = [ref EXCEPT !.head = @ + 1, !.mine = ref.head + 1]
  PROVE  ref' \in RefType /\ ref'.mine # 0
<1>1. ref.head + 1 \in Nat /\ ref.head + 1 # 0
  OBVIOUS
<1>2. ref' = [head |-> ref.head + 1, base |-> ref.base, pre |-> ref.pre, mine |-> ref.head + 1]
  OBVIOUS
<1>. QED
  BY <1>1, <1>2

\* The steps from the report to its recorded push keep the invariant.
LEMMA ReportingKeeps ==
  ASSUME ContainedInv,
         \/ Materialize
         \/ LogPublishIntent
         \/ SaveSidecar
         \/ CommitReport
         \/ RecordPushIntent
         \/ PushReport
         \/ ObservePush
         \/ ConfirmPush
         \/ AckReport
         \/ LogPublished
  PROVE  ContainedInv'
<1>1. CASE Materialize
  <2>1. append("REPORT_MATERIALIZED", "publish_intent", "ended")
    BY <1>1 DEF Materialize
  <2>2. Logged("REPORT_MATERIALIZED", "ended") /\ pc' \in {"publish_intent", "ended"}
    BY <2>1, Appended, KindsKnown
  <2>3. PICK o \in Outcomes : report' = [outcome |-> o, marker |-> life.done
               /\ life.marker # "none"]
    BY <1>1 DEF Materialize
  <2>4. /\ report'.outcome \in {"SUCCESS", "FAILED", "NETWORK"}
        /\ report'.outcome = "SUCCESS" => life.done /\ life.marker = "SUCCESS"
        /\ report'.marker = (life.done /\ life.marker # "none")
        /\ report' \in [outcome : {"none", "SUCCESS", "FAILED", "NETWORK"}, marker : BOOLEAN]
    BY <2>3 DEF Outcomes
  <2>. QED
    BY <1>1, <2>2, <2>4 DEF Materialize, Logged, Handlers
<1>2. CASE LogPublishIntent
  <2>1. CASE report.outcome = "NETWORK"
    <3>1. Logged("REPORT_PUBLISH_INTENT", "ended") /\ pc' = "ended"
      BY <1>2, <2>1, Appended, KindsKnown DEF LogPublishIntent
    <3>. QED
      BY <1>2, <3>1 DEF LogPublishIntent, Logged, Handlers
  <2>2. CASE report.outcome # "NETWORK"
    <3>1. Logged("REPORT_PUBLISH_INTENT", "ended") /\ pc' \in {"save", "ended"}
      BY <1>2, <2>2, Appended, KindsKnown DEF LogPublishIntent
    <3>. QED
      BY <1>2, <3>1 DEF LogPublishIntent, Logged, Handlers
  <2>. QED
    BY <2>1, <2>2
<1>3. CASE SaveSidecar
  BY <1>3, FaultsAssumption DEF SaveSidecar, WalClosed, Handlers
<1>4. CASE CommitReport
  BY <1>4, FaultsAssumption DEF CommitReport, WalClosed, Handlers, Fault
<1>5. CASE RecordPushIntent
  <2>1. append("PUSH_INTENT", "push", "resave")
    BY <1>5 DEF RecordPushIntent
  <2>2. Logged("PUSH_INTENT", "resave") /\ pc' \in {"push", "resave"}
    BY <2>1, Appended, KindsKnown
  <2>. QED
    BY <1>5, <2>2 DEF RecordPushIntent, Logged, Handlers
<1>6. CASE PushReport
  <2>1. /\ faults' \in 0..MaxFaults
        /\ pc = "push" /\ pc' \in {"observe", "resave"}
        /\ UNCHANGED <<wal, mode, lifeVars, egressVars, held, report, sidecar, verdict, crashed>>
    BY <1>6, FaultsAssumption DEF PushReport, Fault
  <2>2. CASE ref' = ref
    BY <2>1, <2>2 DEF WalClosed, Handlers
  <2>3. CASE ref' = [ref EXCEPT !.head = @ + 1, !.mine = ref.head + 1]
    <3>1. ref' \in RefType /\ ref'.mine # 0
      BY <2>3, PushLands
    <3>. QED
      BY <2>1, <3>1 DEF WalClosed, Handlers
  <2>. QED
    BY <1>6, <2>2, <2>3 DEF PushReport
<1>7. CASE ObservePush
  BY <1>7, FaultsAssumption DEF ObservePush, WalClosed, Handlers, Fault, Observation
<1>8. CASE ConfirmPush
  <2>1. append("PUSH_CONFIRMED", "ack", "resave")
    BY <1>8 DEF ConfirmPush
  <2>2. Logged("PUSH_CONFIRMED", "resave") /\ pc' \in {"ack", "resave"}
    BY <2>1, Appended, KindsKnown
  <2>. QED
    BY <1>8, <2>2 DEF ConfirmPush, Logged, Handlers
<1>9. CASE AckReport
  BY <1>9, FaultsAssumption DEF AckReport, WalClosed, Handlers, Fault
<1>10. CASE LogPublished
  <2>1. append("REPORT_PUBLISHED", "ended", "ended")
    BY <1>10 DEF LogPublished
  <2>2. Logged("REPORT_PUBLISHED", "ended") /\ pc' \in {"ended", "ended"}
    BY <2>1, Appended, KindsKnown
  <2>. QED
    BY <1>10, <2>2 DEF LogPublished, Logged, Handlers
<1>. QED
  BY <1>1, <1>2, <1>3, <1>4, <1>5, <1>6, <1>7, <1>8, <1>9, <1>10

(***************************************************************************)
(* The executor's lifecycle.                                               *)
(***************************************************************************)
(* The loop noted something that decides nothing.                           *)
LifeNoted ==
  /\ life' \in LifeType
  /\ life'.marker = life.marker /\ life'.reason = life.reason /\ life'.done = life.done

\* Launching the executor keeps the invariant (run_codex_process).
LEMMA LaunchKeeps ==
  ASSUME ContainedInv, UNCHANGED <<mode, egressVars, runVars>>, LogCreateIntent \/ Spawn
           \/ Assign \/ ReadPid \/ PollExit
  PROVE  ContainedInv'
<1>1. CASE LogCreateIntent
  <2>1. append("PROCESS_CREATE_INTENT", "spawn", "abort")
    BY <1>1 DEF LogCreateIntent
  <2>2. Logged("PROCESS_CREATE_INTENT", "abort") /\ pc' \in {"spawn", "abort"}
    BY <2>1, Appended, KindsKnown
  <2>. QED
    BY <1>1, <2>2 DEF LogCreateIntent, Logged, Handlers
<1>2. CASE Spawn
  <2>1. "PROCESS_CREATED" \notin wal.disk /\ "PROCESS_EXITED" \notin wal.disk
    BY <1>2, OnDisk DEF Spawn
  <2>2. CASE exec' = [exec EXCEPT !.procs = {"gate"}, !.gate = "held"] /\ pc' = "assign"
               /\ UNCHANGED faults
    <3>1. /\ exec'.procs = {"gate"} /\ exec'.gate = "held" /\ exec'.final = exec.final
          /\ exec' \in ExecType
      BY <2>2
    <3>2. ContainedTypeOK'
      BY <1>2, <2>2, <3>1 DEF Spawn
    <3>. QED
      BY <1>2, <2>1, <2>2, <3>1, <3>2 DEF Spawn, WalClosed, Handlers
  <2>3. CASE UNCHANGED exec /\ pc' = "abort" /\ Fault
    BY <1>2, <2>3, FaultsAssumption DEF Spawn, WalClosed, Handlers, Fault
  <2>. QED
    BY <1>2, <2>2, <2>3 DEF Spawn
<1>3. CASE Assign
  BY <1>3, FaultsAssumption DEF Assign, WalClosed, Handlers, Fault
<1>4. CASE ReadPid
  <2>1. CASE exec.gate = "named" /\ ~life.pid
    <3>1. append("PROCESS_CREATED", "poll", "abort")
      BY <1>4, <2>1 DEF ReadPid
    <3>2. Logged("PROCESS_CREATED", "abort") /\ pc' \in {"poll", "abort"}
      BY <3>1, Appended, KindsKnown
    <3>3. life' = [life EXCEPT !.pid = TRUE]
      BY <1>4, <2>1 DEF ReadPid
    <3>4. LifeNoted
      BY <3>3 DEF LifeNoted
    <3>5. ContainedTypeOK'
      BY <1>4, <3>2, <3>4 DEF ReadPid, Logged, LifeNoted
    <3>. QED
      BY <1>4, <2>1, <3>2, <3>4, <3>5 DEF ReadPid, Logged, LifeNoted, Handlers
  <2>2. CASE ~(exec.gate = "named" /\ ~life.pid)
    BY <1>4, <2>2 DEF ReadPid, WalClosed, Handlers
  <2>. QED
    BY <2>1, <2>2
<1>5. CASE PollExit
  <2>1. CASE "gate" \notin exec.procs /\ ~life.exited
    <3>1. append("PROCESS_EXITED", "probe", "abort")
      BY <1>5, <2>1 DEF PollExit
    <3>2. Logged("PROCESS_EXITED", "abort") /\ pc' \in {"probe", "abort"}
      BY <3>1, Appended, KindsKnown
    <3>3. life' = [life EXCEPT !.exited = TRUE]
      BY <1>5, <2>1 DEF PollExit
    <3>4. LifeNoted
      BY <3>3 DEF LifeNoted
    <3>5. ContainedTypeOK'
      BY <1>5, <3>2, <3>4 DEF PollExit, Logged, LifeNoted
    <3>. QED
      BY <1>5, <2>1, <3>2, <3>4, <3>5 DEF PollExit, Logged, LifeNoted, Handlers
  <2>2. CASE ~("gate" \notin exec.procs /\ ~life.exited)
    BY <1>5, <2>2 DEF PollExit, WalClosed, Handlers
  <2>. QED
    BY <2>1, <2>2
<1>. QED
  BY <1>1, <1>2, <1>3, <1>4, <1>5

\* Every decision of the lifecycle loop keeps the invariant.
LEMMA DecisionKeeps ==
  ASSUME ContainedInv, UNCHANGED <<mode, egressVars, runVars>>,
         \/ ProbeMarker
         \/ Drained
         \/ GraceExpired
         \/ RootExited
         \/ OwnerStop
         \/ TimedOut
         \/ GuardUnsafe
         \/ KeepWaiting
  PROVE  ContainedInv'
<1>1. CASE ProbeMarker
  BY <1>1, FaultsAssumption DEF ProbeMarker, WalClosed, Handlers
<1>2. CASE Drained
  BY <1>2, FaultsAssumption DEF Drained, WalClosed, Handlers, Decide
<1>3. CASE GraceExpired
  BY <1>3, FaultsAssumption DEF GraceExpired, WalClosed, Handlers, Decide
<1>4. CASE RootExited
  BY <1>4, FaultsAssumption DEF RootExited, WalClosed, Handlers, Decide
<1>5. CASE OwnerStop
  BY <1>5, FaultsAssumption DEF OwnerStop, WalClosed, Handlers, Decide
<1>6. CASE TimedOut
  BY <1>6, FaultsAssumption DEF TimedOut, WalClosed, Handlers, Decide
<1>7. CASE GuardUnsafe
  BY <1>7, FaultsAssumption DEF GuardUnsafe, WalClosed, Handlers, Decide
<1>8. CASE KeepWaiting
  BY <1>8, FaultsAssumption DEF KeepWaiting, WalClosed, Handlers, Decide
<1>. QED
  BY <1>1, <1>2, <1>3, <1>4, <1>5, <1>6, <1>7, <1>8

\* The way out of the lifecycle keeps the invariant (_bounded_cleanup, the
\* finally clause and the last probe).
LEMMA CleanupKeeps ==
  ASSUME ContainedInv, UNCHANGED <<mode, egressVars, runVars>>, BoundedCleanup \/ CloseScope
           \/ RecordExit \/ FinalProbe
  PROVE  ContainedInv'
<1>1. CASE BoundedCleanup
  BY <1>1, FaultsAssumption DEF BoundedCleanup, WalClosed, Handlers, Fault
<1>2. CASE CloseScope
  BY <1>2, FaultsAssumption DEF CloseScope, WalClosed, Handlers
<1>3. CASE RecordExit
  <2>1. CASE "gate" \notin exec.procs /\ ~life.exited
    <3>1. append("PROCESS_EXITED", "final", "dispose")
      BY <1>3, <2>1 DEF RecordExit
    <3>2. Logged("PROCESS_EXITED", "dispose") /\ pc' \in {"final", "dispose"}
      BY <3>1, Appended, KindsKnown
    <3>3. life' = [life EXCEPT !.exited = TRUE]
      BY <1>3, <2>1 DEF RecordExit
    <3>4. LifeNoted
      BY <3>3 DEF LifeNoted
    <3>5. ContainedTypeOK'
      BY <1>3, <3>2, <3>4 DEF RecordExit, Logged, LifeNoted
    <3>. QED
      BY <1>3, <2>1, <3>2, <3>4, <3>5 DEF RecordExit, Logged, LifeNoted, Handlers
  <2>2. CASE ~("gate" \notin exec.procs /\ ~life.exited)
    BY <1>3, <2>2 DEF RecordExit, WalClosed, Handlers
  <2>. QED
    BY <2>1, <2>2
<1>4. CASE FinalProbe
  <2>1. life' \in LifeType
    BY <1>4 DEF FinalProbe
  <2>2. LifeInv'
    BY <1>4 DEF FinalProbe
  <2>3. ContainedTypeOK'
    BY <1>4, <2>1 DEF FinalProbe
  <2>. QED
    BY <1>4, <2>2, <2>3 DEF FinalProbe, WalClosed, Handlers
<1>. QED
  BY <1>1, <1>2, <1>3, <1>4

(***************************************************************************)
(* The containment.                                                        *)
(***************************************************************************)
(* The outcome of an exchange.                                             *)
Exchanged(served, state, next, failed) ==
  /\ faults' \in 0..MaxFaults
  /\ helper' \in HelperType
  /\ helper'.bound = helper.bound
  /\ \/ /\ pc' = next
        /\ helper'.active = served /\ helper'.cont = state /\ helper'.lost = helper.lost
     \/ /\ pc' = failed
        /\ helper'.active \in {helper.active, served} /\ helper'.cont = "UNKNOWN"
        /\ helper'.lost

\* What one exchange with the helper leaves (RunContainment._exchange).
LEMMA ExchangeOutcome ==
  ASSUME ContainedTypeOK, NEW served \in BOOLEAN,
         NEW state \in {"PREPARED", "RECONCILED", "RELEASED"},
         NEW next, NEW failed, Exchange(served, state, next, failed)
  PROVE  Exchanged(served, state, next, failed)
<1>1. faults' \in 0..MaxFaults
  <2>1. UNCHANGED faults \/ Fault
    BY Zenon DEF Exchange
  <2>. QED
    BY <2>1, FaultsAssumption DEF Fault
<1>2. helper \in HelperType
  OBVIOUS
<1>3. CASE helper' = [helper EXCEPT !.active = served, !.cont = state] /\ pc' = next
  BY <1>1, <1>2, <1>3 DEF Exchanged
<1>4. ASSUME NEW a \in {helper.active, served}, pc' = failed,
             helper' = [helper EXCEPT !.active = a, !.cont = "UNKNOWN", !.lost = TRUE]
      PROVE  Exchanged(served, state, next, failed)
  BY <1>1, <1>2, <1>4 DEF Exchanged
<1>. QED
  BY <1>3, <1>4, Zenon DEF Exchange, HelperHandles


\* prepare() keeps the invariant (RunEgressResources).
LEMMA PreparingKeeps ==
  ASSUME ContainedInv, UNCHANGED <<mode, lifeVars, runVars>>,
         \/ StartBroker
         \/ LogBrokerStarted
         \/ PrepareContainment
         \/ BindLauncher
  PROVE  ContainedInv'
<1>1. CASE StartBroker
  BY <1>1, FaultsAssumption DEF StartBroker, WalClosed, Handlers, Fault
<1>2. CASE LogBrokerStarted
  <2>1. append("BROKER_STARTED", "prepare", "dispose")
    BY <1>2 DEF LogBrokerStarted
  <2>2. Logged("BROKER_STARTED", "dispose") /\ pc' \in {"prepare", "dispose"}
    BY <2>1, Appended, KindsKnown
  <2>. QED
    BY <1>2, <2>2 DEF LogBrokerStarted, Logged, Handlers
<1>3. CASE PrepareContainment
  <2>1. Exchange(TRUE, "PREPARED", "bind", "dispose")
    BY <1>3 DEF PrepareContainment
  <2>2. "CONTAINMENT_RELEASED" \notin wal.disk /\ "CONTAINMENT_PREPARED" \notin wal.disk
    BY <1>3, OnDisk DEF PrepareContainment
  <2>3. Exchanged(TRUE, "PREPARED", "bind", "dispose")
    BY <2>1, ExchangeOutcome
  <2>4. ContainedTypeOK'
    BY <1>3, <2>3 DEF Exchanged, PrepareContainment
  <2>5. HelperInv' /\ RecordsInv'
    BY <1>3, <2>2, <2>3 DEF Exchanged, PrepareContainment
  <2>6. /\ pc = "prepare" /\ pc' \in {"bind", "dispose"}
        /\ UNCHANGED <<wal, mode, lifeVars, runVars, broker, conns>>
    BY <1>3, <2>3 DEF Exchanged, PrepareContainment
  <2>. QED
    BY <2>4, <2>5, <2>6 DEF WalClosed, Handlers
<1>4. CASE BindLauncher
  <2>1. append("CONTAINMENT_PREPARED", "launch", "dispose")
    BY <1>4 DEF BindLauncher
  <2>2. Logged("CONTAINMENT_PREPARED", "dispose") /\ pc' \in {"launch", "dispose"}
    BY <2>1, Appended, KindsKnown
  <2>3. helper' \in HelperType
        /\ helper'.bound /\ helper'.active /\ helper'.cont = helper.cont
             /\ helper'.lost = helper.lost
    BY <1>4 DEF BindLauncher
  <2>. QED
    BY <1>4, <2>2, <2>3 DEF BindLauncher, Logged, Handlers
<1>. QED
  BY <1>1, <1>2, <1>3, <1>4

\* dispose() keeps the invariant, whichever of its steps fails.
LEMMA DisposingKeeps ==
  ASSUME ContainedInv, UNCHANGED <<mode, lifeVars, runVars>>,
         \/ StopBroker
         \/ JoinBroker
         \/ LogBrokerStopped
         \/ LedgerSnapshot
         \/ ReconcileContainment
         \/ LogReconciled
         \/ LogEgress
         \/ ReleaseContainment
         \/ LogReleased
  PROVE  ContainedInv'
<1>1. CASE StopBroker
  BY <1>1, FaultsAssumption DEF StopBroker, WalClosed, Handlers
<1>2. CASE JoinBroker
  BY <1>2, FaultsAssumption DEF JoinBroker, WalClosed, Handlers, Fault
<1>3. CASE LogBrokerStopped
  <2>1. append("BROKER_STOPPED", "snapshot", "reconcile")
    BY <1>3 DEF LogBrokerStopped
  <2>2. Logged("BROKER_STOPPED", "reconcile") /\ pc' \in {"snapshot", "reconcile"}
    BY <2>1, Appended, KindsKnown
  <2>. QED
    BY <1>3, <2>2 DEF LogBrokerStopped, Logged, Handlers
<1>4. CASE LedgerSnapshot
  BY <1>4, FaultsAssumption DEF LedgerSnapshot, WalClosed, Handlers
<1>5. CASE ReconcileContainment
  <2>1. CASE helper.cont = "PREPARED"
    <3>1. helper.active \in BOOLEAN
      OBVIOUS
    <3>2. Exchanged(helper.active, "RECONCILED", "log_reconciled", "release")
      BY <1>5, <2>1, <3>1, ExchangeOutcome DEF ReconcileContainment
    <3>3. ContainedTypeOK'
      BY <1>5, <3>2 DEF Exchanged, ReconcileContainment
    <3>. QED
      BY <1>5, <3>2, <3>3 DEF Exchanged, ReconcileContainment, WalClosed, Handlers
  <2>2. CASE helper.cont # "PREPARED" 
    <3>1. UNCHANGED <<helper, faults>> /\ pc' \in {"free", "release"}
            /\ (pc' = "free" => helper.cont = "NEW") /\ pc = "reconcile"
      BY <1>5, <2>2 DEF ReconcileContainment
    <3>2. UNCHANGED <<wal, broker, conns, mode, lifeVars, runVars>>
      BY <1>5 DEF ReconcileContainment
    <3>3. ContainedTypeOK'
      BY <3>1, <3>2
    <3>. QED
      BY <3>1, <3>2, <3>3 DEF WalClosed, Handlers
  <2>. QED
    BY <2>1, <2>2
<1>6. CASE LogReconciled
  <2>1. PICK next \in {"release", "log_egress"} :
          /\ append("CONTAINMENT_RECONCILED", next, "release")
          /\ next = "log_egress" => broker.ledger # "none"
    BY <1>6 DEF LogReconciled
  <2>2. Logged("CONTAINMENT_RECONCILED", "release") /\ pc' \in {next, "release"}
    BY <2>1, Appended, KindsKnown
  <2>. QED
    BY <1>6, <2>1, <2>2 DEF LogReconciled, Logged, Handlers
<1>7. CASE LogEgress
  <2>1. PICK k \in {"EGRESS_YES", "EGRESS_NO"} :
          /\ append(k, "release", "release")
          /\ k = "EGRESS_NO" => broker.ledger = "NO"
    BY <1>7 DEF LogEgress
  <2>2. Logged(k, "release") /\ pc' = "release"
    BY <2>1, Appended, KindsKnown
  <2>. QED
    BY <1>7, <2>1, <2>2 DEF LogEgress, Logged, Handlers
<1>8. CASE ReleaseContainment
  <2>1. PICK next \in {"log_released", "free"} : Exchanged(FALSE, "RELEASED", next, "free")
    <3>1. CASE helper.bound
      BY <1>8, <3>1, ExchangeOutcome DEF ReleaseContainment
    <3>2. CASE ~helper.bound
      BY <1>8, <3>2, ExchangeOutcome DEF ReleaseContainment
    <3>. QED
      BY <3>1, <3>2
  <2>2. ContainedTypeOK'
    BY <1>8, <2>1 DEF Exchanged, ReleaseContainment
  <2>5. HelperInv' /\ RecordsInv'
    BY <1>8, <2>1 DEF Exchanged, ReleaseContainment
  <2>6. /\ pc = "release" /\ pc' \in {"log_released", "free"}
        /\ UNCHANGED <<wal, mode, lifeVars, runVars, broker, conns>>
    BY <1>8, <2>1 DEF Exchanged, ReleaseContainment
  <2>. QED
    BY <2>2, <2>5, <2>6 DEF WalClosed, Handlers
<1>9. CASE LogReleased
  <2>1. append("CONTAINMENT_RELEASED", "free", "free")
    BY <1>9 DEF LogReleased
  <2>2. Logged("CONTAINMENT_RELEASED", "free") /\ pc' \in {"free", "free"}
    BY <2>1, Appended, KindsKnown
  <2>. QED
    BY <1>9, <2>2 DEF LogReleased, Logged, Handlers
<1>. QED
  BY <1>1, <1>2, <1>3, <1>4, <1>5, <1>6, <1>7, <1>8, <1>9

(***************************************************************************)
(* Everyone else.                                                          *)
(***************************************************************************)
\* The processes and the Owner's request keep the invariant.
LEMMA ProcessesKeep ==
  ASSUME ContainedInv, UNCHANGED <<pc, wal, faults, mode, egressVars, runVars>>,
         \/ GateLaunches
         \/ GateNames
         \/ GateExits
         \/ ExecutorForks
         \/ ExecutorWrites
         \/ ExecutorExits
         \/ request_stop
  PROVE  ContainedInv'
<1>1. CASE GateLaunches
  <2>1. ~KillOnClose \/ pc \in Running
    BY <1>1 DEF GateLaunches
  <2>2. CASE exec' = [exec EXCEPT !.gate = "launched", !.procs = @ \cup {"root"}]
    <3>1. /\ exec' \in ExecType
          /\ exec'.gate = "launched" /\ exec'.final = exec.final
      BY <2>2
    <3>2. report = NoReport \/ ~KillOnClose
      BY <1>1 DEF GateLaunches
    <3>3. "PROCESS_EXITED" \notin wal.disk /\ "PROCESS_CREATED" \notin wal.disk
      BY <1>1, OnDisk DEF GateLaunches
    <3>. QED
      BY <1>1, <2>1, <3>1, <3>2, <3>3 DEF GateLaunches, WalClosed, Handlers
  <2>3. CASE exec' = [exec EXCEPT !.procs = {}]
    BY <1>1, <2>3 DEF GateLaunches, WalClosed, Handlers
  <2>. QED
    BY <1>1, <2>2, <2>3 DEF GateLaunches
<1>2. CASE GateNames
  BY <1>2, FaultsAssumption DEF GateNames, WalClosed, Handlers
<1>3. CASE GateExits
  BY <1>3, FaultsAssumption DEF GateExits, WalClosed, Handlers
<1>4. CASE ExecutorForks
  BY <1>4, FaultsAssumption DEF ExecutorForks, WalClosed, Handlers
<1>5. CASE ExecutorWrites
  BY <1>5, FaultsAssumption DEF ExecutorWrites, WalClosed, Handlers, ExecutorAlive
<1>6. CASE ExecutorExits
  BY <1>6, FaultsAssumption DEF ExecutorExits, WalClosed, Handlers
<1>7. CASE request_stop
  BY <1>7, FaultsAssumption DEF request_stop, WalClosed, Handlers
<1>. QED
  BY <1>1, <1>2, <1>3, <1>4, <1>5, <1>6, <1>7

\* The executor's connections and the broker's threads keep the invariant.
LEMMA ConnectionsKeep ==
  ASSUME ContainedInv, NEW c \in Conns, UNCHANGED <<pc, wal, faults, mode, lifeVars, runVars>>,
         \/ Connect(c)
         \/ Accept(c)
         \/ AdmitConnection(c)
         \/ HandleConnection(c)
         \/ RelayCheck(c)
         \/ RelayData(c)
  PROVE  ContainedInv'
<1>1. CASE Connect(c)
  BY <1>1 DEF Connect, WalClosed, Handlers, Becomes, Stopping
<1>2. CASE Accept(c)
  BY <1>2 DEF Accept, WalClosed, Handlers, Becomes, Stopping
<1>3. CASE AdmitConnection(c)
  <2>1. PICK to \in {"handling", "closed"} :
          /\ Becomes(c, "taken", to)
          /\ \/ to = "handling" /\ broker' = [broker EXCEPT !.observed = TRUE]
             \/ to = "closed" /\ UNCHANGED broker
    BY <1>3 DEF AdmitConnection
  <2>2. /\ broker' \in BrokerType /\ broker'.state = broker.state
        /\ broker'.relayed = broker.relayed /\ broker'.ledger = broker.ledger
        /\ (broker.observed \/ to = "handling") => broker'.observed
    <3>1. CASE to = "handling" /\ broker' = [broker EXCEPT !.observed = TRUE]
      BY <3>1
    <3>2. CASE to = "closed" /\ UNCHANGED broker
      BY <3>2
    <3>. QED
      BY <2>1, <3>1, <3>2
  <2>3. conns' \in [Conns -> ConnStates] /\ conns'[c] = to
        /\ \A d \in Conns \ {c} : conns'[d] = conns[d]
    BY <2>1 DEF Becomes
  <2>4. ContainedTypeOK'
    BY <1>3, <2>2, <2>3 DEF AdmitConnection
  <2>5. BrokerInv' /\ LedgerInv'
    BY <1>3, <2>2, <2>3 DEF AdmitConnection, Handlers
  <2>. QED
    BY <1>3, <2>2, <2>4, <2>5 DEF AdmitConnection, WalClosed
<1>4. CASE HandleConnection(c)
  BY <1>4 DEF HandleConnection, WalClosed, Handlers, Becomes, Stopping
<1>5. CASE RelayCheck(c)
  BY <1>5 DEF RelayCheck, WalClosed, Handlers, Becomes, Stopping
<1>6. CASE RelayData(c)
  <2>1. CASE UNCHANGED broker
    BY <1>6, <2>1 DEF RelayData, WalClosed, Handlers, Becomes
  <2>2. CASE broker' = [broker EXCEPT !.relayed = TRUE]
    <3>1. broker.observed /\ broker.ledger # "NO"
      BY <1>6 DEF RelayData, Becomes, Handlers
    <3>2. /\ broker' \in BrokerType /\ broker'.state = broker.state
          /\ broker'.observed /\ broker'.ledger = broker.ledger
      BY <2>2, <3>1
    <3>3. conns' \in [Conns -> ConnStates]
      BY <1>6 DEF RelayData, Becomes
    <3>4. ContainedTypeOK'
      BY <1>6, <3>2, <3>3 DEF RelayData
    <3>5. BrokerInv' /\ LedgerInv'
      BY <1>6, <3>1, <3>2 DEF RelayData, Handlers
    <3>. QED
      BY <1>6, <3>2, <3>4, <3>5 DEF RelayData, WalClosed
  <2>. QED
    BY <1>6, <2>1, <2>2 DEF RelayData
<1>. QED
  BY <1>1, <1>2, <1>3, <1>4, <1>5, <1>6

\* A push by others, a crash and typed recovery keep the invariant.
LEMMA OthersKeep ==
  ASSUME ContainedInv, ForeignPush \/ Crash \/ RecoveryReads
  PROVE  ContainedInv'
<1>1. CASE ForeignPush
  BY <1>1, FaultsAssumption DEF ForeignPush, WalClosed, Handlers
<1>2. CASE Crash
  <2>1. wal' \in [mem : SUBSET WalEventKind, disk : SUBSET WalEventKind, torn : BOOLEAN]
        /\ wal'.mem = wal.mem /\ wal'.disk = wal.disk
    <3>1. CASE wal' = wal
      BY <3>1
    <3>2. CASE wal' = [wal EXCEPT !.torn = @ \/ Appending]
      <4>1. wal' = [mem |-> wal.mem, disk |-> wal.disk, torn |-> wal.torn \/ Appending]
        BY <3>2
      <4>. QED
        BY <4>1
    <3>. QED
      BY <1>2, <3>1, <3>2 DEF Crash
  <2>2. /\ exec' \in ExecType
        /\ exec'.gate = exec.gate /\ exec'.final = exec.final
        /\ exec'.procs \subseteq exec.procs
        /\ KillOnClose => Inert'
    BY <1>2 DEF Crash
  <2>3. /\ broker' \in BrokerType /\ broker'.state = "CLOSED" /\ broker'.observed = broker.observed
        /\ broker'.relayed = broker.relayed /\ broker'.ledger = broker.ledger
    BY <1>2 DEF Crash
  <2>4. /\ pc' = "down" /\ faults' \in 0..MaxFaults
        /\ conns' = [c \in Conns |-> "closed"]
        /\ UNCHANGED <<mode, life, stop, helper, report, sidecar, ref, verdict>>
    BY <1>2, FaultsAssumption DEF Crash, Fault
  <2>5. held' \in BOOLEAN /\ crashed' \in BOOLEAN
    BY <1>2 DEF Crash
  <2>6. ContainedTypeOK'
    BY <2>1, <2>2, <2>3, <2>4, <2>5
  <2>7. BrokerInv' /\ LedgerInv'
    BY <2>1, <2>3, <2>4 DEF Handlers
  <2>8. ProcsInv' /\ LifeInv' /\ ReportInv' /\ IntentBeforeEffect'
    BY <2>1, <2>2, <2>4
  <2>9. HelperInv' /\ ModeInv' /\ PushInv' /\ RecordsInv'
    BY <2>1, <2>2, <2>3, <2>4
  <2>. QED
    BY <2>1, <2>4, <2>6, <2>7, <2>8, <2>9 DEF WalClosed
<1>3. CASE RecoveryReads
  BY <1>3, FaultsAssumption
       DEF RecoveryReads, WalClosed, Handlers, Classification, CompletedProven,
           InterruptedProven, PushAbsent, Recorded, PushResolutionState
<1>. QED
  BY <1>1, <1>2, <1>3

(***************************************************************************)
(* The theorems.                                                           *)
(***************************************************************************)
HIDE DEF ContainedInv, ContainedTypeOK, IntentBeforeEffect, ProcsInv, LifeInv, ReportInv,
         HelperInv, ModeInv, BrokerInv, LedgerInv, PushInv, RecordsInv, Inert, Landed,
         lifeVars, egressVars, runVars

\* A claimed run satisfies the invariant.
LEMMA InitContainedInv == Init => ContainedInv
<1>. SUFFICES ASSUME Init PROVE ContainedInv
  OBVIOUS
<1>. USE DEF Init, WalInit, LifecycleInit, EgressInit
<1>1. ContainedTypeOK
  <2>1. stop \in BOOLEAN /\ held \in BOOLEAN /\ crashed \in BOOLEAN
    OBVIOUS
  <2>. QED
    BY <2>1, FaultsAssumption DEF ContainedTypeOK
<1>2. pc \in PcType /\ WalClosed /\ IntentBeforeEffect
  BY DEF WalClosed, IntentBeforeEffect, Landed
<1>3. ProcsInv /\ LifeInv /\ ReportInv
  BY DEF ProcsInv, LifeInv, ReportInv, Inert
<1>4. HelperInv /\ ModeInv
  BY DEF HelperInv, ModeInv
<1>5. BrokerInv /\ LedgerInv
  BY DEF BrokerInv, LedgerInv, Handlers
<1>6. PushInv /\ RecordsInv
  BY DEF PushInv, RecordsInv
<1>. QED
  BY <1>1, <1>2, <1>3, <1>4, <1>5, <1>6 DEF ContainedInv

\* A step in which nothing changes keeps the invariant.
LEMMA StutterContainedInv == ContainedInv /\ UNCHANGED vars => ContainedInv'
<1>. SUFFICES ASSUME ContainedInv, UNCHANGED vars PROVE ContainedInv'
  OBVIOUS
<1>. USE DEF vars, lifeVars, egressVars, runVars, ContainedInv
<1>1. ContainedTypeOK' /\ (pc \in PcType)' /\ WalClosed' /\ IntentBeforeEffect'
  BY DEF ContainedTypeOK, WalClosed, IntentBeforeEffect, Landed
<1>2. ProcsInv' /\ LifeInv' /\ ReportInv'
  BY DEF ProcsInv, LifeInv, ReportInv, Inert
<1>3. HelperInv' /\ ModeInv'
  BY DEF HelperInv, ModeInv
<1>4. BrokerInv' /\ LedgerInv'
  BY DEF BrokerInv, LedgerInv, Handlers
<1>5. PushInv' /\ RecordsInv'
  BY DEF PushInv, RecordsInv, Landed
<1>. QED
  BY <1>1, <1>2, <1>3, <1>4, <1>5

\* Every step of the run, of its processes, of the broker, of others, and a
\* crash anywhere between them keeps the invariant.
LEMMA NextContainedInv == ContainedInv /\ [Next]_vars => ContainedInv'
<1>. SUFFICES ASSUME ContainedInv, [Next]_vars PROVE ContainedInv'
  OBVIOUS
<1>1. CASE ThreadStep
  <2>1. CASE LifecycleStep /\ UNCHANGED <<mode, egressVars, runVars>>
    BY <2>1, LaunchKeeps, DecisionKeeps, CleanupKeeps, Zenon DEF LifecycleStep
  <2>2. CASE EgressStep /\ UNCHANGED <<mode, lifeVars, runVars>>
    BY <2>2, PreparingKeeps, DisposingKeeps, Zenon DEF EgressStep
  <2>. QED
    BY <1>1, <2>1, <2>2, ScopeKeeps, ReportingKeeps, Zenon DEF ThreadStep
<1>2. CASE Environment
  <2>1. CASE (ProcessStep \/ request_stop)
             /\ UNCHANGED <<pc, wal, faults, mode, egressVars, runVars>>
    BY <2>1, ProcessesKeep, Zenon DEF ProcessStep
  <2>2. ASSUME NEW c \in Conns, Connect(c) \/ BrokerThread(c),
               UNCHANGED <<pc, wal, faults, mode, lifeVars, runVars>>
        PROVE  ContainedInv'
    BY <2>2, ConnectionsKeep, Zenon DEF BrokerThread
  <2>. QED
    BY <1>2, <2>1, <2>2, OthersKeep, Zenon DEF Environment
<1>3. CASE Over \/ UNCHANGED vars
  BY <1>3, StutterContainedInv DEF Over
<1>. QED
  BY <1>1, <1>2, <1>3 DEF Next

\* The inductive invariant holds of every behaviour.
THEOREM ContainedInductive == Spec => []ContainedInv
<1>. QED
  BY InitContainedInv, NextContainedInv, PTL DEF Spec

\* Every variable keeps its type: the log, the processes, the broker, the
\* helper's resource, the report and the branch.
THEOREM ContainedTypeCorrect == Spec => []ContainedTypeOK
<1>1. ContainedInv => ContainedTypeOK
  BY DEF ContainedInv
<1>. QED
  BY <1>1, ContainedInductive, PTL

\* Nothing that outlives the Worker is done before its intent is on disk
\* (run_codex_process, publish_cas).
THEOREM IntentsComeFirst == Spec => []IntentBeforeEffect
<1>1. ContainedInv => IntentBeforeEffect
  BY DEF ContainedInv
<1>. QED
  BY <1>1, ContainedInductive, PTL

\* A record of no project egress stays true for any number of connections and
\* handler slots, and whichever joins time out (LoopbackBroker,
\* RunEgressResources.dispose).
THEOREM NoEgressStaysTrue == Spec => []EgressEvidenceSound
<1>1. ContainedInv => EgressEvidenceSound
  BY DEF ContainedInv, LedgerInv, EgressEvidenceSound
<1>. QED
  BY <1>1, ContainedInductive, PTL

\* Outside the stretch from the spawn to the closed job no executor lives.
LEMMA InertIsDead == Inert => ~ExecutorAlive
BY DEF Inert, ExecutorAlive

\* With a job that kills its processes, what the log says happened has
\* happened (the records recovery takes for proof).
THEOREM WalIsTrue == KillOnClose => (Spec => []WalTellsTruth)
<1>. SUFFICES ASSUME KillOnClose PROVE Spec => []WalTellsTruth
  OBVIOUS
<1>1. ContainedInv => WalTellsTruth
  BY InertIsDead DEF ContainedInv, RecordsInv, ProcsInv, WalTellsTruth
<1>. QED
  BY <1>1, ContainedInductive, PTL

\* With such a job, an executor that needs containment is alive only inside
\* it, under a held reservation, through launch failures, kills and crashes.
THEOREM ExecutorStaysContained == KillOnClose => (Spec => []ExecutorContained)
<1>. SUFFICES ASSUME KillOnClose PROVE Spec => []ExecutorContained
  OBVIOUS
<1>1. ContainedInv => ExecutorContained
  <2>. SUFFICES ASSUME ContainedInv, LaunchesEgress, ExecutorAlive
                PROVE  mode = "contained" /\ helper.active /\ helper.bound /\ held
    BY DEF ExecutorContained
  <2>1. pc \in Running
    BY InertIsDead DEF ContainedInv, ProcsInv
  <2>2. mode \in {"phased", "contained", "unwired"}
    BY ModesAssumption DEF ContainedInv, ContainedTypeOK
  <2>. QED
    BY <2>1, <2>2 DEF ContainedInv, HelperInv, ModeInv
<1>. QED
  BY <1>1, ContainedInductive, PTL

\* With such a job, a report says SUCCESS, or counts as marked, only for a
\* complete final message of an executor that is gone and was not stopped.
THEOREM SuccessStaysEarned == KillOnClose => (Spec => []SuccessIsEarned)
<1>. SUFFICES ASSUME KillOnClose PROVE Spec => []SuccessIsEarned
  OBVIOUS
<1>1. ContainedInv => SuccessIsEarned
  <2>. SUFFICES ASSUME ContainedInv PROVE SuccessIsEarned
    OBVIOUS
  <2>1. report.outcome = "SUCCESS" => Inert
    BY DEF ContainedInv, ReportInv
  <2>2. life.marker # "none" => life.marker \in Markers
    BY DEF ContainedInv, ContainedTypeOK
  <2>. QED
    BY <2>1, <2>2, InertIsDead DEF ContainedInv, ReportInv, LifeInv, SuccessIsEarned
<1>. QED
  BY <1>1, ContainedInductive, PTL

\* With such a job, typed recovery calls a report completed only when its
\* executor is gone and its message complete (classify_recovery).
THEOREM RecoveryIsSound == KillOnClose => (Spec => []RecoveryNeverOverclaims)
<1>. SUFFICES ASSUME KillOnClose PROVE Spec => []RecoveryNeverOverclaims
  OBVIOUS
<1>1. ContainedInv => RecoveryNeverOverclaims
  <2>. SUFFICES ASSUME ContainedInv, verdict = "completed"
                PROVE  "PROCESS_EXITED" \in wal.disk /\ exec.final \in Markers /\ ~ExecutorAlive
    BY DEF RecoveryNeverOverclaims
  <2>1. report.marker /\ "PROCESS_EXITED" \in wal.disk
    BY DEF ContainedInv, ReportInv
  <2>2. Inert
    BY <2>1 DEF ContainedInv, ReportInv
  <2>3. life.marker # "none" => life.marker \in Markers
    BY DEF ContainedInv, ContainedTypeOK
  <2>. QED
    BY <2>1, <2>2, <2>3, InertIsDead DEF ContainedInv, ReportInv, LifeInv
<1>. QED
  BY <1>1, ContainedInductive, PTL

\* With such a job, a run that ends without a lost exchange leaves neither
\* containment, broker, reservation nor executor behind (RunScope.close,
\* RunEgressResources.dispose).
THEOREM ContainmentComesBack == KillOnClose => (Spec => []ContainmentReturned)
<1>. SUFFICES ASSUME KillOnClose PROVE Spec => []ContainmentReturned
  OBVIOUS
<1>1. ContainedInv => ContainmentReturned
  <2>. SUFFICES ASSUME ContainedInv, pc = "ended", ~helper.lost
                PROVE  /\ ~helper.active /\ ~held /\ ~ExecutorAlive
                       /\ broker.state # "ACTIVE" /\ broker.state # "STOPPING"
    BY DEF ContainmentReturned
  <2>1. ~helper.active /\ ~held
    BY DEF ContainedInv, HelperInv, ModeInv
  <2>2. broker.state \in {"NEW", "CLOSED"}
    BY DEF ContainedInv, BrokerInv
  <2>3. Inert
    BY DEF ContainedInv, ProcsInv
  <2>. QED
    BY <2>1, <2>2, <2>3, InertIsDead
<1>. QED
  BY <1>1, ContainedInductive, PTL

===============================================================================
