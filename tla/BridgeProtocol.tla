--------------------------- MODULE BridgeProtocol ---------------------------
(***************************************************************************)
(* The whole Protocol-v2 system for one project: publication lanes, Worker *)
(* hosts with their run threads and recovery, operators, and the faults    *)
(* between them.                                                           *)
(***************************************************************************)
EXTENDS RecoveryCoordinator, PublicationLanes

Init ==
    /\ canon = Genesis
    /\ commands = [c \in CommandIds |-> NoCommand]
    /\ reports = [c \in CommandIds |-> NoReport]
    /\ clone = [w \in Workers |-> Genesis]
    /\ unpushed = [w \in Workers |-> NoCommit]
    /\ polling = [w \in Workers |-> FALSE]
    /\ thread = [w \in Workers |-> IdleThread]
    /\ sidecar = [w \in Workers |-> [c \in CommandIds |-> NoSidecar]]
    /\ journal = [w \in Workers |-> [c \in CommandIds |-> NoJournal]]
    /\ expired = NoRun
    /\ manuals = {}
    /\ faults = 0
    /\ claims = {}
    /\ launches = [c \in CommandIds |-> 0]

WorkerStep(w) ==
    \/ TakeReady(w) \/ AbandonClaim(w) \/ ClaimCommand(w)
    \/ Launch(w) \/ LaunchFails(w) \/ Finish(w) \/ Interrupt(w)
    \/ SaveTyped(w) \/ PublishReport(w) \/ SaveAfterFailure(w) \/ AckReport(w)
    \/ WriteJournal(w) \/ SavePendingText(w) \/ PublishNetworkRecovery(w)
    \/ AckJournal(w)

RecoveryStep(w) ==
    \/ mark_expired_lease(w)
    \/ \E c \in CommandIds : \/ _reconcile_one_journal(w, c)
                             \/ ReconcileLegacyReport(w, c)
                             \/ _reconcile_typed_report(w, c)

HostStep(w) ==
    \/ sync_to_remote(w) \/ EndPass(w) \/ LateLanding(w) \/ Crash(w)
    \/ GatewayPublish(w) \/ WorkerStep(w) \/ RecoveryStep(w)

OperatorStep ==
    \/ \E w \in Workers : OperatorReset(w)
    \/ \E w \in Workers, c \in CommandIds : resolve_resolution(w, c)
    \/ publish_manual_priority \/ repair_unclaimed_command
    \/ start_manual \/ withdraw_and_manual_start
    \/ \E r \in manuals : finish_manual(r) \/ FinishManualLate(r)
    \/ PauseForOwner \/ AcceptFinalDelivery \/ PublishMalformed

Next == LeaseDeadline \/ OperatorStep \/ \E w \in Workers : HostStep(w)

Spec == Init /\ [][Next]_vars

-----------------------------------------------------------------------------
(***************************************************************************)
(* Type invariant.                                                         *)
(***************************************************************************)
TypeOK ==
    /\ canon \in States
    /\ commands \in [CommandIds -> Commands]
    /\ reports \in [CommandIds -> Reports]
    /\ clone \in [Workers -> States]
    /\ unpushed \in [Workers -> Commits]
    /\ polling \in [Workers -> BOOLEAN]
    /\ thread \in [Workers -> Threads]
    /\ sidecar \in [Workers -> [CommandIds -> Sidecars]]
    /\ journal \in [Workers -> [CommandIds -> Journals]]
    /\ expired \in Runs
    /\ manuals \subseteq Runs
    /\ faults \in Nat
    /\ claims \subseteq Runs
    /\ launches \in [CommandIds -> Nat]

(***************************************************************************)
(* Safety.                                                                 *)
(***************************************************************************)
\* Replaced before any claim: superseded, repaired or withdrawn.
Replaced(c) ==
    \E d \in CommandIds : commands[d].supersedes = c \/ commands[d].withdraws = c

\* At most one executor launch per command, whatever claims raced, whatever
\* publication errors the Worker saw and however often it restarted
\* (process_project, reconcile_pending_reports: "automatic rerun prohibited").
AtMostOnce == \A c \in CommandIds : launches[c] <= 1

\* A superseded, repaired or withdrawn command is never executed and never
\* gets a report (manual_supersede_decision, repair_unclaimed_command,
\* withdraw_and_manual_start).
ReplacedNeverRuns ==
    \A c \in CommandIds : Replaced(c) =>
        /\ launches[c] = 0
        /\ reports[c] = NoReport
        /\ \A r \in claims : r.cmd # c

\* No command is lost: each one that the queue has moved past has its report or
\* was replaced before any claim, however often commands were superseded,
\* repaired with a gap in the ids, withdrawn or interrupted (state_is_eligible,
\* manual_supersede_decision, repair_unclaimed_command, finish_manual).
NoCommandSkipped ==
    \A c \in CommandIds : commands[c] # NoCommand /\ c < canon.cmd =>
        reports[c] # NoReport \/ Replaced(c)

\* A command is leased at most once in its life, and its canonical report, if
\* there is one, is of that lease (claim_already and complete_already do not
\* compare all of the run's identity, resolve_resolution no generation).
OneLeasePerCommand ==
    /\ \A r, q \in claims : r.cmd = q.cmd => r = q
    /\ \A c \in CommandIds : reports[c] # NoReport =>
          reports[c].run \in claims /\ reports[c].run.cmd = c

\* The queue never moves past a launched command without its report: outside
\* the lease and RECOVERY_REQUIRED, every launched command is reported.
LaunchedIsAccounted ==
    canon.status \notin {"CODEX_RUNNING", "RECOVERY_REQUIRED"} =>
        \A c \in CommandIds : launches[c] > 0 => reports[c] # NoReport

\* At most one executor is at work on the project, lost leases included: a
\* run that outlives its lease leaves the project in RECOVERY_REQUIRED, which
\* no one leaves before that run has stopped.
Executing ==
    {thread[w].run : w \in {v \in Workers : thread[v].pc = "running"}}
    \cup {r \in manuals : reports[r.cmd] = NoReport}

ExclusiveExecution == \A r, q \in Executing : r = q

\* A sidecar that a Worker closed as reconciled or superseded has its exact
\* report in canonical history (_write_status in pending_report.py), and a
\* journal closed as reconciled has no lease left to recover (_mark_journal).
AcknowledgedIsPublished ==
    \A w \in Workers, c \in CommandIds :
        /\ sidecar[w][c].st \in {"reconciled", "superseded"} =>
              reports[c] = ResultOf(sidecar[w][c].run)
        /\ journal[w][c].st = "reconciled" =>
              ~matches_execution_lease(canon, journal[w][c].run)

(***************************************************************************)
(* Action properties.                                                      *)
(***************************************************************************)
\* History is append-only and canonical pointers and the generation never go
\* back, whichever stale snapshot a publication was prepared from.
HistoryAppendOnly ==
    [][/\ canon'.gen >= canon.gen
       /\ canon'.cmd >= canon.cmd
       /\ canon'.rep >= canon.rep
       /\ canon' # canon => canon'.gen > canon.gen
       /\ \A c \in CommandIds :
            /\ commands[c] # NoCommand => commands'[c] = commands[c]
            /\ reports[c] # NoReport => reports'[c] = reports[c]]_canonVars

\* A lease ends only with its own run's report or in RECOVERY_REQUIRED; no
\* other run's evidence can take it over (matches_execution_lease).
LeaseEndsByItsRun ==
    [][canon.run # NoRun /\ canon'.run # canon.run =>
         /\ canon'.run = NoRun
         /\ \/ canon'.status = "RECOVERY_REQUIRED"
            \/ reports'[canon.run.cmd] = ResultOf(canon.run)]_canonVars

\* The reconciler gives a pending report up as a conflict only when the
\* canonical state no longer holds the run's exact lease (_reconcile_one:
\* "canonical state no longer matches the exact pending execution lease").
GivenUpOnlyWithoutLease ==
    [][\A w \in Workers, c \in CommandIds :
         sidecar[w][c].st = "pending" /\ sidecar'[w][c].st = "conflict" =>
            ~matches_execution_lease(canon', sidecar[w][c].run)]_sidecar

\* Recovery leaves a lease to its run while the run's live thread is about to
\* publish its report (process_project: "canonical report publication is
\* pending; recovery may retry this exact report only").
LivePublisherKeepsLease ==
    [][\A w \in Workers :
         /\ thread[w].pc = "saved"
         /\ matches_execution_lease(canon, thread[w].run)
         /\ expired # thread[w].run
         => canon'.status # "RECOVERY_REQUIRED" \/ reports' # reports]_canonVars

\* Canonical state takes only the transitions of transitions.json.
Canonical == INSTANCE CanonicalProtocol WITH state <- canon
ImplementsCanonical == Canonical!Spec

(***************************************************************************)
(* Liveness.  A host that polls does so for ever, and each pass calls      *)
(* every reconciler and resubmits an idle project, whence strong fairness  *)
(* for steps that need the pass to be under way.  A started thread runs    *)
(* to its end: executors are bounded by codex_timeout_seconds.  Time       *)
(* passes, so lease deadlines are reached.                                 *)
(***************************************************************************)
ThreadFairness(w) ==
    /\ WF_vars(Launch(w) \/ LaunchFails(w))
    /\ WF_vars(Finish(w) \/ Interrupt(w))
    /\ WF_vars(SaveTyped(w))
    /\ WF_vars(PublishReport(w))
    /\ WF_vars(SaveAfterFailure(w))
    /\ WF_vars(AckReport(w))
    /\ WF_vars(WriteJournal(w))
    /\ WF_vars(SavePendingText(w))
    /\ WF_vars(PublishNetworkRecovery(w))
    /\ WF_vars(AckJournal(w))

PassFairness(w) ==
    /\ WF_vars(sync_to_remote(w))
    /\ WF_vars(EndPass(w))
    /\ SF_vars(TakeReady(w))
    /\ SF_vars(ClaimCommand(w))
    /\ SF_vars(mark_expired_lease(w))
    /\ \A c \in CommandIds : /\ SF_vars(_reconcile_one_journal(w, c))
                             /\ SF_vars(ReconcileLegacyReport(w, c))
                             /\ SF_vars(_reconcile_typed_report(w, c))

Fairness ==
    /\ WF_vars(LeaseDeadline)
    /\ \A w \in Workers : ThreadFairness(w) /\ PassFairness(w)

FairSpec == Spec /\ Fairness

\* Every lease is eventually given back, even when the Worker that held it
\* crashed or its publications failed.
LeaseSettles == \A c \in CommandIds :
    (canon.run # NoRun /\ canon.run.cmd = c) ~> canon.run = NoRun

\* Pending evidence is eventually reconciled or closed: a later pass looks at
\* it again after any publication error.
EvidenceSettles == \A w \in Workers, c \in CommandIds :
    /\ sidecar[w][c].st = "pending" ~> sidecar[w][c].st # "pending"
    /\ journal[w][c].st = "pending" ~> journal[w][c].st # "pending"

\* A valid pending command is eventually claimed or replaced.
QueueServed == \A c \in CommandIds :
    (canon.cmd = c /\ canon.status \in PENDING_STATES /\ commands[c].valid)
        ~> ~(canon.cmd = c /\ canon.status \in PENDING_STATES)
=============================================================================
