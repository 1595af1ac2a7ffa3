------------------------------ MODULE ContainedRun -----------------------------
(***************************************************************************)
(* One run whose evidence is kept in a WAL, from the claim to the recorded *)
(* push of its report: process_project's try block, the RunScope that owns *)
(* the reservation and the containment, the report's push with its intent  *)
(* and confirmation, a crash of the Worker at any point, and the reading   *)
(* of the evidence by typed recovery, which runs in the Worker's main loop *)
(* beside a live run and after a restart.                                  *)
(*                                                                         *)
(* mode is how the run was composed:                                       *)
(*   phased     a phased command through process_project: WAL, no egress   *)
(*   contained  RunScope, RunEgressResources and the Codex provider with   *)
(*              its own runner, as the egress tests compose them; ends     *)
(*              when the scope is closed                                   *)
(*   unwired    process_project handed a contained launcher: its runner    *)
(*              does not accept the launcher, so the run fails at launch   *)
(*                                                                         *)
(*   held      the host reservation                                        *)
(*   report    what was materialised: outcome and whether it has a marker  *)
(*   sidecar   the typed pending report                                    *)
(*   ref       the bridge branch: head, the head the report's commit was   *)
(*             made on (base), read before the push (pre), and the head it *)
(*             became when it landed (mine, 0 before)                      *)
(*   verdict   the last classification by typed recovery                   *)
(*   crashed   the Worker died during the run                              *)
(***************************************************************************)
EXTENDS RunEgress

CONSTANTS
  Modes,       \* how runs are composed in this instance
  MaxForeign   \* pushes of others to the bridge branch

VARIABLES held, report, sidecar, ref, verdict, crashed

ASSUME ModesAssumption ==
  /\ Modes \subseteq {"phased", "contained", "unwired"}
  /\ MaxForeign \in Nat

runVars == <<held, report, sidecar, ref, verdict, crashed>>
vars == <<pc, wal, faults, mode, lifeVars, egressVars, runVars>>

NoReport == [outcome |-> "none", marker |-> FALSE]

Init ==
  /\ pc = "claimed"
  /\ WalInit
  /\ mode \in Modes
  /\ LifecycleInit
  /\ EgressInit
  /\ held = TRUE
  /\ report = NoReport
  /\ sidecar = "none"
  /\ ref = [head |-> 1, base |-> 0, pre |-> 0, mine |-> 0]
  /\ verdict = "none"
  /\ crashed = FALSE

-----------------------------------------------------------------------------
(* The try block around the executor.                                      *)

OpenWal ==
  /\ pc = "claimed"
  /\ append("RUN_CLAIMED", "scope", "dispose")
  /\ UNCHANGED <<mode, lifeVars, egressVars, runVars>>

(* The scope takes over the reservation, then the containment if any; a    *)
(* phased runtime that could not be prepared raises here.                  *)
ActivateScope ==
  /\ pc = "scope"
  /\ \/ mode # "phased" /\ pc' = "broker"
     \/ mode = "phased" /\ pc' \in {"launch", "dispose"}
  /\ UNCHANGED <<wal, faults, mode, lifeVars, egressVars, runVars>>

(* The runner of process_project has no process_launcher parameter: the    *)
(* call raises before any process exists.                                  *)
RunnerRefusesLauncher ==
  /\ pc = "launch" /\ ~RunnerAccepts
  /\ pc' = "dispose"
  /\ UNCHANGED <<wal, faults, mode, lifeVars, egressVars, runVars>>

(* The scope's effects are disposed in reverse order: without containment  *)
(* only the reservation is left.                                           *)
DisposeUncontained ==
  /\ pc = "dispose" /\ ~LaunchesEgress
  /\ pc' = "free"
  /\ UNCHANGED <<wal, faults, mode, lifeVars, egressVars, runVars>>

ReleaseReservation ==
  /\ pc = "free"
  /\ held' = FALSE
  /\ pc' = IF mode = "contained" THEN "ended" ELSE "materialize"
  /\ UNCHANGED <<wal, faults, mode, lifeVars, egressVars, report, sidecar, ref, verdict,
                 crashed>>

-----------------------------------------------------------------------------
(* The report.                                                             *)

(* execution_outcome and the phase contract, which may still fail a run    *)
(* whose marker says SUCCESS.                                              *)
Outcomes ==
  IF life.done /\ life.reason = "network" THEN {"NETWORK"}
  ELSE IF life.done /\ life.marker = "SUCCESS" /\ life.reason # "owner_stop"
  THEN {"SUCCESS", "FAILED"}
  ELSE {"FAILED"}

Materialize ==
  /\ pc = "materialize"
  /\ \E o \in Outcomes :
       report' = [outcome |-> o, marker |-> life.done /\ life.marker # "none"]
  /\ append("REPORT_MATERIALIZED", "publish_intent", "ended")
  /\ UNCHANGED <<mode, lifeVars, egressVars, held, sidecar, ref, verdict, crashed>>

(* An interrupted run is published by publish_network_recovery instead.    *)
LogPublishIntent ==
  /\ pc = "publish_intent"
  /\ append("REPORT_PUBLISH_INTENT",
            IF report.outcome = "NETWORK" THEN "ended" ELSE "save", "ended")
  /\ UNCHANGED <<mode, lifeVars, egressVars, runVars>>

SaveSidecar ==
  /\ pc \in {"save", "resave"}
  /\ sidecar' = "pending"
  /\ pc' = IF pc = "save" THEN "commit" ELSE "ended"
  /\ UNCHANGED <<wal, faults, mode, lifeVars, egressVars, held, report, ref, verdict,
                 crashed>>

(* Synchronise, check the lease, commit on the head; a conflict or a Git   *)
(* failure keeps the report for recovery.                                  *)
CommitReport ==
  /\ pc = "commit"
  /\ \/ /\ ref' = [ref EXCEPT !.base = ref.head]
        /\ pc' = "push_intent"
        /\ UNCHANGED faults
     \/ /\ Fault
        /\ pc' = "resave"
        /\ UNCHANGED ref
  /\ UNCHANGED <<wal, mode, lifeVars, egressVars, held, report, sidecar, verdict, crashed>>

Landed == ref.mine # 0

(* Mutant: the report is pushed before its intent is recorded. *)
FaultyRecordPushIntent ==
  /\ pc = "push_intent"
  /\ \/ pc' = "push"
     \/ pc' = "resave"
  /\ UNCHANGED <<wal, faults, mode, lifeVars, egressVars, runVars>>

(* The remote head is read, then the intent is recorded against it.        *)
RecordPushIntent ==
  /\ pc = "push_intent"
  /\ ref' = [ref EXCEPT !.pre = ref.head]
  /\ append("PUSH_INTENT", "push", "resave")
  /\ UNCHANGED <<mode, lifeVars, egressVars, held, report, sidecar, verdict, crashed>>

(* A fast-forward or nothing; the command may fail whatever it did.        *)
PushReport ==
  /\ pc = "push"
  /\ \/ /\ ref' = IF ref.head = ref.base
                  THEN [ref EXCEPT !.head = @ + 1, !.mine = ref.head + 1] ELSE ref
        /\ pc' = "observe"
        /\ UNCHANGED faults
     \/ /\ Fault
        /\ ref' \in {ref} \cup (IF ref.head = ref.base
                    THEN {[ref EXCEPT !.head = @ + 1, !.mine = ref.head + 1]} ELSE {})
        /\ pc' \in {"observe", "resave"}
  /\ UNCHANGED <<wal, mode, lifeVars, egressVars, held, report, sidecar, verdict, crashed>>

(* Only the exact pushed object at the head confirms; anything else, and   *)
(* any failure to look, does not.                                          *)
Observation ==
  CASE Landed /\ ref.head = ref.mine -> "EXACT_APPLIED"
    [] ~Landed /\ ref.head = ref.pre -> "EXACT_NOT_APPLIED"
    [] OTHER -> "AMBIGUOUS"

(* Mutant: a push that is not shown unapplied is confirmed. *)
FaultyObservePush ==
  /\ pc = "observe"
  /\ pc' = IF ref.pre = ref.base THEN "confirm" ELSE "resave"
  /\ UNCHANGED <<wal, faults, mode, lifeVars, egressVars, runVars>>

ObservePush ==
  /\ pc = "observe"
  /\ \/ pc' = (IF Observation = "EXACT_APPLIED" THEN "confirm" ELSE "resave") /\ UNCHANGED faults
     \/ Fault /\ pc' = "resave"
  /\ UNCHANGED <<wal, mode, lifeVars, egressVars, runVars>>

ConfirmPush ==
  /\ pc = "confirm"
  /\ append("PUSH_CONFIRMED", "ack", "resave")
  /\ UNCHANGED <<mode, lifeVars, egressVars, runVars>>

(* The acknowledgement of the sidecar may fail without consequence.        *)
AckReport ==
  /\ pc = "ack"
  /\ \/ sidecar' = "reconciled" /\ UNCHANGED faults
     \/ Fault /\ UNCHANGED sidecar
  /\ pc' = "published"
  /\ UNCHANGED <<wal, mode, lifeVars, egressVars, held, report, ref, verdict, crashed>>

LogPublished ==
  /\ pc = "published"
  /\ append("REPORT_PUBLISHED", "ended", "ended")
  /\ UNCHANGED <<mode, lifeVars, egressVars, runVars>>

-----------------------------------------------------------------------------
(* Everyone else.                                                          *)

(* Another writer of the bridge branch; before the report's commit its     *)
(* pushes only choose the head that commit is made on.                     *)
ForeignPush ==
  /\ ref.base # 0
  /\ ref.head + (IF Landed THEN 0 ELSE 1) <= MaxForeign + 1
  /\ ref' = [ref EXCEPT !.head = @ + 1]
  /\ UNCHANGED <<pc, wal, faults, mode, lifeVars, egressVars, held, report, sidecar,
                 verdict, crashed>>

(* Where the thread may be in the middle of a record.                      *)
Appending ==
  pc \in {"claimed", "log_broker", "bind", "launch", "pid", "poll", "exit", "log_stopped",
          "log_reconciled", "log_egress", "log_released", "materialize", "publish_intent",
          "push_intent", "confirm", "published"}

(* The Worker dies: its threads, the broker and (with the job) the         *)
(* executor go, the helper's resource stays, an append under way may leave *)
(* part of a record, and the reservation of a dead owner counts no more.   *)
Crash ==
  /\ pc \notin {"ended", "down"}
  /\ Fault
  /\ pc' = "down"
  /\ crashed' = TRUE
  /\ held' = FALSE
  /\ wal' \in {wal, [wal EXCEPT !.torn = @ \/ Appending]}
  /\ exec' = IF KillOnClose /\ exec.gate # "held" THEN [exec EXCEPT !.procs = {}] ELSE exec
  /\ broker' = [broker EXCEPT !.state = "CLOSED"]
  /\ conns' = [c \in Conns |-> "closed"]
  /\ UNCHANGED <<mode, life, stop, helper, report, sidecar, ref, verdict>>

(* What a reader of the pushed ref may answer typed recovery about a push  *)
(* without confirmation.                                                   *)
PushResolutionState == {"EXACT_APPLIED", "EXACT_NOT_APPLIED", "AMBIGUOUS"}

(* No egress is contradicted by a confirmed or applied push, and left      *)
(* unresolved by an ambiguous one.                                         *)
PushAbsent(seen) ==
  Recorded("PUSH_INTENT") => ~Recorded("PUSH_CONFIRMED") /\ seen = "EXACT_NOT_APPLIED"

CompletedProven ==
  /\ report.marker
  /\ Recorded("PROCESS_CREATED") /\ Recorded("PROCESS_EXITED")
  /\ Recorded("REPORT_MATERIALIZED")

(* Observed egress is never classified, so only its absence will do.       *)
InterruptedProven(seen) ==
  /\ ~report.marker /\ report.outcome # "SUCCESS"
  /\ Recorded("PROCESS_CREATED") /\ Recorded("PROCESS_EXITED")
  /\ Recorded("CONTAINMENT_RECONCILED") /\ Recorded("EGRESS_NO")
  /\ PushAbsent(seen)

(* Mutant: a report with a marker needs no evidence of the process. *)
FaultyClassification(seen) ==
  IF Landed THEN "superseded"
  ELSE IF report.marker THEN "completed"
  ELSE "require"

Classification(seen) ==
  CASE wal.torn \/ (Recorded("REPORT_MATERIALIZED") /\ ~Recorded("REPORT_PUBLISH_INTENT"))
         -> "require"
    [] Landed -> "superseded"
    [] CompletedProven -> "completed"
    [] InterruptedProven(seen) -> "interrupted"
    [] OTHER -> "require"

(* Typed recovery reads the sidecar, the WAL, the canonical state and, for *)
(* a push without confirmation, the remote ref of the project's own        *)
(* repository when it has one, so that any answer is possible.             *)
RecoveryReads ==
  /\ sidecar = "pending"
  /\ \E seen \in PushResolutionState : verdict' = Classification(seen)
  /\ UNCHANGED <<pc, wal, faults, mode, lifeVars, egressVars, held, report, sidecar, ref,
                 crashed>>

-----------------------------------------------------------------------------
ThreadStep ==
  \/ OpenWal \/ ActivateScope \/ RunnerRefusesLauncher \/ DisposeUncontained
  \/ ReleaseReservation \/ Materialize \/ LogPublishIntent \/ SaveSidecar
  \/ CommitReport \/ RecordPushIntent \/ PushReport \/ ObservePush \/ ConfirmPush
  \/ AckReport \/ LogPublished
  \/ LifecycleStep /\ UNCHANGED <<mode, egressVars, runVars>>
  \/ EgressStep /\ UNCHANGED <<mode, lifeVars, runVars>>

Environment ==
  \/ (ProcessStep \/ request_stop)
     /\ UNCHANGED <<pc, wal, faults, mode, egressVars, runVars>>
  \/ \E c \in Conns : (Connect(c) \/ BrokerThread(c))
     /\ UNCHANGED <<pc, wal, faults, mode, lifeVars, runVars>>
  \/ ForeignPush \/ Crash \/ RecoveryReads

(* The run is over.                                                        *)
Over == pc \in {"ended", "down"} /\ UNCHANGED vars

Next == ThreadStep \/ Environment \/ Over

Spec == Init /\ [][Next]_vars

(* The Worker's thread and the operating system's processes are scheduled; *)
(* the execution timeout, the grace period and the settle period run out;  *)
(* a join ends with its threads or its timeout.                            *)
FairSpec ==
  /\ Spec
  /\ WF_vars(ThreadStep)
  /\ SF_vars(TimedOut /\ UNCHANGED <<mode, egressVars, runVars>>)
  /\ SF_vars(GraceExpired /\ UNCHANGED <<mode, egressVars, runVars>>)
  /\ \A c \in Conns :
       WF_vars(BrokerThread(c) /\ UNCHANGED <<pc, wal, faults, mode, lifeVars, runVars>>)

-----------------------------------------------------------------------------
RefType == [head : Nat, base : Nat, pre : Nat, mine : Nat]

ContainedTypeOK ==
  /\ wal \in [mem : SUBSET WalEventKind, disk : SUBSET WalEventKind, torn : BOOLEAN]
  /\ faults \in 0..MaxFaults
  /\ mode \in Modes
  /\ exec \in ExecType
  /\ life \in LifeType
  /\ stop \in BOOLEAN
  /\ broker \in BrokerType
  /\ conns \in [Conns -> ConnStates]
  /\ helper \in HelperType
  /\ held \in BOOLEAN /\ crashed \in BOOLEAN
  /\ report \in [outcome : {"none", "SUCCESS", "FAILED", "NETWORK"}, marker : BOOLEAN]
  /\ sidecar \in {"none", "pending", "reconciled"}
  /\ ref \in RefType
  /\ verdict \in {"none", "require", "superseded", "completed", "interrupted"}

(* Nothing that outlives the Worker is done before it is on record: a      *)
(* wrapper process exists, and the report is on the bridge branch, only    *)
(* after the intent reached the disk (run_codex_process, publish_cas).     *)
IntentBeforeEffect ==
  /\ exec.gate # "none" => "PROCESS_CREATE_INTENT" \in wal.disk
  /\ Landed => "PUSH_INTENT" \in wal.disk

(* What the WAL says happened has happened, whatever order failures, kills *)
(* and crashes came in: recovery takes these records for proof.            *)
WalTellsTruth ==
  /\ "PROCESS_CREATED" \in wal.disk => exec.gate = "named"
  /\ "PROCESS_EXITED" \in wal.disk => "gate" \notin exec.procs
  /\ "BROKER_STOPPED" \in wal.disk => broker.state = "CLOSED"
  /\ "CONTAINMENT_RELEASED" \in wal.disk => ~ExecutorAlive /\ ~helper.active
  /\ "PUSH_CONFIRMED" \in wal.disk => Landed

(* A record of no project egress stays true: no connection taken before    *)
(* the ledger was read, and no handler whose join timed out, ever relays.  *)
EgressEvidenceSound == "EGRESS_NO" \in wal.disk => ~broker.relayed

(* An executor of a run that requires containment is alive only while the  *)
(* helper enforces it, the launcher is bound to it and the host            *)
(* reservation is held, through launch failures, kills and crashes.        *)
ExecutorContained ==
  LaunchesEgress /\ ExecutorAlive =>
    mode = "contained" /\ helper.active /\ helper.bound /\ held

(* A report says SUCCESS only for a complete final message that says so,   *)
(* and counts as marked only for one the Owner did not stop; by then the   *)
(* executor and its children are gone.                                     *)
SuccessIsEarned ==
  /\ report.outcome = "SUCCESS" => exec.final = "SUCCESS" /\ ~ExecutorAlive
  /\ report.marker => exec.final \in Markers /\ life.reason # "owner_stop"

(* Typed recovery, which also reads beside a live run and after a crash,   *)
(* declares a report completed only when the executor and its children are *)
(* really gone and its final message is complete (classify_recovery).      *)
RecoveryNeverOverclaims ==
  verdict = "completed" =>
    "PROCESS_EXITED" \in wal.disk /\ exec.final \in Markers /\ ~ExecutorAlive

(* A run that ends without a lost exchange with the helper leaves nothing  *)
(* behind, whichever step failed: the containment is released, the broker  *)
(* closed, the reservation free and the executor gone.                     *)
ContainmentReturned ==
  pc = "ended" /\ ~helper.lost =>
    /\ ~helper.active
    /\ broker.state # "ACTIVE" /\ broker.state # "STOPPING"
    /\ ~held
    /\ ~ExecutorAlive

(* Every run ends or its Worker dies, whatever the executor does: it never *)
(* exits, keeps forking, or never writes a marker.                         *)
RunEnds == <>(pc \in {"ended", "down"})

===============================================================================
