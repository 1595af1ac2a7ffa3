----------------------------- MODULE EngineHandoff -----------------------------
(***************************************************************************)
(* The engine replacing itself: the outer authority plans an adoption, a   *)
(* run of the live Worker ends with the handoff prepared, the Launcher     *)
(* moves main forward, starts the replacement on probation and either      *)
(* completes the handoff or rolls it back with a forward revert.  The      *)
(* Worker side is bridge_worker_hardened.main: health records, hot         *)
(* restart, the post-run exit and the claim gate of a replacement.         *)
(***************************************************************************)
EXTENDS LauncherActions

vars == <<gitVars, evidence, late, receipts, launcher, workers, workVars, faults>>

Init ==
  /\ AdoptionInit
  /\ HandoffInit
  /\ LauncherInit

Alter(w, v) == workers' = (workers \ {w}) \cup {v}

(* The watchdog's process.wait returns with the exit code.                 *)
Exit(w, code) ==
  /\ workers' = workers \ {w}
  /\ launcher' = IF launcher.pc = "watch" /\ launcher.proc = w.pid
                 THEN [launcher EXCEPT !.pc = "consume", !.exit = code]
                 ELSE launcher

-----------------------------------------------------------------------------
(* The first record of a starting Worker: pid and start time, and the last *)
(* failure kind is cleared.  The heartbeat stays the previous Worker's.    *)
WorkerBoot(w) ==
  /\ ~w.up
  /\ Alter(w, [w EXCEPT !.up = TRUE])
  /\ health' = [health EXCEPT !.pid = w.pid, !.failure = FALSE]
  /\ UNCHANGED <<gitVars, evidence, late, receipts, launcher, running, command, faults>>

CodeChanged(w) == ChangedPaths(w.sha, local) \cap SourcePaths # {}

(* The active runs of the health file are those of the canonical states.   *)
refresh_active_run_health(beat) ==
  health' = [health EXCEPT !.beat = beat, !.runs = {running'} \ {0}]

(* One poll: heartbeat, fetch and fast-forward, reconciliation of a run    *)
(* whose Worker is gone, refresh of the active runs.                       *)
WorkerPoll(w) ==
  /\ w.up
  /\ running' = IF w.run THEN running ELSE 0
  /\ refresh_active_run_health(w.pid)
  /\ local' = IF Ancestor(local, remote) THEN remote ELSE local
  /\ UNCHANGED <<commits, remote, plan, evidence, late, receipts, launcher, workers,
                 command, faults>>

(* The poll ends: an exception is recorded, success clears the record.     *)
PollOutcome(w) ==
  /\ w.up
  /\ health.beat = w.pid
  /\ health' = [health EXCEPT !.failure = w.sick]
  /\ UNCHANGED <<gitVars, evidence, late, receipts, launcher, workers, running, command, faults>>

(* probation_seconds have passed since a replacement started.              *)
ProbationElapses(w) ==
  /\ w.up
  /\ w.kind \in {"adopt", "rollback"}
  /\ ~w.ripe
  /\ Alter(w, [w EXCEPT !.ripe = TRUE])
  /\ UNCHANGED <<gitVars, evidence, late, receipts, launcher, workVars, faults>>

(* Mutant: the attempt is compared, its phase is not. *)
FaultyClaimsAllowed(w) == w.kind \in {"plain", "unarmed"} \/ id.attempt = w.attempt

(* _handoff_claims_allowed: a replacement claims only once its own attempt *)
(* has the verdict it was started for.                                     *)
ClaimsAllowed(w) ==
  \/ w.kind \in {"plain", "unarmed"}
  \/ /\ id.attempt = w.attempt
     /\ evidence.phase = IF w.kind = "rollback" THEN "ROLLED_BACK" ELSE "COMPLETED"

Claim(w) ==
  /\ w.up /\ ~w.run
  /\ health.beat = w.pid
  /\ running = 0
  /\ ~CodeChanged(w)
  /\ ClaimsAllowed(w)
  /\ command < MaxCommands
  /\ command' = command + 1
  /\ running' = command'
  /\ health' = [health EXCEPT !.runs = {running'}]
  /\ Alter(w, [w EXCEPT !.run = TRUE])
  /\ UNCHANGED <<gitVars, evidence, late, receipts, launcher, faults>>

(* _record_preclaim_failure: the failed stage and project are recorded and *)
(* nothing ever clears them.                                               *)
PreclaimFailure(w) ==
  /\ w.up /\ ~w.run
  /\ health.beat = w.pid
  /\ ~CodeChanged(w)
  /\ ClaimsAllowed(w)
  /\ Disturb
  /\ health' = [health EXCEPT !.failure = TRUE, !.stage = TRUE]
  /\ UNCHANGED <<gitVars, evidence, late, receipts, launcher, workers, running, command>>

(* should_request_post_run_handoff_exit: a fresh handoff this run prepared.*)
HandoffPrepared == evidence.phase = "PREPARED" /\ ~late /\ id.command = command

(* A run settles; a successful one whose publication left nothing pending  *)
(* makes the Worker exit 75 when it prepared a handoff, any other does not.*)
Settle(w) ==
  /\ w.run
  /\ running' = 0
  /\ \/ /\ HandoffPrepared
        /\ health' = [health EXCEPT !.runs = {}, !.pid = 0, !.failure = TRUE]
        /\ Exit(w, 75)
     \/ /\ health' = [health EXCEPT !.runs = {}]
        /\ Alter(w, [w EXCEPT !.run = FALSE])
        /\ UNCHANGED launcher
  /\ UNCHANGED <<gitVars, evidence, late, receipts, command, faults>>

(* worker_code_changed: drain, then exit 75 for a hot restart.             *)
HotRestart(w) ==
  /\ w.up /\ ~w.run
  /\ CodeChanged(w)
  /\ health' = [health EXCEPT !.pid = 0, !.failure = TRUE]
  /\ Exit(w, 75)
  /\ UNCHANGED <<gitVars, evidence, late, receipts, running, command, faults>>

(* The Worker dies; canonical state still shows its run.                   *)
WorkerDies(w) ==
  /\ Disturb
  /\ Exit(w, 1)
  /\ UNCHANGED <<gitVars, evidence, late, receipts, workVars>>

-----------------------------------------------------------------------------
Outside == UNCHANGED <<receipts, launcher, workers, workVars>>
Planning(A) == A /\ Outside /\ UNCHANGED <<evidence, late>>

(* Bound: a Candidate is frozen between attempts or while one is being     *)
(* rolled back, so that its base may be a main that is then reverted.      *)
FreezePhases == Terminal \cup {"NONE", "ROLLBACK_REQUIRED"}

(* The outer authority plans and prepares the attempt; others push to      *)
(* main, the operator supersedes the attempt and its deadline passes.      *)
OuterStep ==
  \/ \E p \in CandidatePaths, boot \in {1, remote} :
       /\ evidence.phase \in FreezePhases
       /\ Planning(FreezeCandidate(p, boot)) /\ UNCHANGED faults
  \/ Planning(RevalidateMain) /\ UNCHANGED faults
  \/ \E clash \in {{}, KernelPaths \cup CleanPaths}, proven, superset \in BOOLEAN :
       Planning(PlanReconciliation(clash, proven, superset)) /\ UNCHANGED faults
  \/ Planning(MainHeadStale) /\ UNCHANGED faults
  \/ Prepare(running) /\ Outside /\ UNCHANGED <<commits, local, remote, faults>>
  \/ \E p \in ForeignPaths : Planning(ForeignPush(p)) /\ Disturb
  \/ (MarkSuperseded \/ DeadlinePasses) /\ Outside /\ UNCHANGED gitVars /\ Disturb

LauncherStep ==
  \/ \E armed \in BOOLEAN : LauncherStart(armed)
  \/ SpawnWorker
  \/ ConsumeNothing \/ ConsumeTerminal \/ ConsumeBlocked
  \/ ConsumePrepared \/ ConsumeDraining \/ QuiescenceTimeout
  \/ AdoptForward \/ AdoptReceipt \/ AdoptPush \/ AdoptMark
  \/ \E sick \in BOOLEAN : ConsumeAdopted(sick) \/ ResumeProbation(sick) \/ RollbackStart(sick)
  \/ ObserveHealth \/ ProbationTimeout
  \/ RollbackForward \/ RollbackBlocked \/ RollbackReceipt \/ RollbackPush
  \/ RollbackDone \/ RollbackNotReady

WorkerStep(w) ==
  \/ WorkerBoot(w) \/ WorkerPoll(w) \/ PollOutcome(w) \/ ProbationElapses(w)
  \/ Claim(w) \/ PreclaimFailure(w) \/ Settle(w) \/ HotRestart(w) \/ WorkerDies(w)

Next ==
  \/ OuterStep
  \/ LauncherStep
  \/ LauncherDies
  \/ \E w \in workers : WorkerStep(w)

Spec == Init /\ [][Next]_vars

(* The Launcher and the Task Scheduler that restarts it keep going, and a  *)
(* live Worker starts, polls and ages.                                     *)
FairSpec ==
  /\ Spec
  /\ WF_vars(LauncherStep)
  /\ WF_vars(\E w \in workers : WorkerBoot(w))
  /\ WF_vars(\E w \in workers : WorkerPoll(w))
  /\ WF_vars(\E w \in workers : PollOutcome(w))
  /\ WF_vars(\E w \in workers : ProbationElapses(w))

-----------------------------------------------------------------------------
WorkerType == [pid : Pids, kind : {"plain", "unarmed", "adopt", "rollback"},
               attempt : 0..MaxAttempts, sha : Nat, up : BOOLEAN, run : BOOLEAN,
               sick : BOOLEAN, ripe : BOOLEAN]
LauncherPcs == {"down", "spawn", "watch", "consume", "receipt", "push", "mark",
                "rreceipt", "rpush", "rstart", "ready", "terminal"}
LauncherType == [pc : LauncherPcs, armed : BOOLEAN, exit : {0, 1, 75}, proc : {0} \cup Pids,
                 repl : {0} \cup Pids, target : Nat, handed : BOOLEAN, fresh : BOOLEAN]
HealthType == [pid : {0} \cup Pids, beat : {0} \cup Pids, failure : BOOLEAN,
               stage : BOOLEAN, runs : SUBSET (1..MaxCommands)]
ReceiptType == [op : {"none", "adopt", "rollback"}, sha : Nat]

(* Types of the repository, the evidence and the two processes.            *)
EngineTypeOK ==
  /\ AdoptionTypeOK
  /\ HandoffTypeOK
  /\ receipts \in [Attempts -> ReceiptType]
  /\ launcher \in LauncherType
  /\ workers \subseteq WorkerType
  /\ health \in HealthType
  /\ running \in 0..MaxCommands
  /\ command \in 0..MaxCommands
  /\ faults \in 0..MaxFaults

(* At most one Worker process lives, whatever the Launcher and the handoff *)
(* controller start, stop and hand over to each other.                     *)
OneWorker == Cardinality(workers) <= 1

(* From the moment a handoff closes admission until its verdict, no Worker *)
(* of an armed Launcher executes a command: neither the old engine nor the *)
(* replacement on probation.                                               *)
NoRunDuringHandoff ==
  evidence.phase \in NonTerminal \ {"PREPARED"} =>
    \A w \in workers : w.kind = "unarmed" \/ ~w.run

(* No Worker executes, or may claim, a command on the source of an         *)
(* adoption that was reverted, even when a later Candidate was built on    *)
(* that source before the revert.                                          *)
RevertedSourceNeverRuns ==
  \A w \in workers :
    w.kind # "unarmed" /\ (w.run \/ (w.up /\ ClaimsAllowed(w) /\ ~CodeChanged(w))) =>
    \A c \in Shas : commits[c].kind = "revert" =>
      \A p \in SourcePaths : commits[c].of \notin Tree(w.sha)[p]

(* A rolled-back handoff names a commit of remote main, ahead of the       *)
(* adoption, whose source is that of the main the adoption started from.   *)
RollbackRestoresSource ==
  evidence.phase = "ROLLED_BACK" =>
    /\ Ancestor(evidence.rollback, remote)
    /\ Ancestor(id.target, evidence.rollback)
    /\ OnlyProjects(id.main, evidence.rollback)

(* Whatever the planner's allowlists admit, no Candidate edit to protocol, *)
(* recovery, runtime-local or projects paths ever reaches remote main.     *)
AuthorityNeverAdopted ==
  \A p \in Paths : Category[p] \in Blocking => Tree(remote)[p] \cap Attempts = {}

(* Remote main only moves forward, and work others put there stays in its  *)
(* tree through reconciliation, adoption and rollback.                     *)
LiveWorkSurvives ==
  [][/\ remote \in commits'[remote'].anc
     /\ \A p \in Paths : Foreign \in Tree(remote)[p] =>
          Foreign \in commits'[remote'].tree[p]]_vars

(* A replacement on probation gets its verdict, unless the deadline        *)
(* passes, main drifts or the operator supersedes or disarms the Launcher. *)
ProbationReachesVerdict ==
  evidence.phase = "PROBATION" ~>
    \/ evidence.phase # "PROBATION"
    \/ late
    \/ ~(HeadSafe(local) /\ HeadSafe(remote))
    \/ launcher.pc # "down" /\ ~launcher.armed

(* "A prior worker's fresh file is not an observation of this              *)
(* replacement" (launcher_actions.py:917): a live, sound replacement is    *)
(* never rolled back.                                                      *)
SoundReplacementIsKept ==
  [][evidence.phase = "PROBATION" /\ evidence'.phase = "ROLLBACK_REQUIRED" =>
       \A w \in Replacement : w.sick]_vars
=============================================================================
