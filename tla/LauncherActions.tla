---------------------------- MODULE LauncherActions ----------------------------
(***************************************************************************)
(* The Launcher that outlives every Worker: its supervision loop           *)
(* (windows_worker_launcher.py), the consumer that drives one handoff      *)
(* (handoff.py, LauncherHandoffConsumer) and the concrete Git and process  *)
(* operations it performs (vnext_runtime/launcher_actions.py), each        *)
(* durable effect a step of its own so that the Launcher can die between   *)
(* any two of them.                                                        *)
(*                                                                         *)
(* The Launcher's Job Object kills every Worker with it.                   *)
(***************************************************************************)
EXTENDS Handoff

CONSTANTS
  MaxCommands,         \* bound: commands claimed
  MaxFaults            \* bound: disturbances from outside: a commit pushed by
                       \* others, a death, a sick replacement, a disarmed start,
                       \* a failed validation, the deadline, a supersede

ASSUME LauncherAssumption == MaxCommands \in Nat /\ MaxFaults \in Nat

VARIABLES
  receipts,    \* per attempt, the receipt of its last side effect
  launcher,    \* the Launcher process
  workers,     \* live Worker processes
  health,      \* worker-health.json, which outlives the Worker that wrote it
  running,     \* the command canonical state shows as CODEX_RUNNING, or 0
  command,     \* the latest command claimed
  faults       \* disturbances so far

gitVars == <<commits, local, remote, plan>>
workVars == <<health, running, command>>

Pids == 1..6
NoReceipt == [op |-> "none", sha |-> 0]

(* LauncherOwnedHandoffActions keeps the replacement for its whole life.   *)
Down == [pc |-> "down", armed |-> FALSE, exit |-> 0, proc |-> 0, repl |-> 0,
         target |-> 0, handed |-> FALSE, fresh |-> FALSE]

LauncherInit ==
  /\ receipts = [a \in Attempts |-> NoReceipt]
  /\ launcher = Down
  /\ workers = {}
  /\ health = [pid |-> 0, beat |-> 0, failure |-> FALSE, stage |-> FALSE, runs |-> {}]
  /\ running = 0
  /\ command = 0
  /\ faults = 0

Disturb == faults < MaxFaults /\ faults' = faults + 1
Unless(normal) == IF normal THEN UNCHANGED faults ELSE Disturb

UsedPids == {w.pid : w \in workers} \cup {health.pid, health.beat, launcher.repl}
FreshPid == CHOOSE p \in Pids \ UsedPids : \A q \in Pids \ UsedPids : p <= q

Worker(pid, kind, attempt, sha, sick) ==
  [pid |-> pid, kind |-> kind, attempt |-> attempt, sha |-> sha,
   up |-> FALSE, run |-> FALSE, sick |-> sick, ripe |-> FALSE]

GoTo(pc) == launcher' = [launcher EXCEPT !.pc = pc]
Return1 == launcher' = Down /\ workers' = {}

-----------------------------------------------------------------------------
(* Read-only checks: _validate_repository_identity.                        *)
Receipt == receipts[id.attempt]

OnlyProjects(a, b) == ChangedPaths(a, b) \cap SourcePaths = {}
PostHeadSafe(base, head) == Ancestor(base, head) /\ OnlyProjects(base, head)

Blocking == {"PROTOCOL_AUTHORITY", "PROJECT_CONTROL_PLANE", "PROTECTED_PATH",
             "RECOVERY_IDENTITY"}
(* Mutant: recovery identity is left out of the final re-check. *)
FaultyTouchesProtected(a, b) ==
  \E p \in ChangedPaths(a, b) : Category[p] \in Blocking \ {"RECOVERY_IDENTITY"}
TouchesProtected(a, b) == \E p \in ChangedPaths(a, b) : Category[p] \in Blocking

(* _existing_rollback_commit: the receipt's commit, else a forward revert  *)
(* found on main after the adoption.                                       *)
ExistingRollback ==
  LET found == {c \in commits[local].anc \ commits[id.target].anc :
                  /\ Ancestor(id.target, local)
                  /\ commits[c].kind = "revert"
                  /\ Ancestor(id.stable, c)
                  /\ OnlyProjects(id.main, c)}
  IN IF Receipt.op = "rollback" THEN Receipt.sha
     ELSE IF found = {} THEN 0 ELSE CHOOSE c \in found : TRUE

HeadSafe(head) ==
  \/ head \in {id.main, id.target}
  \/ PostHeadSafe(id.target, head)
  \/ ExistingRollback # 0 /\ PostHeadSafe(ExistingRollback, head)

ValidIdentity ==
  /\ launcher.armed
  /\ Ancestor(id.stable, id.main) /\ Ancestor(id.main, id.target)
  /\ Ancestor(id.candidate, id.target)
  /\ ~TouchesProtected(id.stable, id.candidate)
  /\ ~TouchesProtected(id.main, id.target)
  /\ HeadSafe(local) /\ HeadSafe(remote)

-----------------------------------------------------------------------------
(* The supervision loop of main().                                         *)
LauncherStart(armed) ==
  /\ launcher.pc = "down"
  /\ launcher' = [Down EXCEPT !.armed = armed, !.exit = 75,
       !.pc = IF armed /\ evidence.phase # "NONE" THEN "consume" ELSE "spawn"]
  /\ Unless(armed)
  /\ UNCHANGED <<gitVars, evidence, late, receipts, workers, workVars>>

SpawnWorker ==
  LET pid == FreshPid IN
  /\ launcher.pc = "spawn"
  /\ workers' = workers \cup
       {Worker(pid, IF launcher.armed THEN "plain" ELSE "unarmed", 0, local, FALSE)}
  /\ launcher' = [launcher EXCEPT !.pc = "watch", !.proc = pid]
  /\ UNCHANGED <<gitVars, evidence, late, receipts, workVars, faults>>

(* The Launcher is killed, or gives up a consumption after 300 seconds.    *)
LauncherDies ==
  /\ launcher.pc # "down"
  /\ Disturb
  /\ Return1
  /\ UNCHANGED <<gitVars, evidence, late, receipts, workVars>>

(* NO_HANDOFF: back to the watchdog.                                       *)
ConsumeNothing ==
  /\ launcher.pc = "consume"
  /\ evidence.phase = "NONE"
  /\ GoTo("spawn")
  /\ UNCHANGED <<gitVars, evidence, late, receipts, workers, workVars, faults>>

(* A terminal result, or terminal evidence at the start: the verified      *)
(* replacement is handed to the watchdog (take_replacement_process), else  *)
(* a plain Worker is started.                                              *)
ConsumeTerminal ==
  LET take == launcher.repl # 0 /\ ~launcher.handed IN
  /\ \/ launcher.pc = "terminal"
     \/ launcher.pc = "consume" /\ evidence.phase \in Terminal
  /\ launcher' =
       IF ~take THEN [launcher EXCEPT !.pc = "spawn"]
       ELSE IF \E w \in workers : w.pid = launcher.repl
            THEN [launcher EXCEPT !.pc = "watch", !.proc = launcher.repl, !.handed = TRUE]
            ELSE [launcher EXCEPT !.pc = "consume", !.handed = TRUE, !.exit = 1]
  /\ UNCHANGED <<gitVars, evidence, late, receipts, workers, workVars, faults>>

(* Anything the consumer cannot prove: BLOCKED, and the Launcher exits     *)
(* rather than restart a Worker around a non-terminal handoff.             *)
Blocked ==
  \/ late
  \/ launcher.exit # 75
  \/ ~launcher.armed
  \/ /\ ~ValidIdentity
     /\ ~(evidence.phase = "PROBATION" /\ launcher.fresh)

ConsumeBlocked ==
  /\ launcher.pc = "consume"
  /\ evidence.phase \in NonTerminal
  /\ Blocked
  /\ Return1
  /\ UNCHANGED <<gitVars, evidence, late, receipts, workVars, faults>>

Proceed(phase) ==
  /\ launcher.pc = "consume"
  /\ evidence.phase = phase
  /\ ~Blocked

ConsumePrepared ==
  /\ Proceed("PREPARED")
  /\ BeginDraining
  /\ UNCHANGED <<gitVars, receipts, launcher, workers, workVars, faults>>

(* worker_stopped holds once the watchdog has waited for the old Worker;   *)
(* active_run_ids is the health file's view of canonical state.            *)
ConsumeDraining ==
  /\ Proceed("DRAINING")
  /\ health.pid # 0 \/ health.beat # 0
  /\ RecordWorkerQuiesced(health.runs)
  /\ UNCHANGED <<gitVars, receipts, launcher, workers, workVars, faults>>

(* WAITING_FOR_QUIESCENCE until the 300 second bound.                      *)
QuiescenceTimeout ==
  /\ Proceed("DRAINING")
  /\ health.runs # {}
  /\ Return1
  /\ UNCHANGED <<gitVars, evidence, late, receipts, workVars, faults>>

-----------------------------------------------------------------------------
(* ensure_adopted: merge --ff-only, receipt, push, evidence.               *)
AdoptForward ==
  /\ Proceed("QUIESCED")
  /\ \/ local = id.main /\ local' = id.target /\ GoTo("receipt") /\ UNCHANGED workers
     \/ local = id.target /\ GoTo("push") /\ UNCHANGED <<local, workers>>
     \/ local \notin {id.main, id.target} /\ UNCHANGED local /\ Return1
  /\ UNCHANGED <<commits, remote, plan, evidence, late, receipts, workVars, faults>>

AdoptReceipt ==
  /\ launcher.pc = "receipt"
  /\ receipts' = [receipts EXCEPT ![id.attempt] = [op |-> "adopt", sha |-> id.target]]
  /\ GoTo("push")
  /\ UNCHANGED <<gitVars, evidence, late, workers, workVars, faults>>

(* _ensure_remote_at: a non-force push from the one expected base.         *)
EnsureRemoteAt(expected, base, next) ==
  IF remote = expected THEN GoTo(next) /\ UNCHANGED <<remote, workers>>
  ELSE IF remote = base
       THEN /\ remote' = local
            /\ IF local = expected THEN GoTo(next) /\ UNCHANGED workers ELSE Return1
       ELSE Return1 /\ UNCHANGED remote

AdoptPush ==
  /\ launcher.pc = "push"
  /\ EnsureRemoteAt(id.target, id.main, "mark")
  /\ UNCHANGED <<commits, local, plan, evidence, late, receipts, workVars, faults>>

AdoptMark ==
  /\ launcher.pc = "mark"
  /\ receipts' = [receipts EXCEPT ![id.attempt] = [op |-> "adopt", sha |-> id.target]]
  /\ \/ MarkAdopted(id.target) /\ GoTo("consume") /\ UNCHANGED workers
     \/ ~Current /\ Return1 /\ UNCHANGED <<evidence, late>>
  /\ UNCHANGED <<gitVars, workVars, faults>>

-----------------------------------------------------------------------------
(* _start_worker: the controller's one replacement, or a conflict when it  *)
(* still holds the replacement of another target.                          *)
StartReplacement(kind, sha, sick) ==
  LET pid == FreshPid IN
  /\ workers' = workers \cup {Worker(pid, kind, id.attempt, local, sick)}
  /\ launcher' = [launcher EXCEPT !.repl = pid, !.target = sha, !.handed = FALSE,
                    !.fresh = TRUE, !.pc = IF kind = "rollback" THEN "ready" ELSE "consume"]

ConsumeAdopted(sick) ==
  /\ Unless(~sick)
  /\ Proceed("ADOPTED")
  /\ IF launcher.repl = 0
     THEN RecordWorkerRestart(id.target) /\ StartReplacement("adopt", id.target, sick)
     ELSE IF launcher.target = id.target
          THEN RecordWorkerRestart(id.target) /\ GoTo("consume") /\ UNCHANGED workers
          ELSE Return1 /\ UNCHANGED <<evidence, late>>
  /\ UNCHANGED <<gitVars, receipts, workVars>>

(* A Launcher that resumes in PROBATION starts the replacement again.      *)
ResumeProbation(sick) ==
  /\ Unless(~sick)
  /\ Proceed("PROBATION")
  /\ launcher.repl = 0
  /\ RecordWorkerRestart(id.target)
  /\ StartReplacement("adopt", id.target, sick)
  /\ UNCHANGED <<gitVars, receipts, workVars>>

(* _worker_health_observation of the replacement: the file must name its   *)
(* pid, but heartbeat and failure fields may be an earlier Worker's.       *)
Replacement == {w \in workers : w.pid = launcher.repl}
Observation ==
  LET matches == health.pid = launcher.repl
      heartbeat == CASE ~matches \/ health.beat = 0 -> "none"
                     [] matches /\ health.beat = launcher.repl -> "after_start"
                     [] OTHER -> "before_start" IN
  [started |-> matches,
   heartbeat |-> heartbeat,
   healthy |-> /\ Replacement # {} /\ matches /\ heartbeat # "none"
               /\ ~health.failure /\ ~health.stage,
   probationOver |-> \E w \in Replacement : w.ripe]

(* Mutant: a failed health gate is waited on like an incomplete one. *)
FaultyObserveHealth ==
  /\ Proceed("PROBATION")
  /\ launcher.repl # 0
  /\ CASE HealthGate(late, Observation) = "READY" ->
            MarkHealthReady(Observation) /\ GoTo("terminal")
       [] OTHER -> launcher' = [launcher EXCEPT !.fresh = FALSE] /\ UNCHANGED <<evidence, late>>
  /\ UNCHANGED <<gitVars, receipts, workers, workVars, faults>>

ObserveHealth ==
  /\ Proceed("PROBATION")
  /\ launcher.repl # 0
  /\ CASE HealthGate(late, Observation) = "READY" ->
            MarkHealthReady(Observation) /\ GoTo("terminal")
       [] HealthGate(late, Observation) = "FAILED" ->
            RequestRollback /\ UNCHANGED launcher
       [] OTHER -> launcher' = [launcher EXCEPT !.fresh = FALSE] /\ UNCHANGED <<evidence, late>>
  /\ UNCHANGED <<gitVars, receipts, workers, workVars, faults>>

(* A dead replacement that never wrote its health is only waited for, up   *)
(* to the 300 second bound.                                                *)
ProbationTimeout ==
  /\ Proceed("PROBATION")
  /\ launcher.repl # 0
  /\ Replacement = {}
  /\ HealthGate(late, Observation) \in {"WAITING_FOR_RESTART", "PROBATION"}
  /\ Return1
  /\ UNCHANGED <<gitVars, evidence, late, receipts, workVars, faults>>

-----------------------------------------------------------------------------
(* ensure_forward_rollback: stop the replacement, revert forward, receipt, *)
(* push, start the known-good Worker, wait until it is ready.              *)
RevertTree(head) ==
  [p \in Paths |-> IF p \in ChangedPaths(id.main, id.target)
                   THEN Tree(head)[p] \ (Tree(id.target)[p] \ Tree(id.main)[p])
                   ELSE Tree(head)[p]]

(* Mutant: the replacement is left running while its tree is reverted. *)
FaultyRollbackForward ==
  /\ Proceed("ROLLBACK_REQUIRED")
  /\ ExistingRollback = 0
  /\ PostHeadSafe(id.target, local)
  /\ remote = local
  /\ commits' = Append(commits, Commit({local}, RevertTree(local),
                         ChangedPaths(id.main, id.target), "revert", id.attempt))
  /\ local' = Len(commits')
  /\ GoTo("rreceipt")
  /\ UNCHANGED <<workers, remote, plan, evidence, late, receipts, workVars, faults>>

RollbackForward ==
  /\ Proceed("ROLLBACK_REQUIRED")
  /\ workers' = {w \in workers : w.pid # launcher.repl \/ launcher.handed}
  /\ \/ /\ ExistingRollback # 0
        /\ GoTo("rreceipt")
        /\ UNCHANGED <<commits, local>>
     \/ /\ ExistingRollback = 0
        /\ PostHeadSafe(id.target, local)
        /\ remote = local
        /\ commits' = Append(commits, Commit({local}, RevertTree(local),
                               ChangedPaths(id.main, id.target), "revert", id.attempt))
        /\ local' = Len(commits')
        /\ GoTo("rreceipt")
  /\ UNCHANGED <<remote, plan, evidence, late, receipts, workVars, faults>>

RollbackBlocked ==
  /\ Proceed("ROLLBACK_REQUIRED")
  /\ ExistingRollback = 0
  /\ ~PostHeadSafe(id.target, local) \/ remote # local
  /\ Return1
  /\ UNCHANGED <<gitVars, evidence, late, receipts, workVars, faults>>

(* _verify_known_good_runtime and the rollback receipt.                    *)
KnownGoodRestored(sha) ==
  LET adopted == ChangedPaths(id.main, id.target) \cap SourcePaths IN
  /\ ChangedPaths(id.target, sha) \cap SourcePaths \subseteq adopted
  /\ \A p \in adopted : Tree(sha)[p] = Tree(id.main)[p]

RollbackReceipt ==
  /\ launcher.pc = "rreceipt"
  /\ IF KnownGoodRestored(ExistingRollback)
     THEN /\ receipts' = [receipts EXCEPT ![id.attempt] =
                            [op |-> "rollback", sha |-> ExistingRollback]]
          /\ GoTo("rpush")
          /\ UNCHANGED workers
     ELSE Return1 /\ UNCHANGED receipts
  /\ UNCHANGED <<gitVars, evidence, late, workVars, faults>>

(* The rollback's one parent is the head it was committed on.              *)
Parent(sha) == CHOOSE c \in commits[sha].anc \ {sha} :
                 commits[sha].anc = commits[c].anc \cup {sha}

(* Mutant: the revert is left unpushed. *)
FaultyRollbackPush ==
  /\ launcher.pc = "rpush"
  /\ GoTo("rstart")
  /\ UNCHANGED <<gitVars, workers, evidence, late, receipts, workVars, faults>>

RollbackPush ==
  /\ launcher.pc = "rpush"
  /\ EnsureRemoteAt(ExistingRollback, Parent(ExistingRollback), "rstart")
  /\ UNCHANGED <<commits, local, plan, evidence, late, receipts, workVars, faults>>

RollbackStart(sick) ==
  /\ Unless(~sick)
  /\ launcher.pc = "rstart"
  /\ StartReplacement("rollback", ExistingRollback, sick)
  /\ UNCHANGED <<gitVars, evidence, late, receipts, workVars>>

(* _wait_for_known_good_ready, then the evidence; or it is not ready in    *)
(* time, or the deadline has passed meanwhile.                             *)
KnownGoodReady == Observation.healthy /\ Observation.probationOver

RollbackDone ==
  /\ launcher.pc = "ready"
  /\ KnownGoodReady
  /\ IF Current THEN MarkForwardRollback(ExistingRollback) /\ GoTo("terminal") /\ UNCHANGED workers
     ELSE Return1 /\ UNCHANGED <<evidence, late>>
  /\ UNCHANGED <<gitVars, receipts, workVars, faults>>

RollbackNotReady ==
  /\ launcher.pc = "ready"
  /\ Replacement = {} \/ health.stage \/ \E w \in Replacement : w.sick
  /\ ~KnownGoodReady
  /\ Return1
  /\ UNCHANGED <<gitVars, evidence, late, receipts, workVars, faults>>
=============================================================================
