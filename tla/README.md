# AI-Agent-Bridge: TLA+ models and proofs

The Bridge lets a cloud Supervisor (ChatGPT) direct a local coding agent (Codex)
through files in a Git repository. Canonical truth is a branch: per project one
`state.json` and append-only `commands/` and `reports/`. Everybody who changes it
(publication gateway, Workers, human fast lane, recovery, operators) does so with one
compare-and-swap, `git_store.publish_cas`. What has to be right is that a command with
side effects in the real world is **never executed twice**, that a run whose fate is
uncertain is **never forgotten**, and that no stale clone, late push, crash or lost
answer makes the queue go wrong.

Around this core the engine runs several Workers on a host, contains the executors it
starts, keeps a write-ahead log of what they did, and **replaces its own source** while
it works. What has to be right there is that runs which share a directory or a branch
never overlap, that recorded evidence is true, that nothing is left behind by a failed
run, and that an adoption is either completed or taken back whole.

The project models four parts: the queue of one Bridge project with any number of
Worker hosts (`BridgeProtocol`), the admission of runs on one host (`HostAdmission`), one
run with its evidence and containment (`ContainedRun`), and the engine's handoff to a new
version (`EngineHandoff`). TLC checks them on small instances; TLAPS proves the safety
properties of all four for every value of the constants, some under hypotheses that
section 4 names.

## 1. Inventory

Paths are relative to `src/worker/` unless they say otherwise.

| Component | State it keeps | Operations | Interacts with |
|---|---|---|---|
| Protocol core (`protocol_core.py`) | none (pure) | claim, lease, supersede, withdraw, repair, resolution decisions | everyone, inside `expected`/`already_applied` of a CAS |
| Canonical store (`git_store.py`, `bridge_common.py`) | remote branch; the clone's HEAD and working tree | `sync_to_remote`, `publish_cas` | every publisher |
| Worker run (`bridge_worker.py`) | the thread's local variables; run directory | admit, claim, execute, publish report, acknowledge | store, executor, pending reports, journal |
| Main loop (`bridge_worker_hardened.py`) | cadence | sync, reconcile, gateway pass, submit projects | coordinator, recovery, gateway |
| Recovery coordinator (`vnext_runtime/services/recovery.py`, `vnext_runtime/recovery_evidence.py`) | none of its own | expired leases, journals, typed reports, classification | store, sidecars, journals; runs **beside** live threads |
| Pending reports (`pending_report.py`) | `pending-report-NNN.md` and `.meta.json` | save, reconcile, mark | run thread, recovery |
| Recovery journal (`recovery_journal.py`) | one JSON file per interrupted run | write, update, list pending | run thread, recovery, resolution |
| Recovery resolution (`recovery_resolution.py`) | review file | inspect, resolve | store, journal |
| Publication gateway (`supervisor_publication_gateway*.py`) | staged request files | assess, publish, quarantine | store, main loop |
| Manual fast lane (`bridge_manual.py`) | manual run files | start, withdraw-and-start, finish | store |
| Manual priority (`vnext_runtime/supervisor_portfolio.py`) | none | supersede an unclaimed command | store |
| Command repair (`command_repair.py`) | none | replace an unclaimed malformed command | store |
| Transition table (`../protocol/v2/transitions.json`) | none | the promised canonical transitions | documentation of all the above |
| Coordinator, arbitration (`vnext_runtime/coordinator.py`, `arbitration.py`) | futures per project, admission barrier; the host's registry of reservations | submit, reap, drain, close; check and reserve, drop stale records | main loop, run thread, **other Worker processes** |
| Execution control (`worker_execution_control.py`, `owner_console_control.py`) | control file, portfolio entry, stop request | pause, resume, stop | admission, claim payload, executor loop |
| Recovery WAL, git effects (`vnext_runtime/recovery_wal.py`, `git_effects.py`) | append-only log of a run | append, read, record and reconcile a push | run thread, classifier |
| Executor lifecycle (`codex_lifecycle.py`, `codex_process_gate.py`, `vnext_runtime/run_scope.py`) | process tree in a job, final-message file | spawn, assign, open the gate, poll, probe, terminate | run thread, WAL, Owner stop, network guard |
| Egress guard (`vnext_runtime/egress*.py`, `privileged_helper.py`) | broker and its threads, ledger, helper resource | start, prepare, bind, stop, reconcile, release | run scope, WAL, executor |
| Adoption (`vnext_runtime/adoption.py`) | Candidate, plan | freeze, revalidate, reconcile, promote; health gate | repository, outer controller |
| Handoff (`vnext_runtime/handoff.py`) | `adoption-handoff.json` | prepare, drain, quiesce, adopt, restart, ready, roll back, supersede | Worker, Launcher |
| Launcher (`vnext_runtime/launcher_actions.py`, `windows_worker_launcher.py`) | receipts, Worker process, replacement | spawn, watch, consume, merge, push, revert, observe | handoff evidence, health file, main |
| Health file (`worker_health.py`) | merged fields of every Worker that ever wrote it | update, read | main loop, Launcher |
| Phased tasks (`phased_task.py`) | phase ledger of a run | validate, record | run thread |
| Maintenance, CLI, dashboard, registry, alerts | files of their own | reporting, configuration, operator tooling | read the above |

What is hard here:

* **Interleaving.** Two hosts claim from clones of the same ready state; a supersede or
  a fast-lane start races with a claim; the main loop's recovery runs beside the thread
  whose run it recovers.
* **Unreliable delivery.** A push is lost, lands although the caller is told it failed,
  or times out and stays as a local commit that may still land later.
* **Crashes** between any two durable effects: claim, launch, typed sidecar, push,
  acknowledgement, journal, pending text.
* **Stale state.** Admission and reconciliation read the host's working tree, which may
  be behind the branch, or ahead of it.
* **Time.** A lease expires while its run is at work.
* **Gaps.** Replaced commands leave holes in the id sequence.
* **Two processes on a host.** A Worker frees `worker.lock` before its Coordinator has
  drained, so its successor admits runs beside it; whether it takes the draining one's
  reservations for stale depends on a probe that may fail for a live process.
* **Evidence.** Recovery takes a log for proof that failures, kills and crashes may
  have cut, and whose writer may not remember what it wrote.
* **Threads with timeouts.** The broker is closed after joins that may time out; an
  exchange with the helper may take effect although its answer is lost.
* **Self-replacement.** The Launcher may die between any two of merge, receipt, push,
  start, verdict, revert; main moves meanwhile; the health file is older than the Worker
  it is read about.

`PROJECT.json` lists each of these at its line under `hazards`.

What makes the components correct: a command is leased once and executed at most once;
a replaced command never runs; the queue never moves past an executed command without
its report; evidence is closed only when canonical history contains it and given up only
when its lease is gone; canonical state takes only the published transitions; leases,
evidence and the queue make progress. On a host: runs under way are disjoint, a pause
stops claims, a drain admits nothing and ends. In a run: intent is on disk before effect,
the log is true, the executor is never alive uncontained, success is earned, everything
is returned, and the run ends. In a handoff: one Worker, no run before the verdict, no
reverted source in use, no authority change promoted, no foreign work lost, and a
verdict.

## 2. Modules

| Module | Models | Extends |
|---|---|---|
| `ProtocolCore` | records of `state.json`, commands, reports and runs; the pure decisions; each `state.json` payload | |
| `BridgeStore` | branch, clones, local commits, `publish_cas`, `sync_to_remote`, late landings | `ProtocolCore` |
| `WorkerRun` | `process_project` on its thread, from admission to acknowledgement; crash | `BridgeStore` |
| `RecoveryCoordinator` | lease expiry, journals, legacy and typed pending reports, resolution | `WorkerRun` |
| `PublicationLanes` | gateway, manual priority, repair, fast lane, Supervisor updates | `BridgeStore` |
| `CanonicalProtocol` | abstract specification: the transition table over `state.json` alone | `ProtocolCore` |
| `BridgeProtocol` | the composition, its properties, fairness | `RecoveryCoordinator`, `PublicationLanes` |
| `BridgeInvariant` | the inductive invariant in named parts | `BridgeProtocol` |
| `BridgeProofs` | theorems and proofs | `BridgeInvariant`, `TLAPS` |
| `HistoryInvariant` | the commits as transitions; invariants of history, evidence, acknowledgement and consecutive ids | `BridgeInvariant` |
| `HistoryProofs` | theorems and proofs: history, evidence, refinement | `HistoryInvariant`, `BridgeProofs` |
| `SettledProofs` | theorems and proofs: acknowledgement, giving up | `HistoryProofs` |
| `MCBridge` | symmetry for TLC | `HistoryInvariant` |
| `HostAdmission` | Coordinators, barriers, registry, Owner control, main loops of a host; properties and inductive invariant | |
| `HostProofs` | theorems and proofs | `HostAdmission`, `TLAPS` |
| `MCHost` | paths, targets, limits for TLC | `HostAdmission` |
| `RunWal` | the log of one run: admission rule, append, torn records | |
| `ExecutorLifecycle` | gate wrapper, executor tree, lifecycle loop | `RunWal` |
| `RunEgress` | broker threads, helper exchanges, dispose | `ExecutorLifecycle` |
| `ContainedRun` | the run around them: scope, report, recorded push, crash, typed recovery; properties, fairness | `RunEgress` |
| `ContainedInvariant` | the inductive invariant in named parts | `ContainedRun` |
| `ContainedProofs` | theorems and proofs | `ContainedInvariant`, `TLAPS` |
| `MCContained` | connections for TLC | `ContainedInvariant` |
| `Adoption` | commits and trees, freeze, reconciliation, promotion, health gate | |
| `Handoff` | the evidence and its transitions | `Adoption` |
| `LauncherActions` | the Launcher's loop, consumer and durable effects | `Handoff` |
| `EngineHandoff` | the Worker's side, the composition, properties, fairness | `LauncherActions` |
| `EngineInvariant` | the inductive invariant in named parts | `EngineHandoff` |
| `EngineProofs` | theorems and proofs | `EngineInvariant`, `TLAPS` |
| `MCHandoff` | path categories for TLC | `EngineInvariant` |

The four compositions meet in the code at narrow places, each a nondeterministic choice
on the other side: the arbiter's refusal is `AbandonClaim` of `WorkerRun`; the executor's
outcome is `Finish` or `Interrupt` there; what the WAL proves is its `Proofs`; a prepared
handoff is `HandoffPrepared` of `HostAdmission`.

### How state and actions correspond to the code

* `canon`, `commands`, `reports` are the branch. A state record has `status`,
  `gen`(eration), `cmd` (`latest_command`), `rep` (`latest_report`), `rev`
  (`last_reviewed_report`), `run` (`active_run`) and `why` (the run that
  `recovery_reason` names).
* A **run** is `[owner, cmd, gen]`. Run ids are fresh per claim attempt; an owner
  never lands two claims at one generation, so owner and generation stand for the id.
* `clone[w]` is what host `w` reads. `unpushed[w]` is the commit it is ahead by after an
  ambiguous push. `LocalReport` and `LocalCommand` are files of the working tree.
* `publish_cas` is one step against the branch (pushes serialise at the remote) with the
  seven outcomes a caller can tell apart. `already` and `expected` are the two
  callbacks, evaluated on the canonical state that the inner synchronisation fetched.
  Bounded retries inside one call are the choice of the moment at which the step happens.
* `thread[w].pc` names the position between two durable effects of `process_project`.
  The executor is `Launch` and then `Finish` or `Interrupt` (`NetworkGuardInterruption`);
  `LaunchFails` is a preparation failure after the claim, which reports exit 125.
* A command's `mode` says whether its run owns a recovery WAL. Typed runs save their
  sidecar **before** pushing; legacy runs after a failed push. What the WAL and the
  report prove is `marker`, `contained` or `uncertain`.
* `polling[w]` is a pass of the main loop: `sync_to_remote` starts it, reconcilers and
  submission happen during it, `EndPass` ends it. The order of the calls in a pass is
  left open, which allows every order that the code has.
* Command text is abstracted to the metadata fields that decisions read and one flag,
  `valid`, for the deterministic command contract.
* The Supervisor's own state updates (`PauseForOwner`, `AcceptFinalDelivery`,
  `PublishMalformed`) are made by code outside the repository and marked external.

**Host admission.** `thr[w][p]` is the position of `process_project` between two effects
that other processes can see: `start`, `reserve`, `held` (reserved), `gate` (state read
again), `push` (control read, claim on its way), `prepare`, `running`, `publish`, and how
its future ended. `registry` is the reservation file; every call that counts or checks
reservations also drops those of processes it takes for dead (`Remaining`), as
`active_reservations` does. `_safe_stale` asks `os.kill(pid, 0)` and takes every `OSError`
but `PermissionError` for death. On POSIX only a dead process gives one. On Windows the
call is `GenerateConsoleCtrlEvent`, which fails for every process that leads no process
group of the caller's console, live ones too. The constant `Answers` says for each process
which live processes it does not take for dead; a process that none takes for dead is
`Probeable`. `Leave` is the end of the `with` block: the lock is free, the Coordinator is
draining. `Reap` raises one error only. `grace` is a history variable: the runs that had
read the control when the Owner paused.

**One run.** `pc` is the position of the run's thread; `append` either moves it on, or to
where the exception leads. A failing write leaves nothing, part of a record, or a record
that the writer forgets and whose sequence number the next record repeats. `exec` is what
the operating system knows and `life` what the loop knows. Time is a choice: whether the
marker was stable long enough, the grace or the timeout ran out, or a join timed out.
`mode` says how the run was composed. Only phased commands get a WAL from
`process_project`, and they are not contained; a contained launcher cannot be passed to
its runner, whose signature lacks the parameter (`unwired`: the launch fails and
everything prepared is returned); the provider's own runner takes it, as the egress tests
compose it (`contained`). Hence the classifier's *interrupted* verdict, which needs both a
sidecar and containment evidence, is not reached by today's wiring.

**Handoff.** A commit is its ancestors, its tree and the paths it touched; a tree maps a
path to the set of edits it contains, so that merge and revert are set operations and
"the reverted edit is back" can be said. Paths stand for the categories that the planner
and the Launcher tell apart. `evidence` is the handoff file, `late` that its deadline has
passed. `launcher.pc` separates merge, receipt, push, evidence. `launcher.repl` is kept
after the replacement was handed to the watchdog, as `_replacement_process` is. `health`
is the merged health file: `pid` and `beat` are the Workers that last wrote the process id
and the heartbeat. The Launcher's Job Object kills its Workers with it.

**FINALIZE.** The Codex provider refuses every kind but `EXECUTE` (`codex.py:276-282`), so
`Launch` of `WorkerRun` is of `EXECUTE` commands and a claimed `FINALIZE` takes
`LaunchFails`; the prompt for it in `executor.py` is not used by the Worker.

Operators named `Faulty...`, or under a comment "Faulty variant" or "Mutant", are what a plausible bug would
look like; no specification uses them. `PROJECT.json` pairs each with the property that
detects it.

## 3. Runs

The first seven runs use `MCBridge`. States are distinct states.

| Run | Bounds | Checks | Result |
|---|---|---|---|
| `hosts` | 2 hosts, 1 command, 2 faults of lost/unseen/stuck/crash, both modes | `OneLeasePerCommand`, `AtMostOnce`, `LaunchedIsAccounted`, `IInv`, `HistoryInv`, `EvidenceInv`, `HistoryAppendOnly`, `LeaseEndsByItsRun` | holds, 141 988 states |
| `queue` | 1 host, 3 commands, every lane but Owner pauses, 1 push that lands unseen or stays local | `ReplacedNeverRuns`, `ExclusiveExecution`, `NoCommandSkipped`, `ImplementsCanonical` | holds, 741 240 states |
| `liveness` | 1 host, 1 command, 2 faults of lost/unseen/crash, finalize lane and Owner pauses | `AcknowledgedIsPublished`, `GivenUpOnlyWithoutLease`, `LeaseSettles`, `EvidenceSettles`, `QueueServed` under `FairSpec` | holds, 8 674 states |
| `gap` | 1 host, 2 commands, supersede, 1 lost push | `GivenUpOnlyWithoutLease` | violated |
| `preempt` | 1 host, 1 typed command, no fault | `LivePublisherKeepsLease` | violated |
| `wedge` | 1 host, 1 command, 1 stuck push | `EvidenceSettles` under `FairSpec` | violated |
| `unpushed` | 1 host, 1 command, 1 stuck push | `AcknowledgedIsPublished` | violated |
| `handoff` | 4 paths (document, kernel, recovery, project), 2 attempts, 2 commands, 1 disturbance | `EngineInv`, `OneWorker`, `NoRunDuringHandoff`, `RevertedSourceNeverRuns`, `RollbackRestoresSource`, `AuthorityNeverAdopted`, `LiveWorkSurvives`, `ProbationReachesVerdict` under `FairSpec` | holds, 276 727 states |
| `stale` | 1 attempt, no disturbance | `SoundReplacementIsKept` | violated |
| `contained` | 2 connections, 1 handler slot, 3 compositions, 1 foreign push, 1 fault | `ContainedInv`, `IntentBeforeEffect`, `WalTellsTruth`, `EgressEvidenceSound`, `ExecutorContained`, `SuccessIsEarned`, `RecoveryNeverOverclaims`, `ContainmentReturned`, `RunEnds` under `FairSpec` | holds, 324 582 states |
| `host` | 2 processes that see one another live, 3 projects, 1 Owner action, 1 fault | `HostInv`, `ConcurrentRunsDisjoint`, `ReservationsReturned`, `PauseStopsClaims`, `DrainingAdmitsNothing`, `DrainCompletes` under `HostFairSpec` | holds, 382 009 states |
| `overlap` | as `host`, but neither process answers the other's probe; no Owner action, no fault | `ConcurrentRunsDisjoint` | violated |

**Why the bounds are enough.** Races need two hosts and one command: leases, sidecars
and journals are kept per command, and hosts meet only at the branch. Two faults let an
unseen claim be followed by a crash, or two publications of one run fail. Gaps and
replacement chains need three commands (replaced, replacement, next); there a single
host suffices, as the other side of the race is a lane. `MaxCommand` and `MaxFaults` are
the only bounds on counters; the generation is bounded by them. Workers are symmetric in
`hosts`, which uses `SYMMETRY` and checks no liveness.

*Handoff.* Two attempts let the second be built on the source of the first before that is
reverted. A Candidate edits a free path or a boundary path; others push to a free path and
to `projects/`. `kernel` is a path nobody edits, and `LatestMainPaths` is empty, since both
keep main's content like an untouched path. `MaxFaults` counts disturbances of any kind,
each possible at every step. A Candidate is frozen between attempts or during a rollback
(`FreezePhases`), which is when its base matters. *One run.* Two connections with one slot
give an accepted and a refused one. One fault reaches every error path; a second fault
would be a failure of the handling of the first, which the code answers with the same
steps. *Host.* `MaxOwner` bounds what the Owner and other writers do; what is paused can
always be resumed. The first process polls two compatible projects under a limit of two, the
second one that works below the directory of the first project and pushes to the branch of
the second: both kinds of conflict occur between processes. All processes may be gone in
the end, so deadlock is not checked there. The bounds are `MaxAttempts`, `MaxCommands`,
`MaxFaults`, `MaxForeign`, `MaxOwner`, and the six process ids of `Pids`.

`IInv`, `HostInv`, `ContainedInv` and `EngineInv` are the inductive invariants of section
4. Each contains the type invariant of its part, and `IInv` implies `AtMostOnce`.
`HostInv` was also checked with processes that do not answer one another (833 587
states). `SettledInv` and `ConsecutiveInv`, which only the proofs use, were checked with
one host, two commands, the finalize lane, Owner pauses and one fault (381 510 states).

**Fairness** (`liveness`, `wedge`). A started thread runs to its end, as an executor is
bounded by `codex_timeout_seconds`, hence weak fairness of its steps. The loop polls for
ever and each pass calls every reconciler and resubmits an idle project; a step that
needs the pass to be under way is enabled again and again rather than continuously, hence
strong fairness. `ClaimCommand` is strongly fair because `AbandonClaim` (no reservation,
an Owner block) does not repeat for ever in a system that is allowed to work. Time
passes, so lease deadlines are reached. Nothing is assumed of operators, the Supervisor,
faults or late landings.

*Handoff:* the Launcher's loop goes on and the Task Scheduler restarts it when it returns
1, hence weak fairness of its steps; a live Worker starts, polls, and gets older. *One
run:* the Worker's thread and the broker's threads are scheduled (weak fairness); the
executor promises nothing at all, so the loop may go round for ever, but
`codex_timeout_seconds` and the grace period are real time that runs out: strong fairness
of `TimedOut` and `GraceExpired`, which are enabled only at one point of the loop. *Host:*
each live process takes steps; nothing is assumed of the Owner or of other writers.

**What the passing runs say.** One lease and one launch survive every race and fault in
reach; each launch ends in a report or in `RECOVERY_REQUIRED`; evidence closed as
published is published; executors never overlap, not even a run that lost its lease with
its successor; every canonical step of every lane is one of the transition table's. A
command that the queue has moved past was reported or replaced, although three lanes
replace and leave gaps in the ids. Runs of two processes of a host that see one another
live never conflict although the lock does not separate them, because the registry does.
A drain that ends in an error returns to the loop with nothing admitted ever after (such
a process polls without submitting until its next drain). A reservation is lost only
through a failure in the two unguarded stretches of `process_project`, and then until
its process ends. What the log says is true under one fault anywhere, and a report is
called completed by recovery only when its executor is gone. A containment is returned
unless an exchange with the helper was lost. Adoption and rollback never lose foreign
work or promote an authority path, though the planner alone would.

### Findings

1. `gap`: `_reconcile_one` (`pending_report.py:548`) requires `latest_report ==
   command_id - 1`, while `PROTOCOL.md:55` allows gaps. The pending report of a command
   that superseded another is given up as a conflict although its exact lease is held;
   the project then waits for the lease deadline and an operator.
2. `preempt`: the main loop reconciles a typed sidecar without asking whether its run's
   thread is alive (`recovery.py:958`). A run with uncertain evidence loses its lease to
   `RECOVERY_REQUIRED` between saving the sidecar and publishing its report, without any
   fault.
3. `wedge`: an ambiguous push leaves the clone ahead of the branch, and `sync_to_remote`
   (`git_store.py:317`) refuses every later pass, so no later start retries the
   publication, against the comment at `recovery.py:949`.
4. `unpushed`: reconciliation later in the pass of an ambiguous push reads the working
   tree (`pending_report.py:527`), finds the report of its own unpushed commit, and
   closes the evidence as superseded. If the operator then resets the clone, nothing
   points to the report any more.

5. `stale`: a Worker's first health record sets its pid and start time but keeps the
   previous Worker's heartbeat, because `update_health` merges. Until the first poll the
   replacement has a heartbeat older than its start, which the health gate takes for a
   failure: the Launcher rolls back a sound adoption, without any fault, against the
   comment at `launcher_actions.py:917`. `last_failure_stage` and `last_failure_project`
   of an earlier Worker have the same effect, and nothing clears them.

6. `overlap`: `_safe_stale` (`arbitration.py:435`) takes a failed probe for the death of
   the process. On Windows, where Workers run with `CREATE_NO_WINDOW`
   (`launcher_actions.py:1009`) and so in a console of their own, the probe of a live
   Worker by another fails too. A Worker that is interrupted or restarts frees
   `worker.lock` and drains; its successor's first health record drops the reservation of
   the run that is still under way, and a run that works below the same directory is
   admitted beside it, against the class's own "fail-conservative" (`arbitration.py:263`).
   The same happens to two runs of one process, once another has dropped the first record.

Findings 3 and 4 need the `stuck` fault, which is why `liveness`, which checks the
properties they violate, leaves it out; `hosts` and `queue` check what does survive it.

## 4. Proofs

`BridgeProofs` proves, for any set of Workers, any `MaxCommand`, fault kinds, number of
faults, lanes and modes:

| Theorem | Statement |
|---|---|
| `Inductive` | `Spec => []IInv` |
| `TypeCorrect` | `Spec => []TypeOK` |
| `NoSecondLaunch` | `Spec => []AtMostOnce` |
| `LeasedOnce` | `Spec => []OneLeasePerCommand` |
| `ReplacedStaysUnrun` | `Spec => []ReplacedNeverRuns` |

Assumptions: those of the constants (`WorkersAssumption`, `MaxCommandAssumption`,
`FaultsAssumption`, `LanesAssumption`), all evaluated by TLC in every run.

**Why a strengthening.** `AtMostOnce` says nothing of leases, yet only the lease stops a
second launch. `IInv` ties them together:

* *Launch needs a lease of its own* (`ThreadOK`, `LaunchInv`): past `ready`, a thread's
  run was granted a lease; while it is only `claimed`, its command has no launch; a
  launch implies a lease of the command.
* *A command is leased once* (`UniqueLease`, `ClaimsInv`): every granted lease is of a
  command at or below `latest_command`, and **strictly below** while the latest one is
  pending. So a claim, which needs a pending state, is of a command never leased.
* *A claim is recognised only by its own run* (`CloneInv`): a host's clone has seen
  every lease of that host, so the run identity that admission builds from the clone is
  new, and `claim_already` cannot hold for a lease granted earlier. A local claim commit
  excludes a thread in `ready` (`ThreadOK`), as it would land later under that thread.
* *Late landings* (`CommitOK`, `UnpushedInv`): a local commit keeps what was true of it
  when it was built from its base; it lands only onto that base, so landing it late is
  like publishing it now. Every publication is shown to be `CommitOK` once, and one
  lemma shows that landing any `CommitOK` commit keeps the store part. The proof for an
  action is then only about its thread, sidecar or journal.
* *Replaced commands* (`ReplacedInv`): a command is replaced only from a pending state,
  when it has no lease, and lies below `latest_command` ever after, where no claim can
  reach it.

The module is laid out in that order: facts about records, landing, `publish_cas`, the
local part, one lemma per action, and the theorems.

`HostProofs` proves, for any finite sets of processes and projects, whatever they poll,
any exclusive paths, Git targets and limits, whichever processes answer whose probe, and
any number of Owner actions and faults:

| Theorem | Statement |
|---|---|
| `HostInductive` | `HostSpec => []HostInv` |
| `HostTypeCorrect` | `HostSpec => []HostTypeOK` |
| `SeenRunsDisjoint` | `HostSpec => []` no two runs of `Probeable` processes conflict |
| `RunsDisjoint` | `(\A v \in Workers : Probeable(v)) => (HostSpec => []ConcurrentRunsDisjoint)` |
| `PauseIsRespected` | `HostSpec => []PauseStopsClaims` |
| `DrainIsFinal` | `HostSpec => DrainingAdmitsNothing` |
| `ReservationsComeBack` | `HostSpec => []ReservationsReturned` |

The assumption is `HostAssumption`; the hypothesis of `RunsDisjoint` holds on POSIX, and
the run `overlap` shows that it is needed. `ConcurrentRunsDisjoint` is about runs, while only the
registry is compared when a run is admitted; the strengthening says that the registry
speaks for the runs:

* every run under way of a `Probeable` process has its record (`HoldersReserved`), and a
  process that is gone or has not started has no run (`DeadIdle`), so dropping the records
  of dead processes, and of live ones that do not answer, never drops that of such a run;
* the records on disk are pairwise compatible, those of dead processes included
  (`RecordsDisjoint`), and were within the limit of some process when the last one was
  written (`SlotBound`). Both only need that records are added by `CheckAndReserve` alone
  and that removing records keeps them.

`Conflict` is shown symmetric, since the check compares a new record with old ones and
the property compares any two. `PauseStopsClaims` is inductive beside the types: `push` is
reached only with the control allowing it, and a pause puts every run there into `grace`.
`DrainIsFinal` follows step by step: only `Submit` adds a lease, and it needs a running
barrier. `ReservationsComeBack` counts: every step leaves the set of records without a run
(`Leaked`) as it is or smaller, but for `UnguardedFailure`, which adds one and spends a
fault; a process that starts has no record, because records are of processes that have
started (`RecordsStarted`).

`HistoryProofs` builds on `BridgeProofs` and proves, under the same assumptions only:

| Theorem | Statement |
|---|---|
| `HistoryInductive` | `Spec => []HistoryInv` |
| `EvidenceInductive` | `Spec => []EvidenceInv` |
| `LaunchedAccounted` | `Spec => []LaunchedIsAccounted` |
| `OneExecution` | `Spec => []ExclusiveExecution` |
| `AppendOnly` | `Spec => HistoryAppendOnly` |
| `LeaseEnds` | `Spec => LeaseEndsByItsRun` |
| `Implements` | `Spec => ImplementsCanonical` |
| `NoneSkipped` | `Spec => []NoCommandSkipped` |

* *Commits are transitions.* `Transition` is the abstract protocol as a relation between
  the state a commit replaces and the one it publishes; `HistoryOK` adds which files it
  brings. A local commit is `HistoryOK` from the moment it is built (`LocalCommitsInv`),
  and since it lands only onto its base, a late landing is a transition too. One lemma
  per publication shows its commit to be `HistoryOK`. Everything else follows from
  `HistoryStep` (history stands still, or one sound commit lands): the action properties
  and the refinement, whose mapping is the identity on `canon`.
* *Accounting* (`PointersInv`, `FilesInv`, `AccountInv`): a lease without a report is of
  the latest command, and the status is `CODEX_RUNNING` or `RECOVERY_REQUIRED`; both are
  left only by a move that brings the report. A launch implies a lease (`IInv`).
* *No command skipped* (`AnsweredInv`): commands below `latest_command` are reported or
  replaced, and a state that waits for the next command has reported the latest. A commit that moves
  `latest_command` on starts from such a settled state or names the command that it
  replaces; `HistoryOK` asks this of every commit, so that it also holds of late landings.
* *Evidence* (`DeadInv`, `ForkInv`): sidecars, journals, reports and local report commits
  are of runs that no executor works on, and a run ends with a report or with an
  interruption. With the accounting this gives `ExclusiveExecution`: a live run has no
  report, so its command is the latest, and two leases of one command are equal.
* The two invariants need each other (`Joint`): a resolution publishes what a journal
  says, and a journal is of a run that is over because no lease is granted twice.

`SettledProofs` proves what holds only under hypotheses. `NoReplacement` says that there
is no `stuck` outcome and that `Lanes` has only `finalize` and `owner`.

| Theorem | Statement |
|---|---|
| `SettledInductive` | `"stuck" \notin FaultKinds => (Spec => []SettledInv)` |
| `AcknowledgedPublished` | `"stuck" \notin FaultKinds => (Spec => []AcknowledgedIsPublished)` |
| `ConsecutiveInductive` | `NoReplacement => (Spec => []ConsecutiveInv)` |
| `GivenUpWithoutLease` | `NoReplacement => (Spec => GivenUpOnlyWithoutLease)` |

Both hypotheses are needed for these conclusions as the code stands: with `stuck` the run
`unpushed` violates `AcknowledgedIsPublished`, with a replacing lane the run `gap`
violates `GivenUpOnlyWithoutLease`. Without `stuck` no clone is ahead of the branch
(`BehindInv`), so what reconciliation reads there is, or was, canonical, and canonical
history only grows (`CloneMove`, `AckMove`). For giving up, a clone at canonical
generation is canonical (`CurrentInv`), hence a clone that shows the run's lease either is
canonical or the lease is gone; and ids are consecutive (`DenseInv`), so the test
`latest_report == command_id - 1` cannot fail while the lease is held.

`ContainedProofs` proves, for any compositions, connections, slots, faults and foreign
pushes:

| Theorem | Statement |
|---|---|
| `ContainedInductive` | `Spec => []ContainedInv` |
| `ContainedTypeCorrect` | `Spec => []ContainedTypeOK` |
| `IntentsComeFirst` | `Spec => []IntentBeforeEffect` |
| `NoEgressStaysTrue` | `Spec => []EgressEvidenceSound` |
| `WalIsTrue` | `KillOnClose => (Spec => []WalTellsTruth)` |
| `ExecutorStaysContained` | `KillOnClose => (Spec => []ExecutorContained)` |
| `SuccessStaysEarned` | `KillOnClose => (Spec => []SuccessIsEarned)` |
| `RecoveryIsSound` | `KillOnClose => (Spec => []RecoveryNeverOverclaims)` |
| `ContainmentComesBack` | `KillOnClose => (Spec => []ContainmentReturned)` |

`KillOnClose` is the Job Object of Windows, the system the Worker is deployed on;
elsewhere an executor may survive the closing of its scope or the Worker itself. The
inductive invariant holds with and without it; the five properties that say an executor is
gone need it. `ContainedInv` has one part per subject, each tied to the position of the
run's thread: the log is closed under prerequisites and contains what the writer remembers
(`WalClosed`), the processes (`ProcsInv`: outside the loop nothing is alive but a wrapper
whose gate never opens), loop and report, containment, broker and ledger, push, and what
each record stands for (`RecordsInv`). One fault may cut the log, repeat a sequence number
or lose an answer anywhere, so no part says that a record is present because the thread
got past it; `RecordsInv` and `prerequisites` say what its presence implies. The proofs
group the actions by what they write, with one lemma for the outcomes of an append and
one for those of an exchange with the helper.

`EngineProofs` proves, for any paths and categories, reconciliation policy, attempts,
commands and disturbances:

| Theorem | Statement |
|---|---|
| `EngineInductive` | `Spec => []EngineInv` |
| `EngineTypeCorrect` | `Spec => []EngineTypeOK` |
| `OneWorkerLives` | `Spec => []OneWorker` |
| `HandoffIsQuiet` | `Spec => []NoRunDuringHandoff` |
| `RevertedStaysReverted` | `Spec => []RevertedSourceNeverRuns` |
| `RollbackIsForward` | `Spec => []RollbackRestoresSource` |
| `AuthorityStaysOut` | `Spec => []AuthorityNeverAdopted` |
| `LiveWorkIsKept` | `Spec => LiveWorkSurvives` |

`NoRunDuringHandoff` and `RevertedSourceNeverRuns` are about Workers of an armed Launcher;
a Worker started without adoption does not look at the evidence. `EngineInv` has two
halves. The first (`Core`) speaks of no process. Ancestry is a preorder along which the
work of others is never lost and a reverted edit never comes back to a source path
(`GraphInv`); plan and identity add at most the attempt's own edit to the main they start
from, and nothing to an authority path (`PlanInv`, `IdentityInv`, `HeadsInv`); there is at
most one revert that the main of the current attempt does not contain, and it is that of
the current attempt (`RevertsInv`, `OneRevert`, `ReceiptsInv`). This is what makes a
Candidate of the second attempt, frozen before the first was reverted, harmless. The
second half says for every position of the Launcher which effects are durable
(`EffectsInv`), which Worker may be alive (`WorkersInv`), and on which source it may run
(`RunsInv`). A step touches the first half in five ways, each with a lemma (`CoreFrame`,
`CoreTransition`, `CoreForward`, `CoreReceipts`, `CoreGrows`); the lemma `XInv` is for
action `X`.

**Only model-checked.** The liveness properties `LeaseSettles`, `EvidenceSettles`,
`QueueServed`, `RunEnds`, `ProbationReachesVerdict` and `DrainCompletes`: liveness under
fairness is out of the prover's reach. `WalTellsTruth` and the four properties beside it
are neither proved nor checked where closing a job does not kill, and
`ConcurrentRunsDisjoint` does not hold where probes fail for live processes. Every other
invariant and action property that a passing run checks is a theorem.

## 5. Not modelled

* Request files of the gateway: staging, expiry, quarantine, `already_applied` of a
  request that landed unseen. The model publishes a fresh request instead.
* Failures of the local disk; a failed acknowledgement is only covered as a crash
  before it.
* A push discarded by an operator that lands later still (`OperatorReset` ends its
  life).
* Bytes of commands and reports, redaction, notifications, alerts and health.
* Reuse of a process id: a reservation of a dead process whose id was given to another
  process is kept until that one ends (`_safe_stale`), which can only refuse runs. The
  console event that the probe sends on Windows to a process that does answer.
* `git_target_identity` returns no target when Git facts are unknown, and no target
  conflicts with nothing, although its comment says that unknown facts fail closed. The
  model follows the code (`NoTarget`); two such projects are separated by paths only.
* In the handoff: fault-injection hooks, checks of branch and worktree, digests and sizes,
  restart backoff, Workers started with `--once`, and the lifetime scope of systems other
  than Windows, where Workers outlive a killed Launcher. The consumer's 300 second bound
  is a possible death of the Launcher at any step.
* In a run: output capture and its limits, the size limit of the log, the contents of its
  records, the helper's backend and its bounded request history, which would refuse a
  release too, and more than one push per run. A valid marker does not change any more, so
  the stability check is never reset by one that does. A broker's connection is registered
  and its handler started in one step: a dispose in between, which would join a thread
  that was not started, is left out. Only relayed data count as egress, not the `CONNECT`
  that the broker sends to its upstream.
* In host admission a prepared handoff stops the submissions of every Worker, also of one
  that was started outside the Launcher and does not look at the evidence; no property
  depends on it. In the handoff, start of the replacement and its evidence are one step
  (the Job Object kills the Worker if the Launcher dies between them, and its claims are
  gated), and the only reverts on main are the Launcher's own, so an ambiguous choice among
  several does not arise.
* The report transition of `CanonicalProtocol` is wider than that of the JSON table: it
  does not ask for the kind of the command and allows `RECOVERY_REQUIRED` with the report
  pointer advanced.
* `operator.adopt_staged_repair` of the transition table.
* The components with status `not_modelled` in `PROJECT.json`, for the reasons there.

## 6. Plan

Done: the queue and recovery core with its abstract specification; host admission; one
run with WAL, lifecycle, egress and recorded push; adoption, handoff and Launcher; the
safety properties of all four proved, and the refinement of the transition table. What is
left:

1. `GatewayRequests`: the life of a staged request (assess, publish, expire, quarantine,
   already applied), published at most once although a publication landed unseen.
   Composes with `BridgeStore`.
2. `GitCas`: the internals of `publish_cas` (fetch, build, commit, push, discard, retry)
   as an implementation of the seven outcomes.
3. What of `AcknowledgedIsPublished` survives a `stuck` push: closed evidence is published
   or is in the clone's own unpushed commit.
4. Which properties of one run survive without `KillOnClose`.
