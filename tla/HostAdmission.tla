------------------------------ MODULE HostAdmission ----------------------------
(***************************************************************************)
(* Admission of runs on one host: the Coordinator of each Worker process,  *)
(* its AdmissionBarrier, the HostResourceArbiter whose registry file the   *)
(* processes share, the Owner's execution control, and the main loop that  *)
(* polls, drains and exits.  A Worker is one life of a process: its pid is *)
(* not used again (the README says what reuse would do).                   *)
(*                                                                         *)
(*   main      per process: off, loop, drain, closing, gone                *)
(*   barrier   per process: the AdmissionBarrier, drained once it is       *)
(*             DRAINING without leases; the Coordinator's lifecycle is     *)
(*             RUNNING exactly while the barrier is                        *)
(*   thr       per process and project: where its admitted run is, or how  *)
(*             its future ended and waits to be reaped                     *)
(*   registry  the reservations on disk, as <<process, project>>           *)
(*   lock      the process that holds worker.lock, or none                 *)
(*   ready     the projects whose canonical state has an unclaimed command *)
(*             (the comparison of generations is in BridgeStore)           *)
(*   control   the Owner's execution mode                                  *)
(*   paused    the projects the Owner paused                               *)
(*   grace     the runs that were past their last reading of the control   *)
(*             when the Owner paused; no code reads it                     *)
(*   prepared  an engine handoff is under way: it stops new claims         *)
(*   budget    what the environment may still do                           *)
(***************************************************************************)
EXTENDS Integers, FiniteSets, Sequences, SequencesExt

CONSTANTS
  Workers,     \* lives of Worker processes on the host
  Projects,
  Polls,       \* the projects each process polls: enabled, or its --project
  Limit,       \* max_parallel_runs in the configuration each process read
  Paths,       \* the exclusive paths of a project, as sequences of names
  GitTarget,   \* its remote and branch, or NoTarget
  NoTarget,
  None,
  Answers,     \* the processes whose life each process can see, below
  MaxOwner,    \* times the Owner pauses or prepares a handoff, or another writer acts
  MaxFaults    \* lost races, failures in the code around a run, and crashes

VARIABLES main, barrier, thr, registry, lock, ready, control, paused,
          grace, prepared, budget

ASSUME HostAssumption ==
  /\ IsFiniteSet(Workers) /\ IsFiniteSet(Projects)
  /\ Polls \in [Workers -> SUBSET Projects]
  /\ Limit \in [Workers -> Nat \ {0}]
  /\ Paths \in [Projects -> SUBSET Seq(STRING)]
  /\ None \notin Workers
  /\ Answers \in [Workers -> SUBSET Workers]
  /\ MaxOwner \in Nat /\ MaxFaults \in Nat

procVars == <<main, barrier, lock, prepared>>
ownerVars == <<control, paused, grace>>
vars == <<procVars, thr, registry, ready, ownerVars, budget>>

Holding == {"held", "gate", "push", "prepare", "running"}
Active == {"start", "reserve", "publish"} \cup Holding
Ended == {"done", "failed", "restart"}
ThreadStates == {"none"} \cup Active \cup Ended

HostInit ==
  /\ main = [w \in Workers |-> "off"]
  /\ barrier = [w \in Workers |-> "RUNNING"]
  /\ thr = [w \in Workers |-> [p \in Projects |-> "none"]]
  /\ registry = {}
  /\ lock = None
  /\ ready = Projects
  /\ control = "AUTO"
  /\ paused = {}
  /\ grace = {}
  /\ prepared = FALSE
  /\ budget = [owner |-> MaxOwner, faults |-> MaxFaults]

(* The leases of the barrier: a run closes its own as it returns.          *)
Leases(w) == {p \in Projects : thr[w][p] \in Active}

Alive(w) == main[w] \notin {"off", "gone"}

-----------------------------------------------------------------------------
(* The arbiter.                                                            *)

(* Equal, or one an ancestor of the other.                                 *)
paths_conflict(a, b) == IsPrefix(a, b) \/ IsPrefix(b, a)

(* A target that could not be identified is not compared.                  *)
SameTarget(p, q) == GitTarget[p] # NoTarget /\ GitTarget[p] = GitTarget[q]

Conflict(p, q) ==
  \/ p = q
  \/ \E a \in Paths[p], b \in Paths[q] : paths_conflict(a, b)
  \/ SameTarget(p, q)

FaultySafeStale(w, r) == r[1] # w

(* A record of another process is dropped when os.kill(pid, 0) ends in an  *)
(* error other than PermissionError.  For a process that is gone it always *)
(* does.  For one that lives it does not on POSIX; on Windows the call     *)
(* sends a console event, which also fails for every live process that     *)
(* does not lead a process group of the caller's console.  Answers[w] are  *)
(* the processes that w does not take for dead while they live.            *)
SafeStale(w, r) == r[1] # w /\ (~Alive(r[1]) \/ r[1] \notin Answers[w])

Remaining(w) == {r \in registry : ~SafeStale(w, r)}

FaultyConflictReason(w, p) ==
  \/ Cardinality(Remaining(w)) >= Limit[w]
  \/ \E r \in Remaining(w) :
       p = r[2] \/ Paths[p] \cap Paths[r[2]] # {} \/ SameTarget(p, r[2])

ConflictReason(w, p) ==
  \/ Cardinality(Remaining(w)) >= Limit[w]
  \/ \E r \in Remaining(w) : Conflict(p, r[2])

-----------------------------------------------------------------------------
(* One admitted run: process_project.                                      *)

AtStep(w, p, from, to) ==
  /\ thr[w][p] = from
  /\ thr' = [thr EXCEPT ![w][p] = to]

ControlAllows(p) == control = "AUTO" /\ p \notin paused

(* The state, then the Owner's control; an unreadable control blocks.      *)
Consider(w, p) ==
  /\ \/ /\ p \in ready /\ ControlAllows(p)
        /\ AtStep(w, p, "start", "reserve")
     \/ AtStep(w, p, "start", "done")
  /\ UNCHANGED <<procVars, registry, ready, ownerVars, budget>>

(* check_and_reserve, under the file lock: stale records are dropped and   *)
(* written back whatever the decision.                                     *)
CheckAndReserve(w, p) ==
  /\ \/ /\ ~ConflictReason(w, p)
        /\ AtStep(w, p, "reserve", "held")
        /\ registry' = Remaining(w) \cup {<<w, p>>}
     \/ /\ ConflictReason(w, p)
        /\ AtStep(w, p, "reserve", "done")
        /\ registry' = Remaining(w)
  /\ UNCHANGED <<procVars, ready, ownerVars, budget>>

(* The registry or the lock file cannot be read: not admitted.             *)
RegistryUnavailable(w, p) ==
  /\ budget.faults > 0
  /\ budget' = [budget EXCEPT !.faults = @ - 1]
  /\ AtStep(w, p, "reserve", "done")
  /\ UNCHANGED <<procVars, registry, ready, ownerVars>>

(* The health record counts the reservations, dropping stale ones; then    *)
(* the canonical state is read again under the reservation.                *)
Reread(w, p) ==
  /\ \/ p \in ready /\ AtStep(w, p, "held", "gate") /\ registry' = Remaining(w)
     \/ /\ p \notin ready
        /\ AtStep(w, p, "held", "done")
        /\ registry' = Remaining(w) \ {<<w, p>>}
  /\ UNCHANGED <<procVars, ready, ownerVars, budget>>

(* claim_payload: the control is read again for every attempt; a refusal,  *)
(* or a control that cannot be read, raises and the reservation is closed. *)
ClaimPayload(w, p) ==
  /\ \/ ControlAllows(p) /\ AtStep(w, p, "gate", "push") /\ UNCHANGED registry
     \/ /\ AtStep(w, p, "gate", "failed")
        /\ registry' = registry \ {<<w, p>>}
  /\ UNCHANGED <<procVars, ready, ownerVars, budget>>

(* The claim's push lands; or another commit was first, and publish_cas    *)
(* asks for the payload again until its attempts are used up; or the state *)
(* is no longer the one read.                                              *)
ClaimLands(w, p) ==
  /\ p \in ready
  /\ AtStep(w, p, "push", "prepare")
  /\ ready' = ready \ {p}
  /\ grace' = grace \ {<<w, p>>}
  /\ UNCHANGED <<procVars, registry, control, paused, budget>>

FaultyClaimRetried(w, p) ==
  /\ budget.faults > 0
  /\ budget' = [budget EXCEPT !.faults = @ - 1]
  /\ p \in ready
  /\ AtStep(w, p, "push", "push")
  /\ grace' = grace \ {<<w, p>>}
  /\ UNCHANGED <<procVars, registry, ready, control, paused>>

ClaimRetried(w, p) ==
  /\ budget.faults > 0
  /\ budget' = [budget EXCEPT !.faults = @ - 1]
  /\ p \in ready
  /\ AtStep(w, p, "push", "gate")
  /\ grace' = grace \ {<<w, p>>}
  /\ UNCHANGED <<procVars, registry, ready, control, paused>>

(* The two errors of publish_cas; the reservation is closed.               *)
ClaimFails(w, p) ==
  /\ AtStep(w, p, "push", "failed")
  /\ registry' = registry \ {<<w, p>>}
  /\ grace' = grace \ {<<w, p>>}
  /\ UNCHANGED <<procVars, ready, control, paused, budget>>

(* Between the claim and the try block that owns the reservation.          *)
PrepareRun(w, p) ==
  /\ AtStep(w, p, "prepare", "running")
  /\ UNCHANGED <<procVars, registry, ready, ownerVars, budget>>

(* A failure while the health is written or the inputs are read: no        *)
(* handler closes the reservation.                                         *)
UnguardedFailure(w, p) ==
  /\ budget.faults > 0
  /\ budget' = [budget EXCEPT !.faults = @ - 1]
  /\ AtStep(w, p, "held", "failed") \/ AtStep(w, p, "prepare", "failed")
  /\ UNCHANGED <<procVars, registry, ready, ownerVars>>

FaultyCloseRunScope(w, p) ==
  /\ AtStep(w, p, "running", "publish")
  /\ UNCHANGED <<procVars, registry, ready, ownerVars, budget>>

(* The scope is closed before the report is published.                     *)
CloseRunScope(w, p) ==
  /\ AtStep(w, p, "running", "publish")
  /\ registry' = registry \ {<<w, p>>}
  /\ UNCHANGED <<procVars, ready, ownerVars, budget>>

(* The report is published, or kept as pending; a run that settled under a *)
(* prepared handoff may ask for the restart.                               *)
Settle(w, p) ==
  /\ \/ AtStep(w, p, "publish", "done")
     \/ prepared /\ AtStep(w, p, "publish", "restart")
  /\ UNCHANGED <<procVars, registry, ready, ownerVars, budget>>

ThreadStep(w, p) ==
  /\ Alive(w)
  /\ \/ Consider(w, p) \/ CheckAndReserve(w, p) \/ Reread(w, p) \/ ClaimPayload(w, p)
     \/ ClaimLands(w, p) \/ ClaimFails(w, p) \/ PrepareRun(w, p)
     \/ CloseRunScope(w, p) \/ Settle(w, p)

ThreadFault(w, p) ==
  /\ Alive(w)
  /\ ClaimRetried(w, p) \/ RegistryUnavailable(w, p) \/ UnguardedFailure(w, p)

-----------------------------------------------------------------------------
(* The main loop of a Worker and its Coordinator.                          *)

loopRest == <<ready, ownerVars, prepared, budget>>

(* worker.lock, then the Coordinator, whose first health record already    *)
(* drops the records of processes that are gone.                           *)
Boot(w) ==
  /\ main[w] = "off" /\ lock = None
  /\ lock' = w
  /\ main' = [main EXCEPT ![w] = "loop"]
  /\ registry' = Remaining(w)
  /\ UNCHANGED <<barrier, thr, loopRest>>

BootRefused(w) ==
  /\ main[w] = "off" /\ lock # None
  /\ main' = [main EXCEPT ![w] = "gone"]
  /\ UNCHANGED <<barrier, thr, registry, lock, loopRest>>

Finished(w) == {p \in Projects : thr[w][p] \in Ended}

(* Collect the futures that ended.  Of several errors only the first in    *)
(* the order of submission is raised, and only a restart request that is   *)
(* raised ends the loop.                                                   *)
Errors(w) == {p \in Projects : thr[w][p] \in {"failed", "restart"}}

Reaped(w) == [thr EXCEPT ![w] = [p \in Projects |-> IF @[p] \in Ended THEN "none" ELSE @[p]]]

(* Leaving the with block frees worker.lock; the Coordinator is closed     *)
(* after that, so it drains while another Worker may already start.        *)
Leave(w) ==
  /\ main' = [main EXCEPT ![w] = "closing"]
  /\ lock' = None
  /\ barrier' = [barrier EXCEPT ![w] = "DRAINING"]

Raised(w, error) == \E p \in Errors(w) : thr[w][p] = error

Reap(w) ==
  /\ main[w] = "loop" /\ Finished(w) # {}
  /\ thr' = Reaped(w)
  /\ registry' = Remaining(w)
  /\ \/ Raised(w, "restart") /\ Leave(w)
     \/ /\ Errors(w) = {} \/ Raised(w, "failed")
        /\ UNCHANGED <<main, barrier, lock>>
  /\ UNCHANGED loopRest

FaultySubmit(w, p) ==
  /\ main[w] = "loop" /\ p \in Polls[w] /\ ~prepared
  /\ thr[w][p] = "none"
  /\ Cardinality(Leases(w)) < Limit[w]
  /\ thr' = [thr EXCEPT ![w][p] = "start"]
  /\ registry' = Remaining(w)
  /\ UNCHANGED <<main, barrier, lock, loopRest>>

(* One project of a poll: a poll follows a reap that raised nothing, and   *)
(* a run that ends meanwhile is reaped by the next one.                    *)
Submit(w, p) ==
  /\ main[w] = "loop" /\ p \in Polls[w] /\ ~prepared
  /\ barrier[w] = "RUNNING"
  /\ thr[w][p] = "none"
  /\ Cardinality(Leases(w)) < Limit[w]
  /\ thr' = [thr EXCEPT ![w][p] = "start"]
  /\ registry' = Remaining(w)
  /\ UNCHANGED <<main, barrier, lock, loopRest>>

(* New Worker code: begin_draining inside the loop.                        *)
CodeChanged(w) ==
  /\ main[w] = "loop"
  /\ main' = [main EXCEPT ![w] = "drain"]
  /\ barrier' = [barrier EXCEPT ![w] = "DRAINING"]
  /\ registry' = Remaining(w)
  /\ UNCHANGED <<thr, lock, loopRest>>

(* The barrier is empty; reap(wait=True) then collects every future, and   *)
(* a failure it raises returns to the loop, still draining.                *)
Drained(w) ==
  /\ main[w] = "drain" /\ Leases(w) = {}
  /\ thr' = Reaped(w)
  /\ registry' = Remaining(w)
  /\ \/ (Errors(w) = {} \/ Raised(w, "restart")) /\ Leave(w)
     \/ /\ Raised(w, "failed")
        /\ main' = [main EXCEPT ![w] = "loop"]
        /\ UNCHANGED <<barrier, lock>>
  /\ UNCHANGED loopRest

(* The poll was the only one asked for, or the Worker is interrupted.      *)
Interrupted(w) ==
  /\ main[w] = "loop"
  /\ Leave(w)
  /\ UNCHANGED <<thr, registry, loopRest>>

FaultyClose(w) ==
  /\ main[w] = "closing" /\ Leases(w) = {} /\ Errors(w) = {}
  /\ main' = [main EXCEPT ![w] = "gone"]
  /\ barrier' = [barrier EXCEPT ![w] = "CLOSED"]
  /\ thr' = Reaped(w)
  /\ registry' = Remaining(w)
  /\ UNCHANGED <<lock, loopRest>>

(* Coordinator.close: drain, collect, shut the pool and close the barrier. *)
Close(w) ==
  /\ main[w] = "closing" /\ Leases(w) = {}
  /\ main' = [main EXCEPT ![w] = "gone"]
  /\ barrier' = [barrier EXCEPT ![w] = "CLOSED"]
  /\ thr' = Reaped(w)
  /\ registry' = Remaining(w)
  /\ UNCHANGED <<lock, loopRest>>

(* The process dies: its threads and its executors with it (the job object *)
(* of the executors is closed); the registry stays on disk.                *)
WorkerDies(w) ==
  /\ Alive(w) /\ budget.faults > 0
  /\ budget' = [budget EXCEPT !.faults = @ - 1]
  /\ main' = [main EXCEPT ![w] = "gone"]
  /\ thr' = [thr EXCEPT ![w] = [p \in Projects |-> "none"]]
  /\ lock' = IF lock = w THEN None ELSE lock
  /\ grace' = {t \in grace : t[1] # w}
  /\ UNCHANGED <<barrier, registry, ready, control, paused, prepared>>

MainStep(w) ==
  Boot(w) \/ Reap(w) \/ Drained(w) \/ Close(w)

-----------------------------------------------------------------------------
(* The Owner, and an engine handoff (the module EngineHandoff).            *)

InFlight(P) == {t \in Workers \X P : thr[t[1]][t[2]] = "push"}

Elsewhere == UNCHANGED <<main, barrier, lock, thr, registry>>

OwnerActsOnState ==
  /\ budget.owner > 0
  /\ budget' = [budget EXCEPT !.owner = @ - 1]
  /\ Elsewhere

OwnerActs == OwnerActsOnState /\ UNCHANGED ready

(* What was paused can always be resumed.                                  *)
OwnerRelents == Elsewhere /\ UNCHANGED <<ready, budget>>

(* The control file in the private repository.                             *)
OwnerPauses ==
  /\ OwnerActs
  /\ control = "AUTO" /\ control' = "PAUSED"
  /\ grace' = grace \cup InFlight(Projects)
  /\ UNCHANGED <<paused, prepared>>

OwnerResumes ==
  /\ OwnerRelents
  /\ control = "PAUSED" /\ control' = "AUTO"
  /\ grace' = {t \in grace : t[2] \in paused}
  /\ UNCHANGED <<paused, prepared>>

set_project_paused(p) ==
  /\ \/ /\ OwnerActs
        /\ p \notin paused /\ paused' = paused \cup {p}
        /\ grace' = grace \cup InFlight({p})
     \/ /\ OwnerRelents
        /\ p \in paused /\ paused' = paused \ {p}
        /\ grace' = IF control = "AUTO" THEN {t \in grace : t[2] # p} ELSE grace
  /\ UNCHANGED <<control, prepared>>

(* Another writer of the canonical state: the command is superseded, or    *)
(* answered in the manual lane (the module PublicationLanes).              *)
OtherWriter(p) ==
  /\ OwnerActsOnState
  /\ p \in ready
  /\ ready' = ready \ {p}
  /\ UNCHANGED <<ownerVars, prepared>>

HandoffPrepared ==
  /\ OwnerActs
  /\ ~prepared /\ prepared' = TRUE
  /\ UNCHANGED ownerVars

HostNext ==
  \/ \E w \in Workers, p \in Projects :
       ThreadStep(w, p) \/ ThreadFault(w, p) \/ Submit(w, p)
  \/ \E w \in Workers :
       \/ MainStep(w) \/ BootRefused(w) \/ CodeChanged(w)
       \/ Interrupted(w) \/ WorkerDies(w)
  \/ OwnerPauses \/ OwnerResumes
  \/ \E p \in Projects : set_project_paused(p) \/ OtherWriter(p)
  \/ HandoffPrepared

HostSpec == HostInit /\ [][HostNext]_vars

(* A live process is scheduled: some thread of it that can go on does.     *)
(* That is enough for the drains, where no thread goes round in a loop.    *)
HostFairSpec ==
  /\ HostSpec
  /\ \A w \in Workers : WF_vars(MainStep(w) \/ \E p \in Polls[w] : ThreadStep(w, p))

-----------------------------------------------------------------------------
(* Properties.                                                             *)

HostTypeOK ==
  /\ main \in [Workers -> {"off", "loop", "drain", "closing", "gone"}]
  /\ barrier \in [Workers -> {"RUNNING", "DRAINING", "CLOSED"}]
  /\ thr \in [Workers -> [Projects -> ThreadStates]]
  /\ registry \subseteq Workers \X Projects
  /\ lock \in Workers \cup {None}
  /\ ready \subseteq Projects
  /\ control \in {"AUTO", "PAUSED"}
  /\ paused \subseteq Projects
  /\ grace \subseteq Workers \X Projects
  /\ prepared \in BOOLEAN
  /\ budget \in [owner : Nat, faults : Nat]

(* The runs on this host between their reservation and the end of their    *)
(* scope, whichever process they belong to.                                *)
Holders == {t \in Workers \X Projects : thr[t[1]][t[2]] \in Holding}

(* However many Workers of the host are running or draining, two runs that *)
(* are under way never share a project, overlapping exclusive paths or a   *)
(* known Git target, and there are never more of them than some process's  *)
(* max_parallel_runs (check_and_reserve, _conflict_reason, _safe_stale).   *)
(* It takes processes that can see one another live: the run overlap shows *)
(* what happens without.                                                   *)
ConcurrentRunsDisjoint ==
  /\ \A t, u \in Holders : t # u => ~Conflict(t[2], u[2])
  /\ Holders # {} => \E w \in Workers : Cardinality(Holders) =< Limit[w]

(* A live process has no more reservations without a run than there were   *)
(* failures in the code that no handler guards: everywhere else the run    *)
(* that made a reservation takes it back (process_project, RunScope).      *)
Leaked == {r \in registry \ Holders : Alive(r[1])}
ReservationsReturned == Cardinality(Leaked) =< MaxFaults - budget.faults

(* From the moment a Coordinator begins to drain, its leases only shrink,  *)
(* even when the drain ends in an error and the main loop goes on polling  *)
(* (submit, begin_draining, AdmissionBarrier.try_admit).                   *)
DrainingAdmitsNothing ==
  [][\A w \in Workers : barrier[w] # "RUNNING" => Leases(w)' \subseteq Leases(w)]_vars

(* Once the Owner has paused, a claim can only come from a run that had    *)
(* already read the control for this very attempt; a retry of the push     *)
(* reads it again (claim_payload, require_new_execution).                  *)
PauseStopsClaims ==
  \A t \in Workers \X Projects :
    thr[t[1]][t[2]] = "push" /\ ~ControlAllows(t[2]) => t \in grace

(* A drain ends, whatever the runs that were under way did: the process is *)
(* gone, or back in its loop when a run's failure ended the drain          *)
(* (begin_draining, Coordinator.close).                                    *)
DrainCompletes ==
  \A w \in Workers : main[w] \in {"drain", "closing"} ~> main[w] \in {"loop", "gone"}

-----------------------------------------------------------------------------
(* The inductive invariant.                                                *)

\* A process that has not started or is gone has no run.
DeadIdle == \A w \in Workers, p \in Projects : ~Alive(w) => thr[w][p] = "none"

\* A process that no other takes for dead while it lives.
Probeable(v) == \A w \in Workers \ {v} : v \in Answers[w]

\* A run of such a process has its record on disk while it is under way.
HoldersReserved == \A t \in Holders : Probeable(t[1]) => t \in registry

\* A record is written by a process that has started.
RecordsStarted == \A r \in registry : main[r[1]] # "off"

\* The records are compatible with one another, those of dead processes too.
RecordsDisjoint == \A r, s \in registry : r # s => ~Conflict(r[2], s[2])

\* Their number was within the limit of the process that wrote the last one.
SlotBound == registry # {} => \E w \in Workers : Cardinality(registry) =< Limit[w]

(* The registry speaks for the runs of every process that the others can   *)
(* see, across overlapping, draining and dead Workers, and its records are *)
(* always compatible (check_and_reserve, _safe_stale).                     *)
HostInv ==
  /\ HostTypeOK /\ DeadIdle /\ HoldersReserved /\ RecordsStarted
  /\ RecordsDisjoint /\ SlotBound /\ PauseStopsClaims

===============================================================================
