-------------------------------- MODULE Handoff --------------------------------
(***************************************************************************)
(* The durable handoff evidence of one adoption attempt and the outer      *)
(* controller that is the only one to move it (vnext_runtime/handoff.py,   *)
(* OuterControllerHandoff).  Every transition first re-reads the evidence: *)
(* another identity is a conflict, and a non-terminal attempt past its     *)
(* health deadline is stale whatever its phase.                            *)
(***************************************************************************)
EXTENDS Adoption

VARIABLES
  evidence,    \* adoption-handoff.json
  late         \* the clock is past the health deadline of the evidence

Phases == {"NONE", "PREPARED", "DRAINING", "QUIESCED", "ADOPTED", "PROBATION",
           "COMPLETED", "ROLLBACK_REQUIRED", "ROLLED_BACK", "SUPERSEDED"}
Terminal == {"COMPLETED", "ROLLED_BACK", "SUPERSEDED"}
NonTerminal == Phases \ (Terminal \cup {"NONE"})

NoIdentity == [attempt |-> 0, stable |-> 0, main |-> 0, candidate |-> 0,
               target |-> 0, command |-> 0]
NoEvidence == [phase |-> "NONE", id |-> NoIdentity, rollback |-> 0]

HandoffInit ==
  /\ evidence = NoEvidence
  /\ late = FALSE

id == evidence.id

(* _read: the evidence is readable for a transition.                       *)
Current == evidence.phase \in NonTerminal /\ ~late

(* _transition *)
Transition(from, to) ==
  /\ Current
  /\ evidence.phase \in from
  /\ evidence' = [evidence EXCEPT !.phase = to]
  /\ UNCHANGED late

(* The terminal tree a successor attempt must start from.                  *)
SuccessorBase ==
  CASE evidence.phase = "COMPLETED" -> id.target
    [] evidence.phase = "ROLLED_BACK" -> evidence.rollback
    [] OTHER -> 0

(* prepare: the first attempt, or one strictly newer successor of a        *)
(* terminal attempt whose tree is its base.  SUPERSEDED has no successor.  *)
MayPrepare(i) ==
  \/ evidence.phase = "NONE"
  \/ /\ SuccessorBase # 0
     /\ i.attempt # id.attempt
     /\ i.stable = SuccessorBase
     /\ i.main = i.stable
     /\ i.command > id.command

Prepare(command) ==
  LET i == [attempt |-> plan.attempt, stable |-> plan.main, main |-> plan.main,
            candidate |-> plan.candidate, target |-> plan.target, command |-> command] IN
  /\ PromotionAllowed
  /\ command # 0
  /\ MayPrepare(i)
  /\ evidence' = [phase |-> "PREPARED", id |-> i, rollback |-> 0]
  /\ late' = FALSE
  /\ plan' = [NoPlan EXCEPT !.attempt = plan.attempt]

BeginDraining == Transition({"PREPARED"}, "DRAINING")

(* record_worker_quiesced: only with an empty active-run set.              *)
RecordWorkerQuiesced(activeRuns) ==
  /\ activeRuns = {}
  /\ Transition({"DRAINING"}, "QUIESCED")

MarkAdopted(observed) ==
  /\ observed = id.target
  /\ Transition({"QUIESCED"}, "ADOPTED")

RecordWorkerRestart(sha) ==
  /\ sha = id.target
  /\ Transition({"ADOPTED", "PROBATION"}, "PROBATION")

MarkHealthReady(o) ==
  /\ HealthGate(late, o) = "READY"
  /\ Transition({"PROBATION"}, "COMPLETED")

RequestRollback == Transition({"ADOPTED", "PROBATION"}, "ROLLBACK_REQUIRED")

(* mark_forward_rollback: a new commit, never a reset to an old one.       *)
MarkForwardRollback(sha) ==
  /\ sha \notin {id.stable, id.target}
  /\ Current
  /\ evidence.phase = "ROLLBACK_REQUIRED"
  /\ evidence' = [evidence EXCEPT !.phase = "ROLLED_BACK", !.rollback = sha]
  /\ UNCHANGED late

(* mark_superseded: the operator closes the attempt for good.              *)
MarkSuperseded == Transition(NonTerminal, "SUPERSEDED")

(* The wall clock passes the deadline the identity names.                  *)
DeadlinePasses ==
  /\ evidence.phase \in NonTerminal
  /\ ~late
  /\ late' = TRUE
  /\ UNCHANGED evidence

HandoffTypeOK ==
  /\ evidence \in [phase : Phases, rollback : Nat,
                   id : [attempt : 0..MaxAttempts, stable : Nat, main : Nat,
                         candidate : Nat, target : Nat, command : Nat]]
  /\ late \in BOOLEAN
=============================================================================
