---------------------------- MODULE ProtocolCore ----------------------------
(***************************************************************************)
(* The pure Protocol-v2 decisions of worker/protocol_core.py, and the      *)
(* canonical records they read: a project's state.json, its command files, *)
(* its reports and the identity of a run.  Nothing here has state.         *)
(*                                                                         *)
(* One project is modelled, so the project_id qualifiers of the source are *)
(* left out.  A run's source is a function of its command, so the optional *)
(* source qualifier of a lease match is implied by the run's identity.     *)
(***************************************************************************)
EXTENDS Integers

CONSTANTS Workers,      \* Worker hosts, each with a dedicated Bridge clone
          MaxCommand    \* bound: highest command id of the instance

ASSUME WorkersAssumption == "manual" \notin Workers /\ "none" \notin Workers
ASSUME MaxCommandAssumption == MaxCommand \in Nat \ {0}

CommandIds == 1..MaxCommand
Ids == 0..MaxCommand

(***************************************************************************)
(* Statuses, kinds and sources (protocol_core.py).                         *)
(***************************************************************************)
ALLOWED_STATES == {"COMMAND_READY", "CODEX_RUNNING", "REPORT_READY",
                   "FINALIZING", "FINAL_REPORT_READY", "HUMAN_REQUIRED",
                   "RECOVERY_REQUIRED", "DONE", "FAILED"}
PENDING_STATES == {"COMMAND_READY", "FINALIZING"}
COMMAND_KINDS == {"EXECUTE", "FINALIZE"}
COMMAND_SOURCES == {"scheduled_chatgpt", "manual_chatgpt", "user_direct",
                    "finalizer"}

(***************************************************************************)
(* Records.  A run identity stands for (run_id, command_id,                *)
(* claim_generation): run ids are fresh per claim attempt, and an owner    *)
(* never claims twice at one generation.  why is the run that              *)
(* recovery_reason names, NoRun when its text names none.                  *)
(***************************************************************************)
Owners == Workers \cup {"manual", "none"}
Runs == [owner : Owners, cmd : Ids, gen : Nat]
NoRun == [owner |-> "none", cmd |-> 0, gen |-> 0]

States == [status : ALLOWED_STATES, gen : Nat, cmd : Ids, rep : Ids,
           rev : Ids, run : Runs, why : Runs]
Genesis == [status |-> "REPORT_READY", gen |-> 0, cmd |-> 0, rep |-> 0,
            rev |-> 0, run |-> NoRun, why |-> NoRun]

\* mode: whether a Worker run of the command owns a recovery WAL (phased
\* commands and egress-contained projects), which selects typed recovery.
Commands == [src : COMMAND_SOURCES \cup {"none"}, kind : COMMAND_KINDS,
             basedOn : Ids, expGen : Nat, supersedes : Ids, withdraws : Ids,
             mode : {"legacy", "typed"}, valid : BOOLEAN]
NoCommand == [src |-> "none", kind |-> "EXECUTE", basedOn |-> 0,
              expGen |-> 0, supersedes |-> 0, withdraws |-> 0,
              mode |-> "legacy", valid |-> FALSE]

Reports == [run : Runs, kind : {"none", "result", "interrupted"}]
NoReport == [run |-> NoRun, kind |-> "none"]
ResultOf(r) == [run |-> r, kind |-> "result"]
InterruptedOf(r) == [run |-> r, kind |-> "interrupted"]

(***************************************************************************)
(* Claim-time and lease-time guards.                                       *)
(***************************************************************************)
validate_pending_command(s, meta) ==
    /\ meta.valid
    /\ meta.expGen = s.gen
    /\ meta.basedOn = s.rep

\* Faulty variants: the command pointers alone; a generation off by one.
SamePointers(current, snapshot) ==
    current.cmd = snapshot.cmd /\ current.rep = snapshot.rep
NextGeneration(current, snapshot) ==
    SamePointers(current, snapshot) /\ current.gen = snapshot.gen + 1

same_ready_snapshot(current, snapshot) ==
    /\ current.status = snapshot.status
    /\ current.gen = snapshot.gen
    /\ current.cmd = snapshot.cmd
    /\ current.rep = snapshot.rep
    /\ current.run = NoRun

matches_execution_lease(s, r) ==
    /\ s.status = "CODEX_RUNNING"
    /\ s.gen = r.gen
    /\ s.run = r

matches_recovery_state(s, r) ==
    /\ s.status = "RECOVERY_REQUIRED"
    /\ s.run = NoRun
    /\ s.gen = r.gen + 1
    /\ s.cmd = r.cmd
    /\ s.why = r

(***************************************************************************)
(* Queue-boundary decisions.                                               *)
(***************************************************************************)
\* manual_start_decision: the command superseded (0 for none), or refusal.
ManualStartAllowed(s, meta) ==
    /\ s.run = NoRun
    /\ \/ s.status = "REPORT_READY"
       \/ /\ s.status = "COMMAND_READY"
          /\ meta.valid
          /\ meta.src = "scheduled_chatgpt"
          /\ meta.kind = "EXECUTE"
\* Faulty variant: the command that gives way is not named.
SupersedesNone(s) == 0
ManualStartSupersedes(s) == IF s.status = "COMMAND_READY" THEN s.cmd ELSE 0

\* Faulty variant: the status and the active run are not looked at.
SupersedesAnyExecute(s, meta) ==
    s.cmd > s.rep /\ meta.src = "scheduled_chatgpt" /\ meta.kind = "EXECUTE"

manual_supersede_decision(s, meta) ==
    /\ s.status = "COMMAND_READY"
    /\ s.run = NoRun
    /\ s.cmd > s.rep
    /\ validate_pending_command(s, meta)
    /\ meta.src = "scheduled_chatgpt"
    /\ meta.kind = "EXECUTE"
    /\ meta.supersedes = 0

withdraw_and_manual_start_decision(s, meta) ==
    /\ s.status = "COMMAND_READY"
    /\ s.run = NoRun
    /\ s.cmd > s.rep
    /\ validate_pending_command(s, meta)
    /\ meta.src = "manual_chatgpt"
    /\ meta.kind = "EXECUTE"
    /\ meta.supersedes = 0
    /\ meta.withdraws = 0

\* Repair needs a deterministic contract error in the unclaimed target.
assess_unclaimed_command_repair(s, meta) ==
    /\ s.status = "COMMAND_READY"
    /\ s.run = NoRun
    /\ s.cmd > s.rep
    /\ ~meta.valid

(***************************************************************************)
(* Statuses chosen by a finished execution.                                *)
(***************************************************************************)
\* captured: the final marker could be read, and an owner stop cleaned up.
intended_report_status(previous, outcome, delivered, captured) ==
    IF ~captured THEN "RECOVERY_REQUIRED"
    ELSE IF previous = "FINALIZING" /\ outcome = "SUCCESS" /\ delivered
         THEN "FINAL_REPORT_READY"
         ELSE "REPORT_READY"

report_status_after_execution(kind, outcome, delivered) ==
    IF kind = "FINALIZE" /\ outcome = "SUCCESS" /\ delivered
    THEN "FINAL_REPORT_READY"
    ELSE "REPORT_READY"

(***************************************************************************)
(* The state.json payload each transition publishes.                       *)
(***************************************************************************)
PublishedState(s, c, status, reviewed) ==
    [s EXCEPT !.status = status, !.gen = @ + 1, !.cmd = c,
              !.rev = reviewed, !.run = NoRun]

ClaimedState(s, r) ==
    [s EXCEPT !.status = "CODEX_RUNNING", !.gen = @ + 1, !.run = r]

\* Faulty variant: publication and claim count as one generation.
OneGenerationClaim(s, c) ==
    [ClaimedState(s, [owner |-> "manual", cmd |-> c, gen |-> s.gen + 1])
     EXCEPT !.cmd = c, !.rev = s.rep]

\* Manual publication and claim: one commit, two logical generations.
ManualClaimedState(s, c) ==
    [s EXCEPT !.status = "CODEX_RUNNING", !.gen = @ + 2, !.cmd = c,
              !.rev = s.rep,
              !.run = [owner |-> "manual", cmd |-> c, gen |-> s.gen + 2]]

ReportedState(s, c, status) ==
    [s EXCEPT !.status = status, !.gen = @ + 1, !.rep = c, !.run = NoRun]

\* Faulty variants: the queue reopens without a report; recovery keeps the
\* generation.
ReopensQueue(s, why) ==
    [s EXCEPT !.status = "REPORT_READY", !.gen = @ + 1, !.run = NoRun,
              !.why = why]
KeepsGeneration(s, why) ==
    [s EXCEPT !.status = "RECOVERY_REQUIRED", !.run = NoRun, !.why = why]

\* recovery_payload: why is the run that the published reason names.
RecoveryRequiredState(s, why) ==
    [s EXCEPT !.status = "RECOVERY_REQUIRED", !.gen = @ + 1,
              !.run = NoRun, !.why = why]

ResolvedState(s, c) ==
    [s EXCEPT !.status = "REPORT_READY", !.gen = @ + 1, !.rep = c,
              !.run = NoRun, !.why = NoRun]

\* validate_recovery_resolution, the ALLOW decision for a journal of command
\* c that was based on report basedOn, reviewed at generation gen; and
\* ALREADY_RESOLVED, given that the canonical report is the reviewed one.
ResolutionAllowed(s, c, basedOn, gen) ==
    /\ s.status = "RECOVERY_REQUIRED"
    /\ s.gen = gen
    /\ s.cmd = c
    /\ s.rep = basedOn
    /\ s.rev = basedOn
    /\ s.run = NoRun

AlreadyResolved(s, c, basedOn, gen) ==
    /\ s.status = "REPORT_READY"
    /\ s.gen = gen + 1
    /\ s.cmd = c
    /\ s.rep = c
    /\ s.rev = basedOn
    /\ s.run = NoRun
=============================================================================
