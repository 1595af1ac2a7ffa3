-------------------------- MODULE CanonicalProtocol --------------------------
(***************************************************************************)
(* What the Bridge promises about a project's canonical state, as the      *)
(* transitions of protocol/v2/transitions.json: no clones, threads,        *)
(* faults, sidecars or journals.  BridgeProtocol implements it.            *)
(***************************************************************************)
EXTENDS ProtocolCore

VARIABLE state

\* generation_effect of a transition.
Advance(n) == state'.gen = state.gen + n

\* The pointers that a transition leaves alone.
SameQueue == state'.cmd = state.cmd /\ state'.rev = state.rev
PointersKept == SameQueue /\ state'.rep = state.rep

\* Publication of a new command that leaves the reports alone.
NewPointer ==
    /\ state.run = NoRun
    /\ state'.cmd > state.cmd
    /\ state'.rep = state.rep

SupervisorPublish ==
    /\ state.status \in {"REPORT_READY", "HUMAN_REQUIRED"}
    /\ state'.status \in PENDING_STATES
    /\ state.status = "HUMAN_REQUIRED" => state'.status = "COMMAND_READY"
    /\ NewPointer
    /\ state'.run = NoRun
    /\ Advance(1)

ReplaceUnclaimed ==
    /\ state.status = "COMMAND_READY"
    /\ state'.status = "COMMAND_READY"
    /\ NewPointer
    /\ state'.run = NoRun
    /\ Advance(1)

WorkerClaim ==
    /\ state.status \in PENDING_STATES
    /\ state.cmd > state.rep
    /\ state.run = NoRun
    /\ state'.status = "CODEX_RUNNING"
    /\ state'.run.owner \in Workers
    /\ state'.run.cmd = state.cmd
    /\ state'.run.gen = state'.gen
    /\ PointersKept
    /\ Advance(1)

\* Publication and claim in one commit consume two logical generations.
ManualPublishAndClaim ==
    /\ state.status \in {"REPORT_READY", "COMMAND_READY"}
    /\ state'.status = "CODEX_RUNNING"
    /\ NewPointer
    /\ state'.run.owner = "manual"
    /\ state'.run.cmd = state'.cmd
    /\ state'.run.gen = state'.gen
    /\ Advance(2)

\* The lease's own run reports, and its command becomes the latest report.
PublishReport ==
    /\ state.status = "CODEX_RUNNING"
    /\ state'.status \in {"REPORT_READY", "FINAL_REPORT_READY",
                          "RECOVERY_REQUIRED"}
    /\ state'.rep = state.run.cmd
    /\ state'.run = NoRun
    /\ SameQueue
    /\ Advance(1)

RequireRecovery ==
    /\ state.status = "CODEX_RUNNING"
    /\ state'.status = "RECOVERY_REQUIRED"
    /\ state'.why \in {state.run, NoRun}
    /\ state'.run = NoRun
    /\ PointersKept
    /\ Advance(1)

ResolveRecovery ==
    /\ state.status = "RECOVERY_REQUIRED"
    /\ state.rep < state.cmd
    /\ state'.status = "REPORT_READY"
    /\ state'.rep = state.cmd
    /\ state'.run = NoRun
    /\ SameQueue
    /\ Advance(1)

SupervisorUpdate(from, to) ==
    /\ state.status = from
    /\ state'.status = to
    /\ state'.run = NoRun
    /\ PointersKept
    /\ Advance(1)

PauseForOwner == SupervisorUpdate("REPORT_READY", "HUMAN_REQUIRED")

AcceptFinalDelivery == SupervisorUpdate("FINAL_REPORT_READY", "DONE")

Init == state = Genesis

Next == \/ SupervisorPublish \/ ReplaceUnclaimed \/ WorkerClaim
        \/ ManualPublishAndClaim \/ PublishReport \/ RequireRecovery
        \/ ResolveRecovery \/ PauseForOwner \/ AcceptFinalDelivery

Spec == Init /\ [][Next]_state
=============================================================================
