-------------------------- MODULE PublicationLanes --------------------------
(***************************************************************************)
(* How work enters the queue: the Worker-side publication gateway, the     *)
(* Supervisor's manual-priority supersede, the operator's repair of an     *)
(* unclaimed command, the human fast lane, and the Supervisor's own state  *)
(* updates.  The gateway publishes from its host's clone; the other lanes  *)
(* publish from a clone of their own, so only whether they land matters.   *)
(***************************************************************************)
EXTENDS BridgeStore

CONSTANTS Lanes,    \* lanes that are in use
          Modes     \* recovery modes of the commands that are published

AllLanes == {"finalize", "owner", "priority", "malformed", "manual",
             "withdraw"}

ASSUME LanesAssumption ==
    Lanes \subseteq AllLanes /\ Modes \subseteq {"legacy", "typed"}

NewCommand(src, kind, basedOn, expGen, supersedes, withdraws, mode) ==
    [src |-> src, kind |-> kind, basedOn |-> basedOn, expGen |-> expGen,
     supersedes |-> supersedes, withdraws |-> withdraws, mode |-> mode,
     valid |-> TRUE]

\* No command file has id c or above: ids are never reused.
Unused(c) == \A d \in CommandIds : d >= c => commands[d] = NoCommand

\* next_command_id: one past every command and report the history knows.
KnownIds ==
    {canon.cmd, canon.rep} \cup {d \in CommandIds : commands[d] # NoCommand}
IsNextCommandId(c) == c - 1 \in KnownIds /\ \A d \in KnownIds : d < c

ThreadsUntouched == UNCHANGED <<polling, thread, evidenceVars, expired>>

\* A publication whose lane has no further local state.
Publish(cm) ==
    /\ Land(cm)
    /\ ThreadsUntouched
    /\ UNCHANGED <<cloneVars, manuals, faults, launches>>

(***************************************************************************)
(* Publication gateway: an exact staged request, on host w.                *)
(***************************************************************************)
GatewayEligible(s, src, kind) ==
    /\ s.run = NoRun
    /\ \/ s.status = "REPORT_READY"
       \/ /\ s.status = "HUMAN_REQUIRED"
          /\ src = "scheduled_chatgpt"
          /\ kind = "EXECUTE"

GatewayRequest(src, kind) ==
    \/ src \in {"scheduled_chatgpt", "manual_chatgpt"} /\ kind = "EXECUTE"
    \/ src = "finalizer" /\ kind = "FINALIZE" /\ "finalize" \in Lanes

\* Faulty variant: only the status is compared with the initial snapshot.
SameStatus(s) == canon.status = s.status

\* state_is_eligible: canonical state is still the snapshot that was assessed.
state_is_eligible(s) == canon = s

GatewayPublish(w) ==
    LET s == clone[w]
        c == s.cmd + 1
    IN
    /\ polling[w]
    /\ c \in CommandIds
    /\ \E src \in COMMAND_SOURCES, kind \in COMMAND_KINDS, mode \in Modes,
          o \in Outcomes :
          /\ GatewayRequest(src, kind)
          /\ GatewayEligible(s, src, kind)
          /\ publish_cas(w, o, FALSE, state_is_eligible(s),
               Commit(PublishedState(s, c, IF kind = "FINALIZE"
                                           THEN "FINALIZING"
                                           ELSE "COMMAND_READY", s.rep),
                      NewCommand(src, kind, s.rep, s.gen + 1, 0, 0, mode),
                      NoReport))
    /\ ThreadsUntouched
    /\ UNCHANGED <<manuals, launches>>

(***************************************************************************)
(* Replacement of an unclaimed command at the queue boundary.              *)
(***************************************************************************)
publish_manual_priority ==
    /\ "priority" \in Lanes
    /\ canon.cmd # 0
    /\ manual_supersede_decision(canon, commands[canon.cmd])
    /\ \E c \in CommandIds, mode \in Modes :
          /\ IsNextCommandId(c)
          /\ Publish(Commit(
               PublishedState(canon, c, "COMMAND_READY", canon.rev),
               NewCommand("manual_chatgpt", "EXECUTE", canon.rep,
                          canon.gen + 1, canon.cmd, 0, mode),
               NoReport))

\* The replacement id only has to lie beyond the known history: gaps happen.
repair_unclaimed_command ==
    /\ canon.cmd # 0
    /\ assess_unclaimed_command_repair(canon, commands[canon.cmd])
    /\ \E c \in CommandIds, mode \in Modes :
          /\ Unused(c)
          /\ c > canon.cmd
          /\ Publish(Commit(
               PublishedState(canon, c, "COMMAND_READY", canon.rev),
               NewCommand(commands[canon.cmd].src, commands[canon.cmd].kind,
                          canon.rep, canon.gen + 1, canon.cmd, 0, mode),
               NoReport))

(***************************************************************************)
(* Human fast lane: publication and claim in one commit.  seen is whether  *)
(* the caller learns that the commit landed and starts the execution.      *)
(***************************************************************************)
ManualClaim(c, command) ==
    \E seen \in BOOLEAN :
       LET new == ManualClaimedState(canon, c) IN
       /\ IF seen
          THEN /\ manuals' = manuals \cup {new.run}
               /\ launches' = [launches EXCEPT ![c] = @ + 1]
               /\ UNCHANGED faults
          ELSE Fault("unseen") /\ UNCHANGED <<manuals, launches>>
       /\ Land(Commit(new, command, NoReport))
       /\ ThreadsUntouched
       /\ UNCHANGED cloneVars

start_manual ==
    /\ "manual" \in Lanes
    /\ ManualStartAllowed(canon, IF canon.cmd = 0 THEN NoCommand
                                 ELSE commands[canon.cmd])
    /\ \E c \in CommandIds, kind \in COMMAND_KINDS :
          /\ IsNextCommandId(c)
          /\ kind = "FINALIZE" => canon.status = "REPORT_READY"
          /\ ManualClaim(c, NewCommand("manual_chatgpt", kind, canon.rep,
                                       canon.gen + 1,
                                       ManualStartSupersedes(canon), 0,
                                       "legacy"))

withdraw_and_manual_start ==
    /\ "withdraw" \in Lanes
    /\ canon.cmd # 0
    /\ withdraw_and_manual_start_decision(canon, commands[canon.cmd])
    /\ reports[canon.cmd] = NoReport
    /\ \E c \in CommandIds :
          /\ IsNextCommandId(c)
          /\ ManualClaim(c, NewCommand("manual_chatgpt", "EXECUTE", canon.rep,
                                       canon.gen + 1, 0, canon.cmd, "legacy"))

\* finish_manual.  A failed publication leaves the human with the report text
\* and the run, so the call can be made again.  The outcome PARTIAL leads to
\* the same states as FAILED.
finish_manual(r) ==
    /\ r \in manuals
    /\ matches_execution_lease(canon, r)
    /\ reports[r.cmd] = NoReport
    /\ \E seen, delivered \in BOOLEAN, outcome \in {"SUCCESS", "FAILED"} :
          /\ Land(Commit(
               ReportedState(canon, r.cmd,
                             report_status_after_execution(
                                 commands[r.cmd].kind, outcome, delivered)),
               NoCommand, ResultOf(r)))
          /\ IF seen THEN manuals' = manuals \ {r} /\ UNCHANGED faults
             ELSE Fault("unseen") /\ UNCHANGED manuals
    /\ ThreadsUntouched
    /\ UNCHANGED <<cloneVars, launches>>

\* The call finds its report published, or finds that the lease is gone.
FinishManualLate(r) ==
    /\ r \in manuals
    /\ ~matches_execution_lease(canon, r)
    /\ manuals' = manuals \ {r}
    /\ ThreadsUntouched
    /\ UNCHANGED <<canonVars, cloneVars, faults, launches>>

(***************************************************************************)
(* State updates by the cloud Supervisor, whose code is outside this       *)
(* repository (protocol/v2/transitions.json lists them).                   *)
(***************************************************************************)
PauseForOwner ==
    /\ "owner" \in Lanes
    /\ canon.status = "REPORT_READY"
    /\ Publish(Commit([canon EXCEPT !.status = "HUMAN_REQUIRED",
                                    !.gen = @ + 1], NoCommand, NoReport))

AcceptFinalDelivery ==
    /\ canon.status = "FINAL_REPORT_READY"
    /\ Publish(Commit([canon EXCEPT !.status = "DONE", !.gen = @ + 1],
                      NoCommand, NoReport))

\* A command file that violates the command contract reaches the queue.
PublishMalformed ==
    /\ "malformed" \in Lanes
    /\ canon.status = "REPORT_READY"
    /\ \E c \in CommandIds :
          /\ IsNextCommandId(c)
          /\ Publish(Commit(
               PublishedState(canon, c, "COMMAND_READY", canon.rep),
               [NewCommand("scheduled_chatgpt", "EXECUTE", canon.rep,
                           canon.gen + 1, 0, 0, "legacy")
                EXCEPT !.valid = FALSE],
               NoReport))
=============================================================================
