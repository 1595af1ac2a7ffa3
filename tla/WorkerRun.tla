------------------------------ MODULE WorkerRun ------------------------------
(***************************************************************************)
(* One Worker execution of one command: process_project in                 *)
(* worker/bridge_worker.py, run on a coordinator thread beside the main    *)
(* loop.  A coordinator runs at most one thread per project, so a host has *)
(* one thread record.  Each action is the code between two durable         *)
(* effects; a crash may fall between any two of them.                      *)
(***************************************************************************)
EXTENDS BridgeStore

ThreadStates == {"idle", "ready", "claimed", "running", "done", "saved",
                 "unsaved", "acking", "interrupted", "journaled", "armed",
                 "confirming"}

(***************************************************************************)
(* A finished execution: the status its report will publish, and what the  *)
(* report and the WAL prove about it: a valid final marker, a contained    *)
(* exit with reconciled effects, or neither.  process_project hands its    *)
(* runner no launcher, so none of its runs ends with a contained exit.     *)
(***************************************************************************)
Proofs == {"marker", "contained", "uncertain"}
ReportTargets == {"REPORT_READY", "FINAL_REPORT_READY", "RECOVERY_REQUIRED"}
Results == [target : ReportTargets, proof : Proofs]
NoResult == [target |-> "REPORT_READY", proof |-> "uncertain"]

ResultsFrom(previous) ==
    {[target |-> intended_report_status(previous, "SUCCESS", d, TRUE),
      proof |-> "marker"] : d \in BOOLEAN}
    \cup
    {[target |-> intended_report_status(previous, "FAILED", FALSE, k),
      proof |-> p] : k \in BOOLEAN, p \in Proofs \ {"contained"}}

Threads == [pc : ThreadStates, snap : States, run : Runs, res : Results]
IdleThread == [pc |-> "idle", snap |-> Genesis, run |-> NoRun,
               res |-> NoResult]

SidecarStates == {"none", "pending", "reconciled", "superseded", "conflict"}
Sidecars == [st : SidecarStates, run : Runs, mode : {"legacy", "typed"},
             res : Results]
NoSidecar == [st |-> "none", run |-> NoRun, mode |-> "legacy",
              res |-> NoResult]

Journals == [st : SidecarStates, run : Runs, text : BOOLEAN]
NoJournal == [st |-> "none", run |-> NoRun, text |-> FALSE]

Goto(w, pc) == thread' = [thread EXCEPT ![w].pc = pc]
Stop(w) == thread' = [thread EXCEPT ![w] = IdleThread]
RunMode(w) == commands[thread[w].run.cmd].mode

(***************************************************************************)
(* Admission: everything process_project checks on its own clone before    *)
(* the claim.                                                              *)
(***************************************************************************)
TakeReady(w) ==
    LET s == clone[w] IN
    /\ polling[w]
    /\ thread[w].pc = "idle"
    /\ s.status \in PENDING_STATES
    /\ s.cmd > s.rep
    /\ LocalReport(w, s.cmd) = NoReport
    /\ validate_pending_command(s, LocalCommand(w, s.cmd))
    /\ thread' = [thread EXCEPT ![w] =
                    [pc |-> "ready", snap |-> s,
                     run |-> [owner |-> w, cmd |-> s.cmd, gen |-> s.gen + 1],
                     res |-> NoResult]]
    /\ UNCHANGED <<canonVars, cloneVars, polling, evidenceVars, expired,
                   manuals, faults, launches>>

\* No reservation, a changed re-read, or an Owner execution or project block.
AbandonClaim(w) ==
    /\ thread[w].pc = "ready"
    /\ Stop(w)
    /\ UNCHANGED <<canonVars, cloneVars, polling, evidenceVars, expired,
                   manuals, faults, launches>>

\* Faulty variant: any running lease is taken for the Worker's own.
SomeLeaseHeld(w) == canon.status = "CODEX_RUNNING"

claim_already(w) ==
    canon.status = "CODEX_RUNNING" /\ canon.run = thread[w].run

claim_expected(w) == same_ready_snapshot(canon, thread[w].snap)

claim_payload(w) ==
    Commit(ClaimedState(canon, thread[w].run), NoCommand, NoReport)

ClaimCommand(w) ==
    /\ thread[w].pc = "ready"
    /\ \E o \in Outcomes :
          /\ publish_cas(w, o, claim_already(w), claim_expected(w),
                         claim_payload(w))
          /\ IF Succeeded(o) THEN Goto(w, "claimed") ELSE Stop(w)
    /\ UNCHANGED <<polling, evidenceVars, expired, manuals, launches>>

(***************************************************************************)
(* The execution itself.                                                   *)
(***************************************************************************)
\* The provider refuses every request whose kind is not EXECUTE.
Launch(w) ==
    /\ thread[w].pc = "claimed"
    /\ commands[thread[w].run.cmd].kind = "EXECUTE"
    /\ Goto(w, "running")
    /\ launches' = [launches EXCEPT ![thread[w].run.cmd] = @ + 1]
    /\ UNCHANGED <<canonVars, cloneVars, polling, evidenceVars, expired,
                   manuals, faults>>

\* Preparation failed or the provider refused the request after the claim:
\* the run reports exit 125.
LaunchFails(w) ==
    /\ thread[w].pc = "claimed"
    /\ thread' = [thread EXCEPT ![w].pc = "done", ![w].res = NoResult]
    /\ UNCHANGED <<canonVars, cloneVars, polling, evidenceVars, expired,
                   manuals, faults, launches>>

Finish(w) ==
    /\ thread[w].pc = "running"
    /\ \E r \in ResultsFrom(thread[w].snap.status) :
          thread' = [thread EXCEPT ![w].pc = "done", ![w].res = r]
    /\ UNCHANGED <<canonVars, cloneVars, polling, evidenceVars, expired,
                   manuals, faults, launches>>

\* Faulty variant: the network guard also ends a run that has its result.
LateInterrupt(w) ==
    /\ thread[w].pc \in {"running", "saved"}
    /\ Goto(w, "interrupted")
    /\ UNCHANGED <<canonVars, cloneVars, polling, evidenceVars, expired,
                   manuals, faults, launches>>

\* NetworkGuardInterruption: no business result exists.
Interrupt(w) ==
    /\ thread[w].pc = "running"
    /\ Goto(w, "interrupted")
    /\ UNCHANGED <<canonVars, cloneVars, polling, evidenceVars, expired,
                   manuals, faults, launches>>

(***************************************************************************)
(* Publication of a finished run's report.                                 *)
(***************************************************************************)
save_worker_pending_report(w) ==
    sidecar' = [sidecar EXCEPT ![w][thread[w].run.cmd] =
                  [st |-> "pending", run |-> thread[w].run,
                   mode |-> RunMode(w), res |-> thread[w].res]]

\* A run with a WAL leaves its typed sidecar before it pushes anything.
SaveTyped(w) ==
    /\ thread[w].pc = "done"
    /\ RunMode(w) = "typed"
    /\ save_worker_pending_report(w)
    /\ Goto(w, "saved")
    /\ UNCHANGED <<canonVars, cloneVars, polling, journal, expired, manuals,
                   faults, launches>>

complete_expected(w) == matches_execution_lease(canon, thread[w].run)

complete_already(w) ==
    /\ canon.rep = thread[w].run.cmd
    /\ canon.status \in {"REPORT_READY", "FINAL_REPORT_READY",
                         "RECOVERY_REQUIRED"}

complete_payload(w) ==
    Commit(ReportedState(canon, thread[w].run.cmd, thread[w].res.target),
           NoCommand, ResultOf(thread[w].run))

PublishReport(w) ==
    /\ \/ thread[w].pc = "saved"
       \/ thread[w].pc = "done" /\ RunMode(w) = "legacy"
    /\ \E o \in Outcomes :
          /\ publish_cas(w, o, complete_already(w), complete_expected(w),
                         complete_payload(w))
          /\ IF ~Succeeded(o) THEN Goto(w, "unsaved")
             ELSE IF RunMode(w) = "typed" THEN Goto(w, "acking") ELSE Stop(w)
    /\ UNCHANGED <<polling, evidenceVars, expired, manuals, launches>>

SaveAfterFailure(w) ==
    /\ thread[w].pc = "unsaved"
    /\ save_worker_pending_report(w)
    /\ Stop(w)
    /\ UNCHANGED <<canonVars, cloneVars, polling, journal, expired, manuals,
                   faults, launches>>

AckReport(w) ==
    /\ thread[w].pc = "acking"
    /\ sidecar' = [sidecar EXCEPT ![w][thread[w].run.cmd].st = "reconciled"]
    /\ Stop(w)
    /\ UNCHANGED <<canonVars, cloneVars, polling, journal, expired, manuals,
                   faults, launches>>

(***************************************************************************)
(* publish_network_recovery: journal, pending text, recovery CAS, ack.     *)
(***************************************************************************)
WriteJournal(w) ==
    /\ thread[w].pc = "interrupted"
    /\ journal' = [journal EXCEPT ![w][thread[w].run.cmd] =
                     [st |-> "pending", run |-> thread[w].run, text |-> FALSE]]
    /\ Goto(w, "journaled")
    /\ UNCHANGED <<canonVars, cloneVars, polling, sidecar, expired, manuals,
                   faults, launches>>

SavePendingText(w) ==
    /\ thread[w].pc = "journaled"
    /\ journal' = [journal EXCEPT ![w][thread[w].run.cmd].text = TRUE]
    /\ Goto(w, "armed")
    /\ UNCHANGED <<canonVars, cloneVars, polling, sidecar, expired, manuals,
                   faults, launches>>

PublishNetworkRecovery(w) ==
    /\ thread[w].pc = "armed"
    /\ \E o \in Outcomes :
          /\ publish_cas(w, o, matches_recovery_state(canon, thread[w].run),
                         matches_execution_lease(canon, thread[w].run),
                         Commit(RecoveryRequiredState(canon, thread[w].run),
                                NoCommand, NoReport))
          /\ IF Succeeded(o) THEN Goto(w, "confirming") ELSE Stop(w)
    /\ UNCHANGED <<polling, evidenceVars, expired, manuals, launches>>

AckJournal(w) ==
    /\ thread[w].pc = "confirming"
    /\ journal' = [journal EXCEPT ![w][thread[w].run.cmd].st = "reconciled"]
    /\ Stop(w)
    /\ UNCHANGED <<canonVars, cloneVars, polling, sidecar, expired, manuals,
                   faults, launches>>

\* The Worker process dies.  Its clone and runtime directory survive.
Crash(w) ==
    /\ Fault("crash")
    /\ Stop(w)
    /\ polling' = [polling EXCEPT ![w] = FALSE]
    /\ UNCHANGED <<canonVars, cloneVars, evidenceVars, expired, manuals,
                   launches>>
=============================================================================
