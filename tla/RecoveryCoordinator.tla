------------------------- MODULE RecoveryCoordinator -------------------------
(***************************************************************************)
(* Recovery on a Worker host, driven by its main loop and concurrent with  *)
(* its own run thread: expired leases, deferred interruption journals and  *)
(* pending reports (worker/vnext_runtime/services/recovery.py,             *)
(* worker/vnext_runtime/recovery_evidence.py, worker/pending_report.py),   *)
(* and the operator's resolution of an interrupted run                     *)
(* (worker/recovery_resolution.py).  None of these starts an executor.     *)
(***************************************************************************)
EXTENDS WorkerRun

MarkSidecar(w, c, st) == sidecar' = [sidecar EXCEPT ![w][c].st = st]
MarkJournal(w, c, st) == journal' = [journal EXCEPT ![w][c].st = st]

(***************************************************************************)
(* Lease expiry.                                                           *)
(***************************************************************************)
\* Faulty variant: only the leases of the human fast lane have a deadline.
ManualLeaseExpired(s) == s.run = expired /\ s.run.owner = "manual"

lease_expired(s) == s.run # NoRun /\ s.run = expired

\* The deadline written into the canonical lease passes.
LeaseDeadline ==
    /\ canon.run # NoRun
    /\ expired # canon.run
    /\ expired' = canon.run
    /\ UNCHANGED <<canonVars, cloneVars, polling, thread, evidenceVars,
                   manuals, faults, launches>>

\* process_project on a CODEX_RUNNING project.
mark_expired_lease(w) ==
    LET r == clone[w].run IN
    /\ polling[w]
    /\ thread[w].pc = "idle"
    /\ clone[w].status = "CODEX_RUNNING"
    /\ lease_expired(clone[w])
    /\ \E o \in Outcomes :
          publish_cas(w, o, matches_recovery_state(canon, r),
                      lease_expired(canon) /\ matches_execution_lease(canon, r),
                      Commit(RecoveryRequiredState(canon, r),
                             NoCommand, NoReport))
    /\ UNCHANGED <<polling, thread, evidenceVars, expired, manuals, launches>>

(***************************************************************************)
(* Deferred interruption journals.                                         *)
(***************************************************************************)
_reconcile_one_journal(w, c) ==
    LET s == clone[w]
        r == journal[w][c].run
    IN
    /\ polling[w]
    /\ journal[w][c].st = "pending"
    /\ \/ /\ LocalReport(w, c) # NoReport \/ s.rep >= c
          /\ MarkJournal(w, c, "superseded")
          /\ UNCHANGED <<canonVars, cloneVars, faults>>
       \/ /\ LocalReport(w, c) = NoReport /\ s.rep < c
          /\ matches_recovery_state(s, r)
          /\ MarkJournal(w, c, "reconciled")
          /\ UNCHANGED <<canonVars, cloneVars, faults>>
       \/ /\ LocalReport(w, c) = NoReport /\ s.rep < c
          /\ ~matches_recovery_state(s, r)
          /\ ~matches_execution_lease(s, r)
          /\ MarkJournal(w, c, IF s.status \in {"DONE", "FINAL_REPORT_READY"}
                               THEN "superseded" ELSE "conflict")
          /\ UNCHANGED <<canonVars, cloneVars, faults>>
       \/ /\ LocalReport(w, c) = NoReport /\ s.rep < c
          /\ matches_execution_lease(s, r)
          /\ \E o \in Outcomes :
                /\ publish_cas(w, o, matches_recovery_state(canon, r),
                               matches_execution_lease(canon, r),
                               Commit(RecoveryRequiredState(canon, r),
                                      NoCommand, NoReport))
                /\ IF Succeeded(o) THEN MarkJournal(w, c, "reconciled")
                   ELSE IF o = "conflict" THEN MarkJournal(w, c, "conflict")
                   ELSE UNCHANGED journal
    /\ UNCHANGED <<polling, thread, sidecar, expired, manuals, launches>>

\* pending_network_recovery_projects: a pending journal blocks the project.
JournalPending(w) == \E d \in CommandIds : journal[w][d].st = "pending"

(***************************************************************************)
(* Publication-only reconciliation of one sidecar (pending_report.py).     *)
(***************************************************************************)
\* Exact report bytes: every run's report text is its own.
ReportMatches(w, e, c) == LocalReport(w, c) = ResultOf(e.run)

\* Faulty variant: a report whose lease is gone is left pending for ever.
WaitsForLease(w, c) ==
    LET s == clone[w]
        e == sidecar[w][c]
    IN
    IF LocalReport(w, c) # NoReport \/ s.rep >= c THEN "superseded"
    ELSE IF matches_execution_lease(s, e.run) THEN "publish" ELSE "pending"

\* What _reconcile_one concludes from the working tree before it publishes.
pending_report_decision(w, c) ==
    LET s == clone[w]
        e == sidecar[w][c]
        visible == LocalReport(w, c) # NoReport
    IN
    IF visible \/ s.rep >= c
    THEN IF /\ visible
            /\ s.rep >= c
            /\ ReportMatches(w, e, c)
            /\ ~matches_execution_lease(s, e.run)
         THEN "superseded" ELSE "conflict"
    ELSE IF s.rep = c - 1 /\ matches_execution_lease(s, e.run)
         THEN "publish" ELSE "conflict"

_reconcile_one(w, c) ==
    LET e == sidecar[w][c]
        decision == pending_report_decision(w, c)
    IN
    \/ /\ decision # "publish"
       /\ MarkSidecar(w, c, decision)
       /\ UNCHANGED <<canonVars, cloneVars, faults>>
    \/ /\ decision = "publish"
       /\ \E o \in Outcomes :
             /\ publish_cas(w, o,
                  /\ reports[c] = ResultOf(e.run)
                  /\ canon.rep >= c
                  /\ ~matches_execution_lease(canon, e.run),
                  /\ reports[c] = NoReport
                  /\ canon.rep = c - 1
                  /\ matches_execution_lease(canon, e.run),
                  Commit(ReportedState(canon, c, e.res.target),
                         NoCommand, ResultOf(e.run)))
             /\ IF Succeeded(o) THEN MarkSidecar(w, c, "reconciled")
                ELSE IF o = "conflict" THEN MarkSidecar(w, c, "conflict")
                ELSE UNCHANGED sidecar

ReconcileLegacyReport(w, c) ==
    /\ polling[w]
    /\ ~JournalPending(w)
    /\ sidecar[w][c].st = "pending"
    /\ sidecar[w][c].mode = "legacy"
    /\ _reconcile_one(w, c)
    /\ UNCHANGED <<polling, thread, journal, expired, manuals, launches>>

(***************************************************************************)
(* Typed recovery: the pure classifier, then one bounded consequence.      *)
(***************************************************************************)
relation_to(s, r) ==
    IF s.rep >= r.cmd THEN "REPORT_ALREADY_PUBLISHED"
    ELSE IF s.status # "CODEX_RUNNING" THEN "STATE_ADVANCED"
    ELSE IF s.run = r THEN "EXACT_RUNNING" ELSE "IDENTITY_MISMATCH"

\* Faulty variant: canonical state past the lease always supersedes.
AdvancedSupersedes(s, e, kind) ==
    CASE relation_to(s, e.run) = "EXACT_RUNNING" -> "PUBLISH_COMPLETED_REPORT"
      [] relation_to(s, e.run) = "IDENTITY_MISMATCH" -> "CONFLICT"
      [] OTHER -> "SUPERSEDED"

classify_recovery(s, e, kind) ==
    LET relation == relation_to(s, e.run)
        terminal == e.st \in {"reconciled", "superseded"}
    IN
    IF e.st = "conflict" THEN "CONFLICT"
    ELSE IF relation = "REPORT_ALREADY_PUBLISHED" THEN "SUPERSEDED"
    ELSE IF relation = "IDENTITY_MISMATCH" THEN "CONFLICT"
    ELSE IF relation = "STATE_ADVANCED"
         THEN (IF terminal THEN "SUPERSEDED" ELSE "CONFLICT")
    ELSE IF terminal THEN "CONFLICT"
    ELSE IF e.res.proof = "marker" THEN "PUBLISH_COMPLETED_REPORT"
    ELSE IF kind = "FINALIZE" THEN "REQUIRE_RECOVERY"
    ELSE IF e.res.proof = "contained" THEN "PUBLISH_INTERRUPTED_REPORT"
    ELSE "REQUIRE_RECOVERY"

\* _typed_envelope refuses a latest_report that is past the run without the
\* run's exact report, and the refusal is handled like a conflict.
TypedClassification(w, c) ==
    IF clone[w].rep >= c /\ ~ReportMatches(w, sidecar[w][c], c)
    THEN "CONFLICT"
    ELSE classify_recovery(clone[w], sidecar[w][c], commands[c].kind)

_transition_typed_recovery(w, c) ==
    LET s == clone[w]
        r == sidecar[w][c].run
    IN
    \/ /\ \/ s.status = "RECOVERY_REQUIRED"
          \/ s.rep >= c
          \/ ~matches_execution_lease(s, r)
       /\ MarkSidecar(w, c, "conflict")
       /\ UNCHANGED <<canonVars, cloneVars, faults>>
    \/ /\ s.rep < c
       /\ matches_execution_lease(s, r)
       /\ \E o \in Outcomes :
             /\ publish_cas(w, o, canon.status = "RECOVERY_REQUIRED",
                            matches_execution_lease(canon, r),
                            Commit(RecoveryRequiredState(canon, NoRun),
                                   NoCommand, NoReport))
             /\ IF Failed(o) THEN UNCHANGED sidecar
                ELSE MarkSidecar(w, c, "conflict")

\* Every typed sidecar is revisited, whatever its local status.
_reconcile_typed_report(w, c) ==
    LET class == TypedClassification(w, c) IN
    /\ polling[w]
    /\ ~JournalPending(w)
    /\ sidecar[w][c].st # "none"
    /\ sidecar[w][c].mode = "typed"
    /\ \/ /\ class = "SUPERSEDED"
          /\ MarkSidecar(w, c, "superseded")
          /\ UNCHANGED <<canonVars, cloneVars, faults>>
       \/ /\ class \in {"CONFLICT", "REQUIRE_RECOVERY"}
          /\ _transition_typed_recovery(w, c)
       \/ /\ class \in {"PUBLISH_COMPLETED_REPORT",
                        "PUBLISH_INTERRUPTED_REPORT"}
          /\ _reconcile_one(w, c)
    /\ UNCHANGED <<polling, thread, journal, expired, manuals, launches>>

(***************************************************************************)
(* operator.resolve_recovery: publish the reviewed interrupted report.     *)
(***************************************************************************)
resolve_resolution(w, c) ==
    LET basedOn == commands[c].basedOn
        gen == clone[w].gen
        report == InterruptedOf(journal[w][c].run)
    IN
    /\ journal[w][c].st = "reconciled"
    /\ journal[w][c].text
    /\ ResolutionAllowed(clone[w], c, basedOn, gen)
    /\ LocalReport(w, c) = NoReport
    /\ \E o \in Outcomes :
          publish_cas(w, o,
            AlreadyResolved(canon, c, basedOn, gen) /\ reports[c] = report,
            ResolutionAllowed(canon, c, basedOn, gen) /\ reports[c] = NoReport,
            Commit(ResolvedState(canon, c), NoCommand, report))
    /\ UNCHANGED <<polling, thread, evidenceVars, expired, manuals, launches>>
=============================================================================
