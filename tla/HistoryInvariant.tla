-------------------------- MODULE HistoryInvariant --------------------------
(***************************************************************************)
(* Further inductive invariants of BridgeProtocol, each on top of IInv.    *)
(* HistoryInv speaks of canonical history: every commit, landed or local,  *)
(* is a transition of the table, and a lease without a report is the       *)
(* current one.  EvidenceInv speaks of what hosts keep about a run:        *)
(* evidence exists only of runs that no executor works on.  SettledInv and *)
(* ConsecutiveInv add what holds where no push leaves a local commit, and  *)
(* where besides no lane replaces a command.                               *)
(***************************************************************************)
EXTENDS BridgeInvariant

(***************************************************************************)
(* The transitions of CanonicalProtocol, as a relation between the state   *)
(* that a commit replaces and the state that it publishes.                 *)
(***************************************************************************)
SamePointersMove(s, t) == t.cmd = s.cmd /\ t.rep = s.rep /\ t.rev = s.rev

QueueMove(s, t) ==
    /\ \/ s.status = "REPORT_READY" /\ t.status \in PENDING_STATES
       \/ s.status \in {"HUMAN_REQUIRED", "COMMAND_READY"} /\ t.status = "COMMAND_READY"
    /\ s.run = NoRun /\ t.run = NoRun
    /\ t.cmd > s.cmd /\ t.rep = s.rep
    /\ t.gen = s.gen + 1

ClaimMove(s, t) ==
    /\ s.status \in PENDING_STATES /\ t.status = "CODEX_RUNNING"
    /\ s.run = NoRun
    /\ t.run.owner \in Workers /\ t.run.cmd = s.cmd /\ t.run.gen = t.gen
    /\ SamePointersMove(s, t)
    /\ t.gen = s.gen + 1

FastLaneMove(s, t) ==
    /\ s.status \in {"REPORT_READY", "COMMAND_READY"} /\ t.status = "CODEX_RUNNING"
    /\ s.run = NoRun
    /\ t.run.owner = "manual" /\ t.run.cmd = t.cmd /\ t.run.gen = t.gen
    /\ t.cmd > s.cmd /\ t.rep = s.rep
    /\ t.gen = s.gen + 2

ReportMove(s, t) ==
    /\ s.status = "CODEX_RUNNING" /\ t.status \in ReportTargets
    /\ t.run = NoRun
    /\ t.rep = s.run.cmd /\ t.cmd = s.cmd /\ t.rev = s.rev
    /\ t.gen = s.gen + 1

RecoveryMove(s, t) ==
    /\ s.status = "CODEX_RUNNING" /\ t.status = "RECOVERY_REQUIRED"
    /\ t.run = NoRun /\ t.why \in {s.run, NoRun}
    /\ SamePointersMove(s, t)
    /\ t.gen = s.gen + 1

ResolveMove(s, t) ==
    /\ s.status = "RECOVERY_REQUIRED" /\ t.status = "REPORT_READY"
    /\ t.run = NoRun
    /\ s.rep < s.cmd /\ t.rep = s.cmd /\ t.cmd = s.cmd /\ t.rev = s.rev
    /\ t.gen = s.gen + 1

UpdateMove(s, t) ==
    /\ \/ s.status = "REPORT_READY" /\ t.status = "HUMAN_REQUIRED"
       \/ s.status = "FINAL_REPORT_READY" /\ t.status = "DONE"
    /\ t.run = NoRun
    /\ SamePointersMove(s, t)
    /\ t.gen = s.gen + 1

Transition(s, t) ==
    \/ QueueMove(s, t) \/ ClaimMove(s, t) \/ FastLaneMove(s, t)
    \/ ReportMove(s, t) \/ RecoveryMove(s, t) \/ ResolveMove(s, t)
    \/ UpdateMove(s, t)

(***************************************************************************)
(* What a commit adds besides: a command file with the pointer to it,      *)
(* which names the unclaimed command that it replaces, and a report file   *)
(* exactly when latest_report moves, of the lease if there is one.         *)
(***************************************************************************)
HistoryOK(cm) ==
    /\ Transition(cm.base, cm.new)
    /\ cm.command # NoCommand =>
          cm.new.cmd > cm.base.cmd /\ cm.command.basedOn < cm.new.cmd
    /\ cm.base.status = "COMMAND_READY" /\ cm.new.cmd # cm.base.cmd =>
          cm.base.cmd \in {cm.command.supersedes, cm.command.withdraws}
    /\ cm.report # NoReport => cm.new.rep > cm.base.rep
    /\ ReportMove(cm.base, cm.new) => cm.report = ResultOf(cm.base.run)
    /\ ResolveMove(cm.base, cm.new) => cm.report # NoReport

PointersInv ==
    /\ canon.status # "CODEX_RUNNING" => canon.run = NoRun
    /\ canon.rep <= canon.cmd
    /\ canon.status \in PENDING_STATES \cup {"CODEX_RUNNING"} =>
          canon.rep < canon.cmd

FilesInv ==
    /\ \A c \in CommandIds : /\ commands[c] # NoCommand => c <= canon.cmd
                             /\ commands[c].basedOn < c
                             /\ reports[c] # NoReport => c <= canon.rep
    /\ canon.rep # 0 => reports[canon.rep] # NoReport

\* Every lease has its report, but for the latest command's before the queue
\* goes on.
AccountInv ==
    \A r \in claims : reports[r.cmd] = NoReport =>
        r.cmd = canon.cmd /\ canon.status \in {"CODEX_RUNNING", "RECOVERY_REQUIRED"}

\* A queue that waits for its next command has answered the latest one, and
\* no command before it was skipped.
AnsweredInv ==
    /\ canon.status \in {"REPORT_READY", "HUMAN_REQUIRED"} => canon.rep = canon.cmd
    /\ NoCommandSkipped

LocalCommitsInv ==
    \A w \in Workers : unpushed[w] # NoCommit => HistoryOK(unpushed[w])

\* Canonical history is sound: every commit that a host holds is a transition
\* of the table, files and pointers agree, and the queue never moves past a
\* lease without a report, or a command that is neither answered nor replaced
\* (BridgeStore's compare-and-swap over ProtocolCore).
HistoryInv ==
    PointersInv /\ FilesInv /\ AccountInv /\ AnsweredInv /\ LocalCommitsInv

(***************************************************************************)
(* Evidence.                                                               *)
(***************************************************************************)
\* An executor works on run r, or is about to.
Executions == {"claimed", "running"}
Live(r) == \E w \in Workers : thread[w].pc \in Executions /\ thread[w].run = r

\* A report is of a run that is over: its result, or the resolution of the
\* journal that its host keeps.
ReportOK(p) ==
    /\ ~Live(p.run)
    /\ \/ p.kind = "result"
       \/ /\ p.kind = "interrupted"
          /\ p.run.owner \in Workers
          /\ journal[p.run.owner][p.run.cmd].st # "none"

\* A host keeps evidence of its own runs only, and of none that is live.
DeadInv ==
    /\ \A w \in Workers, c \in CommandIds :
          /\ sidecar[w][c].st # "none" =>
                sidecar[w][c].run.owner = w /\ ~Live(sidecar[w][c].run)
          /\ journal[w][c].st # "none" =>
                journal[w][c].run.owner = w /\ ~Live(journal[w][c].run)
    /\ \A c \in CommandIds : reports[c] # NoReport => ReportOK(reports[c])
    /\ \A w \in Workers : unpushed[w].report # NoReport => ReportOK(unpushed[w].report)
    /\ \A r \in manuals : r.owner = "manual"

\* A run ends with a report or with an interruption, never with both.
Interrupting == {"interrupted", "journaled", "armed", "confirming"}
Reporting == {"done", "saved", "unsaved", "acking"}

ForkInv ==
    /\ \A w \in Workers, c \in CommandIds :
          sidecar[w][c].st # "none" => journal[w][c].st = "none"
    /\ \A w \in Workers :
          /\ thread[w].pc \in Reporting => journal[w][thread[w].run.cmd].st = "none"
          /\ thread[w].pc \in Interrupting => sidecar[w][thread[w].run.cmd].st = "none"

\* What a host keeps of a run is evidence of a run of its own that is over, and
\* of one ending only: a pending report or a recovery journal, never both.
EvidenceInv == DeadInv /\ ForkInv

(***************************************************************************)
(* Acknowledgement, where no push leaves a local commit behind.            *)
(***************************************************************************)
BehindInv ==
    \A w \in Workers : unpushed[w] = NoCommit /\ clone[w].gen <= canon.gen

AckInv ==
    /\ \A w \in Workers, c \in CommandIds :
          /\ sidecar[w][c].st \in {"reconciled", "superseded"} =>
                reports[c] = ResultOf(sidecar[w][c].run)
          /\ journal[w][c].st = "reconciled" => journal[w][c].run.gen < canon.gen
    /\ \A w \in Workers :
          /\ thread[w].pc = "acking" =>
                reports[thread[w].run.cmd] = ResultOf(thread[w].run)
          /\ thread[w].pc = "confirming" => thread[w].run.gen < canon.gen

\* What is closed as published is published: a sidecar closed as reconciled or
\* superseded has its report in canonical history, and a journal closed as
\* reconciled is of a lease that canonical has left.
SettledInv == BehindInv /\ AckInv

(***************************************************************************)
(* Consecutive command ids, where besides no lane replaces a command: a    *)
(* pending report is then given up only when its lease is lost.            *)
(***************************************************************************)
\* A clone that has reached canonical generation holds canonical state.
CurrentInv ==
    \A w \in Workers : clone[w].gen = canon.gen => clone[w] = canon

\* The command at work is one past the latest report, and well formed.
DenseInv ==
    /\ canon.status \in PENDING_STATES \cup {"CODEX_RUNNING"} =>
          canon.rep = canon.cmd - 1
    /\ canon.status \in {"REPORT_READY", "HUMAN_REQUIRED"} => canon.rep = canon.cmd
    /\ canon.cmd # 0 => commands[canon.cmd].valid

\* The queue has no gap: the command at work is the first without a report, so
\* a host that sees another command has lost its lease.
ConsecutiveInv == CurrentInv /\ DenseInv
=============================================================================
