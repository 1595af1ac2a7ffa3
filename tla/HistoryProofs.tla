-------------------------- MODULE HistoryProofs -----------------------------
(***************************************************************************)
(* Machine-checked proofs that HistoryInv and EvidenceInv are inductive on *)
(* top of IInv, and of what they imply: launches are accounted for,        *)
(* executors exclude each other, history is append-only, leases end by     *)
(* their own run, and BridgeProtocol implements CanonicalProtocol.         *)
(*                                                                         *)
(* The argument has two halves.  A step of history lands at most one sound *)
(* commit, a transition of the protocol from canonical state; a local move *)
(* takes threads and evidence only along the life of a run.  Every action  *)
(* is shown to be both, and both invariants follow from that.              *)
(***************************************************************************)
EXTENDS HistoryInvariant, BridgeProofs, TLAPS

(***************************************************************************)
(* A step of history: nothing canonical changes, or one sound commit lands *)
(* on the state that it was built from; local commits that appear are      *)
(* sound.                                                                  *)
(***************************************************************************)
Sound(cm) ==
    /\ cm \in Commits
    /\ cm.base = canon
    /\ HistoryOK(cm)
    /\ cm.report # NoReport => cm.report.run \in claims /\ ReportOK(cm.report)

Moves == \E cm : Sound(cm) /\ Land(cm)

HistoryStep ==
    /\ UNCHANGED canonVars \/ Moves
    /\ \A w \in Workers : \/ unpushed'[w] \in {unpushed[w], NoCommit}
                          \/ Sound(unpushed'[w])

\* What the canonical files are after a move.
MoveEffect ==
    /\ Transition(canon, canon')
    /\ \A c \in CommandIds :
          /\ \/ commands'[c] = commands[c]
             \/ c = canon'.cmd /\ c > canon.cmd /\ commands'[c].basedOn < c
          /\ \/ reports'[c] = reports[c]
             \/ c = canon'.rep /\ c > canon.rep
    /\ canon.status = "COMMAND_READY" /\ canon.cmd # 0 /\ canon'.cmd # canon.cmd =>
          /\ canon'.cmd \in CommandIds
          /\ canon.cmd \in {commands'[canon'.cmd].supersedes, commands'[canon'.cmd].withdraws}
    /\ ReportMove(canon, canon') => reports'[canon'.rep] = ResultOf(canon.run)
    /\ ResolveMove(canon, canon') => reports'[canon'.rep] # NoReport
    /\ \A r \in claims' \ claims : canon'.status = "CODEX_RUNNING" /\ r = canon'.run

\* A published report is a report.
LEMMA ResultIsReport == \A r : ResultOf(r) # NoReport
BY DEF ResultOf, NoReport

\* Landing a sound commit moves history by one transition.
LEMMA MovesEffect ==
    ASSUME StoreTypes, Moves
    PROVE  MoveEffect
<1>1. PICK cm \in Commits : cm.base = canon /\ HistoryOK(cm) /\ Land(cm)
  BY DEF Moves, Sound
<1>2. PICK k, p : k = cm.command /\ p = cm.report
  OBVIOUS
<1>3. canon' = cm.new
  BY <1>1 DEF Land
<1>4. Transition(canon, canon')
  BY <1>1, <1>3 DEF HistoryOK
<1>5. /\ k # NoCommand => canon'.cmd > canon.cmd /\ k.basedOn < canon'.cmd
      /\ p # NoReport => canon'.rep > canon.rep
      /\ ReportMove(canon, canon') => p = ResultOf(canon.run)
      /\ ResolveMove(canon, canon') => p # NoReport
      /\ canon.status = "COMMAND_READY" /\ canon'.cmd # canon.cmd =>
            canon.cmd \in {k.supersedes, k.withdraws}
  BY <1>1, <1>2, <1>3 DEF HistoryOK
<1>6. /\ commands' = IF k = NoCommand THEN commands ELSE [commands EXCEPT ![canon'.cmd] = k]
      /\ reports' = IF p = NoReport THEN reports ELSE [reports EXCEPT ![canon'.rep] = p]
      /\ claims' = IF canon'.status = "CODEX_RUNNING" THEN claims \cup {canon'.run} ELSE claims
  BY <1>1, <1>2, <1>3 DEF Land
<1>7. /\ canon \in States /\ canon' \in States /\ commands \in [CommandIds -> Commands]
      /\ reports \in [CommandIds -> Reports]
  BY <1>1, <1>3 DEF StoreTypes, Commits
<1>8. p # NoReport => canon'.rep \in CommandIds
  BY <1>5, <1>7, MaxCommandAssumption DEF States, Ids, CommandIds
<1>9. ASSUME NEW c \in CommandIds
      PROVE  /\ \/ commands'[c] = commands[c]
                \/ c = canon'.cmd /\ c > canon.cmd /\ commands'[c].basedOn < c
             /\ \/ reports'[c] = reports[c]
                \/ c = canon'.rep /\ c > canon.rep
  BY <1>5, <1>6, <1>7
<1>10. p # NoReport => reports'[canon'.rep] = p
  BY <1>6, <1>7, <1>8
<1>11. \A r \in claims' \ claims : canon'.status = "CODEX_RUNNING" /\ r = canon'.run
  BY <1>6
<1>12. ASSUME canon.status = "COMMAND_READY", canon.cmd # 0, canon'.cmd # canon.cmd
       PROVE  /\ canon'.cmd \in CommandIds
              /\ canon.cmd \in {commands'[canon'.cmd].supersedes, commands'[canon'.cmd].withdraws}
  <2>1. k # NoCommand /\ canon.cmd \in {k.supersedes, k.withdraws}
    BY <1>5, <1>12 DEF NoCommand
  <2>2. canon'.cmd \in CommandIds
    BY <1>5, <1>7, <2>1, MaxCommandAssumption DEF States, Ids, CommandIds
  <2>3. commands'[canon'.cmd] = k
    BY <1>6, <1>7, <2>1, <2>2
  <2>. QED
    BY <2>1, <2>2, <2>3
<1>. QED
  BY <1>4, <1>5, <1>9, <1>10, <1>11, <1>12, ResultIsReport DEF MoveEffect

\* The facts about canonical state that a transition is judged with.
Sane ==
    /\ canon \in States
    /\ canon.cmd \in Int /\ canon.rep \in Int /\ canon.gen \in Int
    /\ canon.cmd \in Ids /\ canon.rep \in Ids
    /\ canon.status = "CODEX_RUNNING" => canon.run.cmd = canon.cmd /\ canon.run \in claims

\* They follow from the inductive invariant.
LEMMA SaneIInv == IInv => Sane
BY Parts, Numbers DEF StoreTypes, LeaseInv, Sane, States

\* Pointers after a transition.
LEMMA PointersKept ==
    ASSUME Sane, Sane', PointersInv, Transition(canon, canon')
    PROVE  /\ PointersInv'
           /\ canon'.gen > canon.gen /\ canon'.cmd >= canon.cmd /\ canon'.rep >= canon.rep
           /\ canon'.rep # canon.rep =>
                \/ ReportMove(canon, canon') \/ ResolveMove(canon, canon')
<1>1. PICK s, t : s = canon /\ t = canon'
  OBVIOUS
<1>2. /\ s.cmd \in Int /\ s.rep \in Int /\ s.gen \in Int
      /\ t.cmd \in Int /\ t.rep \in Int /\ t.gen \in Int
      /\ s.status = "CODEX_RUNNING" => s.run.cmd = s.cmd
  BY <1>1 DEF Sane
<1>3. /\ s.status # "CODEX_RUNNING" => s.run = NoRun
      /\ s.rep <= s.cmd
      /\ s.status \in PENDING_STATES \cup {"CODEX_RUNNING"} => s.rep < s.cmd
  BY <1>1 DEF PointersInv
<1>4. /\ t.status # "CODEX_RUNNING" => t.run = NoRun
      /\ t.rep <= t.cmd
      /\ t.status \in PENDING_STATES \cup {"CODEX_RUNNING"} => t.rep < t.cmd
      /\ t.gen > s.gen /\ t.cmd >= s.cmd /\ t.rep >= s.rep
      /\ t.rep # s.rep => ReportMove(s, t) \/ ResolveMove(s, t)
  <2>1. CASE QueueMove(s, t)
    BY <1>2, <1>3, <2>1 DEF QueueMove, PENDING_STATES
  <2>2. CASE ClaimMove(s, t)
    BY <1>2, <1>3, <2>2 DEF ClaimMove, SamePointersMove, PENDING_STATES
  <2>3. CASE FastLaneMove(s, t)
    BY <1>2, <1>3, <2>3 DEF FastLaneMove, PENDING_STATES
  <2>4. CASE ReportMove(s, t)
    BY <1>2, <1>3, <2>4 DEF ReportMove, PENDING_STATES, ReportTargets
  <2>5. CASE RecoveryMove(s, t)
    BY <1>2, <1>3, <2>5 DEF RecoveryMove, SamePointersMove, PENDING_STATES
  <2>6. CASE ResolveMove(s, t)
    BY <1>2, <1>3, <2>6 DEF ResolveMove, PENDING_STATES
  <2>7. CASE UpdateMove(s, t)
    BY <1>2, <1>3, <2>7 DEF UpdateMove, SamePointersMove, PENDING_STATES
  <2>. QED
    BY <1>1, <2>1, <2>2, <2>3, <2>4, <2>5, <2>6, <2>7 DEF Transition
<1>. QED
  BY <1>1, <1>4 DEF PointersInv

\* Out of a lease or of RECOVERY_REQUIRED leads only a report of the command.
LEMMA AccountedMove ==
    ASSUME Sane, PointersInv, MoveEffect,
           canon.status \in {"CODEX_RUNNING", "RECOVERY_REQUIRED"}
    PROVE  /\ canon'.cmd = canon.cmd
           /\ \/ canon'.status = "RECOVERY_REQUIRED"
              \/ reports'[canon.cmd] # NoReport
BY ResultIsReport DEF MoveEffect, Sane, Transition, QueueMove, ClaimMove, FastLaneMove,
   ReportMove, RecoveryMove, ResolveMove, UpdateMove, SamePointersMove, PENDING_STATES

\* The queue moves on from a command that is answered or replaced.
LEMMA AnsweredMove ==
    ASSUME Sane, Sane', PointersInv, FilesInv, AnsweredInv, MoveEffect
    PROVE  AnsweredInv'
<1>1. /\ canon.cmd \in Int /\ canon.rep \in Int /\ canon'.cmd \in Int /\ canon'.rep \in Int
      /\ canon.status = "CODEX_RUNNING" => canon.run.cmd = canon.cmd
  BY DEF Sane
<1>2. Transition(canon, canon') /\ canon.rep <= canon.cmd
  BY DEF MoveEffect, PointersInv
<1>3. canon'.status \in {"REPORT_READY", "HUMAN_REQUIRED"} => canon'.rep = canon'.cmd
  BY <1>1, <1>2 DEF AnsweredInv, Transition, QueueMove, ClaimMove, FastLaneMove, ReportMove,
     RecoveryMove, ResolveMove, UpdateMove, SamePointersMove, PENDING_STATES
<1>4. SUFFICES ASSUME NEW c \in CommandIds, commands'[c] # NoCommand, c < canon'.cmd
               PROVE  reports'[c] # NoReport \/ Replaced(c)'
  BY <1>3 DEF AnsweredInv, NoCommandSkipped
<1>5. c \in Int /\ c # 0
  BY Numbers, MaxCommandAssumption DEF CommandIds
<1>6. commands[c] # NoCommand /\ c <= canon.cmd
  BY <1>1, <1>4, <1>5 DEF MoveEffect, FilesInv
<1>7. reports[c] # NoReport => reports'[c] # NoReport
  BY <1>1, <1>5 DEF MoveEffect, FilesInv
<1>8. CASE c < canon.cmd
  <2>1. reports[c] # NoReport \/ Replaced(c)
    BY <1>6, <1>8 DEF AnsweredInv, NoCommandSkipped
  <2>2. ASSUME Replaced(c) PROVE Replaced(c)'
    <3>1. PICK d \in CommandIds : commands[d].supersedes = c \/ commands[d].withdraws = c
      BY <2>2 DEF Replaced
    <3>2. commands[d] # NoCommand /\ d \in Int
      BY <1>5, <3>1, Numbers DEF NoCommand
    <3>3. commands'[d] = commands[d]
      BY <1>1, <3>2 DEF MoveEffect, FilesInv
    <3>. QED
      BY <3>1, <3>3 DEF Replaced
  <2>. QED
    BY <1>7, <2>1, <2>2
<1>9. CASE c = canon.cmd
  <2>1. canon'.cmd # canon.cmd
    BY <1>1, <1>4, <1>9
  <2>2. canon.status \in {"REPORT_READY", "HUMAN_REQUIRED", "COMMAND_READY"}
    BY <1>2, <2>1 DEF Transition, QueueMove, ClaimMove, FastLaneMove, ReportMove,
       RecoveryMove, ResolveMove, UpdateMove, SamePointersMove
  <2>3. CASE canon.status \in {"REPORT_READY", "HUMAN_REQUIRED"}
    BY <1>5, <1>7, <1>9, <2>3 DEF AnsweredInv, FilesInv
  <2>4. CASE canon.status = "COMMAND_READY"
    BY <1>5, <1>9, <2>1, <2>4 DEF MoveEffect, Replaced
  <2>. QED
    BY <2>2, <2>3, <2>4
<1>. QED
  BY <1>1, <1>5, <1>6, <1>8, <1>9

\* A step of history keeps the invariant of history.
LEMMA HistoryKept ==
    ASSUME IInv, IInv', HistoryInv, HistoryStep
    PROVE  HistoryInv'
<1>1. /\ StoreTypes /\ Sane /\ Sane' /\ LeaseInv' /\ ReportsInv /\ ReportsInv' /\ ClaimsInv'
      /\ ClaimsInv
  <2>1. IInv' => Sane' /\ LeaseInv' /\ CanonInv'
    BY SaneIInv, Parts DEF IInv, StoreInv, CanonInv, TypeOK, Sane, LeaseInv, States, Ids
  <2>. QED
    BY <2>1, SaneIInv, Parts DEF CanonInv
<1>2. PointersInv /\ FilesInv /\ AccountInv /\ AnsweredInv /\ LocalCommitsInv
  BY DEF HistoryInv
<1>3. LocalCommitsInv'
  BY <1>2 DEF HistoryStep, Sound, LocalCommitsInv
<1>4. CASE UNCHANGED canonVars
  <2>1. canon' = canon /\ commands' = commands /\ reports' = reports /\ claims' = claims
    BY <1>4 DEF canonVars
  <2>. QED
    BY <1>2, <1>3, <2>1 DEF HistoryInv, PointersInv, FilesInv, AccountInv, AnsweredInv,
       NoCommandSkipped, Replaced
<1>5. CASE Moves
  <2>1. MoveEffect
    BY <1>1, <1>5, MovesEffect
  <2>2. /\ PointersInv'
        /\ canon'.gen > canon.gen /\ canon'.cmd >= canon.cmd /\ canon'.rep >= canon.rep
        /\ canon'.rep # canon.rep => reports'[canon'.rep] # NoReport
    BY <1>1, <1>2, <2>1, PointersKept, ResultIsReport DEF MoveEffect
  <2>3. canon.rep \in Int /\ canon.cmd \in Int /\ canon'.rep \in Int /\ canon'.cmd \in Int
    BY <1>1 DEF Sane
  <2>4. canon.rep # 0 => canon.rep \in CommandIds
    BY <1>1, MaxCommandAssumption DEF Sane, Ids, CommandIds
  <2>5. FilesInv'
    <3>1. ASSUME NEW c \in CommandIds
          PROVE  /\ commands'[c] # NoCommand => c <= canon'.cmd
                 /\ commands'[c].basedOn < c
                 /\ reports'[c] # NoReport => c <= canon'.rep
      <4>1. c \in Int
        BY Numbers
      <4>2. /\ commands[c] # NoCommand => c <= canon.cmd
            /\ commands[c].basedOn < c
            /\ reports[c] # NoReport => c <= canon.rep
        BY <1>2 DEF FilesInv
      <4>. QED
        BY <2>1, <2>2, <2>3, <4>1, <4>2 DEF MoveEffect
    <3>2. canon'.rep # 0 => reports'[canon'.rep] # NoReport
      <4>1. CASE canon'.rep # canon.rep
        BY <2>2, <4>1
      <4>2. CASE canon'.rep = canon.rep
        BY <1>2, <2>1, <2>3, <2>4, <4>2 DEF MoveEffect, FilesInv
      <4>. QED
        BY <4>1, <4>2
    <3>. QED
      BY <3>1, <3>2 DEF FilesInv
  <2>6. AccountInv'
    <3>1. SUFFICES ASSUME NEW r \in claims', reports'[r.cmd] = NoReport
                   PROVE  /\ r.cmd = canon'.cmd
                          /\ canon'.status \in {"CODEX_RUNNING", "RECOVERY_REQUIRED"}
      BY DEF AccountInv
    <3>2. CASE r \notin claims
      BY <1>1, <2>1, <3>2 DEF MoveEffect, LeaseInv
    <3>3. CASE r \in claims
      <4>1. r.cmd \in CommandIds /\ r.cmd \in Int
        BY <1>1, <3>3, Numbers DEF ClaimsInv
      <4>2. reports[r.cmd] = NoReport
        BY <1>1, <2>1, <2>2, <2>3, <3>1, <4>1, <1>2 DEF MoveEffect, FilesInv
      <4>3. r.cmd = canon.cmd /\ canon.status \in {"CODEX_RUNNING", "RECOVERY_REQUIRED"}
        BY <1>2, <3>3, <4>2 DEF AccountInv
      <4>. QED
        BY <1>1, <1>2, <2>1, <3>1, <4>3, AccountedMove
    <3>. QED
      BY <3>2, <3>3
  <2>7. AnsweredInv'
    BY <1>1, <1>2, <2>1, AnsweredMove
  <2>. QED
    BY <1>3, <2>2, <2>5, <2>6, <2>7 DEF HistoryInv
<1>. QED
  BY <1>4, <1>5 DEF HistoryStep

(***************************************************************************)
(* What a step may do to threads and evidence.                             *)
(***************************************************************************)
ThreadMove(v) ==
    LET t == thread[v]
        u == thread'[v]
    IN
    \/ u = t
    \/ u.pc \in {"idle", "ready"}
    \/ u.pc \in Executions /\ u.run \notin claims
    \/ /\ u.run = t.run
       /\ \/ u.pc \in Executions /\ t.pc \in Executions
          \/ u.pc \in Reporting /\ t.pc \in Reporting \cup Executions
          \/ u.pc \in Interrupting /\ t.pc \in Interrupting \cup Executions

\* Evidence that a step leaves of run r on host w is old, or of the thread
\* that just finished the run.
Left(w, c, r, pcs) ==
    /\ thread[w].pc \in pcs
    /\ thread[w].run = r
    /\ r.cmd = c
    /\ thread'[w].pc \notin Executions

LocalMove ==
    /\ \A v \in Workers : ThreadMove(v)
    /\ \A w \in Workers, c \in CommandIds :
          /\ sidecar'[w][c].st # "none" =>
                \/ sidecar[w][c].st # "none" /\ sidecar'[w][c].run = sidecar[w][c].run
                \/ Left(w, c, sidecar'[w][c].run, Reporting)
          /\ journal'[w][c].st # "none" =>
                \/ journal[w][c].st # "none" /\ journal'[w][c].run = journal[w][c].run
                \/ Left(w, c, journal'[w][c].run, Interrupting)
          /\ journal[w][c].st # "none" => journal'[w][c].st # "none"
    /\ \A r \in manuals' : r.owner = "manual"

\* A run that was over stays over.
LEMMA StaysDead ==
    ASSUME IInv, LocalMove, NEW r \in claims, ~Live(r)
    PROVE  ~Live(r)'
<1>1. SUFFICES ASSUME NEW v \in Workers, thread'[v].pc \in Executions, thread'[v].run = r
               PROVE  FALSE
  BY DEF Live
<1>2. ThreadMove(v)
  BY DEF LocalMove
<1>3. thread[v].pc \in Executions => thread[v].run # r
  BY DEF Live
<1>. QED
  BY <1>1, <1>2, <1>3 DEF ThreadMove, Executions, Reporting, Interrupting

\* A run that its thread leaves behind is over.
LEMMA LeftIsDead ==
    ASSUME IInv, LocalMove, NEW w \in Workers, NEW c \in CommandIds, NEW r, NEW pcs,
           pcs \in {Reporting, Interrupting}, Left(w, c, r, pcs)
    PROVE  r.owner = w /\ r \in claims /\ ~Live(r)'
<1>1. thread[w].pc \in Reporting \cup Interrupting /\ thread[w].run = r
  BY DEF Left
<1>2. r.owner = w /\ r \in claims
  BY <1>1, Parts DEF ThreadInv, ThreadOK, Reporting, Interrupting
<1>3. ASSUME NEW v \in Workers, thread'[v].pc \in Executions, thread'[v].run = r
      PROVE  FALSE
  <2>1. v # w
    BY <1>3 DEF Left
  <2>2. thread[v].pc \in Executions /\ thread[v].run = r
    BY <1>2, <1>3 DEF LocalMove, ThreadMove, Executions, Reporting, Interrupting
  <2>3. r.owner = v
    BY <2>2, Parts DEF ThreadInv, ThreadOK, Executions
  <2>. QED
    BY <1>2, <2>1, <2>3
<1>. QED
  BY <1>2, <1>3 DEF Live

\* A report that was sound stays sound.
LEMMA ReportStaysOK ==
    ASSUME IInv, LocalMove, NEW p, p.run \in claims, ReportOK(p)
    PROVE  ReportOK(p)'
<1>1. ~Live(p.run)'
  BY StaysDead DEF ReportOK
<1>2. p.run.cmd \in CommandIds
  BY Parts DEF ClaimsInv
<1>. QED
  BY <1>1, <1>2 DEF ReportOK, LocalMove

\* No evidence of the command of a live run exists on the run's host.
LEMMA NoEvidenceWhileLive ==
    ASSUME IInv, DeadInv, NEW w \in Workers, thread[w].pc \in Executions
    PROVE  /\ sidecar[w][thread[w].run.cmd].st = "none"
           /\ journal[w][thread[w].run.cmd].st = "none"
<1>1. PICK r : r = thread[w].run
  OBVIOUS
<1>2. r \in claims /\ r.cmd \in CommandIds /\ Live(r)
  BY <1>1, Parts DEF ThreadInv, ThreadOK, Live, Executions
<1>3. UniqueLease
  BY Parts
<1>4. sidecar[w][r.cmd].st = "none"
  BY <1>2, <1>3, Parts DEF SidecarInv, UniqueLease, DeadInv
<1>5. journal[w][r.cmd].st = "none"
  BY <1>2, <1>3, Parts DEF JournalInv, UniqueLease, DeadInv
<1>. QED
  BY <1>1, <1>4, <1>5

\* A sound step keeps the invariant of evidence.
LEMMA EvidenceHeld ==
    ASSUME IInv, EvidenceInv, HistoryStep, LocalMove
    PROVE  EvidenceInv'
<1>1. DeadInv /\ ForkInv /\ ReportsInv /\ UnpushedInv /\ StoreTypes
  BY Parts DEF EvidenceInv, CanonInv
<1>2. ASSUME NEW w \in Workers, NEW c \in CommandIds, sidecar'[w][c].st # "none"
      PROVE  sidecar'[w][c].run.owner = w /\ ~Live(sidecar[w][c].run)'
  <2>1. CASE sidecar[w][c].st # "none" /\ sidecar'[w][c].run = sidecar[w][c].run
    <3>1. sidecar[w][c].run \in claims
      BY <2>1, Parts DEF SidecarInv
    <3>2. sidecar[w][c].run.owner = w /\ ~Live(sidecar[w][c].run)
      BY <1>1, <2>1 DEF DeadInv
    <3>3. PICK r : r = sidecar[w][c].run
      OBVIOUS
    <3>4. ~Live(r)'
      BY <3>1, <3>2, <3>3, StaysDead
    <3>. QED
      BY <2>1, <3>2, <3>3, <3>4 DEF Live
  <2>2. CASE Left(w, c, sidecar'[w][c].run, Reporting)
    <3>1. PICK r : r = sidecar'[w][c].run
      OBVIOUS
    <3>2. r.owner = w /\ ~Live(r)'
      BY <2>2, <3>1, LeftIsDead
    <3>. QED
      BY <3>1, <3>2 DEF Live
  <2>. QED
    BY <1>2, <2>1, <2>2 DEF LocalMove
<1>3. ASSUME NEW w \in Workers, NEW c \in CommandIds, journal'[w][c].st # "none"
      PROVE  journal'[w][c].run.owner = w /\ ~Live(journal[w][c].run)'
  <2>1. CASE journal[w][c].st # "none" /\ journal'[w][c].run = journal[w][c].run
    <3>1. journal[w][c].run \in claims
      BY <2>1, Parts DEF JournalInv
    <3>2. journal[w][c].run.owner = w /\ ~Live(journal[w][c].run)
      BY <1>1, <2>1 DEF DeadInv
    <3>3. PICK r : r = journal[w][c].run
      OBVIOUS
    <3>4. ~Live(r)'
      BY <3>1, <3>2, <3>3, StaysDead
    <3>. QED
      BY <2>1, <3>2, <3>3, <3>4 DEF Live
  <2>2. CASE Left(w, c, journal'[w][c].run, Interrupting)
    <3>1. PICK r : r = journal'[w][c].run
      OBVIOUS
    <3>2. r.owner = w /\ ~Live(r)'
      BY <2>2, <3>1, LeftIsDead
    <3>. QED
      BY <3>1, <3>2 DEF Live
  <2>. QED
    BY <1>3, <2>1, <2>2 DEF LocalMove
<1>4. ASSUME NEW c \in CommandIds, reports'[c] # NoReport
      PROVE  ReportOK(reports[c])'
  <2>1. PICK p : p = reports'[c]
    OBVIOUS
  <2>2. p.run \in claims /\ ReportOK(p)
    <3>1. CASE reports'[c] = reports[c]
      BY <1>1, <1>4, <2>1, <3>1 DEF DeadInv, ReportsInv
    <3>2. CASE reports'[c] # reports[c]
      <4>1. PICK cm : Sound(cm) /\ Land(cm)
        BY <3>2 DEF HistoryStep, Moves, canonVars
      <4>2. PICK q : q = cm.report
        OBVIOUS
      <4>3. reports' = IF q = NoReport THEN reports ELSE [reports EXCEPT ![cm.new.rep] = q]
        BY <4>1, <4>2 DEF Land
      <4>4. q # NoReport /\ p = q
        BY <1>1, <2>1, <3>2, <4>3 DEF StoreTypes
      <4>. QED
        BY <4>1, <4>2, <4>4 DEF Sound
    <3>. QED
      BY <3>1, <3>2
  <2>3. ReportOK(p)'
    BY <2>2, ReportStaysOK
  <2>. QED
    BY <2>1, <2>3 DEF ReportOK, Live
<1>5. ASSUME NEW w \in Workers, unpushed'[w].report # NoReport
      PROVE  ReportOK(unpushed[w].report)'
  <2>1. PICK p : p = unpushed'[w].report
    OBVIOUS
  <2>2. p.run \in claims /\ ReportOK(p)
    <3>1. NoCommit.report = NoReport
      BY DEF NoCommit
    <3>2. CASE unpushed'[w] = unpushed[w]
      <4>1. unpushed[w] # NoCommit
        BY <1>5, <3>1, <3>2
      <4>2. PICK u : u = unpushed[w]
        OBVIOUS
      <4>3. CommitOK(u)
        BY <1>1, <4>1, <4>2 DEF UnpushedInv
      <4>. QED
        BY <1>1, <1>5, <2>1, <3>2, <4>2, <4>3 DEF DeadInv, CommitOK
    <3>3. CASE Sound(unpushed'[w])
      BY <1>5, <2>1, <3>3 DEF Sound
    <3>. QED
      BY <1>5, <3>1, <3>2, <3>3 DEF HistoryStep
  <2>3. ReportOK(p)'
    BY <2>2, ReportStaysOK
  <2>. QED
    BY <2>1, <2>3 DEF ReportOK, Live
<1>6. DeadInv'
  <2>1. \A r \in manuals' : r.owner = "manual"
    BY DEF LocalMove
  <2>2. \A w \in Workers, c \in CommandIds :
          /\ sidecar'[w][c].st # "none" =>
                sidecar'[w][c].run.owner = w /\ ~Live(sidecar[w][c].run)'
          /\ journal'[w][c].st # "none" =>
                journal'[w][c].run.owner = w /\ ~Live(journal[w][c].run)'
    BY <1>2, <1>3
  <2>3. /\ \A c \in CommandIds : reports'[c] # NoReport => ReportOK(reports[c])'
        /\ \A w \in Workers : unpushed'[w].report # NoReport => ReportOK(unpushed[w].report)'
    BY <1>4, <1>5
  <2>. QED
    BY <2>1, <2>2, <2>3 DEF DeadInv
<1>7. ForkInv'
  <2>1. ASSUME NEW w \in Workers, thread'[w].pc \in Reporting
        PROVE  /\ thread'[w].run = thread[w].run
               /\ thread[w].pc \in Reporting \cup Executions
               /\ journal'[w][thread[w].run.cmd].st = "none"
    <3>1. /\ thread'[w].run = thread[w].run
          /\ thread[w].pc \in Reporting \cup Executions
      BY <2>1 DEF LocalMove, ThreadMove, Executions, Reporting, Interrupting
    <3>2. journal[w][thread[w].run.cmd].st = "none"
      BY <1>1, <3>1, NoEvidenceWhileLive DEF ForkInv
    <3>3. thread[w].run.cmd \in CommandIds
      BY <3>1, Parts DEF ThreadInv, ThreadOK, Executions, Reporting
    <3>4. ~Left(w, thread[w].run.cmd, journal'[w][thread[w].run.cmd].run, Interrupting)
      BY <3>1 DEF Left, Executions, Reporting, Interrupting
    <3>. QED
      BY <3>1, <3>2, <3>3, <3>4 DEF LocalMove
  <2>2. ASSUME NEW w \in Workers, thread'[w].pc \in Interrupting
        PROVE  /\ thread'[w].run = thread[w].run
               /\ sidecar'[w][thread[w].run.cmd].st = "none"
    <3>1. /\ thread'[w].run = thread[w].run
          /\ thread[w].pc \in Interrupting \cup Executions
      BY <2>2 DEF LocalMove, ThreadMove, Executions, Reporting, Interrupting
    <3>2. sidecar[w][thread[w].run.cmd].st = "none"
      BY <1>1, <3>1, NoEvidenceWhileLive DEF ForkInv
    <3>3. thread[w].run.cmd \in CommandIds
      BY <3>1, Parts DEF ThreadInv, ThreadOK, Executions, Interrupting
    <3>4. ~Left(w, thread[w].run.cmd, sidecar'[w][thread[w].run.cmd].run, Reporting)
      BY <3>1 DEF Left, Executions, Reporting, Interrupting
    <3>. QED
      BY <3>1, <3>2, <3>3, <3>4 DEF LocalMove
  <2>3. ASSUME NEW w \in Workers, NEW c \in CommandIds, sidecar'[w][c].st # "none"
        PROVE  journal'[w][c].st = "none"
    <3>1. SUFFICES ASSUME journal'[w][c].st # "none" PROVE FALSE
      OBVIOUS
    <3>2. CASE sidecar[w][c].st # "none"
      <4>1. journal[w][c].st = "none"
        BY <1>1, <3>2 DEF ForkInv
      <4>2. thread[w].pc \in Interrupting /\ thread[w].run.cmd = c
        BY <3>1, <4>1 DEF LocalMove, Left
      <4>. QED
        BY <1>1, <3>2, <4>2 DEF ForkInv
    <3>3. CASE sidecar[w][c].st = "none"
      <4>1. thread[w].pc \in Reporting /\ thread[w].run.cmd = c
        BY <2>3, <3>3 DEF LocalMove, Left
      <4>2. journal[w][c].st = "none"
        BY <1>1, <4>1 DEF ForkInv
      <4>3. thread[w].pc \in Interrupting
        BY <3>1, <4>2 DEF LocalMove, Left
      <4>. QED
        BY <4>1, <4>3 DEF Reporting, Interrupting
    <3>. QED
      BY <3>2, <3>3
  <2>. QED
    BY <2>1, <2>2, <2>3 DEF ForkInv
<1>. QED
  BY <1>6, <1>7 DEF EvidenceInv

(***************************************************************************)
(* The payloads.  Every publication, when its expectation holds, is sound. *)
(***************************************************************************)
\* A commit without a report is sound when it is a transition that adds at
\* most a command file of its own, which names what it replaces.
LEMMA SoundCommit ==
    ASSUME IInv, NEW n \in States, NEW k \in Commands, NEW cm,
           cm = Commit(n, k, NoReport), Transition(canon, n),
           ~ReportMove(canon, n), ~ResolveMove(canon, n),
           k # NoCommand => n.cmd > canon.cmd /\ k.basedOn < n.cmd,
           canon.status = "COMMAND_READY" /\ n.cmd # canon.cmd =>
              canon.cmd \in {k.supersedes, k.withdraws}
    PROVE  Sound(cm)
<1>1. /\ cm \in Commits /\ cm.base = canon /\ cm.new = n
      /\ cm.command = k /\ cm.report = NoReport
  BY Parts, InitialRecords, CommitType
<1>. QED
  BY <1>1 DEF Sound, HistoryOK

\* The lease of a running project can be given up for recovery.
LEMMA RecoverySound ==
    ASSUME IInv, PointersInv, canon.status = "CODEX_RUNNING", NEW r \in {canon.run, NoRun},
           NEW cm,
           cm = Commit(RecoveryRequiredState(canon, r), NoCommand, NoReport)
    PROVE  Sound(cm)
<1>1. canon \in States /\ r \in Runs
  BY Parts, InitialRecords DEF StoreTypes, States
<1>2. PICK n \in States : n = RecoveryRequiredState(canon, r)
  <2>1. 1 \in CommandIds /\ 0 \in Ids
    BY MaxCommandAssumption DEF CommandIds, Ids
  <2>. QED
    BY <1>1, <2>1, PayloadTypes
<1>3. RecoveryMove(canon, n) /\ n.rep = canon.rep /\ n.cmd = canon.cmd
  BY <1>1, <1>2 DEF RecoveryRequiredState, RecoveryMove, SamePointersMove, States
<1>4. ~ReportMove(canon, n) /\ ~ResolveMove(canon, n)
  <2>1. canon.rep \in Int /\ canon.cmd \in Int /\ canon.run.cmd = canon.cmd
    BY <1>1, Parts, Numbers DEF LeaseInv
  <2>2. canon.rep < canon.cmd
    BY DEF PointersInv
  <2>. QED
    BY <1>3, <2>1, <2>2 DEF ReportMove, ResolveMove
<1>. QED
  BY <1>2, <1>3, <1>4, InitialRecords, SoundCommit DEF Transition

\* A lease is answered by the report of its run, once the run is over.
LEMMA ReportSound ==
    ASSUME IInv, PointersInv, canon.status = "CODEX_RUNNING", NEW r, r = canon.run,
           ~Live(r), NEW st \in ReportTargets, NEW cm,
           cm = Commit(ReportedState(canon, r.cmd, st), NoCommand, ResultOf(r))
    PROVE  Sound(cm)
<1>1. canon \in States /\ r \in Runs /\ r \in claims /\ r.cmd = canon.cmd /\ r.cmd \in CommandIds
  BY Parts DEF StoreTypes, States, LeaseInv, ClaimsInv
<1>2. PICK n \in States : n = ReportedState(canon, r.cmd, st)
  <2>1. st \in ALLOWED_STATES /\ 0 \in Ids
    BY MaxCommandAssumption DEF ReportTargets, ALLOWED_STATES, Ids
  <2>. QED
    BY <1>1, <2>1, PayloadTypes
<1>3. ReportMove(canon, n) /\ n.rep = canon.cmd
  BY <1>1, <1>2 DEF ReportedState, ReportMove, States
<1>4. PICK p \in Reports : p = ResultOf(r)
  BY <1>1 DEF ResultOf, Reports
<1>5. p.run = r /\ p.kind = "result"
  BY <1>4 DEF ResultOf
<1>6. /\ cm \in Commits /\ cm.base = canon /\ cm.new = n
      /\ cm.command = NoCommand /\ cm.report = p
  BY <1>2, <1>4, Parts, InitialRecords, CommitType
<1>7. n.rep > canon.rep /\ ~ResolveMove(canon, n)
  <2>1. canon.rep \in Int /\ canon.cmd \in Int
    BY <1>1, Numbers
  <2>2. canon.rep < canon.cmd
    BY DEF PointersInv
  <2>. QED
    BY <1>3, <2>1, <2>2 DEF ResolveMove
<1>8. HistoryOK(cm)
  BY <1>3, <1>4, <1>6, <1>7 DEF HistoryOK, Transition
<1>. QED
  BY <1>1, <1>5, <1>6, <1>8 DEF Sound, ReportOK

\* The resolution of an interrupted run answers RECOVERY_REQUIRED.
LEMMA ResolveSound ==
    ASSUME IInv, HistoryInv, DeadInv, NEW w \in Workers, NEW c \in CommandIds,
           journal[w][c].st # "none", NEW gen,
           ResolutionAllowed(canon, c, commands[c].basedOn, gen), NEW cm,
           cm = Commit(ResolvedState(canon, c), NoCommand, InterruptedOf(journal[w][c].run))
    PROVE  Sound(cm)
<1>1. PICK r : r = journal[w][c].run
  OBVIOUS
<1>2. canon \in States /\ r \in Runs /\ r \in claims /\ r.cmd = c
  BY <1>1, Parts DEF StoreTypes, JournalInv
<1>3. PICK n \in States : n = ResolvedState(canon, c)
  <2>1. 0 \in Ids
    BY MaxCommandAssumption DEF Ids
  <2>. QED
    BY <1>2, <2>1, InitialRecords, PayloadTypes
<1>4. canon.status = "RECOVERY_REQUIRED" /\ canon.cmd = c /\ canon.rep < c
  BY DEF ResolutionAllowed, HistoryInv, FilesInv
<1>5. ResolveMove(canon, n) /\ n.rep = c
  BY <1>2, <1>3, <1>4 DEF ResolvedState, ResolveMove, States
<1>6. PICK p \in Reports : p = InterruptedOf(r)
  BY <1>2 DEF InterruptedOf, Reports
<1>7. p.run = r /\ p.kind = "interrupted" /\ p # NoReport
  BY <1>6 DEF InterruptedOf, NoReport
<1>8. /\ cm \in Commits /\ cm.base = canon /\ cm.new = n
      /\ cm.command = NoCommand /\ cm.report = p
  BY <1>1, <1>3, <1>6, Parts, InitialRecords, CommitType
<1>9. HistoryOK(cm)
  <2>1. n.rep > canon.rep /\ ~ReportMove(canon, n)
    BY <1>2, <1>4, <1>5, Numbers DEF ReportMove
  <2>. QED
    BY <1>4, <1>5, <1>7, <1>8, <2>1 DEF HistoryOK, Transition
<1>10. ReportOK(p)
  BY <1>1, <1>2, <1>7 DEF ReportOK, DeadInv
<1>. QED
  BY <1>2, <1>7, <1>8, <1>9, <1>10 DEF Sound

\* A new command moves the queue on from a state without a lease.
LEMMA QueueSound ==
    ASSUME IInv, PointersInv, NEW c \in CommandIds, c > canon.cmd, canon.run = NoRun,
           NEW st \in PENDING_STATES, NEW i \in Ids, NEW k \in Commands,
           \/ canon.status = "REPORT_READY"
           \/ canon.status \in {"HUMAN_REQUIRED", "COMMAND_READY"} /\ st = "COMMAND_READY",
           canon.status = "COMMAND_READY" => canon.cmd \in {k.supersedes, k.withdraws},
           k.basedOn = canon.rep, NEW cm,
           cm = Commit(PublishedState(canon, c, st, i), k, NoReport)
    PROVE  Sound(cm)
<1>1. canon \in States
  BY Parts DEF StoreTypes
<1>2. PICK n \in States : n = PublishedState(canon, c, st, i)
  BY <1>1, PublishedFields
<1>3. QueueMove(canon, n) /\ n.cmd = c
  <2>1. n.status = st /\ n.gen = canon.gen + 1 /\ n.cmd = c /\ n.rep = canon.rep /\ n.run = NoRun
    BY <1>1, <1>2 DEF PublishedState, States
  <2>. QED
    BY <2>1 DEF QueueMove
<1>4. ~ReportMove(canon, n) /\ ~ResolveMove(canon, n)
  BY DEF ReportMove, ResolveMove
<1>5. k.basedOn < n.cmd
  <2>1. canon.rep <= canon.cmd /\ canon.rep \in Int /\ canon.cmd \in Int /\ c \in Int
    BY <1>1, Numbers DEF PointersInv
  <2>. QED
    BY <1>3, <2>1
<1>. QED
  BY <1>2, <1>3, <1>4, <1>5, SoundCommit DEF Transition

\* A claim is of the pending command, by the run that it names.
LEMMA ClaimSound ==
    ASSUME IInv, canon.status \in PENDING_STATES, canon.run = NoRun, NEW r \in Runs,
           r.owner \in Workers, r.cmd = canon.cmd, r.gen = canon.gen + 1, NEW cm,
           cm = Commit(ClaimedState(canon, r), NoCommand, NoReport)
    PROVE  Sound(cm)
<1>1. canon \in States
  BY Parts DEF StoreTypes
<1>2. PICK n \in States : n = ClaimedState(canon, r)
  <2>1. 1 \in CommandIds /\ 0 \in Ids
    BY MaxCommandAssumption DEF CommandIds, Ids
  <2>. QED
    BY <1>1, <2>1, PayloadTypes
<1>3. ClaimMove(canon, n) /\ n.cmd = canon.cmd
  <2>1. /\ n.status = "CODEX_RUNNING" /\ n.gen = canon.gen + 1 /\ n.run = r
        /\ n.cmd = canon.cmd /\ n.rep = canon.rep /\ n.rev = canon.rev
    BY <1>1, <1>2 DEF ClaimedState, States
  <2>. QED
    BY <2>1 DEF ClaimMove, SamePointersMove
<1>4. ~ReportMove(canon, n) /\ ~ResolveMove(canon, n)
  BY DEF ReportMove, ResolveMove, PENDING_STATES
<1>. QED
  BY <1>2, <1>3, <1>4, InitialRecords, SoundCommit DEF Transition

\* The fast lane publishes and claims in one commit.
LEMMA FastLaneSound ==
    ASSUME IInv, PointersInv, canon.status \in {"REPORT_READY", "COMMAND_READY"},
           canon.run = NoRun, NEW c \in CommandIds, c > canon.cmd, NEW k \in Commands,
           canon.status = "COMMAND_READY" => canon.cmd \in {k.supersedes, k.withdraws},
           k.basedOn = canon.rep, NEW cm,
           cm = Commit(ManualClaimedState(canon, c), k, NoReport)
    PROVE  Sound(cm)
<1>1. canon \in States
  BY Parts DEF StoreTypes
<1>2. PICK n \in States : n = ManualClaimedState(canon, c)
  <2>1. 0 \in Ids
    BY MaxCommandAssumption DEF Ids
  <2>. QED
    BY <1>1, <2>1, InitialRecords, PayloadTypes
<1>3. FastLaneMove(canon, n) /\ n.cmd = c
  <2>1. /\ n.status = "CODEX_RUNNING" /\ n.gen = canon.gen + 2
        /\ n.run = [owner |-> "manual", cmd |-> c, gen |-> canon.gen + 2]
        /\ n.cmd = c /\ n.rep = canon.rep
    BY <1>1, <1>2 DEF ManualClaimedState, States
  <2>. QED
    BY <2>1 DEF FastLaneMove
<1>4. ~ReportMove(canon, n) /\ ~ResolveMove(canon, n)
  BY DEF ReportMove, ResolveMove
<1>5. k.basedOn < n.cmd
  <2>1. canon.rep <= canon.cmd /\ canon.rep \in Int /\ canon.cmd \in Int /\ c \in Int
    BY <1>1, Numbers DEF PointersInv
  <2>. QED
    BY <1>3, <2>1
<1>. QED
  BY <1>2, <1>3, <1>4, <1>5, SoundCommit DEF Transition

\* The Supervisor's updates move only the status.
LEMMA UpdateSound ==
    ASSUME IInv, PointersInv, NEW st,
           \/ canon.status = "REPORT_READY" /\ st = "HUMAN_REQUIRED"
           \/ canon.status = "FINAL_REPORT_READY" /\ st = "DONE",
           NEW cm, cm = Commit([canon EXCEPT !.status = st, !.gen = canon.gen + 1],
                               NoCommand, NoReport)
    PROVE  Sound(cm)
<1>1. canon \in States /\ canon.run = NoRun
  BY Parts DEF StoreTypes, PointersInv
<1>2. PICK n \in States : n = [canon EXCEPT !.status = st, !.gen = canon.gen + 1]
  <2>1. st \in ALLOWED_STATES /\ canon.gen + 1 \in Nat
    BY <1>1 DEF States, ALLOWED_STATES
  <2>. QED
    BY <1>1, <2>1 DEF States
<1>3. UpdateMove(canon, n) /\ n.cmd = canon.cmd
  <2>1. /\ n.status = st /\ n.gen = canon.gen + 1 /\ n.run = canon.run
        /\ n.cmd = canon.cmd /\ n.rep = canon.rep /\ n.rev = canon.rev
    BY <1>1, <1>2 DEF States
  <2>. QED
    BY <1>1, <2>1 DEF UpdateMove, SamePointersMove
<1>4. ~ReportMove(canon, n) /\ ~ResolveMove(canon, n)
  BY DEF ReportMove, ResolveMove
<1>. QED
  BY <1>2, <1>3, <1>4, InitialRecords, SoundCommit DEF Transition

(***************************************************************************)
(* The actions.  Each is a step of history, and moves threads and evidence *)
(* as allowed.                                                             *)
(***************************************************************************)
Joint == IInv /\ HistoryInv /\ EvidenceInv
StepOK == HistoryStep /\ LocalMove

\* The parts of the joint invariant that the steps use.
LEMMA JointParts ==
    Joint => /\ IInv /\ HistoryInv /\ EvidenceInv
             /\ PointersInv /\ FilesInv /\ AccountInv /\ AnsweredInv /\ LocalCommitsInv
             /\ DeadInv /\ ForkInv
BY DEF Joint, HistoryInv, EvidenceInv

\* What a publication leaves of the store.
CasSound(w, cm) ==
    \/ UNCHANGED canonVars /\ unpushed' = unpushed
    \/ Sound(cm) /\ Land(cm) /\ unpushed' = unpushed
    \/ Sound(cm) /\ UNCHANGED canonVars /\ unpushed' = [unpushed EXCEPT ![w] = cm]

\* A sound publication is a step of history.
LEMMA CasHistory ==
    ASSUME IInv, NEW w \in Workers, NEW cm, CasSound(w, cm)
    PROVE  HistoryStep
<1>1. unpushed \in [Workers -> Commits]
  BY Parts DEF StoreTypes
<1>2. CASE unpushed' = unpushed
  BY <1>2 DEF CasSound, HistoryStep, Moves, Land, canonVars
<1>3. CASE Sound(cm) /\ UNCHANGED canonVars /\ unpushed' = [unpushed EXCEPT ![w] = cm]
  <2>1. \A v \in Workers : unpushed'[v] = unpushed[v] \/ Sound(unpushed'[v])
    BY <1>1, <1>3
  <2>. QED
    BY <1>3, <2>1 DEF HistoryStep
<1>. QED
  BY <1>2, <1>3 DEF CasSound

\* Nothing local moves.
LEMMA LocalIdle ==
    ASSUME DeadInv, UNCHANGED <<thread, evidenceVars>>,
           manuals' \subseteq manuals \/ \E r : r.owner = "manual"
               /\ manuals' \subseteq manuals \cup {r}
    PROVE  LocalMove
<1>1. thread' = thread /\ sidecar' = sidecar /\ journal' = journal
  BY DEF evidenceVars
<1>2. \A r \in manuals' : r.owner = "manual"
  BY DEF DeadInv
<1>. QED
  BY <1>1, <1>2 DEF LocalMove, ThreadMove

\* One thread moves.
LEMMA LocalThread ==
    ASSUME DeadInv, UNCHANGED <<evidenceVars, manuals>>, NEW w \in Workers, ThreadMove(w),
           \A v \in Workers \ {w} : thread'[v] = thread[v]
    PROVE  LocalMove
<1>1. sidecar' = sidecar /\ journal' = journal /\ manuals' = manuals
  BY DEF evidenceVars
<1>2. \A v \in Workers : ThreadMove(v)
  BY DEF ThreadMove
<1>. QED
  BY <1>1, <1>2 DEF LocalMove, DeadInv

\* The store stays as it is.
LEMMA StoreIdle ==
    ASSUME UNCHANGED <<canonVars, cloneVars>>
    PROVE  HistoryStep
BY DEF HistoryStep, cloneVars

\* Steps of the main loop and the operator on a clone.
LEMMA CloneStepsOK ==
    ASSUME Joint, NEW w \in Workers,
           sync_to_remote(w) \/ EndPass(w) \/ LateLanding(w) \/ OperatorReset(w)
    PROVE  StepOK
<1>1. unpushed \in [Workers -> Commits] /\ IInv /\ DeadInv
  BY JointParts, Parts DEF StoreTypes
<1>2. UNCHANGED <<thread, evidenceVars>> /\ manuals' \subseteq manuals
  BY DEF sync_to_remote, EndPass, LateLanding, OperatorReset
<1>3. LocalMove
  BY <1>1, <1>2, LocalIdle
<1>4. \A v \in Workers : unpushed'[v] \in {unpushed[v], NoCommit}
  BY <1>1 DEF sync_to_remote, EndPass, LateLanding, OperatorReset, cloneVars
<1>5. UNCHANGED canonVars \/ Moves
  <2>1. CASE LateLanding(w)
    <3>1. PICK cm \in Commits : cm = unpushed[w]
      BY <1>1
    <3>2. cm # NoCommit /\ canon = cm.base /\ Land(cm)
      BY <2>1, <3>1 DEF LateLanding
    <3>3. HistoryOK(cm) /\ (cm.report # NoReport => ReportOK(cm.report))
      BY <3>1, <3>2, JointParts DEF LocalCommitsInv, DeadInv
    <3>4. CommitOK(cm)
      BY <3>1, <3>2, <1>1, Parts DEF UnpushedInv
    <3>5. cm.report # NoReport => cm.report.run \in claims
      BY <3>4 DEF CommitOK
    <3>6. Sound(cm)
      BY <3>1, <3>2, <3>3, <3>5 DEF Sound
    <3>. QED
      BY <3>2, <3>6 DEF Moves
  <2>. QED
    BY <2>1 DEF sync_to_remote, EndPass, OperatorReset
<1>. QED
  BY <1>3, <1>4, <1>5 DEF StepOK, HistoryStep

\* Steps of a thread that change nothing else.
LEMMA ThreadStepsOK ==
    ASSUME Joint, NEW w \in Workers,
           \/ TakeReady(w) \/ AbandonClaim(w) \/ Crash(w) \/ Launch(w)
           \/ LaunchFails(w) \/ Finish(w) \/ Interrupt(w)
    PROVE  StepOK
<1>1. thread \in [Workers -> Threads] /\ DeadInv
  BY JointParts, Parts DEF LocalTypes
<1>2. UNCHANGED <<canonVars, cloneVars>> /\ UNCHANGED <<evidenceVars, manuals>>
  BY DEF TakeReady, AbandonClaim, Crash, Launch, LaunchFails, Finish, Interrupt
<1>3. ThreadMove(w) /\ \A v \in Workers \ {w} : thread'[v] = thread[v]
  <2>1. CASE TakeReady(w)
    BY <1>1, <2>1 DEF TakeReady, ThreadMove
  <2>2. CASE AbandonClaim(w) \/ Crash(w)
    BY <1>1, <2>2, StopEffect DEF AbandonClaim, Crash, ThreadMove
  <2>3. CASE Launch(w) \/ Interrupt(w)
    <3>1. {"running", "interrupted"} \subseteq ThreadStates
      BY DEF ThreadStates
    <3>. QED
      BY <1>1, <2>3, <3>1, GotoEffect DEF Launch, Interrupt, ThreadMove, Executions, Interrupting
  <2>4. CASE LaunchFails(w) \/ Finish(w)
    <3>1. PICK res : thread' = [thread EXCEPT ![w].pc = "done", ![w].res = res]
      BY <2>4 DEF LaunchFails, Finish
    <3>2. thread[w].pc \in Executions
      BY <2>4 DEF LaunchFails, Finish, Executions
    <3>3. /\ thread'[w].pc = "done" /\ thread'[w].run = thread[w].run
          /\ \A v \in Workers \ {w} : thread'[v] = thread[v]
      BY <1>1, <3>1 DEF Threads
    <3>. QED
      BY <3>2, <3>3 DEF ThreadMove, Reporting
  <2>. QED
    BY <2>1, <2>2, <2>3, <2>4
<1>. QED
  BY <1>1, <1>2, <1>3, StoreIdle, LocalThread DEF StepOK

\* A finished thread saves its sidecar, or acknowledges it.
LEMMA SaveStepsOK ==
    ASSUME Joint, NEW w \in Workers, SaveTyped(w) \/ SaveAfterFailure(w) \/ AckReport(w)
    PROVE  StepOK
<1>1. /\ thread \in [Workers -> Threads] /\ DeadInv
      /\ sidecar \in [Workers -> [CommandIds -> Sidecars]]
  BY JointParts, Parts DEF LocalTypes
<1>2. /\ UNCHANGED <<canonVars, cloneVars>> /\ journal' = journal /\ manuals' = manuals
      /\ thread[w].pc \in Reporting
  BY DEF SaveTyped, SaveAfterFailure, AckReport, Reporting
<1>3. PICK c \in CommandIds : c = thread[w].run.cmd
  BY <1>2, JointParts, Parts DEF ThreadInv, ThreadOK, Reporting
<1>4. thread'[w].pc \notin Executions /\ \A v \in Workers : ThreadMove(v)
  <2>1. CASE SaveTyped(w)
    <3>1. "saved" \in ThreadStates
      BY DEF ThreadStates
    <3>. QED
      BY <1>1, <1>2, <2>1, <3>1, GotoEffect DEF SaveTyped, ThreadMove, Reporting, Executions
  <2>2. CASE SaveAfterFailure(w) \/ AckReport(w)
    BY <1>1, <2>2, StopEffect DEF SaveAfterFailure, AckReport, ThreadMove, Executions
  <2>. QED
    BY <2>1, <2>2
<1>5. \/ sidecar'[w][c].run = thread[w].run
      \/ sidecar[w][c].st # "none" /\ sidecar'[w][c].run = sidecar[w][c].run
  <2>1. CASE save_worker_pending_report(w)
    BY <1>1, <1>3, <2>1 DEF save_worker_pending_report
  <2>2. CASE AckReport(w)
    <3>1. sidecar[w][c].st # "none"
      BY <1>3, <2>2, JointParts, Parts DEF AckReport, ThreadInv, ThreadOK
    <3>2. sidecar'[w][c].run = sidecar[w][c].run
      BY <1>1, <1>3, <2>2 DEF AckReport, Sidecars
    <3>. QED
      BY <3>1, <3>2
  <2>. QED
    BY <2>1, <2>2 DEF SaveTyped, SaveAfterFailure
<1>6. \A v \in Workers, d \in CommandIds :
         v # w \/ d # c => sidecar'[v][d] = sidecar[v][d]
  BY <1>1, <1>3 DEF SaveTyped, SaveAfterFailure, AckReport, save_worker_pending_report
<1>7. Left(w, c, thread[w].run, Reporting)
  BY <1>2, <1>3, <1>4 DEF Left
<1>8. LocalMove
  <2>1. ASSUME NEW v \in Workers, NEW d \in CommandIds, sidecar'[v][d].st # "none"
        PROVE  \/ sidecar[v][d].st # "none" /\ sidecar'[v][d].run = sidecar[v][d].run
               \/ Left(v, d, sidecar'[v][d].run, Reporting)
    <3>1. CASE v = w /\ d = c
      BY <1>5, <1>7, <3>1
    <3>2. CASE v # w \/ d # c
      BY <1>6, <2>1, <3>2
    <3>. QED
      BY <3>1, <3>2
  <2>. QED
    BY <1>1, <1>2, <1>4, <2>1 DEF LocalMove, DeadInv
<1>. QED
  BY <1>2, <1>8, StoreIdle DEF StepOK

\* An interrupted thread writes its journal, in three steps.
LEMMA JournalStepsOK ==
    ASSUME Joint, NEW w \in Workers, WriteJournal(w) \/ SavePendingText(w) \/ AckJournal(w)
    PROVE  StepOK
<1>1. /\ thread \in [Workers -> Threads] /\ DeadInv
      /\ journal \in [Workers -> [CommandIds -> Journals]]
  BY JointParts, Parts DEF LocalTypes
<1>2. /\ UNCHANGED <<canonVars, cloneVars>> /\ sidecar' = sidecar /\ manuals' = manuals
      /\ thread[w].pc \in Interrupting
  BY DEF WriteJournal, SavePendingText, AckJournal, Interrupting
<1>3. PICK c \in CommandIds : c = thread[w].run.cmd
  BY <1>2, JointParts, Parts DEF ThreadInv, ThreadOK, Interrupting
<1>4. thread'[w].pc \notin Executions /\ \A v \in Workers : ThreadMove(v)
  <2>1. CASE WriteJournal(w) \/ SavePendingText(w)
    <3>1. {"journaled", "armed"} \subseteq ThreadStates
      BY DEF ThreadStates
    <3>. QED
      BY <1>1, <1>2, <2>1, <3>1, GotoEffect
         DEF WriteJournal, SavePendingText, ThreadMove, Interrupting, Executions
  <2>2. CASE AckJournal(w)
    BY <1>1, <2>2, StopEffect DEF AckJournal, ThreadMove, Executions
  <2>. QED
    BY <2>1, <2>2
<1>5. /\ journal'[w][c].st # "none"
      /\ \/ journal'[w][c].run = thread[w].run
         \/ journal[w][c].st # "none" /\ journal'[w][c].run = journal[w][c].run
  <2>1. CASE WriteJournal(w)
    BY <1>1, <1>3, <2>1 DEF WriteJournal
  <2>2. CASE SavePendingText(w) \/ AckJournal(w)
    <3>0. ThreadOK(w) /\ thread[w].pc \in {"journaled", "confirming"}
      BY <2>2, JointParts, Parts DEF SavePendingText, AckJournal, ThreadInv
    <3>1. journal[w][c].st # "none" /\ journal[w][c] \in Journals
      BY <1>1, <1>3, <3>0 DEF ThreadOK
    <3>2. journal'[w][c].run = journal[w][c].run /\ journal'[w][c].st # "none"
      BY <1>1, <1>3, <2>2, <3>1 DEF SavePendingText, AckJournal, Journals
    <3>. QED
      BY <3>1, <3>2
  <2>. QED
    BY <2>1, <2>2
<1>6. \A v \in Workers, d \in CommandIds :
         v # w \/ d # c => journal'[v][d] = journal[v][d]
  BY <1>1, <1>3 DEF WriteJournal, SavePendingText, AckJournal
<1>7. Left(w, c, thread[w].run, Interrupting)
  BY <1>2, <1>3, <1>4 DEF Left
<1>8. LocalMove
  <2>1. ASSUME NEW v \in Workers, NEW d \in CommandIds
        PROVE  /\ journal[v][d].st # "none" => journal'[v][d].st # "none"
               /\ journal'[v][d].st # "none" =>
                    \/ journal[v][d].st # "none" /\ journal'[v][d].run = journal[v][d].run
                    \/ Left(v, d, journal'[v][d].run, Interrupting)
    <3>1. CASE v = w /\ d = c
      BY <1>5, <1>7, <3>1
    <3>2. CASE v # w \/ d # c
      BY <1>6, <3>2
    <3>. QED
      BY <3>1, <3>2
  <2>. QED
    BY <1>1, <1>2, <1>4, <2>1 DEF LocalMove, DeadInv
<1>. QED
  BY <1>2, <1>8, StoreIdle DEF StepOK

\* A reconciler marks at most one sidecar.
LEMMA LocalSidecar ==
    ASSUME Joint, NEW w \in Workers, NEW c \in CommandIds, sidecar[w][c].st # "none",
           UNCHANGED <<thread, journal, manuals>>,
           sidecar' = sidecar \/ \E st : MarkSidecar(w, c, st)
    PROVE  LocalMove
<1>1. DeadInv /\ sidecar \in [Workers -> [CommandIds -> Sidecars]]
  BY JointParts, Parts DEF LocalTypes
<1>2. ASSUME NEW v \in Workers, NEW d \in CommandIds
      PROVE  \/ sidecar'[v][d] = sidecar[v][d]
             \/ sidecar[v][d].st # "none" /\ sidecar'[v][d].run = sidecar[v][d].run
  <2>1. CASE sidecar' = sidecar
    BY <2>1
  <2>2. ASSUME NEW st, MarkSidecar(w, c, st)
        PROVE  \/ sidecar'[v][d] = sidecar[v][d]
               \/ sidecar[v][d].st # "none" /\ sidecar'[v][d].run = sidecar[v][d].run
    <3>1. PICK o \in Sidecars : o = sidecar[w][c]
      BY <1>1
    <3>2. PICK e : e = [o EXCEPT !.st = st]
      OBVIOUS
    <3>3. e.run = o.run
      BY <3>1, <3>2 DEF Sidecars
    <3>4. /\ sidecar'[w][c] = e
          /\ v # w \/ d # c => sidecar'[v][d] = sidecar[v][d]
      BY <1>1, <2>2, <3>1, <3>2 DEF MarkSidecar
    <3>. QED
      BY <3>1, <3>3, <3>4
  <2>. QED
    BY <2>1, <2>2
<1>. QED
  BY <1>1, <1>2 DEF LocalMove, ThreadMove, DeadInv

\* A reconciler marks at most one journal.
LEMMA LocalJournal ==
    ASSUME Joint, NEW w \in Workers, NEW c \in CommandIds, journal[w][c].st # "none",
           UNCHANGED <<thread, sidecar, manuals>>,
           journal' = journal \/ \E st \in {"superseded", "reconciled", "conflict"} :
                                    MarkJournal(w, c, st)
    PROVE  LocalMove
<1>1. DeadInv /\ journal \in [Workers -> [CommandIds -> Journals]]
  BY JointParts, Parts DEF LocalTypes
<1>2. ASSUME NEW v \in Workers, NEW d \in CommandIds
      PROVE  \/ journal'[v][d] = journal[v][d]
             \/ /\ journal[v][d].st # "none" /\ journal'[v][d].st # "none"
                /\ journal'[v][d].run = journal[v][d].run
  <2>1. CASE journal' = journal
    BY <2>1
  <2>2. ASSUME NEW st \in {"superseded", "reconciled", "conflict"}, MarkJournal(w, c, st)
        PROVE  \/ journal'[v][d] = journal[v][d]
               \/ /\ journal[v][d].st # "none" /\ journal'[v][d].st # "none"
                  /\ journal'[v][d].run = journal[v][d].run
    <3>1. PICK o \in Journals : o = journal[w][c]
      BY <1>1
    <3>2. PICK e : e = [o EXCEPT !.st = st]
      OBVIOUS
    <3>3. e.run = o.run /\ e.st # "none"
      BY <2>2, <3>1, <3>2 DEF Journals
    <3>4. /\ journal'[w][c] = e
          /\ v # w \/ d # c => journal'[v][d] = journal[v][d]
      BY <1>1, <2>2, <3>1, <3>2 DEF MarkJournal
    <3>. QED
      BY <3>1, <3>3, <3>4
  <2>. QED
    BY <2>1, <2>2
<1>. QED
  BY <1>1, <1>2 DEF LocalMove, ThreadMove, DeadInv

(***************************************************************************)
(* Publications of a host.                                                 *)
(***************************************************************************)
\* The claim: of the pending command, by a run that was never leased.
LEMMA ClaimOK ==
    ASSUME Joint, NEW w \in Workers, ClaimCommand(w) PROVE StepOK
<1>1. IInv /\ DeadInv /\ PointersInv /\ thread \in [Workers -> Threads]
  BY JointParts, Parts DEF LocalTypes
<1>2. PICK r \in Runs : r = thread[w].run
  BY <1>1, Parts DEF LocalTypes, Threads
<1>3. PICK snap \in States : snap = thread[w].snap
  BY <1>1, Parts DEF LocalTypes, Threads
<1>4. thread[w].pc = "ready" /\ UNCHANGED <<evidenceVars, manuals>>
  BY DEF ClaimCommand
<1>5. /\ r.owner = w /\ r.cmd \in CommandIds /\ r \notin claims
      /\ snap.status \in PENDING_STATES /\ r.cmd = snap.cmd /\ r.gen = snap.gen + 1
  BY <1>1, <1>2, <1>3, <1>4, Parts DEF ThreadInv, ThreadOK
<1>6. PICK cm : cm = Commit(ClaimedState(canon, r), NoCommand, NoReport)
  OBVIOUS
<1>7. claim_expected(w) => Sound(cm)
  <2>1. claim_expected(w) => /\ canon.status \in PENDING_STATES /\ canon.run = NoRun
                             /\ canon.gen = snap.gen /\ canon.cmd = snap.cmd
    BY <1>3, <1>5 DEF claim_expected, same_ready_snapshot
  <2>. QED
    BY <1>1, <1>5, <1>6, <2>1, ClaimSound
<1>8. PICK o \in Outcomes :
         /\ publish_cas(w, o, claim_already(w), claim_expected(w), cm)
         /\ Goto(w, "claimed") \/ Stop(w)
  BY <1>2, <1>6 DEF ClaimCommand, claim_payload
<1>9. CasSound(w, cm)
  BY <1>7, <1>8 DEF publish_cas, CasSound, cloneVars
<1>10. ThreadMove(w) /\ \A v \in Workers \ {w} : thread'[v] = thread[v]
  <2>1. "claimed" \in ThreadStates
    BY DEF ThreadStates
  <2>. QED
    BY <1>1, <1>2, <1>5, <1>8, <2>1, GotoEffect, StopEffect DEF ThreadMove, Executions
<1>. QED
  BY <1>1, <1>4, <1>9, <1>10, CasHistory, LocalThread DEF StepOK

\* The run's own report.
LEMMA PublishReportOK ==
    ASSUME Joint, NEW w \in Workers, PublishReport(w) PROVE StepOK
<1>1. IInv /\ DeadInv /\ PointersInv /\ thread \in [Workers -> Threads]
  BY JointParts, Parts DEF LocalTypes
<1>2. PICK r \in Runs : r = thread[w].run
  BY <1>1, Parts DEF LocalTypes, Threads
<1>3. thread[w].pc \in {"saved", "done"} /\ UNCHANGED <<evidenceVars, manuals>>
  BY DEF PublishReport
<1>4. thread[w].res.target \in ReportTargets
  BY <1>1 DEF Threads, Results
<1>5. ~Live(r)
  <2>1. SUFFICES ASSUME NEW v \in Workers, thread[v].pc \in Executions, thread[v].run = r
                 PROVE  FALSE
    BY DEF Live
  <2>2. r.owner = w /\ r.owner = v
    BY <1>1, <1>2, <1>3, <2>1, Parts DEF ThreadInv, ThreadOK, Executions
  <2>. QED
    BY <1>3, <2>1, <2>2 DEF Executions
<1>6. PICK cm : cm = Commit(ReportedState(canon, r.cmd, thread[w].res.target),
                            NoCommand, ResultOf(r))
  OBVIOUS
<1>7. complete_expected(w) => Sound(cm)
  <2>1. complete_expected(w) => canon.status = "CODEX_RUNNING" /\ canon.run = r
    BY <1>2 DEF complete_expected, matches_execution_lease
  <2>. QED
    BY <1>1, <1>4, <1>5, <1>6, <2>1, ReportSound
<1>8. PICK o \in Outcomes :
         /\ publish_cas(w, o, complete_already(w), complete_expected(w), cm)
         /\ Goto(w, "unsaved") \/ Goto(w, "acking") \/ Stop(w)
  BY <1>2, <1>6 DEF PublishReport, complete_payload
<1>9. CasSound(w, cm)
  BY <1>7, <1>8 DEF publish_cas, CasSound, cloneVars
<1>10. ThreadMove(w) /\ \A v \in Workers \ {w} : thread'[v] = thread[v]
  <2>1. {"unsaved", "acking"} \subseteq ThreadStates
    BY DEF ThreadStates
  <2>. QED
    BY <1>1, <1>3, <1>8, <2>1, GotoEffect, StopEffect DEF ThreadMove, Reporting
<1>. QED
  BY <1>1, <1>3, <1>9, <1>10, CasHistory, LocalThread DEF StepOK

\* The run's own request for recovery.
LEMMA NetworkRecoveryOK ==
    ASSUME Joint, NEW w \in Workers, PublishNetworkRecovery(w) PROVE StepOK
<1>1. IInv /\ DeadInv /\ PointersInv /\ thread \in [Workers -> Threads]
  BY JointParts, Parts DEF LocalTypes
<1>2. PICK r : r = thread[w].run
  OBVIOUS
<1>3. thread[w].pc = "armed" /\ UNCHANGED <<evidenceVars, manuals>>
  BY DEF PublishNetworkRecovery
<1>4. PICK cm : cm = Commit(RecoveryRequiredState(canon, r), NoCommand, NoReport)
  OBVIOUS
<1>5. matches_execution_lease(canon, r) => Sound(cm)
  BY <1>1, <1>4, RecoverySound DEF matches_execution_lease
<1>6. PICK o \in Outcomes :
         /\ publish_cas(w, o, matches_recovery_state(canon, r),
                        matches_execution_lease(canon, r), cm)
         /\ Goto(w, "confirming") \/ Stop(w)
  BY <1>2, <1>4 DEF PublishNetworkRecovery
<1>7. CasSound(w, cm)
  BY <1>5, <1>6 DEF publish_cas, CasSound, cloneVars
<1>8. ThreadMove(w) /\ \A v \in Workers \ {w} : thread'[v] = thread[v]
  <2>1. "confirming" \in ThreadStates
    BY DEF ThreadStates
  <2>. QED
    BY <1>1, <1>3, <1>6, <2>1, GotoEffect, StopEffect DEF ThreadMove, Interrupting
<1>. QED
  BY <1>1, <1>3, <1>7, <1>8, CasHistory, LocalThread DEF StepOK

\* Recovery of an expired lease.
LEMMA ExpiredLeaseOK ==
    ASSUME Joint, NEW w \in Workers, mark_expired_lease(w) PROVE StepOK
<1>1. IInv /\ DeadInv /\ PointersInv
  BY JointParts
<1>2. PICK r : r = clone[w].run
  OBVIOUS
<1>3. UNCHANGED <<thread, evidenceVars>> /\ manuals' \subseteq manuals
  BY DEF mark_expired_lease
<1>4. PICK cm : cm = Commit(RecoveryRequiredState(canon, r), NoCommand, NoReport)
  OBVIOUS
<1>5. matches_execution_lease(canon, r) => Sound(cm)
  BY <1>1, <1>4, RecoverySound DEF matches_execution_lease
<1>6. PICK o \in Outcomes :
         publish_cas(w, o, matches_recovery_state(canon, r),
                     lease_expired(canon) /\ matches_execution_lease(canon, r), cm)
  BY <1>2, <1>4 DEF mark_expired_lease
<1>7. CasSound(w, cm)
  BY <1>5, <1>6 DEF publish_cas, CasSound, cloneVars
<1>. QED
  BY <1>1, <1>3, <1>7, CasHistory, LocalIdle DEF StepOK

\* A deferred interruption journal.
LEMMA ReconcileJournalOK ==
    ASSUME Joint, NEW w \in Workers, NEW c \in CommandIds, _reconcile_one_journal(w, c)
    PROVE  StepOK
<1>1. IInv /\ DeadInv /\ PointersInv
  BY JointParts
<1>2. PICK r : r = journal[w][c].run
  OBVIOUS
<1>3. UNCHANGED <<thread, sidecar, manuals>> /\ journal[w][c].st # "none"
  BY DEF _reconcile_one_journal
<1>4. PICK cm : cm = Commit(RecoveryRequiredState(canon, r), NoCommand, NoReport)
  OBVIOUS
<1>5. matches_execution_lease(canon, r) => Sound(cm)
  BY <1>1, <1>4, RecoverySound DEF matches_execution_lease
<1>6. journal' = journal \/ \E st \in {"superseded", "reconciled", "conflict"} :
                               MarkJournal(w, c, st)
  BY DEF _reconcile_one_journal
<1>7. \/ UNCHANGED <<canonVars, cloneVars, faults>>
      \/ \E o \in Outcomes :
            publish_cas(w, o, matches_recovery_state(canon, r),
                        matches_execution_lease(canon, r), cm)
  BY <1>2, <1>4 DEF _reconcile_one_journal
<1>8. CasSound(w, cm)
  BY <1>5, <1>7 DEF publish_cas, CasSound, cloneVars
<1>. QED
  BY <1>1, <1>3, <1>6, <1>8, CasHistory, LocalJournal DEF StepOK

\* Publication-only reconciliation of one sidecar: its run is over, and it
\* publishes onto the run's own lease only.
LEMMA ReconcileOneOK ==
    ASSUME Joint, NEW w \in Workers, NEW c \in CommandIds,
           sidecar[w][c].st # "none", _reconcile_one(w, c),
           UNCHANGED <<thread, journal, manuals>>
    PROVE  StepOK
<1>1. IInv /\ DeadInv /\ PointersInv
  BY JointParts
<1>2. PICK e \in Sidecars : e = sidecar[w][c]
  BY <1>1, Parts DEF LocalTypes
<1>3. PICK r, st : r = e.run /\ st = e.res.target
  OBVIOUS
<1>4. st \in ReportTargets /\ r.cmd = c /\ ~Live(r)
  BY <1>1, <1>2, <1>3, Parts DEF SidecarInv, DeadInv, Sidecars, Results
<1>5. PICK cm : cm = Commit(ReportedState(canon, r.cmd, st), NoCommand, ResultOf(r))
  OBVIOUS
<1>6. matches_execution_lease(canon, r) => Sound(cm)
  BY <1>1, <1>4, <1>5, ReportSound DEF matches_execution_lease
<1>7. sidecar' = sidecar \/ \E m : MarkSidecar(w, c, m)
  BY DEF _reconcile_one
<1>8. \/ UNCHANGED <<canonVars, cloneVars, faults>>
      \/ \E o \in Outcomes :
            publish_cas(w, o,
               /\ reports[c] = ResultOf(r)
               /\ canon.rep >= c
               /\ ~matches_execution_lease(canon, r),
               /\ reports[c] = NoReport
               /\ canon.rep = c - 1
               /\ matches_execution_lease(canon, r), cm)
  BY <1>2, <1>3, <1>4, <1>5 DEF _reconcile_one
<1>9. CasSound(w, cm)
  BY <1>6, <1>8 DEF publish_cas, CasSound, cloneVars
<1>. QED
  BY <1>1, <1>7, <1>9, CasHistory, LocalSidecar DEF StepOK

\* Typed and untyped reconciliation of a pending report.
LEMMA PendingReportOK ==
    ASSUME Joint, NEW w \in Workers, NEW c \in CommandIds,
           ReconcileLegacyReport(w, c) \/ _reconcile_typed_report(w, c)
    PROVE  StepOK
<1>1. IInv /\ DeadInv /\ PointersInv
  BY JointParts
<1>2. UNCHANGED <<thread, journal, manuals>> /\ sidecar[w][c].st # "none"
  BY DEF ReconcileLegacyReport, _reconcile_typed_report
<1>3. CASE _reconcile_one(w, c)
  BY <1>2, <1>3, ReconcileOneOK
<1>4. PICK r, cm : /\ r = sidecar[w][c].run
                   /\ cm = Commit(RecoveryRequiredState(canon, NoRun), NoCommand, NoReport)
  OBVIOUS
<1>5. matches_execution_lease(canon, r) => Sound(cm)
  BY <1>1, <1>4, RecoverySound DEF matches_execution_lease
<1>6. CASE UNCHANGED <<canonVars, cloneVars>> /\ \E m : MarkSidecar(w, c, m)
  BY <1>2, <1>6, StoreIdle, LocalSidecar DEF StepOK
<1>7. CASE _transition_typed_recovery(w, c)
  <2>1. \/ UNCHANGED <<canonVars, cloneVars, faults>>
        \/ \E o \in Outcomes :
              publish_cas(w, o, canon.status = "RECOVERY_REQUIRED",
                          matches_execution_lease(canon, r), cm)
    BY <1>4, <1>7 DEF _transition_typed_recovery
  <2>2. sidecar' = sidecar \/ \E m : MarkSidecar(w, c, m)
    BY <1>7 DEF _transition_typed_recovery
  <2>3. CasSound(w, cm)
    BY <1>5, <2>1 DEF publish_cas, CasSound, cloneVars
  <2>. QED
    BY <1>1, <1>2, <2>2, <2>3, CasHistory, LocalSidecar DEF StepOK
<1>. QED
  BY <1>3, <1>6, <1>7 DEF ReconcileLegacyReport, _reconcile_typed_report

\* The operator's resolution publishes the report of the journal that the
\* host keeps, from RECOVERY_REQUIRED only.
LEMMA ResolutionOK ==
    ASSUME Joint, NEW w \in Workers, NEW c \in CommandIds, resolve_resolution(w, c)
    PROVE  StepOK
<1>1. IInv /\ HistoryInv /\ DeadInv
  BY JointParts
<1>2. PICK r, n : r = journal[w][c].run /\ n = clone[w].gen
  OBVIOUS
<1>3. /\ journal[w][c].st # "none" /\ UNCHANGED <<thread, evidenceVars>>
      /\ manuals' \subseteq manuals
  BY DEF resolve_resolution
<1>4. PICK cm : cm = Commit(ResolvedState(canon, c), NoCommand, InterruptedOf(r))
  OBVIOUS
<1>5. ResolutionAllowed(canon, c, commands[c].basedOn, n) => Sound(cm)
  BY <1>1, <1>2, <1>3, <1>4, ResolveSound
<1>6. \E o \in Outcomes :
         publish_cas(w, o,
            AlreadyResolved(canon, c, commands[c].basedOn, n) /\ reports[c] = InterruptedOf(r),
            ResolutionAllowed(canon, c, commands[c].basedOn, n) /\ reports[c] = NoReport, cm)
  BY <1>2, <1>4 DEF resolve_resolution
<1>7. CasSound(w, cm)
  BY <1>5, <1>6 DEF publish_cas, CasSound, cloneVars
<1>. QED
  BY <1>1, <1>3, <1>7, CasHistory, LocalIdle DEF StepOK

\* The gateway publishes only onto the snapshot that it assessed.
LEMMA GatewayOK ==
    ASSUME Joint, NEW w \in Workers, GatewayPublish(w) PROVE StepOK
<1>1. IInv /\ DeadInv /\ PointersInv
  BY JointParts
<1>2. PICK s \in States : s = clone[w]
  BY <1>1, Parts DEF StoreTypes
<1>3. PICK c \in CommandIds : c = s.cmd + 1
  BY <1>2 DEF GatewayPublish
<1>4. PICK src \in COMMAND_SOURCES, kind \in COMMAND_KINDS, mode \in Modes, o \in Outcomes :
         /\ GatewayRequest(src, kind) /\ GatewayEligible(s, src, kind)
         /\ publish_cas(w, o, FALSE, state_is_eligible(s),
            Commit(PublishedState(s, c, IF kind = "FINALIZE" THEN "FINALIZING"
                                        ELSE "COMMAND_READY", s.rep),
                   NewCommand(src, kind, s.rep, s.gen + 1, 0, 0, mode),
                   NoReport))
  BY <1>2, <1>3 DEF GatewayPublish
<1>5. UNCHANGED <<thread, evidenceVars>> /\ manuals' \subseteq manuals
  BY DEF GatewayPublish, ThreadsUntouched
<1>6. PICK st \in PENDING_STATES :
         st = IF kind = "FINALIZE" THEN "FINALIZING" ELSE "COMMAND_READY"
  BY DEF PENDING_STATES
<1>7. /\ s.run = NoRun
      /\ \/ s.status = "REPORT_READY"
         \/ s.status = "HUMAN_REQUIRED" /\ st = "COMMAND_READY"
  BY <1>4, <1>6 DEF GatewayEligible
<1>8. PICK k : k = NewCommand(src, kind, s.rep, s.gen + 1, 0, 0, mode)
  OBVIOUS
<1>9. k \in Commands /\ k.basedOn = s.rep
  <2>1. /\ s.rep \in Ids /\ s.gen + 1 \in Nat /\ 0 \in Ids
        /\ mode \in {"legacy", "typed"} /\ src \in COMMAND_SOURCES \cup {"none"}
    BY MaxCommandAssumption, LanesAssumption, Numbers DEF States, Ids
  <2>. QED
    BY <1>8, <2>1 DEF NewCommand, Commands
<1>10. PICK cm : cm = Commit(PublishedState(s, c, st, s.rep), k, NoReport)
  OBVIOUS
<1>11. canon = s => Sound(cm)
  <2>1. SUFFICES ASSUME canon = s PROVE Sound(cm)
    OBVIOUS
  <2>2. c > canon.cmd /\ canon.rep \in Ids
    BY <1>2, <1>3, <2>1, Numbers DEF States
  <2>. QED
    BY <1>1, <1>7, <1>9, <1>10, <2>1, <2>2, QueueSound
<1>12. publish_cas(w, o, FALSE, state_is_eligible(s), cm)
  BY <1>4, <1>6, <1>8, <1>10
<1>13. CasSound(w, cm)
  BY <1>11, <1>12 DEF publish_cas, CasSound, cloneVars, state_is_eligible
<1>. QED
  BY <1>1, <1>5, <1>13, CasHistory, LocalIdle DEF StepOK

(***************************************************************************)
(* Publications from clones of their own.                                  *)
(***************************************************************************)
\* A sound publication of a lane without local state.
LEMMA LaneOK ==
    ASSUME Joint, NEW cm, Sound(cm), Land(cm), UNCHANGED cloneVars, ThreadsUntouched,
           manuals' \subseteq manuals \/ \E r : r.owner = "manual"
               /\ manuals' \subseteq manuals \cup {r}
    PROVE  StepOK
<1>1. UNCHANGED <<thread, evidenceVars>>
  BY DEF ThreadsUntouched
<1>2. HistoryStep
  BY DEF HistoryStep, Moves, cloneVars
<1>. QED
  BY <1>1, <1>2, JointParts, LocalIdle DEF StepOK

\* The lanes that put a command at the head of the queue.
LEMMA QueueLanesOK ==
    ASSUME Joint, publish_manual_priority \/ repair_unclaimed_command \/ PublishMalformed
    PROVE  StepOK
<1>1. /\ canon.rep \in Ids /\ canon.rev \in Ids /\ canon.cmd \in Ids
      /\ canon.gen + 1 \in Nat /\ 0 \in Ids /\ commands \in [CommandIds -> Commands]
      /\ IInv /\ PointersInv
  BY JointParts, Parts, MaxCommandAssumption DEF StoreTypes, States, Ids
<1>2. Modes \subseteq {"legacy", "typed"} /\ "COMMAND_READY" \in PENDING_STATES
  BY LanesAssumption DEF PENDING_STATES
<1>3. /\ {"scheduled_chatgpt", "manual_chatgpt"} \subseteq COMMAND_SOURCES \cup {"none"}
      /\ "EXECUTE" \in COMMAND_KINDS
  BY DEF COMMAND_SOURCES, COMMAND_KINDS
<1>4. canon.status \in {"REPORT_READY", "COMMAND_READY"} /\ canon.run = NoRun
  BY <1>1 DEF publish_manual_priority, manual_supersede_decision, PublishMalformed,
     repair_unclaimed_command, assess_unclaimed_command_repair, PointersInv
<1>5. ASSUME NEW c \in CommandIds, c > canon.cmd, NEW i \in Ids, NEW k \in Commands,
             k.basedOn = canon.rep,
             canon.status = "COMMAND_READY" => canon.cmd \in {k.supersedes, k.withdraws},
             Publish(Commit(PublishedState(canon, c, "COMMAND_READY", i), k, NoReport))
      PROVE  StepOK
  <2>1. PICK cm : cm = Commit(PublishedState(canon, c, "COMMAND_READY", i), k, NoReport)
    OBVIOUS
  <2>2. PICK st \in PENDING_STATES : st = "COMMAND_READY"
    BY <1>2
  <2>3. Sound(cm)
    BY <1>1, <1>4, <1>5, <2>1, <2>2, QueueSound
  <2>4. Land(cm) /\ UNCHANGED cloneVars /\ ThreadsUntouched /\ manuals' \subseteq manuals
    BY <1>5, <2>1 DEF Publish
  <2>. QED
    BY <2>3, <2>4, LaneOK
<1>6. CASE publish_manual_priority
  <2>1. PICK c \in CommandIds, mode \in Modes :
           /\ IsNextCommandId(c)
           /\ Publish(Commit(
                PublishedState(canon, c, "COMMAND_READY", canon.rev),
                NewCommand("manual_chatgpt", "EXECUTE", canon.rep,
                           canon.gen + 1, canon.cmd, 0, mode), NoReport))
    BY <1>6 DEF publish_manual_priority
  <2>2. PICK k : k = NewCommand("manual_chatgpt", "EXECUTE", canon.rep,
                                canon.gen + 1, canon.cmd, 0, mode)
    OBVIOUS
  <2>3. k \in Commands /\ k.basedOn = canon.rep /\ k.supersedes = canon.cmd
    BY <1>1, <1>2, <1>3, <2>2 DEF NewCommand, Commands
  <2>. QED
    BY <1>1, <1>5, <2>1, <2>2, <2>3, NextIdIsNew
<1>7. CASE repair_unclaimed_command
  <2>1. PICK c \in CommandIds, mode \in Modes :
           /\ c > canon.cmd
           /\ Publish(Commit(
                PublishedState(canon, c, "COMMAND_READY", canon.rev),
                NewCommand(commands[canon.cmd].src, commands[canon.cmd].kind,
                           canon.rep, canon.gen + 1, canon.cmd, 0, mode),
                NoReport))
    BY <1>7 DEF repair_unclaimed_command
  <2>2. /\ commands[canon.cmd].src \in COMMAND_SOURCES \cup {"none"}
        /\ commands[canon.cmd].kind \in COMMAND_KINDS
    <3>1. canon.cmd \in CommandIds
      BY <1>1, <1>7, MaxCommandAssumption DEF Ids, CommandIds, repair_unclaimed_command
    <3>. QED
      BY <1>1, <3>1 DEF Commands
  <2>3. PICK k : k = NewCommand(commands[canon.cmd].src,
                                commands[canon.cmd].kind, canon.rep,
                                canon.gen + 1, canon.cmd, 0, mode)
    OBVIOUS
  <2>4. k \in Commands /\ k.basedOn = canon.rep /\ k.supersedes = canon.cmd
    BY <1>1, <1>2, <2>2, <2>3 DEF NewCommand, Commands
  <2>. QED
    BY <1>1, <1>5, <2>1, <2>3, <2>4
<1>8. CASE PublishMalformed
  <2>1. PICK c \in CommandIds :
           /\ IsNextCommandId(c)
           /\ Publish(Commit(
                PublishedState(canon, c, "COMMAND_READY", canon.rep),
                [NewCommand("scheduled_chatgpt", "EXECUTE", canon.rep,
                            canon.gen + 1, 0, 0, "legacy")
                 EXCEPT !.valid = FALSE], NoReport))
    BY <1>8 DEF PublishMalformed
  <2>2. PICK k : k = NewCommand("scheduled_chatgpt", "EXECUTE", canon.rep,
                                canon.gen + 1, 0, 0, "legacy")
    OBVIOUS
  <2>3. PICK q : q = [k EXCEPT !.valid = FALSE]
    OBVIOUS
  <2>4. k \in Commands /\ k.basedOn = canon.rep
    BY <1>1, <1>3, <2>2 DEF NewCommand, Commands
  <2>5. q \in Commands /\ q.basedOn = canon.rep
    BY <2>3, <2>4 DEF Commands
  <2>. QED
    BY <1>1, <1>5, <1>8, <2>1, <2>2, <2>3, <2>5, NextIdIsNew DEF PublishMalformed
<1>. QED
  BY <1>6, <1>7, <1>8

\* State updates of the Supervisor that publish no command.
LEMMA UpdateLanesOK ==
    ASSUME Joint, PauseForOwner \/ AcceptFinalDelivery PROVE StepOK
<1>1. PICK st :
         /\ \/ canon.status = "REPORT_READY" /\ st = "HUMAN_REQUIRED"
            \/ canon.status = "FINAL_REPORT_READY" /\ st = "DONE"
         /\ Publish(Commit([canon EXCEPT !.status = st, !.gen = canon.gen + 1],
                           NoCommand, NoReport))
  BY DEF PauseForOwner, AcceptFinalDelivery
<1>2. PICK cm : cm = Commit([canon EXCEPT !.status = st, !.gen = canon.gen + 1],
                            NoCommand, NoReport)
  OBVIOUS
<1>3. Sound(cm)
  BY <1>1, <1>2, JointParts, UpdateSound
<1>4. Land(cm) /\ UNCHANGED cloneVars /\ ThreadsUntouched /\ manuals' \subseteq manuals
  BY <1>1, <1>2 DEF Publish
<1>. QED
  BY <1>3, <1>4, LaneOK

\* The human's report of a fast-lane run, which no Worker ever executed.
LEMMA FinishManualOK ==
    ASSUME Joint, NEW r \in manuals, finish_manual(r) PROVE StepOK
<1>1. IInv /\ PointersInv /\ r.owner = "manual" /\ canon.status = "CODEX_RUNNING" /\ r = canon.run
  BY JointParts DEF DeadInv, finish_manual, matches_execution_lease
<1>2. PICK delivered \in BOOLEAN, outcome \in {"SUCCESS", "FAILED"} :
         Land(Commit(ReportedState(canon, r.cmd,
                        report_status_after_execution(
                           commands[r.cmd].kind, outcome, delivered)),
                     NoCommand, ResultOf(r)))
  BY DEF finish_manual
<1>3. PICK st \in ReportTargets :
         st = report_status_after_execution(commands[r.cmd].kind, outcome, delivered)
  BY DEF report_status_after_execution, ReportTargets
<1>4. PICK cm : cm = Commit(ReportedState(canon, r.cmd, st), NoCommand, ResultOf(r))
  OBVIOUS
<1>5. ~Live(r)
  BY <1>1, Parts, WorkersAssumption DEF Live, Executions, ThreadInv, ThreadOK
<1>6. Sound(cm)
  BY <1>1, <1>4, <1>5, ReportSound
<1>7. /\ UNCHANGED cloneVars /\ ThreadsUntouched /\ manuals' \subseteq manuals
  BY DEF finish_manual
<1>8. Land(cm)
  BY <1>2, <1>3, <1>4
<1>. QED
  BY <1>6, <1>7, <1>8, LaneOK

\* The two starts of the human fast lane.
LEMMA ManualStartOK ==
    ASSUME Joint, start_manual \/ withdraw_and_manual_start PROVE StepOK
<1>1. /\ canon.rep \in Ids /\ canon.cmd \in Ids /\ canon.gen + 1 \in Nat
      /\ 0 \in Ids /\ IInv /\ PointersInv /\ canon \in States
  BY JointParts, Parts, MaxCommandAssumption DEF StoreTypes, States, Ids
<1>2. /\ "manual_chatgpt" \in COMMAND_SOURCES \cup {"none"}
      /\ "EXECUTE" \in COMMAND_KINDS
  BY DEF COMMAND_SOURCES, COMMAND_KINDS
<1>3. canon.status \in {"REPORT_READY", "COMMAND_READY"} /\ canon.run = NoRun
  BY DEF start_manual, ManualStartAllowed, withdraw_and_manual_start,
         withdraw_and_manual_start_decision
<1>4. ASSUME NEW c \in CommandIds, c > canon.cmd, NEW k \in Commands, k.basedOn = canon.rep,
             canon.status = "COMMAND_READY" => canon.cmd \in {k.supersedes, k.withdraws},
             ManualClaim(c, k)
      PROVE  StepOK
  <2>1. PICK n : n = ManualClaimedState(canon, c)
    OBVIOUS
  <2>2. PICK cm : cm = Commit(n, k, NoReport)
    OBVIOUS
  <2>3. Sound(cm)
    BY <1>1, <1>3, <1>4, <2>1, <2>2, FastLaneSound
  <2>4. n.run.owner = "manual"
    BY <1>1, <2>1 DEF ManualClaimedState, States
  <2>5. Land(cm) /\ UNCHANGED cloneVars /\ ThreadsUntouched
        /\ manuals' \subseteq manuals \cup {n.run}
    BY <1>4, <2>1, <2>2 DEF ManualClaim
  <2>. QED
    BY <2>3, <2>4, <2>5, LaneOK
<1>5. CASE start_manual
  <2>1. PICK c \in CommandIds, kind \in COMMAND_KINDS :
           /\ IsNextCommandId(c)
           /\ ManualClaim(c, NewCommand("manual_chatgpt", kind, canon.rep,
                                        canon.gen + 1,
                                        ManualStartSupersedes(canon), 0,
                                        "legacy"))
    BY <1>5 DEF start_manual
  <2>2. PICK d \in Ids : d = ManualStartSupersedes(canon)
    BY <1>1 DEF ManualStartSupersedes
  <2>3. PICK k : k = NewCommand("manual_chatgpt", kind, canon.rep,
                                canon.gen + 1, d, 0, "legacy")
    OBVIOUS
  <2>4. /\ k \in Commands /\ k.basedOn = canon.rep
        /\ canon.status = "COMMAND_READY" => k.supersedes = canon.cmd
    BY <1>1, <1>2, <2>2, <2>3 DEF NewCommand, Commands, ManualStartSupersedes
  <2>5. ManualClaim(c, k)
    BY <2>1, <2>2, <2>3
  <2>. QED
    BY <1>4, <2>1, <2>4, <2>5, NextIdIsNew
<1>6. CASE withdraw_and_manual_start
  <2>1. PICK c \in CommandIds :
           /\ IsNextCommandId(c)
           /\ ManualClaim(c, NewCommand("manual_chatgpt", "EXECUTE", canon.rep,
                                        canon.gen + 1, 0, canon.cmd, "legacy"))
    BY <1>6 DEF withdraw_and_manual_start
  <2>2. PICK k : k = NewCommand("manual_chatgpt", "EXECUTE", canon.rep,
                                canon.gen + 1, 0, canon.cmd, "legacy")
    OBVIOUS
  <2>3. k \in Commands /\ k.basedOn = canon.rep /\ k.withdraws = canon.cmd
    BY <1>1, <1>2, <2>2 DEF NewCommand, Commands
  <2>4. ManualClaim(c, k)
    BY <2>1, <2>2
  <2>. QED
    BY <1>4, <2>1, <2>3, <2>4, NextIdIsNew
<1>. QED
  BY <1>5, <1>6

(***************************************************************************)
(* The joint invariant is inductive.                                       *)
(***************************************************************************)
\* Every step, of every actor, is a step of history that moves threads and
\* evidence as allowed.
LEMMA EveryStepOK == Joint /\ [Next]_vars => StepOK
<1>. SUFFICES ASSUME Joint, [Next]_vars PROVE StepOK
  OBVIOUS
<1>1. ASSUME UNCHANGED <<canonVars, cloneVars>>, UNCHANGED <<thread, evidenceVars>>,
             manuals' \subseteq manuals
      PROVE  StepOK
  BY <1>1, JointParts, StoreIdle, LocalIdle DEF StepOK
<1>2. CASE LeaseDeadline
  BY <1>1, <1>2 DEF LeaseDeadline
<1>3. CASE OperatorStep
  <2>1. ASSUME NEW w \in Workers, OperatorReset(w) PROVE StepOK
    BY <2>1, CloneStepsOK
  <2>2. ASSUME NEW w \in Workers, NEW c \in CommandIds, resolve_resolution(w, c)
        PROVE  StepOK
    BY <2>2, ResolutionOK
  <2>3. CASE publish_manual_priority \/ repair_unclaimed_command \/ PublishMalformed
    BY <2>3, QueueLanesOK
  <2>4. CASE start_manual \/ withdraw_and_manual_start
    BY <2>4, ManualStartOK
  <2>5. ASSUME NEW r \in manuals, finish_manual(r) PROVE StepOK
    BY <2>5, FinishManualOK
  <2>6. ASSUME NEW r \in manuals, FinishManualLate(r) PROVE StepOK
    BY <1>1, <2>6 DEF FinishManualLate, ThreadsUntouched
  <2>7. CASE PauseForOwner \/ AcceptFinalDelivery
    BY <2>7, UpdateLanesOK
  <2>. QED
    BY <1>3, <2>1, <2>2, <2>3, <2>4, <2>5, <2>6, <2>7 DEF OperatorStep
<1>4. ASSUME NEW w \in Workers, HostStep(w) PROVE StepOK
  <2>1. CASE sync_to_remote(w) \/ EndPass(w) \/ LateLanding(w)
    BY <2>1, CloneStepsOK
  <2>2. CASE GatewayPublish(w)
    BY <2>2, GatewayOK
  <2>3. CASE Crash(w)
    BY <2>3, ThreadStepsOK
  <2>4. CASE WorkerStep(w)
    BY <2>4, ThreadStepsOK, ClaimOK, SaveStepsOK, PublishReportOK, JournalStepsOK,
       NetworkRecoveryOK DEF WorkerStep
  <2>5. CASE RecoveryStep(w)
    BY <2>5, ExpiredLeaseOK, ReconcileJournalOK, PendingReportOK DEF RecoveryStep
  <2>. QED
    BY <1>4, <2>1, <2>2, <2>3, <2>4, <2>5 DEF HostStep
<1>5. CASE UNCHANGED vars
  BY <1>1, <1>5 DEF vars, canonVars, cloneVars, evidenceVars
<1>. QED
  BY <1>2, <1>3, <1>4, <1>5 DEF Next

\* The initial state satisfies the joint invariant.
LEMMA InitJoint == Init => Joint
<1>. SUFFICES ASSUME Init PROVE HistoryInv /\ EvidenceInv
  BY InitIInv DEF Joint
<1>1. /\ canon.status = "REPORT_READY" /\ canon.run = NoRun /\ canon.cmd = 0 /\ canon.rep = 0
      /\ claims = {} /\ manuals = {}
  BY DEF Init, Genesis
<1>2. /\ \A c \in CommandIds : commands[c] = NoCommand /\ reports[c] = NoReport
      /\ \A w \in Workers : unpushed[w] = NoCommit /\ thread[w].pc = "idle"
      /\ \A w \in Workers, c \in CommandIds :
            sidecar[w][c].st = "none" /\ journal[w][c].st = "none"
  BY DEF Init, IdleThread, NoSidecar, NoJournal
<1>3. HistoryInv
  <2>1. PointersInv /\ AccountInv /\ AnsweredInv /\ LocalCommitsInv
    BY <1>1, <1>2 DEF PointersInv, AccountInv, AnsweredInv, NoCommandSkipped,
       LocalCommitsInv, PENDING_STATES
  <2>2. \A c \in CommandIds : commands[c].basedOn < c
    BY <1>2, MaxCommandAssumption DEF NoCommand, CommandIds
  <2>. QED
    BY <1>1, <1>2, <2>1, <2>2 DEF HistoryInv, FilesInv
<1>4. EvidenceInv
  <2>1. NoCommit.report = NoReport
    BY DEF NoCommit
  <2>. QED
    BY <1>1, <1>2, <2>1 DEF EvidenceInv, DeadInv, ForkInv, Reporting, Interrupting
<1>. QED
  BY <1>3, <1>4

\* Every step keeps the joint invariant.
LEMMA NextJoint == Joint /\ [Next]_vars => Joint'
<1>. SUFFICES ASSUME Joint, [Next]_vars PROVE Joint'
  OBVIOUS
<1>1. StepOK /\ IInv' /\ IInv /\ HistoryInv /\ EvidenceInv
  BY EveryStepOK, NextIInv, JointParts
<1>2. HistoryInv'
  BY <1>1, HistoryKept DEF StepOK
<1>3. EvidenceInv'
  BY <1>1, EvidenceHeld DEF StepOK
<1>. QED
  BY <1>1, <1>2, <1>3 DEF Joint

\* Canonical history and evidence keep their invariants together: a report
\* is sound because the evidence it is made of is, and evidence is of runs
\* that are over because history grants no lease twice.
THEOREM JointInductive == Spec => []Joint
<1>. QED
  BY InitJoint, NextJoint, PTL DEF Spec

\* Every canonical commit, and every commit a host still has to push, is a
\* transition of the protocol; pointers and files agree; a lease without a
\* report is the current one (publish_cas and its callers).
THEOREM HistoryInductive == Spec => []HistoryInv
<1>1. Joint => HistoryInv
  BY DEF Joint
<1>. QED
  BY <1>1, JointInductive, PTL

\* No command is lost: each one that the queue has moved past is answered, or
\* another command names it as replaced (GatewayPublish and the lanes).
THEOREM NoneSkipped == Spec => []NoCommandSkipped
<1>1. Joint => NoCommandSkipped
  BY DEF Joint, HistoryInv, AnsweredInv
<1>. QED
  BY <1>1, JointInductive, PTL

\* A host keeps evidence only of runs of its own that no executor works on,
\* and of a run either a report or an interruption
\* (save_worker_pending_report, publish_network_recovery).
THEOREM EvidenceInductive == Spec => []EvidenceInv
<1>1. Joint => EvidenceInv
  BY DEF Joint
<1>. QED
  BY <1>1, JointInductive, PTL

(***************************************************************************)
(* What the joint invariant implies.                                       *)
(***************************************************************************)
\* The queue never moves past a launched command without its report
\* (matches_execution_lease, ResolutionAllowed).
THEOREM LaunchedAccounted == Spec => []LaunchedIsAccounted
<1>1. Joint => LaunchedIsAccounted
  <2>1. SUFFICES ASSUME Joint, canon.status \notin {"CODEX_RUNNING", "RECOVERY_REQUIRED"},
                        NEW c \in CommandIds, launches[c] > 0
                 PROVE  reports[c] # NoReport
    BY DEF LaunchedIsAccounted
  <2>2. PICK r \in claims : r.cmd = c
    BY <2>1, JointParts, Parts DEF LaunchInv
  <2>. QED
    BY <2>1, <2>2, JointParts DEF AccountInv
<1>. QED
  BY <1>1, JointInductive, PTL

\* At most one executor works on the project, those of lost leases included
\* (process_project, finish_manual, resolve_resolution).
THEOREM OneExecution == Spec => []ExclusiveExecution
<1>1. Joint => ExclusiveExecution
  <2>. SUFFICES ASSUME Joint PROVE ExclusiveExecution
    OBVIOUS
  <2>1. ASSUME NEW r \in Executing
        PROVE  r \in claims /\ reports[r.cmd] = NoReport
    <3>1. CASE r \in manuals /\ reports[r.cmd] = NoReport
      BY <3>1, JointParts, Parts
    <3>2. CASE \E w \in Workers : thread[w].pc = "running" /\ r = thread[w].run
      <4>1. PICK w \in Workers : thread[w].pc = "running" /\ r = thread[w].run
        BY <3>2
      <4>2. r \in claims /\ r.cmd \in CommandIds /\ Live(r)
        BY <4>1, JointParts, Parts DEF ThreadInv, ThreadOK, Live, Executions
      <4>3. UniqueLease /\ ReportsInv /\ DeadInv
        BY JointParts, Parts DEF CanonInv
      <4>4. SUFFICES ASSUME reports[r.cmd] # NoReport PROVE FALSE
        BY <4>2
      <4>5. reports[r.cmd].run = r
        BY <4>2, <4>3, <4>4 DEF UniqueLease, ReportsInv
      <4>. QED
        BY <4>2, <4>3, <4>4, <4>5 DEF DeadInv, ReportOK
    <3>. QED
      BY <2>1, <3>1, <3>2 DEF Executing
  <2>2. \A r \in Executing : r.cmd = canon.cmd
    BY <2>1, JointParts DEF AccountInv
  <2>. QED
    BY <2>1, <2>2, JointParts, Parts DEF ExclusiveExecution, UniqueLease
<1>. QED
  BY <1>1, JointInductive, PTL

\* What a step does to canonical history, from the joint invariant.
LEMMA HistoryMoves ==
    ASSUME Joint, Joint', [Next]_vars
    PROVE  /\ Sane /\ Sane'
           /\ UNCHANGED canonVars \/ MoveEffect
<1>1. HistoryStep /\ StoreTypes /\ Sane
  BY EveryStepOK, JointParts, Parts, SaneIInv DEF StepOK
<1>2. Joint' => Sane'
  BY SaneIInv DEF Joint, IInv, TypeOK, StoreInv, CanonInv, Sane, LeaseInv, States, Ids
<1>. QED
  BY <1>1, <1>2, MovesEffect DEF HistoryStep

\* History is append-only and pointers never go back, whatever stale snapshot
\* a publication was prepared from (publish_cas).
THEOREM AppendOnly == Spec => HistoryAppendOnly
<1>1. ASSUME Joint, Joint', [Next]_vars, ~UNCHANGED canonVars
      PROVE  /\ canon'.gen >= canon.gen
             /\ canon'.cmd >= canon.cmd
             /\ canon'.rep >= canon.rep
             /\ canon' # canon => canon'.gen > canon.gen
             /\ \A c \in CommandIds :
                  /\ commands[c] # NoCommand => commands'[c] = commands[c]
                  /\ reports[c] # NoReport => reports'[c] = reports[c]
  <2>1. MoveEffect /\ Sane /\ Sane'
    BY <1>1, HistoryMoves
  <2>2. PointersInv /\ FilesInv
    BY <1>1, JointParts
  <2>3. canon'.gen > canon.gen /\ canon'.cmd >= canon.cmd /\ canon'.rep >= canon.rep
    BY <2>1, <2>2, PointersKept DEF MoveEffect
  <2>4. canon'.gen >= canon.gen
    BY <2>1, <2>3 DEF Sane
  <2>5. ASSUME NEW c \in CommandIds
        PROVE  /\ commands[c] # NoCommand => commands'[c] = commands[c]
               /\ reports[c] # NoReport => reports'[c] = reports[c]
    <3>1. c \in Int /\ canon.cmd \in Int /\ canon.rep \in Int
      BY <2>1, Numbers DEF Sane
    <3>. QED
      BY <2>1, <2>2, <3>1 DEF MoveEffect, FilesInv
  <2>. QED
    BY <2>3, <2>4, <2>5
<1>2. Joint /\ Joint' /\ [Next]_vars =>
        [/\ canon'.gen >= canon.gen
         /\ canon'.cmd >= canon.cmd
         /\ canon'.rep >= canon.rep
         /\ canon' # canon => canon'.gen > canon.gen
         /\ \A c \in CommandIds :
              /\ commands[c] # NoCommand => commands'[c] = commands[c]
              /\ reports[c] # NoReport => reports'[c] = reports[c]]_canonVars
  BY <1>1
<1>. QED
  BY <1>2, JointInductive, PTL DEF Spec, HistoryAppendOnly

\* A lease ends only with its own run's report or in RECOVERY_REQUIRED
\* (matches_execution_lease).
THEOREM LeaseEnds == Spec => LeaseEndsByItsRun
<1>1. ASSUME Joint, Joint', [Next]_vars, ~UNCHANGED canonVars,
             canon.run # NoRun, canon'.run # canon.run
      PROVE  /\ canon'.run = NoRun
             /\ \/ canon'.status = "RECOVERY_REQUIRED"
                \/ reports'[canon.run.cmd] = ResultOf(canon.run)
  <2>1. MoveEffect
    BY <1>1, HistoryMoves
  <2>2. canon.status = "CODEX_RUNNING"
    BY <1>1, JointParts DEF PointersInv
  <2>3. ReportMove(canon, canon') \/ RecoveryMove(canon, canon')
    BY <2>1, <2>2 DEF MoveEffect, Transition, QueueMove, ClaimMove, FastLaneMove,
       ResolveMove, UpdateMove, PENDING_STATES
  <2>. QED
    BY <2>1, <2>3 DEF MoveEffect, ReportMove, RecoveryMove
<1>2. Joint /\ Joint' /\ [Next]_vars =>
        [canon.run # NoRun /\ canon'.run # canon.run =>
           /\ canon'.run = NoRun
           /\ \/ canon'.status = "RECOVERY_REQUIRED"
              \/ reports'[canon.run.cmd] = ResultOf(canon.run)]_canonVars
  BY <1>1
<1>. QED
  BY <1>2, JointInductive, PTL DEF Spec, LeaseEndsByItsRun

(***************************************************************************)
(* Refinement.                                                             *)
(***************************************************************************)
\* A transition is a step of the abstract protocol.
LEMMA TransitionIsCanonical ==
    ASSUME Sane, PointersInv, Transition(canon, canon')
    PROVE  Canonical!Next
<1>1. CASE QueueMove(canon, canon')
  <2>1. CASE canon.status \in {"REPORT_READY", "HUMAN_REQUIRED"}
    BY <1>1, <2>1 DEF QueueMove, Canonical!Next, Canonical!SupervisorPublish,
       Canonical!NewPointer, Canonical!Advance, PENDING_STATES, Canonical!PENDING_STATES, NoRun,
           Canonical!NoRun
  <2>2. CASE canon.status = "COMMAND_READY"
    BY <1>1, <2>2 DEF QueueMove, Canonical!Next, Canonical!ReplaceUnclaimed,
       Canonical!NewPointer, Canonical!Advance, NoRun, Canonical!NoRun
  <2>. QED
    BY <1>1, <2>1, <2>2 DEF QueueMove
<1>2. CASE ClaimMove(canon, canon')
  <2>1. canon.cmd > canon.rep
    BY <1>2 DEF ClaimMove, PointersInv, Sane
  <2>. QED
    BY <1>2, <2>1 DEF ClaimMove, SamePointersMove, Canonical!Next, Canonical!WorkerClaim,
       Canonical!PointersKept, Canonical!SameQueue, Canonical!Advance,
       PENDING_STATES, Canonical!PENDING_STATES, NoRun, Canonical!NoRun
<1>3. CASE FastLaneMove(canon, canon')
  BY <1>3 DEF FastLaneMove, Canonical!Next, Canonical!ManualPublishAndClaim,
     Canonical!NewPointer, Canonical!Advance, NoRun, Canonical!NoRun
<1>4. CASE ReportMove(canon, canon')
  BY <1>4 DEF ReportMove, ReportTargets, Canonical!Next, Canonical!PublishReport,
     Canonical!SameQueue, Canonical!Advance, NoRun, Canonical!NoRun
<1>5. CASE RecoveryMove(canon, canon')
  BY <1>5 DEF RecoveryMove, SamePointersMove, Canonical!Next, Canonical!RequireRecovery,
     Canonical!PointersKept, Canonical!SameQueue, Canonical!Advance, NoRun, Canonical!NoRun
<1>6. CASE ResolveMove(canon, canon')
  BY <1>6 DEF ResolveMove, Canonical!Next, Canonical!ResolveRecovery,
     Canonical!SameQueue, Canonical!Advance, NoRun, Canonical!NoRun
<1>7. CASE UpdateMove(canon, canon')
  BY <1>7 DEF UpdateMove, SamePointersMove, Canonical!Next, Canonical!PauseForOwner,
     Canonical!AcceptFinalDelivery, Canonical!SupervisorUpdate, Canonical!PointersKept,
     Canonical!SameQueue, Canonical!Advance, NoRun, Canonical!NoRun
<1>. QED
  BY <1>1, <1>2, <1>3, <1>4, <1>5, <1>6, <1>7 DEF Transition

\* The whole system implements the abstract canonical protocol: seen at
\* canonical state, every step of every actor, faults included, is a
\* transition of transitions.json or no step at all.
THEOREM Implements == Spec => ImplementsCanonical
<1>1. Init => Canonical!Init
  BY DEF Init, Canonical!Init, Genesis, Canonical!Genesis, NoRun, Canonical!NoRun
<1>2. Joint /\ Joint' /\ [Next]_vars => [Canonical!Next]_canon
  <2>1. SUFFICES ASSUME Joint, Joint', [Next]_vars PROVE canon' = canon \/ Canonical!Next
    OBVIOUS
  <2>2. Sane /\ (UNCHANGED canonVars \/ MoveEffect)
    BY <2>1, HistoryMoves
  <2>. QED
    BY <2>1, <2>2, JointParts, TransitionIsCanonical DEF MoveEffect, canonVars
<1>. QED
  BY <1>1, <1>2, JointInductive, PTL DEF Spec, ImplementsCanonical, Canonical!Spec
=============================================================================
