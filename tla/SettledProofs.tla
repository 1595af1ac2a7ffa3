-------------------------- MODULE SettledProofs -----------------------------
(***************************************************************************)
(* Machine-checked proofs about what hosts acknowledge or give up, under   *)
(* the hypotheses that the violation runs show to be needed: no push       *)
(* leaves its commit in a clone, and, for giving up, no lane replaces a    *)
(* command.                                                                *)
(***************************************************************************)
EXTENDS HistoryProofs

(***************************************************************************)
(* Acknowledgement, where no push leaves a local commit behind.            *)
(***************************************************************************)
Closed == {"reconciled", "superseded"}
Settled == Joint /\ SettledInv

\* Clones only ever take canonical states over.
CloneMove ==
    \A v \in Workers : unpushed'[v] = NoCommit /\ clone'[v] \in {clone[v], canon, canon'}

\* Evidence that a step closes is of a published report or a lost lease.
AckMove ==
    /\ \A w \in Workers, c \in CommandIds :
          /\ sidecar'[w][c].st \in Closed =>
                \/ sidecar[w][c].st \in Closed /\ sidecar'[w][c].run = sidecar[w][c].run
                \/ reports'[c] = ResultOf(sidecar'[w][c].run)
          /\ journal'[w][c].st = "reconciled" =>
                \/ journal[w][c].st = "reconciled" /\ journal'[w][c].run = journal[w][c].run
                \/ journal'[w][c].run.gen < canon'.gen
    /\ \A w \in Workers :
          /\ thread'[w].pc = "acking" =>
                \/ thread'[w] = thread[w]
                \/ reports'[thread'[w].run.cmd] = ResultOf(thread'[w].run)
          /\ thread'[w].pc = "confirming" =>
                \/ thread'[w] = thread[w]
                \/ thread'[w].run.gen < canon'.gen

\* What canonical history keeps over a step.
Grown ==
    /\ canon.gen \in Int /\ canon'.gen \in Int /\ canon'.gen >= canon.gen
    /\ \A c \in CommandIds : reports[c] # NoReport => reports'[c] = reports[c]

\* Every step only adds to canonical history.
LEMMA HistoryGrows ==
    ASSUME Joint, Joint', [Next]_vars PROVE Grown
<1>1. Sane /\ Sane' /\ (UNCHANGED canonVars \/ MoveEffect) /\ PointersInv /\ FilesInv
  BY HistoryMoves, JointParts
<1>2. canon.gen \in Int /\ canon'.gen \in Int /\ canon.rep \in Int
  BY <1>1 DEF Sane
<1>3. CASE UNCHANGED canonVars
  BY <1>2, <1>3 DEF Grown, canonVars
<1>4. CASE MoveEffect
  <2>1. canon'.gen > canon.gen
    BY <1>1, <1>4, PointersKept DEF MoveEffect
  <2>2. ASSUME NEW c \in CommandIds, reports[c] # NoReport
        PROVE  reports'[c] = reports[c]
    <3>1. c \in Int /\ c <= canon.rep
      BY <1>1, <2>2, Numbers DEF FilesInv
    <3>. QED
      BY <1>2, <1>4, <3>1 DEF MoveEffect
  <2>. QED
    BY <1>2, <2>1, <2>2 DEF Grown
<1>. QED
  BY <1>1, <1>3, <1>4

\* The invariant of acknowledgement is kept.
LEMMA SettledKept ==
    ASSUME Joint, Joint', SettledInv, Grown, CloneMove, AckMove
    PROVE  SettledInv'
<1>1. BehindInv /\ AckInv
  BY DEF SettledInv
<1>2. BehindInv'
  <2>1. ASSUME NEW v \in Workers PROVE clone'[v].gen <= canon'.gen
    <3>1. clone[v] \in States /\ clone[v].gen <= canon.gen
      BY <1>1, JointParts, Parts DEF BehindInv, StoreTypes
    <3>2. clone[v].gen \in Int
      BY <3>1, Numbers
    <3>. QED
      BY <3>1, <3>2 DEF CloneMove, Grown
  <2>. QED
    BY <2>1 DEF BehindInv, CloneMove
<1>3. ASSUME NEW r \in claims PROVE r.gen \in Int /\ r.cmd \in CommandIds
  BY JointParts, Parts, Numbers DEF ClaimsInv, StoreTypes
<1>4. ASSUME NEW w \in Workers, NEW c \in CommandIds
      PROVE  /\ sidecar'[w][c].st \in Closed => reports'[c] = ResultOf(sidecar'[w][c].run)
             /\ journal'[w][c].st = "reconciled" => journal'[w][c].run.gen < canon'.gen
  <2>1. sidecar[w][c].st \in Closed => reports'[c] = ResultOf(sidecar[w][c].run)
    BY <1>1, ResultIsReport DEF AckInv, Closed, Grown
  <2>2. journal[w][c].st = "reconciled" => journal[w][c].run.gen < canon'.gen
    <3>1. SUFFICES ASSUME journal[w][c].st = "reconciled"
                   PROVE  journal[w][c].run.gen < canon'.gen
      OBVIOUS
    <3>2. journal[w][c].run.gen < canon.gen /\ journal[w][c].run.gen \in Int
      BY <1>1, <1>3, <3>1, JointParts, Parts DEF AckInv, JournalInv
    <3>. QED
      BY <3>2 DEF Grown
  <2>. QED
    BY <2>1, <2>2 DEF AckMove
<1>5. ASSUME NEW w \in Workers
      PROVE  /\ thread'[w].pc = "acking" =>
                   reports'[thread'[w].run.cmd] = ResultOf(thread'[w].run)
             /\ thread'[w].pc = "confirming" => thread'[w].run.gen < canon'.gen
  <2>1. thread[w].pc \in {"acking", "confirming"} => thread[w].run \in claims
    BY JointParts, Parts DEF ThreadInv, ThreadOK
  <2>2. thread[w].pc = "acking" => reports'[thread[w].run.cmd] = ResultOf(thread[w].run)
    BY <1>1, <1>3, <2>1, ResultIsReport DEF AckInv, Grown
  <2>3. thread[w].pc = "confirming" => thread[w].run.gen < canon'.gen
    <3>1. SUFFICES ASSUME thread[w].pc = "confirming" PROVE thread[w].run.gen < canon'.gen
      OBVIOUS
    <3>2. thread[w].run.gen < canon.gen /\ thread[w].run.gen \in Int
      BY <1>1, <1>3, <2>1, <3>1 DEF AckInv
    <3>. QED
      BY <3>2 DEF Grown
  <2>. QED
    BY <2>2, <2>3 DEF AckMove
<1>6. AckInv'
  BY <1>4, <1>5 DEF AckInv, Closed
<1>. QED
  BY <1>2, <1>6 DEF SettledInv

\* A step that leaves the evidence alone, and no thread about to acknowledge.
LEMMA AckIdle ==
    ASSUME UNCHANGED evidenceVars,
           \A v \in Workers : \/ thread'[v] = thread[v]
                              \/ thread'[v].pc \notin {"acking", "confirming"}
    PROVE  AckMove
BY DEF AckMove, evidenceVars

\* A publication under no lost or late push takes its outcome from the
\* canonical branch.
LEMMA CasSettled ==
    ASSUME Settled, "stuck" \notin FaultKinds, NEW w \in Workers, NEW o \in Outcomes,
           NEW already, NEW expected, NEW cm, publish_cas(w, o, already, expected, cm)
    PROVE  /\ CloneMove
           /\ o \in {"already", "applied", "unseen"} =>
                 \/ already /\ UNCHANGED canonVars
                 \/ expected /\ Land(cm)
<1>1. clone \in [Workers -> States]
  BY JointParts, Parts DEF Settled, StoreTypes
<1>2. \A v \in Workers : unpushed[v] = NoCommit
  BY DEF Settled, SettledInv, BehindInv
<1>3. unpushed' = unpushed
  BY <1>2 DEF publish_cas, cloneVars, Fault
<1>4. clone' = clone \/ clone' = [clone EXCEPT ![w] = canon]
        \/ clone' = [clone EXCEPT ![w] = canon']
  BY <1>2 DEF publish_cas, cloneVars, Fault, Land
<1>5. \A v \in Workers : clone'[v] \in {clone[v], canon, canon'}
  BY <1>1, <1>4
<1>6. o \in {"already", "applied", "unseen"} =>
         \/ already /\ UNCHANGED canonVars
         \/ expected /\ Land(cm)
  BY DEF publish_cas
<1>. QED
  BY <1>2, <1>3, <1>5, <1>6 DEF CloneMove

\* Nothing moves in the clones.
LEMMA ClonesIdle ==
    ASSUME Settled, UNCHANGED cloneVars PROVE CloneMove
BY DEF Settled, SettledInv, BehindInv, CloneMove, cloneVars

\* A working tree without a local commit shows canonical reports only.
LEMMA LocalReportIsCanonical ==
    ASSUME Settled, NEW w \in Workers, NEW c \in CommandIds, NEW r,
           LocalReport(w, c) = ResultOf(r)
    PROVE  reports[c] = ResultOf(r)
<1>1. unpushed[w].report = NoReport
  BY DEF Settled, SettledInv, BehindInv, NoCommit
<1>. QED
  BY <1>1, ResultIsReport DEF LocalReport

\* What every step does to clones and evidence.
SettledOK == CloneMove /\ AckMove

\* A sound report publication that landed is the report of its run.
LEMMA LandedReport ==
    ASSUME Joint, NEW r, r \in claims, NEW st, NEW cm,
           cm = Commit(ReportedState(canon, r.cmd, st), NoCommand, ResultOf(r)), Land(cm)
    PROVE  reports'[r.cmd] = ResultOf(r)
<1>1. r.cmd \in CommandIds /\ reports \in [CommandIds -> Reports] /\ canon \in States
  BY JointParts, Parts DEF ClaimsInv, StoreTypes
<1>2. PICK p : p = ResultOf(r) /\ p # NoReport
  BY ResultIsReport
<1>3. cm.report = p /\ cm.new = ReportedState(canon, r.cmd, st)
  BY <1>2 DEF Commit
<1>4. cm.new.rep = r.cmd
  BY <1>1, <1>3 DEF ReportedState, States
<1>5. reports' = [reports EXCEPT ![r.cmd] = p]
  BY <1>2, <1>3, <1>4 DEF Land
<1>. QED
  BY <1>1, <1>2, <1>5

\* A recovery publication that succeeded leaves the run's lease behind.
LEMMA LandedRecovery ==
    ASSUME Joint, NEW r \in Runs, NEW cm,
           cm = Commit(RecoveryRequiredState(canon, r), NoCommand, NoReport),
           \/ matches_recovery_state(canon, r) /\ UNCHANGED canonVars
           \/ matches_execution_lease(canon, r) /\ Land(cm)
    PROVE  r.gen < canon'.gen
<1>1. canon \in States /\ canon.gen \in Int /\ r.gen \in Int
  BY JointParts, Parts, Numbers DEF StoreTypes
<1>2. CASE matches_recovery_state(canon, r) /\ UNCHANGED canonVars
  BY <1>1, <1>2 DEF matches_recovery_state, canonVars
<1>3. CASE matches_execution_lease(canon, r) /\ Land(cm)
  <2>1. canon.gen = r.gen /\ canon' = RecoveryRequiredState(canon, r)
    BY <1>3 DEF matches_execution_lease, Land, Commit
  <2>2. canon'.gen = canon.gen + 1
    BY <1>1, <2>1 DEF RecoveryRequiredState, States
  <2>. QED
    BY <1>1, <2>1, <2>2
<1>. QED
  BY <1>2, <1>3

\* A run that reports, and whose command is reported, is the one reported,
\* with its own result: its host keeps no journal of it.
LEMMA ReportedByItself ==
    ASSUME Joint, NEW w \in Workers, thread[w].pc \in Reporting, NEW r, r = thread[w].run,
           canon.rep = r.cmd
    PROVE  reports[r.cmd] = ResultOf(r)
<1>1. r \in claims /\ r.cmd \in CommandIds /\ r.owner = w
  BY JointParts, Parts DEF ThreadInv, ThreadOK, Reporting
<1>2. PICK p \in Reports : p = reports[r.cmd]
  BY <1>1, JointParts, Parts DEF StoreTypes
<1>3. p # NoReport
  <2>1. canon.rep # 0
    BY <1>1, MaxCommandAssumption DEF CommandIds
  <2>. QED
    BY <1>2, <2>1, JointParts DEF FilesInv
<1>4. p.run = r
  <2>1. UniqueLease /\ ReportsInv
    BY JointParts, Parts DEF CanonInv
  <2>. QED
    BY <1>1, <1>2, <1>3, <2>1 DEF UniqueLease, ReportsInv
<1>5. ReportOK(p) /\ journal[w][r.cmd].st = "none"
  BY <1>1, <1>2, <1>3, JointParts DEF DeadInv, ForkInv
<1>6. p.kind = "result"
  BY <1>1, <1>4, <1>5 DEF ReportOK
<1>. QED
  BY <1>2, <1>4, <1>6 DEF ResultOf, Reports

\* The two publications of a thread that an acknowledgement follows.
LEMMA PublishSettled ==
    ASSUME Settled, "stuck" \notin FaultKinds, NEW w \in Workers,
           PublishReport(w) \/ PublishNetworkRecovery(w)
    PROVE  SettledOK
<1>1. Joint /\ thread \in [Workers -> Threads]
  BY JointParts, Parts DEF Settled, LocalTypes
<1>2. PICK r \in Runs : r = thread[w].run
  BY <1>1 DEF Threads
<1>3. UNCHANGED evidenceVars
  BY DEF PublishReport, PublishNetworkRecovery
<1>4. CASE PublishReport(w)
  <2>1. thread[w].pc \in Reporting
    BY <1>4 DEF PublishReport, Reporting
  <2>2. r \in claims
    BY <1>1, <1>2, <2>1, JointParts, Parts DEF ThreadInv, ThreadOK, Reporting
  <2>3. PICK cm : cm = Commit(ReportedState(canon, r.cmd, thread[w].res.target),
                              NoCommand, ResultOf(r))
    OBVIOUS
  <2>4. PICK o \in Outcomes :
           /\ publish_cas(w, o, complete_already(w), complete_expected(w), cm)
           /\ IF ~Succeeded(o) THEN Goto(w, "unsaved")
              ELSE Goto(w, "acking") \/ Stop(w)
    BY <1>2, <1>4, <2>3 DEF PublishReport, complete_payload
  <2>6. /\ CloneMove
        /\ Succeeded(o) => \/ complete_already(w) /\ UNCHANGED canonVars
                           \/ Land(cm)
    BY <2>4, CasSettled DEF Succeeded
  <2>7. Succeeded(o) => reports'[r.cmd] = ResultOf(r)
    <3>1. CASE complete_already(w) /\ UNCHANGED canonVars
      BY <1>1, <1>2, <2>1, <3>1, ReportedByItself DEF complete_already, canonVars
    <3>2. CASE Land(cm)
      BY <1>1, <2>2, <2>3, <3>2, LandedReport
    <3>. QED
      BY <2>6, <3>1, <3>2
  <2>8. {"unsaved", "acking"} \subseteq ThreadStates
    BY DEF ThreadStates
  <2>9. /\ \A v \in Workers \ {w} : thread'[v] = thread[v]
        /\ \/ thread'[w].pc \in {"unsaved", "idle"}
           \/ Succeeded(o) /\ thread'[w].pc = "acking" /\ thread'[w].run = r
    BY <1>1, <1>2, <2>4, <2>8, GotoEffect, StopEffect
  <2>10. AckMove
    BY <1>3, <2>7, <2>9 DEF AckMove, evidenceVars
  <2>. QED
    BY <2>6, <2>10 DEF SettledOK
<1>5. CASE PublishNetworkRecovery(w)
  <2>1. PICK cm : cm = Commit(RecoveryRequiredState(canon, r), NoCommand, NoReport)
    OBVIOUS
  <2>2. PICK o \in Outcomes :
           /\ publish_cas(w, o, matches_recovery_state(canon, r),
                          matches_execution_lease(canon, r), cm)
           /\ IF Succeeded(o) THEN Goto(w, "confirming") ELSE Stop(w)
    BY <1>2, <1>5, <2>1 DEF PublishNetworkRecovery
  <2>3. /\ CloneMove
        /\ Succeeded(o) => \/ matches_recovery_state(canon, r) /\ UNCHANGED canonVars
                           \/ matches_execution_lease(canon, r) /\ Land(cm)
    BY <2>2, CasSettled DEF Succeeded
  <2>4. Succeeded(o) => r.gen < canon'.gen
    BY <1>1, <2>1, <2>3, LandedRecovery
  <2>5. "confirming" \in ThreadStates
    BY DEF ThreadStates
  <2>6. /\ \A v \in Workers \ {w} : thread'[v] = thread[v]
        /\ \/ thread'[w].pc = "idle"
           \/ Succeeded(o) /\ thread'[w].pc = "confirming" /\ thread'[w].run = r
    BY <1>1, <1>2, <2>2, <2>5, GotoEffect, StopEffect
  <2>7. AckMove
    BY <1>3, <2>4, <2>6 DEF AckMove, evidenceVars
  <2>. QED
    BY <2>3, <2>7 DEF SettledOK
<1>. QED
  BY <1>4, <1>5

\* A thread saves or acknowledges its sidecar.
LEMMA SaveSettled ==
    ASSUME Settled, NEW w \in Workers, SaveTyped(w) \/ SaveAfterFailure(w) \/ AckReport(w)
    PROVE  SettledOK
<1>1. /\ Joint /\ AckInv /\ thread \in [Workers -> Threads]
      /\ sidecar \in [Workers -> [CommandIds -> Sidecars]]
  BY JointParts, Parts DEF Settled, SettledInv, LocalTypes
<1>2. PICK r \in Runs : r = thread[w].run
  BY <1>1 DEF Threads
<1>3. PICK c \in CommandIds : c = r.cmd
  BY <1>1, <1>2, JointParts, Parts
     DEF SaveTyped, SaveAfterFailure, AckReport, ThreadInv, ThreadOK
<1>4. UNCHANGED <<canonVars, cloneVars>> /\ journal' = journal
  BY DEF SaveTyped, SaveAfterFailure, AckReport
<1>5. \A v \in Workers : \/ thread'[v] = thread[v]
                         \/ thread'[v].pc \notin {"acking", "confirming"}
  <2>1. "saved" \in ThreadStates
    BY DEF ThreadStates
  <2>. QED
    BY <1>1, <2>1, GotoEffect, StopEffect DEF SaveTyped, SaveAfterFailure, AckReport
<1>6. \A v \in Workers, d \in CommandIds :
         v # w \/ d # c => sidecar'[v][d] = sidecar[v][d]
  BY <1>1, <1>2, <1>3 DEF SaveTyped, SaveAfterFailure, AckReport, save_worker_pending_report
<1>7. sidecar'[w][c].st \in Closed => reports[c] = ResultOf(sidecar'[w][c].run)
  <2>1. CASE save_worker_pending_report(w)
    BY <1>1, <1>2, <1>3, <2>1 DEF save_worker_pending_report, Closed
  <2>2. CASE AckReport(w)
    <3>1. r \in claims /\ reports[c] = ResultOf(r) /\ sidecar[w][c].st # "none"
      BY <1>1, <1>2, <1>3, <2>2, JointParts, Parts DEF AckReport, ThreadInv, ThreadOK, AckInv
    <3>2. sidecar[w][c].run = r
      <4>1. UniqueLease /\ SidecarInv
        BY <1>1, JointParts, Parts
      <4>. QED
        BY <1>3, <3>1, <4>1 DEF UniqueLease, SidecarInv
    <3>3. sidecar'[w][c].run = sidecar[w][c].run
      BY <1>1, <1>2, <1>3, <2>2 DEF AckReport, Sidecars
    <3>. QED
      BY <3>1, <3>2, <3>3
  <2>. QED
    BY <2>1, <2>2 DEF SaveTyped, SaveAfterFailure
<1>8. AckMove
  <2>1. ASSUME NEW v \in Workers, NEW d \in CommandIds, sidecar'[v][d].st \in Closed
        PROVE  \/ sidecar[v][d].st \in Closed /\ sidecar'[v][d].run = sidecar[v][d].run
               \/ reports[d] = ResultOf(sidecar'[v][d].run)
    <3>1. CASE v = w /\ d = c
      BY <1>7, <2>1, <3>1
    <3>2. CASE v # w \/ d # c
      BY <1>6, <2>1, <3>2
    <3>. QED
      BY <3>1, <3>2
  <2>. QED
    BY <1>4, <1>5, <2>1 DEF AckMove, canonVars
<1>. QED
  BY <1>4, <1>8, ClonesIdle DEF SettledOK

\* An interrupted thread writes, arms or acknowledges its journal.
LEMMA JournalSettled ==
    ASSUME Settled, NEW w \in Workers, WriteJournal(w) \/ SavePendingText(w) \/ AckJournal(w)
    PROVE  SettledOK
<1>1. /\ Joint /\ AckInv /\ thread \in [Workers -> Threads]
      /\ journal \in [Workers -> [CommandIds -> Journals]]
  BY JointParts, Parts DEF Settled, SettledInv, LocalTypes
<1>2. PICK r \in Runs : r = thread[w].run
  BY <1>1 DEF Threads
<1>3. PICK c \in CommandIds : c = r.cmd
  BY <1>1, <1>2, JointParts, Parts
     DEF WriteJournal, SavePendingText, AckJournal, ThreadInv, ThreadOK
<1>4. UNCHANGED <<canonVars, cloneVars>> /\ sidecar' = sidecar
  BY DEF WriteJournal, SavePendingText, AckJournal
<1>5. \A v \in Workers : \/ thread'[v] = thread[v]
                         \/ thread'[v].pc \notin {"acking", "confirming"}
  <2>1. {"journaled", "armed"} \subseteq ThreadStates
    BY DEF ThreadStates
  <2>. QED
    BY <1>1, <2>1, GotoEffect, StopEffect DEF WriteJournal, SavePendingText, AckJournal
<1>6. \A v \in Workers, d \in CommandIds :
         v # w \/ d # c => journal'[v][d] = journal[v][d]
  BY <1>1, <1>2, <1>3 DEF WriteJournal, SavePendingText, AckJournal
<1>7. journal'[w][c].st = "reconciled" =>
         \/ journal[w][c].st = "reconciled" /\ journal'[w][c].run = journal[w][c].run
         \/ journal'[w][c].run.gen < canon.gen
  <2>1. CASE WriteJournal(w)
    BY <1>1, <1>2, <1>3, <2>1 DEF WriteJournal
  <2>2. CASE SavePendingText(w)
    <3>1. PICK o \in Journals : o = journal[w][c]
      BY <1>1
    <3>2. PICK e : e = [o EXCEPT !.text = TRUE]
      OBVIOUS
    <3>3. journal'[w][c] = e
      BY <1>1, <1>2, <1>3, <2>2, <3>1, <3>2 DEF SavePendingText
    <3>. QED
      BY <3>1, <3>2, <3>3 DEF Journals
  <2>3. CASE AckJournal(w)
    <3>1. r \in claims /\ r.gen < canon.gen /\ journal[w][c].st # "none"
      BY <1>1, <1>2, <1>3, <2>3, JointParts, Parts DEF AckJournal, ThreadInv, ThreadOK, AckInv
    <3>2. journal[w][c].run = r
      <4>1. UniqueLease /\ JournalInv
        BY <1>1, JointParts, Parts
      <4>. QED
        BY <1>3, <3>1, <4>1 DEF UniqueLease, JournalInv
    <3>3. journal'[w][c].run = journal[w][c].run
      BY <1>1, <1>2, <1>3, <2>3 DEF AckJournal, Journals
    <3>. QED
      BY <3>1, <3>2, <3>3
  <2>. QED
    BY <2>1, <2>2, <2>3
<1>8. AckMove
  <2>1. ASSUME NEW v \in Workers, NEW d \in CommandIds, journal'[v][d].st = "reconciled"
        PROVE  \/ journal[v][d].st = "reconciled" /\ journal'[v][d].run = journal[v][d].run
               \/ journal'[v][d].run.gen < canon.gen
    <3>1. CASE v = w /\ d = c
      BY <1>7, <2>1, <3>1
    <3>2. CASE v # w \/ d # c
      BY <1>6, <2>1, <3>2
    <3>. QED
      BY <3>1, <3>2
  <2>. QED
    BY <1>4, <1>5, <2>1 DEF AckMove, canonVars
<1>. QED
  BY <1>4, <1>8, ClonesIdle DEF SettledOK

\* What marking a sidecar changes.
LEMMA SidecarMark ==
    ASSUME Joint, NEW w \in Workers, NEW c \in CommandIds, NEW st, MarkSidecar(w, c, st)
    PROVE  /\ sidecar'[w][c].st = st /\ sidecar'[w][c].run = sidecar[w][c].run
           /\ \A v \in Workers, d \in CommandIds :
                 v # w \/ d # c => sidecar'[v][d] = sidecar[v][d]
<1>1. sidecar \in [Workers -> [CommandIds -> Sidecars]]
  BY JointParts, Parts DEF LocalTypes
<1>2. PICK o \in Sidecars : o = sidecar[w][c]
  BY <1>1
<1>3. PICK e : e = [o EXCEPT !.st = st]
  OBVIOUS
<1>4. e.run = o.run /\ e.st = st
  BY <1>2, <1>3 DEF Sidecars
<1>5. /\ sidecar'[w][c] = e
      /\ \A v \in Workers, d \in CommandIds :
            v # w \/ d # c => sidecar'[v][d] = sidecar[v][d]
  BY <1>1, <1>2, <1>3 DEF MarkSidecar
<1>. QED
  BY <1>2, <1>4, <1>5

\* What marking a journal changes.
LEMMA JournalMark ==
    ASSUME Joint, NEW w \in Workers, NEW c \in CommandIds, NEW st, MarkJournal(w, c, st)
    PROVE  /\ journal'[w][c].st = st /\ journal'[w][c].run = journal[w][c].run
           /\ \A v \in Workers, d \in CommandIds :
                 v # w \/ d # c => journal'[v][d] = journal[v][d]
<1>1. journal \in [Workers -> [CommandIds -> Journals]]
  BY JointParts, Parts DEF LocalTypes
<1>2. PICK o \in Journals : o = journal[w][c]
  BY <1>1
<1>3. PICK e : e = [o EXCEPT !.st = st]
  OBVIOUS
<1>4. e.run = o.run /\ e.st = st
  BY <1>2, <1>3 DEF Journals
<1>5. /\ journal'[w][c] = e
      /\ \A v \in Workers, d \in CommandIds :
            v # w \/ d # c => journal'[v][d] = journal[v][d]
  BY <1>1, <1>2, <1>3 DEF MarkJournal
<1>. QED
  BY <1>2, <1>4, <1>5

\* A reconciler that closes a sidecar only with its report published.
LEMMA SidecarSettled ==
    ASSUME Joint, NEW w \in Workers, NEW c \in CommandIds,
           UNCHANGED <<thread, journal>>,
           \/ sidecar' = sidecar
           \/ \E st : /\ MarkSidecar(w, c, st)
                      /\ st \in Closed => reports'[c] = ResultOf(sidecar[w][c].run)
    PROVE  AckMove
<1>1. CASE sidecar' = sidecar
  BY <1>1 DEF AckMove
<1>2. ASSUME NEW st, MarkSidecar(w, c, st),
             st \in Closed => reports'[c] = ResultOf(sidecar[w][c].run)
      PROVE  AckMove
  <2>1. ASSUME NEW v \in Workers, NEW d \in CommandIds, sidecar'[v][d].st \in Closed
        PROVE  \/ sidecar[v][d].st \in Closed /\ sidecar'[v][d].run = sidecar[v][d].run
               \/ reports'[d] = ResultOf(sidecar'[v][d].run)
    <3>1. CASE v = w /\ d = c
      BY <1>2, <2>1, <3>1, SidecarMark
    <3>2. CASE v # w \/ d # c
      BY <1>2, <2>1, <3>2, SidecarMark
    <3>. QED
      BY <3>1, <3>2
  <2>. QED
    BY <2>1 DEF AckMove
<1>. QED
  BY <1>1, <1>2

\* A pending journal is closed as reconciled only when its lease is lost.
LEMMA ReconcileJournalSettled ==
    ASSUME Settled, "stuck" \notin FaultKinds, NEW w \in Workers, NEW c \in CommandIds,
           _reconcile_one_journal(w, c)
    PROVE  SettledOK
<1>1. Joint /\ UNCHANGED <<thread, sidecar>> /\ journal[w][c].st = "pending"
  BY DEF Settled, _reconcile_one_journal
<1>2. PICK r \in Runs : r = journal[w][c].run
  BY <1>1, JointParts, Parts DEF LocalTypes, Journals
<1>3. ASSUME \/ journal' = journal
             \/ \E st : /\ MarkJournal(w, c, st)
                        /\ st = "reconciled" => r.gen < canon'.gen
      PROVE  AckMove
  <2>1. CASE journal' = journal
    BY <1>1, <2>1 DEF AckMove
  <2>2. ASSUME NEW st, MarkJournal(w, c, st), st = "reconciled" => r.gen < canon'.gen
        PROVE  AckMove
    <3>1. ASSUME NEW v \in Workers, NEW d \in CommandIds, journal'[v][d].st = "reconciled"
          PROVE  \/ journal[v][d].st = "reconciled" /\ journal'[v][d].run = journal[v][d].run
                 \/ journal'[v][d].run.gen < canon'.gen
      <4>1. CASE v = w /\ d = c
        BY <1>1, <1>2, <2>2, <3>1, <4>1, JournalMark
      <4>2. CASE v # w \/ d # c
        BY <1>1, <2>2, <3>1, <4>2, JournalMark
      <4>. QED
        BY <4>1, <4>2
    <3>. QED
      BY <1>1, <3>1 DEF AckMove
  <2>. QED
    BY <1>3, <2>1, <2>2
<1>4. PICK cm : cm = Commit(RecoveryRequiredState(canon, r), NoCommand, NoReport)
  OBVIOUS
<1>5. CASE /\ UNCHANGED <<canonVars, cloneVars>>
           /\ \/ MarkJournal(w, c, "superseded") \/ MarkJournal(w, c, "conflict")
              \/ MarkJournal(w, c, "reconciled") /\ matches_recovery_state(clone[w], r)
  <2>1. matches_recovery_state(clone[w], r) => r.gen < canon.gen
    <3>1. /\ clone[w].gen <= canon.gen /\ clone[w] \in States /\ canon \in States
          /\ canon.gen \in Int /\ r.gen \in Int
      BY <1>1, <1>2, JointParts, Parts, Numbers
         DEF Settled, SettledInv, BehindInv, StoreTypes
    <3>2. clone[w].gen \in Int
      BY <3>1, Numbers
    <3>. QED
      BY <3>1, <3>2 DEF matches_recovery_state
  <2>2. \E st : MarkJournal(w, c, st) /\ (st = "reconciled" => r.gen < canon'.gen)
    BY <1>5, <2>1 DEF canonVars
  <2>. QED
    BY <1>3, <1>5, <2>2, ClonesIdle DEF SettledOK
<1>6. CASE \E o \in Outcomes :
             /\ publish_cas(w, o, matches_recovery_state(canon, r),
                            matches_execution_lease(canon, r), cm)
             /\ IF Succeeded(o) THEN MarkJournal(w, c, "reconciled")
                ELSE IF o = "conflict" THEN MarkJournal(w, c, "conflict")
                ELSE UNCHANGED journal
  <2>1. PICK o \in Outcomes :
             /\ publish_cas(w, o, matches_recovery_state(canon, r),
                            matches_execution_lease(canon, r), cm)
             /\ IF Succeeded(o) THEN MarkJournal(w, c, "reconciled")
                ELSE IF o = "conflict" THEN MarkJournal(w, c, "conflict")
                ELSE UNCHANGED journal
    BY <1>6
  <2>2. /\ CloneMove
        /\ Succeeded(o) => \/ matches_recovery_state(canon, r) /\ UNCHANGED canonVars
                           \/ matches_execution_lease(canon, r) /\ Land(cm)
    BY <2>1, CasSettled DEF Succeeded
  <2>3. Succeeded(o) => r.gen < canon'.gen
    BY <1>1, <1>4, <2>2, LandedRecovery
  <2>4. \/ journal' = journal
        \/ \E st : MarkJournal(w, c, st) /\ (st = "reconciled" => r.gen < canon'.gen)
    BY <2>1, <2>3
  <2>. QED
    BY <1>3, <2>2, <2>4 DEF SettledOK
<1>. QED
  BY <1>2, <1>4, <1>5, <1>6 DEF _reconcile_one_journal

\* Publication-only reconciliation closes a sidecar with its exact report.
LEMMA ReconcileOneSettled ==
    ASSUME Settled, "stuck" \notin FaultKinds, NEW w \in Workers, NEW c \in CommandIds,
           sidecar[w][c].st # "none", _reconcile_one(w, c), UNCHANGED <<thread, journal>>
    PROVE  SettledOK
<1>1. Joint
  BY DEF Settled
<1>2. PICK e : e = sidecar[w][c]
  OBVIOUS
<1>3. PICK r, st : r = e.run /\ st = e.res.target
  OBVIOUS
<1>4. r \in claims /\ r.cmd = c
  BY <1>1, <1>2, <1>3, JointParts, Parts DEF SidecarInv
<1>5. PICK cm : cm = Commit(ReportedState(canon, r.cmd, st), NoCommand, ResultOf(r))
  OBVIOUS
<1>6. PICK d : d = pending_report_decision(w, c)
  OBVIOUS
<1>7. d = "superseded" => reports[c] = ResultOf(r)
  <2>1. d = "superseded" => LocalReport(w, c) = ResultOf(r)
    BY <1>2, <1>3, <1>6 DEF pending_report_decision, ReportMatches
  <2>. QED
    BY <2>1, LocalReportIsCanonical
<1>8. d \in {"superseded", "conflict", "publish"}
  BY <1>6 DEF pending_report_decision
<1>9. CASE UNCHANGED <<canonVars, cloneVars>> /\ d # "publish" /\ MarkSidecar(w, c, d)
  <2>1. d \in Closed => reports'[c] = ResultOf(sidecar[w][c].run)
    BY <1>2, <1>3, <1>7, <1>8, <1>9 DEF Closed, canonVars
  <2>2. AckMove
    BY <1>1, <1>9, <2>1, SidecarSettled
  <2>. QED
    BY <1>9, <2>2, ClonesIdle DEF SettledOK
<1>10. CASE \E o \in Outcomes :
              /\ publish_cas(w, o,
                   /\ reports[c] = ResultOf(r)
                   /\ canon.rep >= c
                   /\ ~matches_execution_lease(canon, r),
                   /\ reports[c] = NoReport
                   /\ canon.rep = c - 1
                   /\ matches_execution_lease(canon, r), cm)
              /\ IF Succeeded(o) THEN MarkSidecar(w, c, "reconciled")
                 ELSE IF o = "conflict" THEN MarkSidecar(w, c, "conflict")
                 ELSE UNCHANGED sidecar
  <2>1. PICK o \in Outcomes :
              /\ publish_cas(w, o,
                   /\ reports[c] = ResultOf(r)
                   /\ canon.rep >= c
                   /\ ~matches_execution_lease(canon, r),
                   /\ reports[c] = NoReport
                   /\ canon.rep = c - 1
                   /\ matches_execution_lease(canon, r), cm)
              /\ IF Succeeded(o) THEN MarkSidecar(w, c, "reconciled")
                 ELSE IF o = "conflict" THEN MarkSidecar(w, c, "conflict")
                 ELSE UNCHANGED sidecar
    BY <1>10
  <2>2. /\ CloneMove
        /\ Succeeded(o) => \/ reports[c] = ResultOf(r) /\ UNCHANGED canonVars
                           \/ Land(cm)
    BY <2>1, CasSettled DEF Succeeded
  <2>3. Succeeded(o) => reports'[c] = ResultOf(r)
    <3>1. CASE reports[c] = ResultOf(r) /\ UNCHANGED canonVars
      BY <3>1 DEF canonVars
    <3>2. CASE Land(cm)
      BY <1>1, <1>4, <1>5, <3>2, LandedReport
    <3>. QED
      BY <2>2, <3>1, <3>2
  <2>4. \/ sidecar' = sidecar
        \/ \E m : /\ MarkSidecar(w, c, m)
                  /\ m \in Closed => reports'[c] = ResultOf(sidecar[w][c].run)
    BY <1>2, <1>3, <2>1, <2>3 DEF Closed
  <2>5. AckMove
    BY <1>1, <2>4, SidecarSettled
  <2>. QED
    BY <2>2, <2>5 DEF SettledOK
<1>. QED
  BY <1>2, <1>3, <1>4, <1>5, <1>6, <1>9, <1>10 DEF _reconcile_one

\* Typed recovery closes a sidecar as superseded only with its exact report.
LEMMA PendingReportSettled ==
    ASSUME Settled, "stuck" \notin FaultKinds, NEW w \in Workers, NEW c \in CommandIds,
           ReconcileLegacyReport(w, c) \/ _reconcile_typed_report(w, c)
    PROVE  SettledOK
<1>1. Joint /\ UNCHANGED <<thread, journal>> /\ sidecar[w][c].st # "none"
  BY DEF Settled, ReconcileLegacyReport, _reconcile_typed_report
<1>2. CASE _reconcile_one(w, c)
  BY <1>1, <1>2, ReconcileOneSettled
<1>3. CASE /\ TypedClassification(w, c) = "SUPERSEDED"
           /\ MarkSidecar(w, c, "superseded") /\ UNCHANGED <<canonVars, cloneVars>>
  <2>1. PICK e, r, s : e = sidecar[w][c] /\ r = e.run /\ s = clone[w]
    OBVIOUS
  <2>2. r.cmd = c
    BY <1>1, <2>1, JointParts, Parts DEF SidecarInv
  <2>3. \/ s.rep >= c /\ ReportMatches(w, e, c)
        \/ e.st \in Closed
    <3>1. CASE s.rep >= c
      BY <1>3, <2>1, <3>1 DEF TypedClassification
    <3>2. CASE ~(s.rep >= c)
      <4>1. classify_recovery(s, e, commands[c].kind) = "SUPERSEDED"
        BY <1>3, <2>1, <3>2 DEF TypedClassification
      <4>2. relation_to(s, e.run) # "REPORT_ALREADY_PUBLISHED"
        BY <2>1, <2>2, <3>2 DEF relation_to
      <4>. QED
        BY <4>1, <4>2 DEF classify_recovery, Closed
    <3>. QED
      BY <3>1, <3>2
  <2>4. reports[c] = ResultOf(r)
    <3>1. CASE ReportMatches(w, e, c)
      BY <2>1, <3>1, LocalReportIsCanonical DEF ReportMatches
    <3>2. CASE e.st \in Closed
      BY <2>1, <3>2 DEF Settled, SettledInv, AckInv, Closed
    <3>. QED
      BY <2>3, <3>1, <3>2
  <2>5. AckMove
    BY <1>1, <1>3, <2>1, <2>4, SidecarSettled DEF canonVars
  <2>. QED
    BY <1>3, <2>5, ClonesIdle DEF SettledOK
<1>4. CASE _transition_typed_recovery(w, c)
  <2>1. sidecar' = sidecar \/ MarkSidecar(w, c, "conflict")
    BY <1>4 DEF _transition_typed_recovery
  <2>2. "conflict" \notin Closed
    BY DEF Closed
  <2>3. AckMove
    BY <1>1, <2>1, <2>2, SidecarSettled
  <2>4. PICK r, cm :
           /\ r = sidecar[w][c].run
           /\ cm = Commit(RecoveryRequiredState(canon, NoRun), NoCommand, NoReport)
    OBVIOUS
  <2>5. CASE \E o \in Outcomes :
               publish_cas(w, o, canon.status = "RECOVERY_REQUIRED",
                           matches_execution_lease(canon, r), cm)
    BY <2>3, <2>5, CasSettled DEF SettledOK
  <2>6. CASE UNCHANGED cloneVars
    BY <2>3, <2>6, ClonesIdle DEF SettledOK
  <2>. QED
    BY <1>4, <2>4, <2>5, <2>6 DEF _transition_typed_recovery
<1>. QED
  BY <1>2, <1>3, <1>4 DEF ReconcileLegacyReport, _reconcile_typed_report

\* Publications of a host that leave the evidence alone.
LEMMA HostPublicationsSettled ==
    ASSUME Settled, "stuck" \notin FaultKinds, NEW w \in Workers,
           \/ ClaimCommand(w) \/ mark_expired_lease(w) \/ GatewayPublish(w)
           \/ \E c \in CommandIds : resolve_resolution(w, c)
    PROVE  SettledOK
<1>1. thread \in [Workers -> Threads]
  BY JointParts, Parts DEF Settled, LocalTypes
<1>2. PICK o, already, expected, cm :
         o \in Outcomes /\ publish_cas(w, o, already, expected, cm)
  BY DEF ClaimCommand, mark_expired_lease, GatewayPublish, resolve_resolution
<1>3. CloneMove
  BY <1>2, CasSettled
<1>4. UNCHANGED evidenceVars
  BY DEF ClaimCommand, mark_expired_lease, GatewayPublish, resolve_resolution, ThreadsUntouched
<1>5. \A v \in Workers : \/ thread'[v] = thread[v]
                         \/ thread'[v].pc \notin {"acking", "confirming"}
  <2>1. CASE ClaimCommand(w)
    <3>1. "claimed" \in ThreadStates
      BY DEF ThreadStates
    <3>2. Goto(w, "claimed") \/ Stop(w)
      BY <2>1 DEF ClaimCommand
    <3>. QED
      BY <1>1, <3>1, <3>2, GotoEffect, StopEffect
  <2>2. CASE ~ClaimCommand(w)
    BY <2>2 DEF mark_expired_lease, GatewayPublish, resolve_resolution, ThreadsUntouched
  <2>. QED
    BY <2>1, <2>2
<1>. QED
  BY <1>3, <1>4, <1>5, AckIdle DEF SettledOK

\* Steps of a thread that publish nothing and leave the evidence alone.
LEMMA ThreadSettled ==
    ASSUME Settled, NEW w \in Workers,
           \/ TakeReady(w) \/ AbandonClaim(w) \/ Crash(w) \/ Launch(w)
           \/ LaunchFails(w) \/ Finish(w) \/ Interrupt(w)
    PROVE  SettledOK
<1>1. thread \in [Workers -> Threads]
  BY JointParts, Parts DEF Settled, LocalTypes
<1>2. UNCHANGED cloneVars /\ UNCHANGED evidenceVars
  BY DEF TakeReady, AbandonClaim, Crash, Launch, LaunchFails, Finish, Interrupt
<1>3. \A v \in Workers : \/ thread'[v] = thread[v]
                         \/ thread'[v].pc \notin {"acking", "confirming"}
  <2>1. CASE TakeReady(w)
    BY <1>1, <2>1 DEF TakeReady
  <2>2. CASE AbandonClaim(w) \/ Crash(w)
    BY <1>1, <2>2, StopEffect DEF AbandonClaim, Crash
  <2>3. CASE Launch(w) \/ Interrupt(w)
    <3>1. {"running", "interrupted"} \subseteq ThreadStates
      BY DEF ThreadStates
    <3>. QED
      BY <1>1, <2>3, <3>1, GotoEffect DEF Launch, Interrupt
  <2>4. CASE LaunchFails(w) \/ Finish(w)
    <3>1. PICK res : thread' = [thread EXCEPT ![w].pc = "done", ![w].res = res]
      BY <2>4 DEF LaunchFails, Finish
    <3>2. /\ thread'[w].pc = "done"
          /\ \A v \in Workers \ {w} : thread'[v] = thread[v]
      BY <1>1, <3>1 DEF Threads
    <3>. QED
      BY <3>2
  <2>. QED
    BY <2>1, <2>2, <2>3, <2>4
<1>. QED
  BY <1>2, <1>3, ClonesIdle, AckIdle DEF SettledOK

\* Every step settles.
LEMMA EveryStepSettled ==
    ASSUME Settled, "stuck" \notin FaultKinds, [Next]_vars PROVE SettledOK
<1>1. ASSUME UNCHANGED cloneVars, UNCHANGED <<thread, evidenceVars>> PROVE SettledOK
  BY <1>1, ClonesIdle, AckIdle DEF SettledOK
<1>2. CASE LeaseDeadline
  BY <1>1, <1>2 DEF LeaseDeadline
<1>3. ASSUME NEW w \in Workers, LateLanding(w) \/ OperatorReset(w) PROVE FALSE
  BY <1>3 DEF LateLanding, OperatorReset, Settled, SettledInv, BehindInv
<1>4. CASE OperatorStep
  <2>1. ASSUME NEW w \in Workers, NEW c \in CommandIds, resolve_resolution(w, c)
        PROVE  SettledOK
    BY <2>1, HostPublicationsSettled
  <2>2. CASE publish_manual_priority \/ repair_unclaimed_command \/ PublishMalformed
             \/ PauseForOwner \/ AcceptFinalDelivery
    <3>1. PICK cm : Publish(cm)
      BY <2>2 DEF publish_manual_priority, repair_unclaimed_command, PublishMalformed,
                  PauseForOwner, AcceptFinalDelivery
    <3>. QED
      BY <1>1, <3>1 DEF Publish, ThreadsUntouched
  <2>3. CASE start_manual \/ withdraw_and_manual_start
    <3>1. PICK c, k : ManualClaim(c, k)
      BY <2>3 DEF start_manual, withdraw_and_manual_start
    <3>. QED
      BY <1>1, <3>1 DEF ManualClaim, ThreadsUntouched
  <2>4. ASSUME NEW r \in manuals, finish_manual(r) \/ FinishManualLate(r) PROVE SettledOK
    BY <1>1, <2>4 DEF finish_manual, FinishManualLate, ThreadsUntouched
  <2>. QED
    BY <1>3, <1>4, <2>1, <2>2, <2>3, <2>4 DEF OperatorStep
<1>5. ASSUME NEW w \in Workers, HostStep(w) PROVE SettledOK
  <2>1. CASE sync_to_remote(w)
    <3>1. clone \in [Workers -> States]
      BY JointParts, Parts DEF Settled, StoreTypes
    <3>2. \A v \in Workers : clone'[v] \in {clone[v], canon, canon'}
      BY <2>1, <3>1 DEF sync_to_remote
    <3>3. CloneMove
      BY <2>1, <3>2 DEF sync_to_remote, CloneMove, Settled, SettledInv, BehindInv
    <3>4. AckMove
      BY <2>1, AckIdle DEF sync_to_remote
    <3>. QED
      BY <3>3, <3>4 DEF SettledOK
  <2>2. CASE EndPass(w)
    BY <1>1, <2>2 DEF EndPass
  <2>3. CASE GatewayPublish(w)
    BY <2>3, HostPublicationsSettled
  <2>4. CASE Crash(w)
    BY <2>4, ThreadSettled
  <2>5. CASE WorkerStep(w)
    BY <2>5, ThreadSettled, HostPublicationsSettled, SaveSettled, PublishSettled,
       JournalSettled DEF WorkerStep
  <2>6. CASE RecoveryStep(w)
    BY <2>6, HostPublicationsSettled, ReconcileJournalSettled, PendingReportSettled
       DEF RecoveryStep
  <2>. QED
    BY <1>3, <1>5, <2>1, <2>2, <2>3, <2>4, <2>5, <2>6 DEF HostStep
<1>6. CASE UNCHANGED vars
  BY <1>1, <1>6 DEF vars, cloneVars, evidenceVars
<1>. QED
  BY <1>2, <1>4, <1>5, <1>6 DEF Next

\* Where no push leaves a local commit behind, clones lag canonical state and
\* what a Worker closes as published is published (publish_cas, _write_status,
\* _mark_journal).
THEOREM SettledInductive == "stuck" \notin FaultKinds => (Spec => []SettledInv)
<1>. SUFFICES ASSUME "stuck" \notin FaultKinds PROVE Spec => []SettledInv
  OBVIOUS
<1>1. Init => Settled
  <2>1. SUFFICES ASSUME Init PROVE SettledInv
    BY InitJoint DEF Settled
  <2>2. BehindInv
    <3>1. Genesis.gen <= Genesis.gen
      BY DEF Genesis
    <3>. QED
      BY <2>1, <3>1 DEF Init, BehindInv
  <2>3. AckInv
    BY <2>1 DEF Init, AckInv, IdleThread, NoSidecar, NoJournal
  <2>. QED
    BY <2>2, <2>3 DEF SettledInv
<1>2. Settled /\ [Next]_vars => Settled'
  <2>1. SUFFICES ASSUME Settled, [Next]_vars PROVE Settled'
    OBVIOUS
  <2>2. Joint /\ Joint' /\ SettledInv
    BY <2>1, NextJoint DEF Settled
  <2>3. Grown /\ CloneMove /\ AckMove
    BY <2>1, <2>2, HistoryGrows, EveryStepSettled DEF SettledOK
  <2>4. SettledInv'
    BY <2>2, <2>3, SettledKept
  <2>. QED
    BY <2>2, <2>4 DEF Settled
<1>3. Settled => SettledInv
  BY DEF Settled
<1>. QED
  BY <1>1, <1>2, <1>3, PTL DEF Spec

\* Evidence that a Worker closed is published, on every host, whatever claims
\* race, publications are lost or land unseen, and Workers crash.  A push that
\* leaves its commit in the clone is excluded: with it the code closes
\* evidence of reports that are only local.
THEOREM AcknowledgedPublished == "stuck" \notin FaultKinds => (Spec => []AcknowledgedIsPublished)
<1>. SUFFICES ASSUME "stuck" \notin FaultKinds PROVE Spec => []AcknowledgedIsPublished
  OBVIOUS
<1>1. IInv /\ SettledInv => AcknowledgedIsPublished
  <2>1. SUFFICES ASSUME IInv, SettledInv, NEW w \in Workers, NEW c \in CommandIds
                 PROVE  /\ sidecar[w][c].st \in {"reconciled", "superseded"} =>
                              reports[c] = ResultOf(sidecar[w][c].run)
                        /\ journal[w][c].st = "reconciled" =>
                              ~matches_execution_lease(canon, journal[w][c].run)
    BY DEF AcknowledgedIsPublished
  <2>2. AckInv /\ canon \in States /\ canon.gen \in Int
    BY <2>1, Parts, Numbers DEF SettledInv, StoreTypes
  <2>. QED
    BY <2>2 DEF AckInv, matches_execution_lease
<1>2. Spec => []SettledInv
  BY SettledInductive
<1>. QED
  BY <1>1, <1>2, Inductive, PTL

(***************************************************************************)
(* Consecutive command ids.                                                *)
(***************************************************************************)
\* The setting in which pending_report.py is right to take command ids to be
\* consecutive: besides ordinary commands only finalization and Owner pauses,
\* and no push that leaves its commit in the clone.
NoReplacement == "stuck" \notin FaultKinds /\ Lanes \subseteq {"finalize", "owner"}
Consecutive == Settled /\ ConsecutiveInv

\* No step but a publication moves the queue pointer.
SameCommand == canon'.cmd = canon.cmd /\ commands' = commands

\* A new command is the next one, and well formed.
NextCommand ==
    /\ canon.status \in {"REPORT_READY", "HUMAN_REQUIRED"}
    /\ canon'.status \in PENDING_STATES
    /\ canon'.cmd = canon.cmd + 1 /\ canon'.rep = canon.rep
    /\ commands'[canon'.cmd].valid

\* The payloads that leave the queue pointer alone.
LEMMA PayloadKeepsCommand ==
    ASSUME Joint
    PROVE  /\ \A r : RecoveryRequiredState(canon, r).cmd = canon.cmd
           /\ \A r : ClaimedState(canon, r).cmd = canon.cmd
           /\ \A c, st : ReportedState(canon, c, st).cmd = canon.cmd
           /\ \A c : ResolvedState(canon, c).cmd = canon.cmd
           /\ \A st, g : [canon EXCEPT !.status = st, !.gen = g].cmd = canon.cmd
<1>1. canon \in States
  BY JointParts, Parts DEF StoreTypes
<1>. QED
  BY <1>1 DEF States, RecoveryRequiredState, ClaimedState, ReportedState, ResolvedState

\* Landing a commit without a command file.
LEMMA LandKeepsCommand ==
    ASSUME NEW n, n.cmd = canon.cmd, NEW p, Land(Commit(n, NoCommand, p))
    PROVE  SameCommand
BY DEF Land, Commit, SameCommand

\* A publication without a command file.
LEMMA CasKeepsCommand ==
    ASSUME NEW w, NEW o, NEW a, NEW e, NEW n, n.cmd = canon.cmd, NEW p,
           publish_cas(w, o, a, e, Commit(n, NoCommand, p))
    PROVE  SameCommand
<1>1. CASE UNCHANGED canonVars
  BY <1>1 DEF canonVars, SameCommand
<1>2. CASE Land(Commit(n, NoCommand, p))
  BY <1>2, LandKeepsCommand
<1>. QED
  BY <1>1, <1>2 DEF publish_cas

\* The pointer stays, but for the gateway's publications.
LEMMA HostKeepsCommand ==
    ASSUME Settled, NEW w \in Workers, HostStep(w), ~GatewayPublish(w)
    PROVE  SameCommand
<1>1. Joint
  BY DEF Settled
<1>2. CASE UNCHANGED canonVars
  BY <1>2 DEF canonVars, SameCommand
<1>3. ASSUME NEW o, NEW a, NEW e, NEW r,
             publish_cas(w, o, a, e, Commit(RecoveryRequiredState(canon, r), NoCommand, NoReport))
      PROVE  SameCommand
  BY <1>1, <1>3, CasKeepsCommand, PayloadKeepsCommand
<1>4. ASSUME NEW o, NEW a, NEW e, NEW c, NEW st, NEW p,
             publish_cas(w, o, a, e, Commit(ReportedState(canon, c, st), NoCommand, p))
      PROVE  SameCommand
  BY <1>1, <1>4, CasKeepsCommand, PayloadKeepsCommand
<1>5. CASE sync_to_remote(w) \/ EndPass(w) \/ Crash(w)
  BY <1>2, <1>5 DEF sync_to_remote, EndPass, Crash
<1>6. CASE LateLanding(w)
  BY <1>6 DEF LateLanding, Settled, SettledInv, BehindInv
<1>7. CASE WorkerStep(w)
  <2>1. CASE ClaimCommand(w)
    <3>1. PICK o : publish_cas(w, o, claim_already(w), claim_expected(w),
                      Commit(ClaimedState(canon, thread[w].run), NoCommand, NoReport))
      BY <2>1 DEF ClaimCommand, claim_payload
    <3>. QED
      BY <1>1, <3>1, CasKeepsCommand, PayloadKeepsCommand
  <2>2. CASE PublishReport(w)
    BY <1>4, <2>2 DEF PublishReport, complete_payload
  <2>3. CASE PublishNetworkRecovery(w)
    BY <1>3, <2>3 DEF PublishNetworkRecovery
  <2>4. CASE \/ TakeReady(w) \/ AbandonClaim(w) \/ Launch(w) \/ LaunchFails(w) \/ Finish(w)
             \/ Interrupt(w) \/ SaveTyped(w) \/ SaveAfterFailure(w) \/ AckReport(w)
             \/ WriteJournal(w) \/ SavePendingText(w) \/ AckJournal(w)
    BY <1>2, <2>4 DEF TakeReady, AbandonClaim, Launch, LaunchFails, Finish, Interrupt,
       SaveTyped, SaveAfterFailure, AckReport, WriteJournal, SavePendingText, AckJournal
  <2>. QED
    BY <1>7, <2>1, <2>2, <2>3, <2>4 DEF WorkerStep
<1>8. CASE RecoveryStep(w)
  <2>1. CASE mark_expired_lease(w)
    BY <1>3, <2>1 DEF mark_expired_lease
  <2>2. ASSUME NEW c \in CommandIds, _reconcile_one_journal(w, c) PROVE SameCommand
    BY <1>2, <1>3, <2>2 DEF _reconcile_one_journal
  <2>3. ASSUME NEW c \in CommandIds, _reconcile_one(w, c) PROVE SameCommand
    BY <1>2, <1>4, <2>3 DEF _reconcile_one
  <2>4. ASSUME NEW c \in CommandIds, _transition_typed_recovery(w, c) PROVE SameCommand
    BY <1>2, <1>3, <2>4 DEF _transition_typed_recovery
  <2>. QED
    BY <1>2, <1>8, <2>1, <2>2, <2>3, <2>4
       DEF RecoveryStep, ReconcileLegacyReport, _reconcile_typed_report
<1>. QED
  BY <1>5, <1>6, <1>7, <1>8 DEF HostStep

\* The operator's steps keep it too, when no lane replaces a command: a
\* repair finds no malformed command.
LEMMA OperatorKeepsCommand ==
    ASSUME Consecutive, NoReplacement, OperatorStep PROVE SameCommand
<1>1. Joint /\ DenseInv /\ SettledInv
  BY DEF Consecutive, Settled, ConsecutiveInv
<1>2. ~publish_manual_priority /\ ~start_manual /\ ~withdraw_and_manual_start /\ ~PublishMalformed
  BY DEF NoReplacement, publish_manual_priority, start_manual, withdraw_and_manual_start,
         PublishMalformed
<1>3. ~repair_unclaimed_command
  BY <1>1 DEF repair_unclaimed_command, assess_unclaimed_command_repair, DenseInv
<1>4. ASSUME NEW w \in Workers, OperatorReset(w) PROVE FALSE
  BY <1>1, <1>4 DEF OperatorReset, SettledInv, BehindInv
<1>5. ASSUME NEW w \in Workers, NEW c \in CommandIds, resolve_resolution(w, c)
      PROVE  SameCommand
  <2>1. PICK o, a, e :
           publish_cas(w, o, a, e, Commit(ResolvedState(canon, c), NoCommand,
                                          InterruptedOf(journal[w][c].run)))
    BY <1>5 DEF resolve_resolution
  <2>. QED
    BY <1>1, <2>1, CasKeepsCommand, PayloadKeepsCommand
<1>6. ASSUME NEW r \in manuals, finish_manual(r) PROVE SameCommand
  <2>1. PICK st : Land(Commit(ReportedState(canon, r.cmd, st), NoCommand, ResultOf(r)))
    BY <1>6 DEF finish_manual
  <2>. QED
    BY <1>1, <2>1, LandKeepsCommand, PayloadKeepsCommand
<1>7. ASSUME NEW r \in manuals, FinishManualLate(r) PROVE SameCommand
  BY <1>7 DEF FinishManualLate, canonVars, SameCommand
<1>8. CASE PauseForOwner \/ AcceptFinalDelivery
  <2>1. PICK st : Land(Commit([canon EXCEPT !.status = st, !.gen = canon.gen + 1],
                              NoCommand, NoReport))
    BY <1>8 DEF PauseForOwner, AcceptFinalDelivery, Publish
  <2>. QED
    BY <1>1, <2>1, LandKeepsCommand, PayloadKeepsCommand
<1>. QED
  BY <1>2, <1>3, <1>4, <1>5, <1>6, <1>7, <1>8 DEF OperatorStep

\* The gateway appends the next command.
LEMMA GatewayNextCommand ==
    ASSUME Joint, NEW w \in Workers, GatewayPublish(w)
    PROVE  SameCommand \/ UNCHANGED canonVars \/ NextCommand
<1>1. PICK s \in States : s = clone[w]
  BY JointParts, Parts DEF StoreTypes
<1>2. PICK c \in CommandIds : c = s.cmd + 1
  BY <1>1 DEF GatewayPublish
<1>3. PICK src \in COMMAND_SOURCES, kind \in COMMAND_KINDS, mode \in Modes, o \in Outcomes :
         /\ GatewayEligible(s, src, kind)
         /\ publish_cas(w, o, FALSE, state_is_eligible(s),
            Commit(PublishedState(s, c, IF kind = "FINALIZE" THEN "FINALIZING"
                                        ELSE "COMMAND_READY", s.rep),
                   NewCommand(src, kind, s.rep, s.gen + 1, 0, 0, mode),
                   NoReport))
  BY <1>1, <1>2 DEF GatewayPublish
<1>4. PICK st \in PENDING_STATES :
         st = IF kind = "FINALIZE" THEN "FINALIZING" ELSE "COMMAND_READY"
  BY DEF PENDING_STATES
<1>5. PICK k : k = NewCommand(src, kind, s.rep, s.gen + 1, 0, 0, mode)
  OBVIOUS
<1>6. k.valid /\ k # NoCommand
  BY <1>5 DEF NewCommand, NoCommand
<1>7. PICK n : n = PublishedState(s, c, st, s.rep)
  OBVIOUS
<1>8. n.status = st /\ n.cmd = c /\ n.rep = s.rep
  BY <1>7 DEF PublishedState, States
<1>9. PICK cm : cm = Commit(n, k, NoReport)
  OBVIOUS
<1>10. publish_cas(w, o, FALSE, state_is_eligible(s), cm)
  BY <1>3, <1>4, <1>5, <1>7, <1>9
<1>11. CASE canon = s /\ Land(cm)
  <2>1. commands \in [CommandIds -> Commands]
    BY JointParts, Parts DEF StoreTypes
  <2>2. canon' = n /\ commands' = [commands EXCEPT ![c] = k]
    BY <1>6, <1>8, <1>9, <1>11 DEF Land, Commit
  <2>3. s.status \in {"REPORT_READY", "HUMAN_REQUIRED"}
    BY <1>3 DEF GatewayEligible
  <2>. QED
    BY <1>2, <1>6, <1>8, <1>11, <2>1, <2>2, <2>3 DEF NextCommand
<1>. QED
  BY <1>10, <1>11 DEF publish_cas, state_is_eligible

\* Every step appends the next command or leaves the queue pointer alone.
LEMMA EveryStepDense ==
    ASSUME Consecutive, NoReplacement, [Next]_vars
    PROVE  SameCommand \/ NextCommand
<1>1. CASE UNCHANGED canonVars
  BY <1>1 DEF canonVars, SameCommand
<1>2. Settled /\ Joint
  BY DEF Consecutive, Settled
<1>3. CASE LeaseDeadline \/ UNCHANGED vars
  BY <1>1, <1>3 DEF LeaseDeadline, vars, canonVars
<1>4. ASSUME NEW w \in Workers, HostStep(w) PROVE SameCommand \/ NextCommand
  BY <1>1, <1>2, <1>4, HostKeepsCommand, GatewayNextCommand
<1>. QED
  BY <1>3, <1>4, OperatorKeepsCommand DEF Next

\* The invariant of consecutive ids is kept.
LEMMA ConsecutiveKept ==
    ASSUME Consecutive, NoReplacement, Joint', [Next]_vars
    PROVE  ConsecutiveInv'
<1>1. /\ Settled /\ Joint /\ BehindInv /\ CurrentInv /\ DenseInv /\ PointersInv
      /\ "stuck" \notin FaultKinds
  BY JointParts DEF Consecutive, Settled, SettledInv, ConsecutiveInv, NoReplacement
<1>2. Sane /\ Sane' /\ (UNCHANGED canonVars \/ MoveEffect)
  BY <1>1, HistoryMoves
<1>3. CloneMove
  BY <1>1, EveryStepSettled DEF SettledOK
<1>4. CurrentInv'
  <2>1. SUFFICES ASSUME NEW v \in Workers, clone'[v].gen = canon'.gen
                 PROVE  clone'[v] = canon'
    BY DEF CurrentInv
  <2>2. clone'[v] \in {clone[v], canon, canon'}
    BY <1>3 DEF CloneMove
  <2>3. clone[v].gen <= canon.gen /\ clone[v] \in States
    BY <1>1, JointParts, Parts DEF BehindInv, StoreTypes
  <2>4. clone[v].gen \in Int /\ canon.gen \in Int /\ canon'.gen \in Int
    BY <1>2, <2>3, Numbers DEF Sane
  <2>5. CASE UNCHANGED canonVars
    BY <1>1, <2>1, <2>2, <2>5 DEF CurrentInv, canonVars
  <2>6. CASE MoveEffect
    <3>1. canon'.gen > canon.gen
      BY <1>1, <1>2, <2>6, PointersKept DEF MoveEffect
    <3>. QED
      BY <2>1, <2>2, <2>3, <2>4, <3>1
  <2>. QED
    BY <1>2, <2>5, <2>6
<1>5. DenseInv'
  <2>1. canon.cmd \in Int /\ canon.rep \in Int /\ canon'.cmd \in Int /\ canon'.rep \in Int
    BY <1>2 DEF Sane
  <2>2. CASE NextCommand
    BY <1>1, <2>1, <2>2 DEF NextCommand, DenseInv, PENDING_STATES
  <2>3. CASE UNCHANGED canonVars
    BY <1>1, <2>3 DEF DenseInv, canonVars
  <2>4. CASE SameCommand /\ MoveEffect
    <3>1. canon.status = "CODEX_RUNNING" => canon.run.cmd = canon.cmd
      BY <1>2 DEF Sane
    <3>2. ~(canon'.cmd > canon.cmd)
      BY <2>1, <2>4 DEF SameCommand
    <3>3. \/ ClaimMove(canon, canon') \/ ReportMove(canon, canon') \/ RecoveryMove(canon, canon')
          \/ ResolveMove(canon, canon') \/ UpdateMove(canon, canon')
      BY <2>4, <3>2 DEF MoveEffect, Transition, QueueMove, FastLaneMove
    <3>4. /\ canon'.status \in PENDING_STATES \cup {"CODEX_RUNNING"} =>
                canon'.rep = canon'.cmd - 1
          /\ canon'.status \in {"REPORT_READY", "HUMAN_REQUIRED"} => canon'.rep = canon'.cmd
      BY <1>1, <2>1, <3>1, <3>3 DEF DenseInv, ClaimMove, ReportMove, RecoveryMove,
         ResolveMove, UpdateMove, SamePointersMove, PENDING_STATES, ReportTargets
    <3>. QED
      BY <1>1, <2>4, <3>4 DEF DenseInv, SameCommand
  <2>. QED
    BY <1>2, <2>2, <2>3, <2>4, EveryStepDense
<1>. QED
  BY <1>4, <1>5 DEF ConsecutiveInv

\* The invariants hold together where no lane replaces a command and no push
\* leaves a local commit behind.
LEMMA ConsecutiveJoint == NoReplacement => (Spec => []Consecutive)
<1>. SUFFICES ASSUME NoReplacement PROVE Spec => []Consecutive
  OBVIOUS
<1>1. Spec => []SettledInv
  BY SettledInductive DEF NoReplacement
<1>2. Init => ConsecutiveInv
  BY DEF Init, Genesis, ConsecutiveInv, CurrentInv, DenseInv, PENDING_STATES
<1>3. Joint /\ SettledInv /\ ConsecutiveInv /\ Joint' /\ [Next]_vars => ConsecutiveInv'
  BY ConsecutiveKept DEF Consecutive, Settled
<1>4. Joint /\ SettledInv /\ ConsecutiveInv => Consecutive
  BY DEF Consecutive, Settled
<1>. QED
  BY <1>1, <1>2, <1>3, <1>4, JointInductive, PTL DEF Spec

\* Under the same hypothesis command ids are consecutive, and a clone of
\* canonical generation is canonical (GatewayPublish, publish_cas).
THEOREM ConsecutiveInductive == NoReplacement => (Spec => []ConsecutiveInv)
<1>. SUFFICES ASSUME NoReplacement PROVE Spec => []ConsecutiveInv
  OBVIOUS
<1>1. Consecutive => ConsecutiveInv
  BY DEF Consecutive
<1>2. Spec => []Consecutive
  BY ConsecutiveJoint
<1>. QED
  BY <1>1, <1>2, PTL

\* A host whose run holds the lease sees it, with nothing published since.
LEMMA LeaseIsSeen ==
    ASSUME Consecutive, NEW w \in Workers, NEW c \in CommandIds, sidecar[w][c].st # "none",
           NEW r, r = sidecar[w][c].run, matches_execution_lease(canon, r)
    PROVE  /\ clone[w] = canon /\ canon.rep = c - 1 /\ ~(canon.rep >= c)
           /\ reports[c] = NoReport /\ LocalReport(w, c) = NoReport
<1>1. /\ Joint /\ BehindInv /\ CurrentInv /\ DenseInv /\ FilesInv /\ DeadInv
      /\ CloneInv /\ SidecarInv /\ LeaseInv
  BY JointParts, Parts DEF Consecutive, Settled, SettledInv, ConsecutiveInv
<1>2. r \in claims /\ r.cmd = c /\ r.owner = w
  BY <1>1 DEF SidecarInv, DeadInv
<1>3. canon.status = "CODEX_RUNNING" /\ canon.gen = r.gen /\ canon.run = r
  BY DEF matches_execution_lease
<1>4. clone[w] = canon
  <2>1. clone[w].gen \in Int /\ canon.gen \in Int
    BY <1>1, JointParts, Parts, Numbers DEF StoreTypes
  <2>2. clone[w].gen <= canon.gen /\ r.gen <= clone[w].gen
    BY <1>1, <1>2 DEF BehindInv, CloneInv
  <2>. QED
    BY <1>1, <1>3, <2>1, <2>2 DEF CurrentInv
<1>5. canon.rep = c - 1
  BY <1>1, <1>2, <1>3 DEF DenseInv, LeaseInv
<1>6. ~(canon.rep >= c) /\ ~(c <= canon.rep)
  BY <1>5, Numbers
<1>7. reports[c] = NoReport
  BY <1>1, <1>6 DEF FilesInv
<1>8. LocalReport(w, c) = NoReport
  BY <1>1, <1>4, <1>6 DEF LocalReport, BehindInv, NoCommit
<1>. QED
  BY <1>4, <1>5, <1>6, <1>7, <1>8

\* Steps that may give a pending report up.
LEMMA GivenUpByReconciler ==
    ASSUME Consecutive, NoReplacement, NEW w \in Workers, NEW c \in CommandIds,
           sidecar[w][c].st = "pending", sidecar'[w][c].st = "conflict", NEW r,
           r = sidecar[w][c].run, _reconcile_one(w, c) \/ _transition_typed_recovery(w, c)
    PROVE  ~matches_execution_lease(canon', r)
<1>1. Joint /\ sidecar[w][c].st # "none"
  BY DEF Consecutive, Settled
<1>2. matches_execution_lease(canon, r) =>
         /\ clone[w] = canon /\ canon.rep = c - 1 /\ ~(canon.rep >= c)
         /\ reports[c] = NoReport /\ LocalReport(w, c) = NoReport
  BY <1>1, LeaseIsSeen
<1>3. CASE _reconcile_one(w, c)
  <2>1. PICK d : d = pending_report_decision(w, c)
    OBVIOUS
  <2>2. matches_execution_lease(canon, r) => d = "publish"
    BY <1>2, <2>1 DEF pending_report_decision
  <2>3. CASE d # "publish" /\ UNCHANGED canonVars
    BY <2>2, <2>3 DEF canonVars
  <2>4. ASSUME NEW o, NEW already, NEW cm,
               publish_cas(w, o, already,
                  /\ reports[c] = NoReport
                  /\ canon.rep = c - 1
                  /\ matches_execution_lease(canon, r), cm),
               o = "conflict"
        PROVE  ~matches_execution_lease(canon', r)
    <3>1. UNCHANGED canonVars /\ ~matches_execution_lease(canon, r)
      BY <1>2, <2>4 DEF publish_cas
    <3>. QED
      BY <3>1 DEF canonVars
  <2>5. CASE sidecar' = sidecar \/ MarkSidecar(w, c, "reconciled")
    BY <1>1, <2>5, SidecarMark
  <2>. QED
    BY <1>3, <2>1, <2>3, <2>4, <2>5 DEF _reconcile_one
<1>4. CASE _transition_typed_recovery(w, c)
  <2>1. CASE /\ \/ clone[w].status = "RECOVERY_REQUIRED"
                \/ clone[w].rep >= c
                \/ ~matches_execution_lease(clone[w], r)
             /\ UNCHANGED canonVars
    BY <1>2, <2>1 DEF canonVars, matches_execution_lease
  <2>2. CASE sidecar' = sidecar
    BY <2>2
  <2>3. ASSUME NEW o \in Outcomes, ~Failed(o),
               publish_cas(w, o, canon.status = "RECOVERY_REQUIRED",
                           matches_execution_lease(canon, r),
                           Commit(RecoveryRequiredState(canon, NoRun), NoCommand, NoReport))
        PROVE  ~matches_execution_lease(canon', r)
    <3>1. CASE UNCHANGED canonVars /\ (canon.status = "RECOVERY_REQUIRED"
                                       \/ ~matches_execution_lease(canon, r))
      BY <3>1 DEF canonVars, matches_execution_lease
    <3>2. CASE Land(Commit(RecoveryRequiredState(canon, NoRun), NoCommand, NoReport))
      <4>1. canon' = RecoveryRequiredState(canon, NoRun) /\ canon \in States
        BY <1>1, <3>2, JointParts, Parts DEF Land, Commit, StoreTypes
      <4>2. canon'.status = "RECOVERY_REQUIRED"
        BY <4>1 DEF RecoveryRequiredState, States
      <4>. QED
        BY <4>2 DEF matches_execution_lease
    <3>. QED
      BY <2>3, <3>1, <3>2 DEF publish_cas, Failed
  <2>. QED
    BY <1>4, <2>1, <2>2, <2>3 DEF _transition_typed_recovery
<1>. QED
  BY <1>3, <1>4

\* Where no lane replaces a command and no push leaves a local commit behind,
\* the reconciler gives a pending report up only when its lease is gone
\* (_reconcile_one).  With replacement the code gives reports up while their
\* lease is held, because it takes ids to be consecutive.
THEOREM GivenUpWithoutLease == NoReplacement => (Spec => GivenUpOnlyWithoutLease)
<1>. SUFFICES ASSUME NoReplacement PROVE Spec => GivenUpOnlyWithoutLease
  OBVIOUS
<1>1. ASSUME Consecutive, [Next]_vars, NEW w \in Workers, NEW c \in CommandIds,
             sidecar[w][c].st = "pending", sidecar'[w][c].st = "conflict"
      PROVE  ~matches_execution_lease(canon', sidecar[w][c].run)
  <2>1. sidecar \in [Workers -> [CommandIds -> Sidecars]] /\ Joint
    BY <1>1, JointParts, Parts DEF Consecutive, Settled, LocalTypes
  <2>2. sidecar' # sidecar
    BY <1>1
  <2>3. ASSUME NEW v \in Workers, SaveTyped(v) \/ SaveAfterFailure(v) \/ AckReport(v)
        PROVE  FALSE
    <3>1. thread[v].run.cmd \in CommandIds
      BY <2>1, <2>3, JointParts, Parts
         DEF SaveTyped, SaveAfterFailure, AckReport, ThreadInv, ThreadOK
    <3>2. CASE save_worker_pending_report(v)
      BY <1>1, <2>1, <3>1, <3>2 DEF save_worker_pending_report
    <3>3. CASE AckReport(v)
      <4>1. MarkSidecar(v, thread[v].run.cmd, "reconciled")
        BY <3>3 DEF AckReport, MarkSidecar
      <4>. QED
        BY <1>1, <2>1, <3>1, <4>1, SidecarMark
    <3>. QED
      BY <2>3, <3>2, <3>3 DEF SaveTyped, SaveAfterFailure
  <2>4. ASSUME NEW v \in Workers, NEW d \in CommandIds,
               ReconcileLegacyReport(v, d) \/ _reconcile_typed_report(v, d)
        PROVE  ~matches_execution_lease(canon', sidecar[w][c].run)
    <3>1. sidecar' = sidecar \/ \E st : MarkSidecar(v, d, st)
      BY <2>4 DEF ReconcileLegacyReport, _reconcile_typed_report, _reconcile_one,
                  _transition_typed_recovery
    <3>2. v = w /\ d = c
      BY <1>1, <2>1, <2>2, <3>1, SidecarMark
    <3>3. ~MarkSidecar(w, c, "superseded")
      BY <1>1, <2>1, SidecarMark
    <3>4. _reconcile_one(w, c) \/ _transition_typed_recovery(w, c)
      BY <2>4, <3>2, <3>3 DEF ReconcileLegacyReport, _reconcile_typed_report
    <3>. QED
      BY <1>1, <3>4, GivenUpByReconciler
  <2>5. \/ \E v \in Workers : SaveTyped(v) \/ SaveAfterFailure(v) \/ AckReport(v)
        \/ \E v \in Workers, d \in CommandIds :
              ReconcileLegacyReport(v, d) \/ _reconcile_typed_report(v, d)
    <3>1. ~LeaseDeadline /\ ~UNCHANGED vars
      BY <2>2 DEF LeaseDeadline, vars, evidenceVars
    <3>2. ~OperatorStep
      BY <2>2 DEF OperatorStep, OperatorReset, resolve_resolution, publish_manual_priority,
         repair_unclaimed_command, start_manual, withdraw_and_manual_start, finish_manual,
         FinishManualLate, PauseForOwner, AcceptFinalDelivery, PublishMalformed, Publish,
         ManualClaim, ThreadsUntouched, evidenceVars
    <3>3. PICK v \in Workers : HostStep(v)
      BY <1>1, <3>1, <3>2 DEF Next
    <3>4. CASE sync_to_remote(v) \/ EndPass(v) \/ LateLanding(v) \/ Crash(v) \/ GatewayPublish(v)
      BY <2>2, <3>4 DEF sync_to_remote, EndPass, LateLanding, Crash, GatewayPublish,
         ThreadsUntouched, evidenceVars
    <3>5. CASE WorkerStep(v)
      BY <2>2, <3>5 DEF WorkerStep, TakeReady, AbandonClaim, ClaimCommand, Launch, LaunchFails,
         Finish, Interrupt, PublishReport, WriteJournal, SavePendingText,
         PublishNetworkRecovery, AckJournal, evidenceVars
    <3>6. CASE RecoveryStep(v)
      BY <2>2, <3>6 DEF RecoveryStep, mark_expired_lease, _reconcile_one_journal, evidenceVars
    <3>. QED
      BY <3>3, <3>4, <3>5, <3>6 DEF HostStep
  <2>. QED
    BY <2>3, <2>4, <2>5
<1>2. Consecutive /\ [Next]_vars =>
        [\A w \in Workers, c \in CommandIds :
           sidecar[w][c].st = "pending" /\ sidecar'[w][c].st = "conflict" =>
              ~matches_execution_lease(canon', sidecar[w][c].run)]_sidecar
  BY <1>1
<1>3. Spec => []Consecutive
  BY ConsecutiveJoint
<1>. QED
  BY <1>2, <1>3, PTL DEF Spec, GivenUpOnlyWithoutLease
=============================================================================
