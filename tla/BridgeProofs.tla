---------------------------- MODULE BridgeProofs ----------------------------
(***************************************************************************)
(* Proofs that the inductive invariant of BridgeInvariant holds of the     *)
(* whole system, for every number of hosts, commands and faults, and that  *)
(* it implies the safety properties of BridgeProtocol.                     *)
(***************************************************************************)
EXTENDS BridgeInvariant, TLAPS

(***************************************************************************)
(* The two halves of TypeOK.                                               *)
(***************************************************************************)
StoreTypes ==
    /\ canon \in States
    /\ commands \in [CommandIds -> Commands]
    /\ reports \in [CommandIds -> Reports]
    /\ clone \in [Workers -> States]
    /\ unpushed \in [Workers -> Commits]
    /\ claims \subseteq Runs

LocalTypes ==
    /\ polling \in [Workers -> BOOLEAN]
    /\ thread \in [Workers -> Threads]
    /\ sidecar \in [Workers -> [CommandIds -> Sidecars]]
    /\ journal \in [Workers -> [CommandIds -> Journals]]
    /\ expired \in Runs
    /\ manuals \subseteq Runs
    /\ faults \in Nat
    /\ launches \in [CommandIds -> Nat]

\* The halves make up the type invariant.
LEMMA TypeHalves == TypeOK <=> StoreTypes /\ LocalTypes
BY DEF TypeOK, StoreTypes, LocalTypes

(***************************************************************************)
(* Types of the records the code writes.                                   *)
(***************************************************************************)
\* The absent and initial records are records of their kind.
LEMMA InitialRecords ==
    /\ NoRun \in Runs /\ Genesis \in States /\ NoCommand \in Commands
    /\ NoReport \in Reports /\ NoCommit \in Commits
    /\ IdleThread \in Threads /\ NoSidecar \in Sidecars
    /\ NoJournal \in Journals /\ NoResult \in Results
<1>1. 0 \in Ids
  BY MaxCommandAssumption DEF Ids
<1>2. NoRun \in Runs
  BY <1>1 DEF NoRun, Runs, Owners
<1>3. Genesis \in States
  BY <1>1, <1>2 DEF Genesis, States, ALLOWED_STATES
<1>4. NoCommand \in Commands
  BY <1>1 DEF NoCommand, Commands, COMMAND_KINDS
<1>5. NoReport \in Reports
  BY <1>2 DEF NoReport, Reports
<1>6. NoCommit \in Commits
  BY <1>3, <1>4, <1>5 DEF NoCommit, Commits
<1>7. NoResult \in Results
  BY DEF NoResult, Results, ReportTargets, Proofs
<1>8. IdleThread \in Threads
  BY <1>2, <1>3, <1>7 DEF IdleThread, Threads, ThreadStates
<1>9. NoSidecar \in Sidecars /\ NoJournal \in Journals
  BY <1>2, <1>7 DEF NoSidecar, Sidecars, NoJournal, Journals, SidecarStates
<1>. QED
  BY <1>2, <1>3, <1>4, <1>5, <1>6, <1>7, <1>8, <1>9

\* The numeric fields of records, as numbers.
LEMMA Numbers ==
    /\ \A i \in Ids : i \in Int
    /\ \A c \in CommandIds : c \in Int /\ c > 0 /\ c \in Ids
    /\ \A s \in States : s.cmd \in Int /\ s.rep \in Int /\ s.gen \in Int
    /\ \A r \in Runs : r.cmd \in Int /\ r.gen \in Int
BY MaxCommandAssumption DEF Ids, CommandIds, States, Runs

\* A commit of typed parts is typed, and is based on canonical state.
LEMMA CommitType ==
    ASSUME StoreTypes, NEW s \in States, NEW k \in Commands, NEW r \in Reports
    PROVE  /\ Commit(s, k, r) \in Commits
           /\ Commit(s, k, r).base = canon
           /\ Commit(s, k, r).new = s
           /\ Commit(s, k, r).command = k
           /\ Commit(s, k, r).report = r
BY DEF Commit, Commits, StoreTypes

\* Every payload builder writes a state.
LEMMA PayloadTypes ==
    ASSUME NEW s \in States, NEW r \in Runs, NEW c \in CommandIds,
           NEW i \in Ids
    PROVE  /\ \A st \in ALLOWED_STATES : PublishedState(s, c, st, i) \in States
           /\ ClaimedState(s, r) \in States
           /\ ManualClaimedState(s, c) \in States
           /\ \A st \in ALLOWED_STATES : ReportedState(s, c, st) \in States
           /\ RecoveryRequiredState(s, r) \in States
           /\ ResolvedState(s, c) \in States
<1>1. c \in Ids /\ s.gen + 1 \in Nat /\ s.gen + 2 \in Nat
  BY MaxCommandAssumption DEF CommandIds, Ids, States
<1>2. NoRun \in Runs /\ {"CODEX_RUNNING", "RECOVERY_REQUIRED", "REPORT_READY"}
                         \subseteq ALLOWED_STATES
  BY InitialRecords DEF ALLOWED_STATES
<1>3. [owner |-> "manual", cmd |-> c, gen |-> s.gen + 2] \in Runs
  BY <1>1 DEF Runs, Owners
<1>4. \A st \in ALLOWED_STATES : /\ PublishedState(s, c, st, i) \in States
                                 /\ ReportedState(s, c, st) \in States
  BY <1>1, <1>2 DEF PublishedState, ReportedState, States
<1>5. ClaimedState(s, r) \in States
  BY <1>1, <1>2 DEF ClaimedState, States
<1>6. ManualClaimedState(s, c) \in States
  BY <1>1, <1>2, <1>3 DEF ManualClaimedState, States
<1>7. RecoveryRequiredState(s, r) \in States
  BY <1>1, <1>2 DEF RecoveryRequiredState, States
<1>8. ResolvedState(s, c) \in States
  BY <1>1, <1>2 DEF ResolvedState, States
<1>. QED
  BY <1>4, <1>5, <1>6, <1>7, <1>8

(***************************************************************************)
(* A commit that lands on the canonical state it was prepared from keeps   *)
(* the canonical part of the invariant.                                    *)
(***************************************************************************)
\* Landing keeps the types, only adds leases, and never lowers the generation.
LEMMA LandTypes ==
    ASSUME StoreTypes, NEW cm \in Commits, Land(cm)
    PROVE  /\ canon' \in States
           /\ commands' \in [CommandIds -> Commands]
           /\ reports' \in [CommandIds -> Reports]
           /\ claims' \subseteq Runs
           /\ claims \subseteq claims'
           /\ cm.new.status # "CODEX_RUNNING" => claims' = claims
           /\ cm.new.status = "CODEX_RUNNING" =>
                 claims' = claims \cup {cm.new.run}
<1>1. cm.new \in States /\ cm.command \in Commands /\ cm.report \in Reports
  BY DEF Commits
<1>2. canon' \in States
  BY <1>1 DEF Land
<1>3. commands' \in [CommandIds -> Commands]
  BY <1>1 DEF Land, StoreTypes
<1>4. reports' \in [CommandIds -> Reports]
  BY <1>1 DEF Land, StoreTypes
<1>5. cm.new.run \in Runs
  BY <1>1 DEF States
<1>6. claims' \subseteq Runs /\ claims \subseteq claims'
  BY <1>5 DEF Land, StoreTypes
<1>7. /\ cm.new.status # "CODEX_RUNNING" => claims' = claims
      /\ cm.new.status = "CODEX_RUNNING" => claims' = claims \cup {cm.new.run}
  BY DEF Land
<1>. QED
  BY <1>2, <1>3, <1>4, <1>6, <1>7

\* Landing keeps the canonical part of the invariant.
LEMMA LandKeepsCanon ==
    ASSUME StoreTypes, CanonInv, NEW cm \in Commits,
           CommitOK(cm), cm.base = canon, Land(cm)
    PROVE  CanonInv'
<1>. DEFINE n == cm.new
<1>1. /\ n.cmd \in Int /\ n.gen \in Int /\ n.run.cmd \in Int
      /\ canon.cmd \in Int /\ canon.gen \in Int
      /\ CommandIds \subseteq Int
      /\ \A r \in claims : r.cmd \in Int /\ r.gen \in Int
  <2>1. n \in States /\ canon \in States /\ claims \subseteq Runs
    BY DEF Commits, StoreTypes
  <2>2. n.run \in Runs
    BY <2>1 DEF States
  <2>. QED
    BY <2>1, <2>2, Numbers
<1>2. canon' = n /\ claims \subseteq claims'
  BY LandTypes DEF Land
<1>3. /\ n.status # "CODEX_RUNNING" => claims' = claims
      /\ n.status = "CODEX_RUNNING" => claims' = claims \cup {n.run}
  BY LandTypes
<1>4. /\ n.gen >= canon.gen
      /\ n.cmd >= canon.cmd
      /\ n.status \in PENDING_STATES => n.cmd > canon.cmd
      /\ n.status = "CODEX_RUNNING" =>
            /\ n.cmd \in CommandIds /\ n.run.cmd = n.cmd /\ n.run.gen = n.gen
            /\ n.cmd > canon.cmd \/ canon.status \in PENDING_STATES
  BY DEF CommitOK
<1>5. \A r \in claims : /\ r.cmd \in CommandIds /\ r.cmd <= canon.cmd
                        /\ canon.status \in PENDING_STATES => r.cmd < canon.cmd
                        /\ r.gen <= canon.gen
  BY DEF CanonInv, ClaimsInv
<1>6. n.status = "CODEX_RUNNING" => \A r \in claims : r.cmd < n.cmd
  BY <1>1, <1>4, <1>5
<1>7. LeaseInv'
  BY <1>2, <1>3, <1>4 DEF LeaseInv
<1>8. ClaimsInv'
  <2>1. \A r \in claims : /\ r.cmd \in CommandIds /\ r.cmd <= n.cmd
                          /\ n.status \in PENDING_STATES => r.cmd < n.cmd
                          /\ r.gen <= n.gen
    BY <1>1, <1>4, <1>5
  <2>2. CASE n.status = "CODEX_RUNNING"
    <3>1. n.status \notin PENDING_STATES
      BY <2>2 DEF PENDING_STATES
    <3>2. n.run.cmd \in CommandIds /\ n.run.cmd <= n.cmd /\ n.run.gen <= n.gen
      BY <1>1, <1>4, <2>2
    <3>. QED
      BY <1>2, <1>3, <2>1, <2>2, <3>1, <3>2 DEF ClaimsInv
  <2>3. CASE n.status # "CODEX_RUNNING"
    BY <1>2, <1>3, <2>1, <2>3 DEF ClaimsInv
  <2>. QED
    BY <2>2, <2>3
<1>9. UniqueLease'
  <2>1. UniqueLease
    BY DEF CanonInv
  <2>2. CASE n.status = "CODEX_RUNNING"
    <3>1. \A r \in claims : r.cmd # n.run.cmd
      BY <1>1, <1>4, <1>6, <2>2
    <3>. QED
      BY <1>3, <2>1, <2>2, <3>1 DEF UniqueLease
  <2>. QED
    BY <1>3, <2>1, <2>2 DEF UniqueLease
<1>10. ReportsInv'
  <2>1. ReportsInv
    BY DEF CanonInv
  <2>2. cm.report # NoReport => cm.report.run \in claims /\ n.rep = cm.report.run.cmd
    BY DEF CommitOK
  <2>3. reports' = IF cm.report = NoReport THEN reports
                   ELSE [reports EXCEPT ![n.rep] = cm.report]
    BY DEF Land
  <2>4. \A c \in CommandIds : reports'[c] = IF cm.report # NoReport /\ c = n.rep
                                            THEN cm.report ELSE reports[c]
    BY <2>3 DEF StoreTypes
  <2>. QED
    BY <1>2, <2>1, <2>2, <2>4 DEF ReportsInv
<1>11. ReplacedInv'
  <2>1. ReplacedInv
    BY DEF CanonInv
  <2>2. commands' = IF cm.command = NoCommand THEN commands
                    ELSE [commands EXCEPT ![n.cmd] = cm.command]
    BY DEF Land
  <2>3. \A d \in CommandIds : commands'[d] = IF cm.command # NoCommand /\ d = n.cmd
                                             THEN cm.command ELSE commands[d]
    BY <2>2 DEF StoreTypes
  <2>4. SUFFICES ASSUME NEW c \in CommandIds, Replaced(c)'
                 PROVE  c < n.cmd /\ \A r \in claims' : r.cmd # c
    BY <1>2 DEF ReplacedInv
  <2>5. PICK d \in CommandIds :
            commands'[d].supersedes = c \/ commands'[d].withdraws = c
    BY <2>4 DEF Replaced
  <2>6. c # 0
    BY DEF CommandIds
  <2>7. c <= canon.cmd /\ c < n.cmd /\ \A r \in claims : r.cmd # c
    <3>1. CASE cm.command # NoCommand /\ d = n.cmd
      <4>1. c \in {cm.command.supersedes, cm.command.withdraws} \ {0}
        BY <2>3, <2>5, <2>6, <3>1
      <4>2. c = canon.cmd /\ canon.status \in PENDING_STATES /\ n.cmd > canon.cmd
        BY <3>1, <4>1 DEF CommitOK
      <4>. QED
        BY <1>1, <1>5, <4>2
    <3>2. CASE ~(cm.command # NoCommand /\ d = n.cmd)
      <4>1. Replaced(c)
        BY <2>3, <2>5, <3>2 DEF Replaced
      <4>2. c < canon.cmd /\ \A r \in claims : r.cmd # c
        BY <2>1, <4>1 DEF ReplacedInv
      <4>. QED
        BY <1>1, <1>4, <4>2
    <3>. QED
      BY <3>1, <3>2
  <2>8. n.status = "CODEX_RUNNING" => n.run.cmd # c
    BY <1>1, <1>4, <2>7
  <2>. QED
    BY <1>3, <2>7, <2>8
<1>. QED
  BY <1>7, <1>8, <1>9, <1>10, <1>11 DEF CanonInv

(***************************************************************************)
(* What publish_cas from host w's clone can do to the store, with the      *)
(* conditions under which a commit is created already discharged.          *)
(***************************************************************************)
Landable(w, cm) ==
    /\ CommitOK(cm)
    /\ cm.base = canon
    /\ cm.new.status = "CODEX_RUNNING" => cm.new.run.owner = w

CasEffect(w, cm) ==
    \/ UNCHANGED <<canonVars, cloneVars>>
    \/ /\ unpushed[w] = NoCommit
       /\ clone' = [clone EXCEPT ![w] = canon]
       /\ UNCHANGED <<canonVars, unpushed>>
    \/ /\ unpushed[w] = NoCommit
       /\ Landable(w, cm)
       /\ Land(cm)
       /\ clone' = [clone EXCEPT ![w] = cm.new]
       /\ UNCHANGED unpushed
    \/ /\ unpushed[w] = NoCommit
       /\ Landable(w, cm)
       /\ clone' = [clone EXCEPT ![w] = cm.new]
       /\ unpushed' = [unpushed EXCEPT ![w] = cm]
       /\ UNCHANGED canonVars

\* The store part depends on the store alone.
LEMMA StoreStutter ==
    ASSUME StoreTypes, StoreInv, UNCHANGED <<canonVars, cloneVars>>
    PROVE  StoreTypes' /\ StoreInv'
<1>1. /\ canon' = canon /\ commands' = commands /\ reports' = reports
      /\ claims' = claims /\ clone' = clone /\ unpushed' = unpushed
  BY DEF canonVars, cloneVars
<1>2. StoreTypes'
  BY <1>1 DEF StoreTypes
<1>3. CanonInv'
  BY <1>1 DEF StoreInv, CanonInv, LeaseInv, ClaimsInv, UniqueLease,
              ReportsInv, ReplacedInv, Replaced
<1>4. CloneInv' /\ UnpushedInv'
  BY <1>1 DEF StoreInv, CloneInv, UnpushedInv, CommitOK
<1>. QED
  BY <1>2, <1>3, <1>4 DEF StoreInv

\* What is known of a commit stays true while leases are only added.
LEMMA CommitOKGrows ==
    ASSUME NEW cm, CommitOK(cm), claims \subseteq claims'
    PROVE  CommitOK(cm)'
BY DEF CommitOK

\* A local commit that stays where it is stays sound.
LEMMA UnpushedStays ==
    ASSUME StoreTypes, UnpushedInv, claims \subseteq claims',
           NEW v \in Workers, unpushed'[v] = unpushed[v], clone'[v] = clone[v],
           unpushed'[v] # NoCommit
    PROVE  /\ CommitOK(unpushed[v])'
           /\ clone'[v] = unpushed'[v].new
           /\ unpushed'[v].new.status = "CODEX_RUNNING" =>
                 unpushed'[v].new.run.owner = v
<1>1. PICK u \in Commits : u = unpushed[v]
  BY DEF StoreTypes
<1>2. CommitOK(u) /\ clone[v] = u.new
      /\ (u.new.status = "CODEX_RUNNING" => u.new.run.owner = v)
  BY <1>1 DEF UnpushedInv
<1>3. CommitOK(u)'
  BY <1>2, CommitOKGrows
<1>. QED
  BY <1>1, <1>2, <1>3

\* publish_cas keeps the store part, whatever became of the push.
LEMMA CasKeepsStore ==
    ASSUME StoreTypes, StoreInv, NEW w \in Workers, NEW cm \in Commits,
           CasEffect(w, cm)
    PROVE  StoreTypes' /\ StoreInv'
<1>. DEFINE Sound(v) == unpushed'[v] # NoCommit =>
                           /\ CommitOK(unpushed[v])'
                           /\ clone'[v] = unpushed'[v].new
                           /\ unpushed'[v].new.status = "CODEX_RUNNING" =>
                                 unpushed'[v].new.run.owner = v
<1>0. StoreInv => CanonInv /\ CloneInv /\ UnpushedInv
  BY DEF StoreInv
<1>1. /\ canon \in States /\ cm.new \in States /\ cm.new.run \in Runs
      /\ clone \in [Workers -> States] /\ unpushed \in [Workers -> Commits]
      /\ claims \subseteq Runs
  BY DEF StoreTypes, Commits, States
<1>2. \A r \in claims : /\ r.gen <= canon.gen
                        /\ r.owner \in Workers => r.gen <= clone[r.owner].gen
  BY <1>0 DEF CanonInv, ClaimsInv, CloneInv
<1>3. CASE UNCHANGED <<canonVars, cloneVars>>
  BY <1>3, StoreStutter
<1>4. ASSUME unpushed[w] = NoCommit, clone' = [clone EXCEPT ![w] = canon],
             UNCHANGED <<canonVars, unpushed>>
      PROVE  StoreTypes' /\ StoreInv'
  <2>1. /\ canon' = canon /\ commands' = commands /\ reports' = reports
        /\ claims' = claims /\ unpushed' = unpushed
    BY <1>4 DEF canonVars
  <2>2. StoreTypes'
    BY <1>1, <1>4, <2>1 DEF StoreTypes
  <2>3. CanonInv'
    BY <1>0, <2>1 DEF CanonInv, LeaseInv, ClaimsInv, UniqueLease, ReportsInv,
                      ReplacedInv, Replaced
  <2>4. CloneInv'
    BY <1>1, <1>2, <1>4, <2>1 DEF CloneInv
  <2>5. UnpushedInv'
    <3>1. SUFFICES ASSUME NEW v \in Workers PROVE Sound(v)
      BY DEF UnpushedInv
    <3>2. CASE v = w
      BY <1>4, <2>1, <3>2
    <3>3. CASE v # w
      <4>1. clone'[v] = clone[v] /\ unpushed'[v] = unpushed[v]
        BY <1>1, <1>4, <2>1, <3>3
      <4>. QED
        BY <1>0, <2>1, <4>1, UnpushedStays
    <3>. QED
      BY <3>2, <3>3
  <2>. QED
    BY <2>2, <2>3, <2>4, <2>5 DEF StoreInv
<1>5. ASSUME unpushed[w] = NoCommit, Landable(w, cm), Land(cm),
             clone' = [clone EXCEPT ![w] = cm.new], UNCHANGED unpushed
      PROVE  StoreTypes' /\ StoreInv'
  <2>1. CommitOK(cm) /\ cm.base = canon
    BY <1>5 DEF Landable
  <2>2. CanonInv'
    BY <1>0, <1>5, <2>1, LandKeepsCanon
  <2>3. StoreTypes'
    BY <1>1, <1>5, LandTypes DEF StoreTypes
  <2>4. cm.new.gen >= canon.gen
    BY <2>1 DEF CommitOK
  <2>5. \A r \in claims' : r \in claims \/ (r.owner = w /\ r.gen = cm.new.gen)
    BY <1>5, <2>1, LandTypes DEF Landable, CommitOK
  <2>6. CloneInv'
    <3>1. SUFFICES ASSUME NEW r \in claims', r.owner \in Workers
                   PROVE  r.gen <= clone'[r.owner].gen
      BY DEF CloneInv
    <3>2. r \in Runs
      BY <2>3 DEF StoreTypes
    <3>3. CASE r.owner = w
      <4>1. clone'[r.owner] = cm.new
        BY <1>1, <1>5, <3>3
      <4>2. CASE r \in claims
        BY <1>1, <1>2, <2>4, <3>2, <4>1, <4>2, Numbers
      <4>3. CASE r.gen = cm.new.gen
        BY <1>1, <4>1, <4>3, Numbers
      <4>. QED
        BY <2>5, <4>2, <4>3
    <3>4. CASE r.owner # w
      <4>1. clone'[r.owner] = clone[r.owner] /\ r \in claims
        BY <1>1, <1>5, <2>5, <3>1, <3>4
      <4>. QED
        BY <1>2, <3>1, <4>1
    <3>. QED
      BY <3>3, <3>4
  <2>7. UnpushedInv'
    <3>1. SUFFICES ASSUME NEW v \in Workers PROVE Sound(v)
      BY DEF UnpushedInv
    <3>2. CASE v = w
      BY <1>5, <3>2
    <3>3. CASE v # w
      <4>1. clone'[v] = clone[v] /\ unpushed'[v] = unpushed[v]
        BY <1>1, <1>5, <3>3
      <4>2. claims \subseteq claims'
        BY <1>5, LandTypes
      <4>. QED
        BY <1>0, <4>1, <4>2, UnpushedStays
    <3>. QED
      BY <3>2, <3>3
  <2>. QED
    BY <2>2, <2>3, <2>6, <2>7 DEF StoreInv
<1>6. ASSUME unpushed[w] = NoCommit, Landable(w, cm),
             clone' = [clone EXCEPT ![w] = cm.new],
             unpushed' = [unpushed EXCEPT ![w] = cm], UNCHANGED canonVars
      PROVE  StoreTypes' /\ StoreInv'
  <2>1. /\ canon' = canon /\ commands' = commands /\ reports' = reports
        /\ claims' = claims
    BY <1>6 DEF canonVars
  <2>2. StoreTypes'
    BY <1>1, <1>6, <2>1 DEF StoreTypes
  <2>3. CanonInv'
    BY <1>0, <2>1 DEF CanonInv, LeaseInv, ClaimsInv, UniqueLease, ReportsInv,
                      ReplacedInv, Replaced
  <2>4. CloneInv'
    <3>1. cm.new.gen >= canon.gen
      BY <1>6 DEF Landable, CommitOK
    <3>2. SUFFICES ASSUME NEW r \in claims, r.owner \in Workers
                   PROVE  r.gen <= clone'[r.owner].gen
      BY <2>1 DEF CloneInv
    <3>3. CASE r.owner = w
      <4>1. clone'[r.owner] = cm.new
        BY <1>1, <1>6, <3>3
      <4>. QED
        BY <1>1, <1>2, <3>1, <4>1, Numbers
    <3>4. CASE r.owner # w
      BY <1>1, <1>2, <1>6, <3>2, <3>4
    <3>. QED
      BY <3>3, <3>4
  <2>5. UnpushedInv'
    <3>1. SUFFICES ASSUME NEW v \in Workers PROVE Sound(v)
      BY DEF UnpushedInv
    <3>2. CASE v = w
      <4>1. unpushed'[v] = cm /\ clone'[v] = cm.new
        BY <1>1, <1>6, <3>2
      <4>2. CommitOK(cm)'
        BY <1>6, <2>1, CommitOKGrows DEF Landable
      <4>. QED
        BY <1>6, <3>2, <4>1, <4>2 DEF Landable
    <3>3. CASE v # w
      <4>1. clone'[v] = clone[v] /\ unpushed'[v] = unpushed[v]
        BY <1>1, <1>6, <3>3
      <4>. QED
        BY <1>0, <2>1, <4>1, UnpushedStays
    <3>. QED
      BY <3>2, <3>3
  <2>. QED
    BY <2>2, <2>3, <2>4, <2>5 DEF StoreInv
<1>. QED
  BY <1>3, <1>4, <1>5, <1>6 DEF CasEffect

\* A publication from a clone of its own keeps the store part: it grants no
\* Worker a lease.
LEMMA RemoteKeepsStore ==
    ASSUME StoreTypes, StoreInv, NEW cm \in Commits, CommitOK(cm),
           cm.base = canon, Land(cm), UNCHANGED cloneVars,
           cm.new.status = "CODEX_RUNNING" => cm.new.run.owner \notin Workers
    PROVE  StoreTypes' /\ StoreInv'
<1>0. StoreInv => CanonInv /\ CloneInv /\ UnpushedInv
  BY DEF StoreInv
<1>1. clone' = clone /\ unpushed' = unpushed
  BY DEF cloneVars
<1>2. CanonInv'
  BY <1>0, LandKeepsCanon
<1>3. StoreTypes'
  BY <1>1, LandTypes DEF StoreTypes
<1>4. claims \subseteq claims' /\ \A r \in claims' : r.owner \in Workers => r \in claims
  BY LandTypes
<1>5. CloneInv'
  BY <1>0, <1>1, <1>4 DEF CloneInv
<1>6. UnpushedInv'
  BY <1>0, <1>1, <1>4, UnpushedStays DEF UnpushedInv
<1>. QED
  BY <1>2, <1>3, <1>5, <1>6 DEF StoreInv

\* A timed-out push that lands late keeps the store part: its clone already
\* holds the commit's state.
LEMMA LateKeepsStore ==
    ASSUME StoreTypes, StoreInv, NEW w \in Workers, LateLanding(w)
    PROVE  StoreTypes' /\ StoreInv'
<1>0. StoreInv => CanonInv /\ CloneInv /\ UnpushedInv
  BY DEF StoreInv
<1>1. PICK cm \in Commits : cm = unpushed[w]
  BY DEF StoreTypes
<1>2. /\ CommitOK(cm) /\ cm.base = canon /\ Land(cm)
      /\ clone' = clone /\ clone[w] = cm.new
      /\ unpushed' = [unpushed EXCEPT ![w] = NoCommit]
      /\ cm.new.status = "CODEX_RUNNING" => cm.new.run.owner = w
  BY <1>0, <1>1 DEF LateLanding, UnpushedInv
<1>3. CanonInv'
  BY <1>0, <1>2, LandKeepsCanon
<1>4. StoreTypes'
  BY <1>2, LandTypes, InitialRecords DEF StoreTypes
<1>5. /\ claims \subseteq claims'
      /\ \A r \in claims' : r \in claims \/ (r.owner = w /\ r.gen = cm.new.gen)
  BY <1>2, LandTypes DEF CommitOK
<1>6. CloneInv'
  <2>1. cm.new.gen \in Int
    BY Numbers DEF Commits
  <2>. QED
    BY <1>0, <1>2, <1>5, <2>1 DEF CloneInv
<1>7. UnpushedInv'
  <2>1. SUFFICES ASSUME NEW v \in Workers, unpushed'[v] # NoCommit
                 PROVE  /\ CommitOK(unpushed[v])'
                        /\ clone'[v] = unpushed'[v].new
                        /\ unpushed'[v].new.status = "CODEX_RUNNING" =>
                              unpushed'[v].new.run.owner = v
    BY DEF UnpushedInv
  <2>2. unpushed'[v] = unpushed[v] /\ clone'[v] = clone[v]
    BY <1>2, <2>1 DEF StoreTypes
  <2>. QED
    BY <1>0, <1>5, <2>1, <2>2, UnpushedStays
<1>. QED
  BY <1>3, <1>4, <1>6, <1>7 DEF StoreInv

\* Discarding a local commit by hand keeps the store part.
LEMMA ResetKeepsStore ==
    ASSUME StoreTypes, StoreInv, NEW w \in Workers, OperatorReset(w)
    PROVE  StoreTypes' /\ StoreInv'
<1>0. StoreInv => CanonInv /\ CloneInv /\ UnpushedInv
  BY DEF StoreInv
<1>1. /\ canon' = canon /\ commands' = commands /\ reports' = reports
      /\ claims' = claims
      /\ unpushed' = [unpushed EXCEPT ![w] = NoCommit]
      /\ clone' = [clone EXCEPT ![w] = canon]
  BY DEF OperatorReset, canonVars
<1>2. StoreTypes'
  BY <1>1, InitialRecords DEF StoreTypes
<1>3. CanonInv'
  BY <1>0, <1>1 DEF CanonInv, LeaseInv, ClaimsInv, UniqueLease, ReportsInv,
                    ReplacedInv, Replaced
<1>4. CloneInv'
  BY <1>0, <1>1 DEF CloneInv, CanonInv, ClaimsInv, StoreTypes
<1>5. UnpushedInv'
  <2>1. SUFFICES ASSUME NEW v \in Workers, unpushed'[v] # NoCommit
                 PROVE  /\ CommitOK(unpushed[v])'
                        /\ clone'[v] = unpushed'[v].new
                        /\ unpushed'[v].new.status = "CODEX_RUNNING" =>
                              unpushed'[v].new.run.owner = v
    BY DEF UnpushedInv
  <2>2. unpushed'[v] = unpushed[v] /\ clone'[v] = clone[v]
    BY <1>1, <2>1 DEF StoreTypes
  <2>. QED
    BY <1>0, <1>1, <2>1, <2>2, UnpushedStays
<1>. QED
  BY <1>2, <1>3, <1>4, <1>5 DEF StoreInv

(***************************************************************************)
(* The local part.                                                         *)
(***************************************************************************)
\* No step but a claim grants or prepares a lease.
Quiet ==
    /\ claims' = claims
    /\ \A v \in Workers : \/ unpushed'[v] = unpushed[v]
                          \/ unpushed'[v].new.status # "CODEX_RUNNING"

\* Evidence is never deleted.
EvidenceKept ==
    \A w \in Workers, c \in CommandIds :
        /\ sidecar[w][c].st # "none" => sidecar'[w][c].st # "none"
        /\ journal[w][c].st # "none" => journal'[w][c].st # "none"

\* Publishing anything but a lease is quiet.
LEMMA CasIsQuiet ==
    ASSUME StoreTypes, NEW w \in Workers, NEW cm \in Commits,
           CasEffect(w, cm), cm.new.status # "CODEX_RUNNING"
    PROVE  Quiet
<1>1. CASE UNCHANGED <<canonVars, cloneVars>>
  BY <1>1 DEF canonVars, cloneVars, Quiet
<1>2. CASE UNCHANGED <<canonVars, unpushed>>
  BY <1>2 DEF canonVars, Quiet
<1>3. CASE Land(cm) /\ UNCHANGED unpushed
  BY <1>3, LandTypes DEF Quiet
<1>4. CASE unpushed' = [unpushed EXCEPT ![w] = cm] /\ UNCHANGED canonVars
  BY <1>4 DEF canonVars, Quiet, StoreTypes
<1>. QED
  BY <1>1, <1>2, <1>3, <1>4 DEF CasEffect

\* A thread that does not move in a quiet step stays sound.
LEMMA ThreadStays ==
    ASSUME NEW v \in Workers, ThreadOK(v), Quiet, EvidenceKept,
           thread'[v] = thread[v], UNCHANGED launches
    PROVE  ThreadOK(v)'
<1>1. thread[v].pc # "idle" => thread[v].run.cmd \in CommandIds
  BY DEF ThreadOK
<1>. QED
  BY <1>1 DEF ThreadOK, Quiet, EvidenceKept

\* Nothing local moves in a quiet step.
LEMMA LocalStays ==
    ASSUME LocalInv, Quiet,
           UNCHANGED <<thread, evidenceVars, manuals, launches>>
    PROVE  LocalInv'
<1>1. /\ thread' = thread /\ sidecar' = sidecar /\ journal' = journal
      /\ manuals' = manuals /\ launches' = launches /\ claims' = claims
  BY DEF evidenceVars, Quiet
<1>2. EvidenceKept
  BY <1>1 DEF EvidenceKept
<1>3. ThreadInv'
  BY <1>1, <1>2, ThreadStays DEF LocalInv, ThreadInv
<1>. QED
  BY <1>1, <1>3 DEF LocalInv, SidecarInv, JournalInv, LaunchInv

\* One thread moves in a quiet step: it stops, or goes on with its lease.
LEMMA ThreadMoves ==
    ASSUME ThreadInv, Quiet, EvidenceKept, UNCHANGED launches,
           NEW w \in Workers,
           \A v \in Workers \ {w} : thread'[v] = thread[v],
           \/ thread'[w].pc = "idle"
           \/ /\ thread[w].pc \notin {"idle", "ready"}
              /\ thread'[w].pc \notin {"idle", "ready", "claimed"}
              /\ thread'[w].run = thread[w].run
              /\ thread'[w].pc \in {"saved", "acking"} =>
                    sidecar'[w][thread[w].run.cmd].st # "none"
              /\ thread'[w].pc \in {"journaled", "armed", "confirming"} =>
                    journal'[w][thread[w].run.cmd].st # "none"
    PROVE  ThreadInv'
<1>1. SUFFICES ASSUME NEW v \in Workers PROVE ThreadOK(v)'
  BY DEF ThreadInv
<1>2. CASE v # w
  BY <1>2, ThreadStays DEF ThreadInv
<1>3. CASE v = w
  <2>1. ThreadOK(w) /\ claims' = claims
    BY DEF ThreadInv, Quiet
  <2>2. CASE thread'[w].pc = "idle"
    BY <1>3, <2>2 DEF ThreadOK
  <2>3. CASE thread'[w].pc # "idle"
    BY <1>3, <2>1, <2>3 DEF ThreadOK
  <2>. QED
    BY <2>2, <2>3
<1>. QED
  BY <1>2, <1>3

\* The effect of Goto and Stop on the thread table.
LEMMA GotoEffect ==
    ASSUME thread \in [Workers -> Threads], NEW w \in Workers,
           NEW p \in ThreadStates, Goto(w, p)
    PROVE  /\ thread' \in [Workers -> Threads]
           /\ thread'[w].pc = p
           /\ thread'[w].run = thread[w].run
           /\ \A v \in Workers \ {w} : thread'[v] = thread[v]
BY DEF Goto, Threads

\* A stopped thread is idle; the other threads are untouched.
LEMMA StopEffect ==
    ASSUME thread \in [Workers -> Threads], NEW w \in Workers, Stop(w)
    PROVE  /\ thread' \in [Workers -> Threads]
           /\ thread'[w].pc = "idle"
           /\ \A v \in Workers \ {w} : thread'[v] = thread[v]
<1>1. thread' = [thread EXCEPT ![w] = IdleThread]
  BY DEF Stop
<1>2. IdleThread \in Threads /\ IdleThread.pc = "idle"
  BY InitialRecords DEF IdleThread
<1>. QED
  BY <1>1, <1>2

\* Marking existing evidence keeps it about its lease.
LEMMA SidecarMarked ==
    ASSUME sidecar \in [Workers -> [CommandIds -> Sidecars]], SidecarInv,
           claims' = claims, NEW w \in Workers, NEW c \in CommandIds,
           NEW st \in SidecarStates \ {"none"}, sidecar[w][c].st # "none",
           MarkSidecar(w, c, st)
    PROVE  /\ sidecar' \in [Workers -> [CommandIds -> Sidecars]]
           /\ SidecarInv'
           /\ \A v \in Workers, d \in CommandIds :
                 sidecar[v][d].st # "none" => sidecar'[v][d].st # "none"
<1>0. PICK o \in Sidecars : o = sidecar[w][c]
  OBVIOUS
<1>1. PICK e : e = [o EXCEPT !.st = st]
  OBVIOUS
<1>2. e \in Sidecars /\ e.st = st /\ e.run = sidecar[w][c].run
  BY <1>0, <1>1 DEF Sidecars
<1>3. sidecar' = [sidecar EXCEPT ![w][c] = e]
  BY <1>0, <1>1 DEF MarkSidecar
<1>4. sidecar' \in [Workers -> [CommandIds -> Sidecars]]
  BY <1>2, <1>3
<1>5. \A v \in Workers, d \in CommandIds :
         sidecar'[v][d] = IF v = w /\ d = c THEN e ELSE sidecar[v][d]
  BY <1>3
<1>. QED
  BY <1>2, <1>4, <1>5 DEF SidecarInv

\* Marking an existing journal keeps it about its lease.
LEMMA JournalMarked ==
    ASSUME journal \in [Workers -> [CommandIds -> Journals]], JournalInv,
           claims' = claims, NEW w \in Workers, NEW c \in CommandIds,
           NEW st \in SidecarStates \ {"none"}, journal[w][c].st # "none",
           MarkJournal(w, c, st)
    PROVE  /\ journal' \in [Workers -> [CommandIds -> Journals]]
           /\ JournalInv'
           /\ \A v \in Workers, d \in CommandIds :
                 journal[v][d].st # "none" => journal'[v][d].st # "none"
<1>0. PICK o \in Journals : o = journal[w][c]
  OBVIOUS
<1>1. PICK e : e = [o EXCEPT !.st = st]
  OBVIOUS
<1>2. e \in Journals /\ e.st = st /\ e.run = journal[w][c].run
  BY <1>0, <1>1 DEF Journals
<1>3. journal' = [journal EXCEPT ![w][c] = e]
  BY <1>0, <1>1 DEF MarkJournal
<1>4. journal' \in [Workers -> [CommandIds -> Journals]]
  BY <1>2, <1>3
<1>5. \A v \in Workers, d \in CommandIds :
         journal'[v][d] = IF v = w /\ d = c THEN e ELSE journal[v][d]
  BY <1>3
<1>. QED
  BY <1>2, <1>4, <1>5 DEF JournalInv

\* A sidecar saved for a leased run is about that lease.
LEMMA SidecarSaved ==
    ASSUME sidecar \in [Workers -> [CommandIds -> Sidecars]],
           thread \in [Workers -> Threads],
           commands \in [CommandIds -> Commands], SidecarInv,
           claims' = claims, NEW w \in Workers, thread[w].run \in claims,
           thread[w].run.cmd \in CommandIds, save_worker_pending_report(w)
    PROVE  /\ sidecar' \in [Workers -> [CommandIds -> Sidecars]]
           /\ SidecarInv'
           /\ sidecar'[w][thread[w].run.cmd].st # "none"
           /\ \A v \in Workers, d \in CommandIds :
                 sidecar[v][d].st # "none" => sidecar'[v][d].st # "none"
<1>1. PICK e : e = [st |-> "pending", run |-> thread[w].run,
                    mode |-> RunMode(w), res |-> thread[w].res]
  OBVIOUS
<1>2. PICK c \in CommandIds : c = thread[w].run.cmd
  OBVIOUS
<1>3. e \in Sidecars
  BY <1>1 DEF Sidecars, SidecarStates, RunMode, Threads, Commands
<1>4. sidecar' = [sidecar EXCEPT ![w][c] = e]
  BY <1>1, <1>2 DEF save_worker_pending_report
<1>5. sidecar' \in [Workers -> [CommandIds -> Sidecars]]
  BY <1>3, <1>4
<1>6. e.st = "pending" /\ e.run \in claims /\ e.run.cmd = c
  BY <1>1, <1>2
<1>. QED
  BY <1>2, <1>4, <1>5, <1>6 DEF SidecarInv

\* The parts of the inductive invariant.
LEMMA Parts ==
    /\ IInv <=> StoreTypes /\ LocalTypes /\ StoreInv /\ LocalInv
    /\ IInv => /\ CanonInv /\ CloneInv /\ UnpushedInv
               /\ LeaseInv /\ ClaimsInv /\ UniqueLease
               /\ ThreadInv /\ SidecarInv /\ JournalInv /\ LaunchInv
               /\ manuals \subseteq claims
BY TypeHalves DEF IInv, StoreInv, CanonInv, LocalInv

\* The parts make up the invariant after a step.
LEMMA Assemble ==
    ASSUME StoreTypes', LocalTypes', StoreInv', LocalInv'
    PROVE  IInv'
BY DEF IInv, TypeOK, StoreTypes, LocalTypes

(***************************************************************************)
(* Steps of the host, of time and of the operator that publish nothing.    *)
(***************************************************************************)
\* A step that touches neither the store nor a thread, evidence or launches.
LEMMA IdleStep ==
    ASSUME IInv, LocalTypes', UNCHANGED <<canonVars, cloneVars>>,
           UNCHANGED <<thread, evidenceVars, manuals, launches>>
    PROVE  IInv'
<1>1. Quiet
  BY DEF Quiet, canonVars, cloneVars
<1>. QED
  BY <1>1, Parts, StoreStutter, LocalStays, Assemble

\* A lease deadline passes.
LEMMA DeadlineStep == ASSUME IInv, LeaseDeadline PROVE IInv'
<1>1. LocalTypes'
  BY Parts DEF LocalTypes, LeaseDeadline, evidenceVars, StoreTypes, States
<1>. QED
  BY <1>1, IdleStep DEF LeaseDeadline, evidenceVars

\* A poll pass ends.
LEMMA EndPassStep ==
    ASSUME IInv, NEW w \in Workers, EndPass(w) PROVE IInv'
<1>1. LocalTypes'
  BY Parts DEF LocalTypes, EndPass, evidenceVars
<1>. QED
  BY <1>1, IdleStep DEF EndPass, evidenceVars

\* A human finds the lease of the run gone.
LEMMA FinishLateStep ==
    ASSUME IInv, NEW r \in manuals, FinishManualLate(r) PROVE IInv'
<1>1. /\ UNCHANGED <<canonVars, cloneVars>>
      /\ UNCHANGED <<thread, evidenceVars, polling, expired, faults, launches>>
      /\ manuals' \subseteq manuals
  BY DEF FinishManualLate, ThreadsUntouched
<1>2. LocalTypes'
  BY <1>1, Parts DEF LocalTypes, evidenceVars
<1>3. Quiet
  BY <1>1 DEF Quiet, canonVars, cloneVars
<1>4. StoreTypes' /\ StoreInv'
  BY <1>1, Parts, StoreStutter
<1>5. EvidenceKept
  BY <1>1 DEF EvidenceKept, evidenceVars
<1>6. ThreadInv'
  BY <1>1, <1>3, <1>5, Parts, ThreadStays DEF ThreadInv
<1>7. LocalInv'
  BY <1>1, <1>3, <1>6, Parts DEF LocalInv, Quiet, evidenceVars, SidecarInv,
                                 JournalInv, LaunchInv
<1>. QED
  BY <1>2, <1>4, <1>7, Assemble

\* A poll pass starts with a synchronised clone.
LEMMA SyncStep ==
    ASSUME IInv, NEW w \in Workers, sync_to_remote(w) PROVE IInv'
<1>1. CasEffect(w, NoCommit)
  BY DEF sync_to_remote, CasEffect
<1>2. StoreTypes' /\ StoreInv'
  BY <1>1, Parts, CasKeepsStore, InitialRecords
<1>3. LocalTypes'
  BY Parts DEF LocalTypes, sync_to_remote, evidenceVars
<1>4. Quiet
  BY DEF Quiet, sync_to_remote, canonVars
<1>5. LocalInv'
  BY <1>4, Parts, LocalStays DEF sync_to_remote
<1>. QED
  BY <1>2, <1>3, <1>5, Assemble

\* An operator discards a local commit.
LEMMA ResetStep ==
    ASSUME IInv, NEW w \in Workers, OperatorReset(w) PROVE IInv'
<1>1. StoreTypes' /\ StoreInv'
  BY Parts, ResetKeepsStore
<1>2. LocalTypes'
  BY Parts DEF LocalTypes, OperatorReset, evidenceVars
<1>3. Quiet
  <2>1. NoCommit.new.status # "CODEX_RUNNING"
    BY DEF NoCommit, Genesis
  <2>2. claims' = claims /\ unpushed' = [unpushed EXCEPT ![w] = NoCommit]
    BY DEF OperatorReset, canonVars
  <2>. QED
    BY <2>1, <2>2, Parts DEF Quiet, StoreTypes
<1>4. LocalInv'
  BY <1>3, Parts, LocalStays DEF OperatorReset
<1>. QED
  BY <1>1, <1>2, <1>4, Assemble

\* A late landing may grant a lease, but never to a thread that still waits
\* to claim: that thread's host holds no local claim commit.
LEMMA LateLandingStep ==
    ASSUME IInv, NEW w \in Workers, LateLanding(w) PROVE IInv'
<1>1. StoreTypes' /\ StoreInv'
  BY Parts, LateKeepsStore
<1>2. /\ UNCHANGED <<polling, thread, sidecar, journal, expired, manuals,
                     faults, launches>>
      /\ unpushed' = [unpushed EXCEPT ![w] = NoCommit]
  BY DEF LateLanding, evidenceVars
<1>3. LocalTypes'
  BY <1>2, Parts DEF LocalTypes
<1>4. PICK cm \in Commits : cm = unpushed[w]
  BY Parts DEF StoreTypes
<1>5. /\ Land(cm) /\ unpushed[w] # NoCommit
      /\ cm.new.status = "CODEX_RUNNING" => cm.new.run.owner = w
  BY <1>4, Parts DEF LateLanding, UnpushedInv
<1>6. /\ claims \subseteq claims'
      /\ \A r \in claims' \ claims :
            cm.new.status = "CODEX_RUNNING" /\ r.owner = w
  BY <1>5, Parts, LandTypes
<1>7. ThreadInv'
  <2>1. SUFFICES ASSUME NEW v \in Workers PROVE ThreadOK(v)'
    BY DEF ThreadInv
  <2>2. ThreadOK(v)
    BY Parts DEF ThreadInv
  <2>3. CASE thread[v].pc # "ready"
    BY <1>2, <1>6, <2>2, <2>3 DEF ThreadOK
  <2>4. CASE thread[v].pc = "ready"
    <3>1. thread[v].run \notin claims'
      BY <1>4, <1>5, <1>6, <2>2, <2>4 DEF ThreadOK
    <3>2. unpushed'[v] # NoCommit => unpushed'[v] = unpushed[v]
      BY <1>2, Parts DEF StoreTypes
    <3>. QED
      BY <1>2, <2>2, <2>4, <3>1, <3>2 DEF ThreadOK
  <2>. QED
    BY <2>3, <2>4
<1>8. LocalInv'
  BY <1>2, <1>6, <1>7, Parts DEF LocalInv, SidecarInv, JournalInv, LaunchInv
<1>. QED
  BY <1>1, <1>3, <1>8, Assemble

(***************************************************************************)
(* Steps of the run thread between publications.                           *)
(***************************************************************************)
\* A thread starts: its run is none that was ever leased, since its clone has
\* seen every lease of its host at an earlier generation.
LEMMA TakeReadyStep ==
    ASSUME IInv, NEW w \in Workers, TakeReady(w) PROVE IInv'
<1>1. PICK s \in States : s = clone[w]
  BY Parts DEF StoreTypes
<1>2. PICK r : r = [owner |-> w, cmd |-> s.cmd, gen |-> s.gen + 1]
  OBVIOUS
<1>3. PICK t : t = [pc |-> "ready", snap |-> s, run |-> r, res |-> NoResult]
  OBVIOUS
<1>4. /\ s.status \in PENDING_STATES /\ s.cmd > s.rep
      /\ thread' = [thread EXCEPT ![w] = t]
      /\ UNCHANGED <<canonVars, cloneVars, polling, evidenceVars, expired,
                     manuals, faults, launches>>
  BY <1>1, <1>2, <1>3 DEF TakeReady
<1>5. s.cmd \in CommandIds /\ s.cmd \in Ids /\ s.gen \in Nat
  BY <1>4, MaxCommandAssumption DEF States, Ids, CommandIds
<1>6. r \in Runs /\ r.owner = w /\ r.cmd = s.cmd /\ r.gen = s.gen + 1
  BY <1>2, <1>5 DEF Runs, Owners
<1>7. t \in Threads /\ t.pc = "ready" /\ t.snap = s /\ t.run = r
  BY <1>3, <1>6, InitialRecords DEF Threads, ThreadStates
<1>8. r \notin claims
  BY <1>1, <1>5, <1>6, Parts DEF CloneInv
<1>9. unpushed[w] # NoCommit => unpushed[w].new.status # "CODEX_RUNNING"
  BY <1>1, <1>4, Parts DEF UnpushedInv, PENDING_STATES
<1>10. LocalTypes'
  BY <1>4, <1>7, Parts DEF LocalTypes, evidenceVars
<1>11. Quiet /\ EvidenceKept
  BY <1>4 DEF Quiet, EvidenceKept, canonVars, cloneVars, evidenceVars
<1>12. ThreadInv'
  <2>1. SUFFICES ASSUME NEW v \in Workers PROVE ThreadOK(v)'
    BY DEF ThreadInv
  <2>2. CASE v = w
    <3>1. thread'[v] = t /\ claims' = claims /\ unpushed' = unpushed
      BY <1>4, <2>2, Parts DEF LocalTypes, canonVars, cloneVars
    <3>. QED
      BY <1>4, <1>5, <1>6, <1>7, <1>8, <1>9, <2>2, <3>1 DEF ThreadOK
  <2>3. CASE v # w
    <3>1. thread'[v] = thread[v]
      BY <1>4, <2>3, Parts DEF LocalTypes
    <3>. QED
      BY <1>4, <1>11, <3>1, Parts, ThreadStays DEF ThreadInv
  <2>. QED
    BY <2>2, <2>3
<1>13. LocalInv'
  BY <1>4, <1>12, Parts DEF LocalInv, SidecarInv, JournalInv, LaunchInv,
                            canonVars, evidenceVars
<1>14. StoreTypes' /\ StoreInv'
  BY <1>4, Parts, StoreStutter
<1>. QED
  BY <1>10, <1>13, <1>14, Assemble

\* A thread stops or moves on with its lease; evidence may be written.
LEMMA MoveStep ==
    ASSUME IInv, NEW w \in Workers, UNCHANGED <<canonVars, cloneVars>>,
           UNCHANGED <<expired, manuals, launches>>, faults' \in Nat,
           polling' \in [Workers -> BOOLEAN],
           thread' \in [Workers -> Threads],
           sidecar' \in [Workers -> [CommandIds -> Sidecars]],
           journal' \in [Workers -> [CommandIds -> Journals]],
           SidecarInv', JournalInv', EvidenceKept,
           \A v \in Workers \ {w} : thread'[v] = thread[v],
           \/ thread'[w].pc = "idle"
           \/ /\ thread[w].pc \notin {"idle", "ready"}
              /\ thread'[w].pc \notin {"idle", "ready", "claimed"}
              /\ thread'[w].run = thread[w].run
              /\ thread'[w].pc \in {"saved", "acking"} =>
                    sidecar'[w][thread[w].run.cmd].st # "none"
              /\ thread'[w].pc \in {"journaled", "armed", "confirming"} =>
                    journal'[w][thread[w].run.cmd].st # "none"
    PROVE  IInv'
<1>1. Quiet
  BY DEF Quiet, canonVars, cloneVars
<1>2. ThreadInv'
  BY <1>1, Parts, ThreadMoves
<1>3. LocalInv'
  BY <1>1, <1>2, Parts DEF LocalInv, LaunchInv, Quiet
<1>4. LocalTypes'
  BY Parts DEF LocalTypes
<1>5. StoreTypes' /\ StoreInv'
  BY Parts, StoreStutter
<1>. QED
  BY <1>3, <1>4, <1>5, Assemble

\* The same when no evidence is written.
LEMMA PlainMoveStep ==
    ASSUME IInv, NEW w \in Workers, UNCHANGED <<canonVars, cloneVars>>,
           UNCHANGED <<expired, manuals, launches, evidenceVars>>,
           faults' \in Nat, polling' \in [Workers -> BOOLEAN],
           thread' \in [Workers -> Threads],
           \A v \in Workers \ {w} : thread'[v] = thread[v],
           \/ thread'[w].pc = "idle"
           \/ /\ thread[w].pc \notin {"idle", "ready"}
              /\ thread'[w].pc \in {"running", "done", "interrupted"}
              /\ thread'[w].run = thread[w].run
    PROVE  IInv'
<1>1. /\ sidecar' = sidecar /\ journal' = journal /\ claims' = claims
      /\ expired' = expired /\ manuals' = manuals /\ launches' = launches
  BY DEF evidenceVars, canonVars
<1>2. /\ sidecar' \in [Workers -> [CommandIds -> Sidecars]]
      /\ journal' \in [Workers -> [CommandIds -> Journals]]
  BY <1>1, Parts DEF LocalTypes
<1>3. SidecarInv' /\ JournalInv'
  BY <1>1, Parts DEF SidecarInv, JournalInv
<1>4. EvidenceKept
  BY <1>1 DEF EvidenceKept
<1>. QED
  BY <1>1, <1>2, <1>3, <1>4, MoveStep

\* A claim is abandoned, or the Worker dies.
LEMMA StopSteps ==
    ASSUME IInv, NEW w \in Workers, AbandonClaim(w) \/ Crash(w) PROVE IInv'
<1>1. /\ UNCHANGED <<canonVars, cloneVars>>
      /\ UNCHANGED <<expired, manuals, launches, evidenceVars>>
      /\ Stop(w)
  BY DEF AbandonClaim, Crash
<1>2. faults' \in Nat /\ polling' \in [Workers -> BOOLEAN]
  <2>1. polling \in [Workers -> BOOLEAN] /\ faults \in Nat
    BY Parts DEF LocalTypes
  <2>2. CASE AbandonClaim(w)
    BY <2>1, <2>2 DEF AbandonClaim
  <2>3. CASE Crash(w)
    <3>1. faults' = faults + 1 /\ polling' = [polling EXCEPT ![w] = FALSE]
      BY <2>3 DEF Crash, Fault
    <3>2. faults' \in Nat
      BY <2>1, <3>1
    <3>3. polling' \in [Workers -> BOOLEAN]
      BY <2>1, <3>1
    <3>. QED
      BY <3>2, <3>3
  <2>. QED
    BY <2>2, <2>3
<1>3. thread \in [Workers -> Threads]
  BY Parts DEF LocalTypes
<1>. QED
  BY <1>1, <1>2, <1>3, StopEffect, PlainMoveStep

\* An execution fails to start, ends, or is interrupted.
LEMMA ExecutionSteps ==
    ASSUME IInv, NEW w \in Workers,
           LaunchFails(w) \/ Finish(w) \/ Interrupt(w)
    PROVE  IInv'
<1>1. /\ UNCHANGED <<canonVars, cloneVars>>
      /\ UNCHANGED <<expired, manuals, launches, evidenceVars>>
      /\ polling' = polling /\ faults' = faults
      /\ thread[w].pc \in {"claimed", "running"}
  BY DEF LaunchFails, Finish, Interrupt
<1>2. faults' \in Nat /\ polling' \in [Workers -> BOOLEAN]
      /\ thread \in [Workers -> Threads]
  BY <1>1, Parts DEF LocalTypes
<1>3. CASE Interrupt(w)
  <2>1. Goto(w, "interrupted") /\ "interrupted" \in ThreadStates
    BY <1>3 DEF Interrupt, ThreadStates
  <2>. QED
    BY <1>1, <1>2, <2>1, GotoEffect, PlainMoveStep
<1>4. CASE LaunchFails(w) \/ Finish(w)
  <2>1. PICK r \in Results :
            thread' = [thread EXCEPT ![w].pc = "done", ![w].res = r]
    <3>1. CASE LaunchFails(w)
      BY <3>1, InitialRecords DEF LaunchFails
    <3>2. CASE Finish(w)
      <4>1. ResultsFrom(thread[w].snap.status) \subseteq Results
        BY DEF ResultsFrom, Results, ReportTargets, Proofs,
               intended_report_status
      <4>. QED
        BY <3>2, <4>1 DEF Finish
    <3>. QED
      BY <1>4, <3>1, <3>2
  <2>2. /\ thread' \in [Workers -> Threads]
        /\ thread'[w].pc = "done" /\ thread'[w].run = thread[w].run
        /\ \A v \in Workers \ {w} : thread'[v] = thread[v]
    BY <1>2, <2>1 DEF Threads, ThreadStates
  <2>. QED
    BY <1>1, <1>2, <2>2, PlainMoveStep
<1>. QED
  BY <1>3, <1>4

\* A launch counts once: the lease is the only one its command ever had, and
\* its thread had not launched.
LEMMA LaunchStep ==
    ASSUME IInv, NEW w \in Workers, Launch(w) PROVE IInv'
<1>1. PICK r \in Runs : r = thread[w].run
  BY Parts DEF LocalTypes, Threads
<1>2. /\ UNCHANGED <<canonVars, cloneVars>>
      /\ sidecar' = sidecar /\ journal' = journal /\ claims' = claims
      /\ unpushed' = unpushed
      /\ polling' = polling /\ expired' = expired /\ manuals' = manuals
      /\ faults' = faults /\ thread[w].pc = "claimed" /\ Goto(w, "running")
      /\ launches' = [launches EXCEPT ![r.cmd] = launches[r.cmd] + 1]
  BY <1>1 DEF Launch, evidenceVars, canonVars, cloneVars
<1>3. /\ r.owner = w /\ r.cmd \in CommandIds /\ r \in claims
      /\ launches[r.cmd] = 0
  BY <1>1, <1>2, Parts DEF ThreadInv, ThreadOK
<1>4. launches \in [CommandIds -> Nat] /\ thread \in [Workers -> Threads]
  BY Parts DEF LocalTypes
<1>5. "running" \in ThreadStates
  BY DEF ThreadStates
<1>6. /\ thread' \in [Workers -> Threads] /\ thread'[w].pc = "running"
      /\ thread'[w].run = r
      /\ \A v \in Workers \ {w} : thread'[v] = thread[v]
  BY <1>1, <1>2, <1>4, <1>5, GotoEffect
<1>7. /\ launches' \in [CommandIds -> Nat] /\ launches'[r.cmd] = 1
      /\ \A c \in CommandIds \ {r.cmd} : launches'[c] = launches[c]
  BY <1>2, <1>3, <1>4
<1>8. LocalTypes'
  BY <1>2, <1>6, <1>7, Parts DEF LocalTypes
<1>9. ThreadInv'
  <2>1. SUFFICES ASSUME NEW v \in Workers PROVE ThreadOK(v)'
    BY DEF ThreadInv
  <2>2. CASE v = w
    BY <1>2, <1>3, <1>6, <2>2 DEF ThreadOK
  <2>3. CASE v # w
    <3>1. ThreadOK(v) /\ thread'[v] = thread[v]
      BY <1>6, <2>3, Parts DEF ThreadInv
    <3>2. thread[v].pc = "claimed" => /\ thread[v].run.cmd # r.cmd
                                      /\ thread[v].run.cmd \in CommandIds
      BY <1>3, <2>3, <3>1, Parts DEF ThreadOK, UniqueLease
    <3>. QED
      BY <1>2, <1>7, <3>1, <3>2 DEF ThreadOK
  <2>. QED
    BY <2>2, <2>3
<1>10. LaunchInv'
  BY <1>2, <1>3, <1>7, Parts DEF LaunchInv
<1>11. LocalInv'
  BY <1>2, <1>9, <1>10, Parts DEF LocalInv, SidecarInv, JournalInv
<1>12. StoreTypes' /\ StoreInv'
  BY <1>2, Parts, StoreStutter
<1>. QED
  BY <1>8, <1>11, <1>12, Assemble

\* A thread leaves its sidecar, before or after the publication.
LEMMA SaveSteps ==
    ASSUME IInv, NEW w \in Workers, SaveTyped(w) \/ SaveAfterFailure(w)
    PROVE  IInv'
<1>1. /\ UNCHANGED <<canonVars, cloneVars>>
      /\ UNCHANGED <<expired, manuals, launches>>
      /\ polling' = polling /\ faults' = faults /\ journal' = journal
      /\ claims' = claims
      /\ thread[w].pc \in {"done", "unsaved"}
      /\ save_worker_pending_report(w)
      /\ Goto(w, "saved") \/ Stop(w)
  BY DEF SaveTyped, SaveAfterFailure, canonVars
<1>2. /\ faults' \in Nat /\ polling' \in [Workers -> BOOLEAN]
      /\ journal' \in [Workers -> [CommandIds -> Journals]]
      /\ sidecar \in [Workers -> [CommandIds -> Sidecars]]
      /\ thread \in [Workers -> Threads]
      /\ commands \in [CommandIds -> Commands]
  BY <1>1, Parts DEF LocalTypes, StoreTypes
<1>3. thread[w].run \in claims /\ thread[w].run.cmd \in CommandIds
  BY <1>1, Parts DEF ThreadInv, ThreadOK
<1>4. /\ sidecar' \in [Workers -> [CommandIds -> Sidecars]]
      /\ SidecarInv'
      /\ sidecar'[w][thread[w].run.cmd].st # "none"
      /\ \A v \in Workers, d \in CommandIds :
            sidecar[v][d].st # "none" => sidecar'[v][d].st # "none"
  BY <1>1, <1>2, <1>3, Parts, SidecarSaved
<1>5. EvidenceKept /\ JournalInv'
  BY <1>1, <1>4, Parts DEF EvidenceKept, JournalInv
<1>6. CASE Goto(w, "saved")
  <2>1. "saved" \in ThreadStates
    BY DEF ThreadStates
  <2>2. /\ thread' \in [Workers -> Threads] /\ thread'[w].pc = "saved"
        /\ thread'[w].run = thread[w].run
        /\ \A v \in Workers \ {w} : thread'[v] = thread[v]
    BY <1>2, <1>6, <2>1, GotoEffect
  <2>. QED
    BY <1>1, <1>2, <1>4, <1>5, <2>2, MoveStep
<1>7. CASE Stop(w)
  BY <1>1, <1>2, <1>4, <1>5, <1>7, StopEffect, MoveStep
<1>. QED
  BY <1>1, <1>6, <1>7

\* A thread acknowledges the sidecar that it saved before publishing.
LEMMA AckReportStep ==
    ASSUME IInv, NEW w \in Workers, AckReport(w) PROVE IInv'
<1>1. PICK c : c = thread[w].run.cmd
  OBVIOUS
<1>2. /\ UNCHANGED <<canonVars, cloneVars>>
      /\ UNCHANGED <<expired, manuals, launches>>
      /\ polling' = polling /\ faults' = faults /\ journal' = journal
      /\ claims' = claims /\ thread[w].pc = "acking" /\ Stop(w)
      /\ MarkSidecar(w, c, "reconciled")
  BY <1>1 DEF AckReport, MarkSidecar, canonVars
<1>3. /\ faults' \in Nat /\ polling' \in [Workers -> BOOLEAN]
      /\ journal' \in [Workers -> [CommandIds -> Journals]]
      /\ sidecar \in [Workers -> [CommandIds -> Sidecars]]
      /\ thread \in [Workers -> Threads]
  BY <1>2, Parts DEF LocalTypes
<1>4. c \in CommandIds /\ sidecar[w][c].st # "none"
  BY <1>1, <1>2, Parts DEF ThreadInv, ThreadOK
<1>5. "reconciled" \in SidecarStates \ {"none"}
  BY DEF SidecarStates
<1>6. /\ sidecar' \in [Workers -> [CommandIds -> Sidecars]]
      /\ SidecarInv'
      /\ \A v \in Workers, d \in CommandIds :
            sidecar[v][d].st # "none" => sidecar'[v][d].st # "none"
  BY <1>2, <1>3, <1>4, <1>5, Parts, SidecarMarked
<1>7. EvidenceKept /\ JournalInv'
  BY <1>2, <1>6, Parts DEF EvidenceKept, JournalInv
<1>. QED
  BY <1>2, <1>3, <1>6, <1>7, StopEffect, MoveStep

\* The three journal writes of publish_network_recovery: each leaves the
\* journal of the thread's own lease.
LEMMA JournalSteps ==
    ASSUME IInv, NEW w \in Workers,
           WriteJournal(w) \/ SavePendingText(w) \/ AckJournal(w)
    PROVE  IInv'
<1>1. PICK r \in Runs : r = thread[w].run
  BY Parts DEF LocalTypes, Threads
<1>2. /\ UNCHANGED <<canonVars, cloneVars>>
      /\ UNCHANGED <<expired, manuals, launches>>
      /\ polling' = polling /\ faults' = faults /\ sidecar' = sidecar
      /\ claims' = claims
      /\ thread[w].pc \in {"interrupted", "journaled", "confirming"}
  BY DEF WriteJournal, SavePendingText, AckJournal, canonVars
<1>3. /\ faults' \in Nat /\ polling' \in [Workers -> BOOLEAN]
      /\ sidecar' \in [Workers -> [CommandIds -> Sidecars]]
      /\ journal \in [Workers -> [CommandIds -> Journals]]
      /\ thread \in [Workers -> Threads]
  BY <1>2, Parts DEF LocalTypes
<1>4. /\ r \in claims /\ r.cmd \in CommandIds
      /\ thread[w].pc \in {"journaled", "confirming"} =>
            journal[w][r.cmd].st # "none"
  BY <1>1, <1>2, Parts DEF ThreadInv, ThreadOK
<1>5. PICK o \in Journals : o = journal[w][r.cmd]
  BY <1>3, <1>4
<1>6. thread[w].pc # "interrupted" =>
         o.st # "none" /\ o.run \in claims /\ o.run.cmd = r.cmd
  BY <1>2, <1>4, <1>5, Parts DEF JournalInv
<1>7. PICK e : /\ e \in Journals /\ e.st # "none"
               /\ e.run \in claims /\ e.run.cmd = r.cmd
               /\ journal' = [journal EXCEPT ![w][r.cmd] = e]
  <2>1. CASE WriteJournal(w)
    <3>1. PICK e : e = [st |-> "pending", run |-> r, text |-> FALSE]
      OBVIOUS
    <3>2. e \in Journals
      BY <3>1 DEF Journals, SidecarStates
    <3>3. e.st # "none" /\ e.run = r
      BY <3>1
    <3>4. journal' = [journal EXCEPT ![w][r.cmd] = e]
      BY <1>1, <2>1, <3>1 DEF WriteJournal
    <3>. QED
      BY <1>4, <3>2, <3>3, <3>4
  <2>2. CASE SavePendingText(w)
    <3>1. PICK e : e = [o EXCEPT !.text = TRUE]
      OBVIOUS
    <3>2. e \in Journals
      BY <3>1 DEF Journals
    <3>3. e.st = o.st /\ e.run = o.run
      BY <3>1 DEF Journals
    <3>4. journal' = [journal EXCEPT ![w][r.cmd] = e]
      BY <1>1, <1>5, <2>2, <3>1 DEF SavePendingText
    <3>. QED
      BY <1>6, <2>2, <3>2, <3>3, <3>4 DEF SavePendingText
  <2>3. CASE AckJournal(w)
    <3>1. PICK e : e = [o EXCEPT !.st = "reconciled"]
      OBVIOUS
    <3>2. e \in Journals /\ e.st # "none" /\ e.run = o.run
      BY <3>1 DEF Journals, SidecarStates
    <3>3. journal' = [journal EXCEPT ![w][r.cmd] = e]
      BY <1>1, <1>5, <2>3, <3>1 DEF AckJournal
    <3>. QED
      BY <1>6, <2>3, <3>2, <3>3 DEF AckJournal
  <2>. QED
    BY <2>1, <2>2, <2>3
<1>8. journal' \in [Workers -> [CommandIds -> Journals]]
  BY <1>3, <1>4, <1>7
<1>9. \A v \in Workers, d \in CommandIds :
         journal'[v][d] = IF v = w /\ d = r.cmd THEN e ELSE journal[v][d]
  BY <1>3, <1>4, <1>7
<1>10. JournalInv' /\ SidecarInv' /\ EvidenceKept
  BY <1>2, <1>7, <1>9, Parts DEF JournalInv, SidecarInv, EvidenceKept
<1>11. journal'[w][thread[w].run.cmd].st # "none"
  BY <1>1, <1>4, <1>7, <1>9
<1>12. CASE Stop(w)
  BY <1>2, <1>3, <1>8, <1>10, <1>12, StopEffect, MoveStep
<1>13. ASSUME NEW p \in {"journaled", "armed"}, Goto(w, p) PROVE IInv'
  <2>1. p \in ThreadStates
    BY DEF ThreadStates
  <2>2. /\ thread' \in [Workers -> Threads] /\ thread'[w].pc = p
        /\ thread'[w].run = thread[w].run
        /\ \A v \in Workers \ {w} : thread'[v] = thread[v]
    BY <1>3, <1>13, <2>1, GotoEffect
  <2>. QED
    BY <1>2, <1>3, <1>8, <1>10, <1>11, <2>2, MoveStep
<1>. QED
  BY <1>12, <1>13 DEF WriteJournal, SavePendingText, AckJournal

(***************************************************************************)
(* Publications from a host's clone.                                       *)
(***************************************************************************)
\* Every payload that is published by a host other than the claim.
LEMMA RecoveryCommit ==
    ASSUME IInv, NEW w \in Workers, NEW r \in Runs, NEW cm,
           cm = Commit(RecoveryRequiredState(canon, r), NoCommand, NoReport)
    PROVE  /\ cm \in Commits /\ Landable(w, cm)
           /\ cm.new.status # "CODEX_RUNNING"
<1>1. canon \in States /\ StoreTypes
  BY Parts DEF StoreTypes
<1>2. PICK n \in States : n = RecoveryRequiredState(canon, r)
  <2>1. 1 \in CommandIds /\ 0 \in Ids
    BY MaxCommandAssumption DEF CommandIds, Ids
  <2>. QED
    BY <1>1, <2>1, PayloadTypes
<1>3. /\ n.status = "RECOVERY_REQUIRED" /\ n.gen = canon.gen + 1
      /\ n.cmd = canon.cmd
  BY <1>1, <1>2 DEF RecoveryRequiredState, States
<1>4. /\ cm \in Commits /\ cm.base = canon /\ cm.new = n
      /\ cm.command = NoCommand /\ cm.report = NoReport
  BY <1>1, <1>2, InitialRecords, CommitType
<1>5. CommitOK(cm)
  <2>1. n.gen >= canon.gen /\ n.cmd >= canon.cmd
    BY <1>1, <1>3, Numbers
  <2>. QED
    BY <1>3, <1>4, <2>1 DEF CommitOK, PENDING_STATES
<1>. QED
  BY <1>3, <1>4, <1>5 DEF Landable

\* A report commit of a leased run whose command becomes the latest report.
LEMMA ReportCommit ==
    ASSUME IInv, NEW w \in Workers, NEW r \in claims, NEW n \in States,
           NEW k \in {"result", "interrupted"}, NEW cm,
           n.status \in ReportTargets, n.gen = canon.gen + 1,
           n.cmd = canon.cmd, n.rep = r.cmd,
           cm = Commit(n, NoCommand, [run |-> r, kind |-> k])
    PROVE  /\ cm \in Commits /\ Landable(w, cm)
           /\ cm.new.status # "CODEX_RUNNING"
<1>1. canon \in States /\ StoreTypes /\ r \in Runs
  BY Parts DEF StoreTypes
<1>2. PICK p \in Reports : p = [run |-> r, kind |-> k]
  BY <1>1 DEF Reports
<1>3. p.run = r
  BY <1>2
<1>4. /\ cm \in Commits /\ cm.base = canon /\ cm.new = n
      /\ cm.command = NoCommand /\ cm.report = p
  BY <1>1, <1>2, InitialRecords, CommitType
<1>5. CommitOK(cm)
  <2>1. n.gen >= canon.gen /\ n.cmd >= canon.cmd
    BY <1>1, Numbers
  <2>. QED
    BY <1>3, <1>4, <2>1 DEF CommitOK, PENDING_STATES, ReportTargets
<1>. QED
  BY <1>4, <1>5 DEF Landable, ReportTargets

\* A quiet publication and whatever the publisher's thread and files do then.
LEMMA CasStep ==
    ASSUME IInv, NEW w \in Workers, NEW cm \in Commits, CasEffect(w, cm),
           cm.new.status # "CODEX_RUNNING", faults' \in Nat,
           UNCHANGED <<polling, expired, manuals, launches>>,
           sidecar' \in [Workers -> [CommandIds -> Sidecars]],
           journal' \in [Workers -> [CommandIds -> Journals]],
           claims' = claims => SidecarInv' /\ JournalInv',
           EvidenceKept,
           \/ thread' = thread
           \/ /\ thread' \in [Workers -> Threads]
              /\ \A v \in Workers \ {w} : thread'[v] = thread[v]
              /\ \/ thread'[w].pc = "idle"
                 \/ /\ thread[w].pc \notin {"idle", "ready"}
                    /\ thread'[w].pc \notin {"idle", "ready", "claimed"}
                    /\ thread'[w].run = thread[w].run
                    /\ thread'[w].pc \in {"saved", "acking"} =>
                          sidecar'[w][thread[w].run.cmd].st # "none"
                    /\ thread'[w].pc \in {"journaled", "armed", "confirming"} =>
                          journal'[w][thread[w].run.cmd].st # "none"
    PROVE  IInv'
<1>1. StoreTypes' /\ StoreInv'
  BY Parts, CasKeepsStore
<1>2. Quiet /\ claims' = claims
  BY Parts, CasIsQuiet DEF Quiet
<1>3. ThreadInv'
  <2>1. CASE thread' = thread
    BY <1>2, <2>1, Parts, ThreadStays DEF ThreadInv
  <2>2. CASE thread' # thread
    BY <1>2, <2>2, Parts, ThreadMoves
  <2>. QED
    BY <2>1, <2>2
<1>4. LocalInv'
  BY <1>2, <1>3, Parts DEF LocalInv, LaunchInv
<1>5. LocalTypes'
  BY Parts DEF LocalTypes
<1>. QED
  BY <1>1, <1>4, <1>5, Assemble

\* The same when the publisher's files stay as they are.
LEMMA PlainCasStep ==
    ASSUME IInv, NEW w \in Workers, NEW cm \in Commits, CasEffect(w, cm),
           cm.new.status # "CODEX_RUNNING", faults' \in Nat,
           UNCHANGED <<polling, expired, manuals, launches, evidenceVars>>,
           \/ thread' = thread
           \/ /\ thread' \in [Workers -> Threads]
              /\ \A v \in Workers \ {w} : thread'[v] = thread[v]
              /\ \/ thread'[w].pc = "idle"
                 \/ /\ thread[w].pc \notin {"idle", "ready"}
                    /\ thread'[w].pc \notin {"idle", "ready", "claimed"}
                    /\ thread'[w].run = thread[w].run
                    /\ thread'[w].pc \in {"saved", "acking"} =>
                          sidecar[w][thread[w].run.cmd].st # "none"
                    /\ thread'[w].pc \in {"journaled", "armed", "confirming"} =>
                          journal[w][thread[w].run.cmd].st # "none"
    PROVE  IInv'
<1>1. /\ sidecar' = sidecar /\ journal' = journal
      /\ UNCHANGED <<polling, expired, manuals, launches>>
  BY DEF evidenceVars
<1>2. /\ sidecar' \in [Workers -> [CommandIds -> Sidecars]]
      /\ journal' \in [Workers -> [CommandIds -> Journals]]
  BY <1>1, Parts DEF LocalTypes
<1>3. claims' = claims => SidecarInv' /\ JournalInv'
  BY <1>1, Parts DEF SidecarInv, JournalInv
<1>4. EvidenceKept
  BY <1>1 DEF EvidenceKept
<1>. QED
  BY <1>1, <1>2, <1>3, <1>4, CasStep

\* The run's own report.
LEMMA PublishReportStep ==
    ASSUME IInv, NEW w \in Workers, PublishReport(w) PROVE IInv'
<1>1. PICK r : r = thread[w].run
  OBVIOUS
<1>2. /\ thread[w].pc \in {"saved", "done"}
      /\ thread[w].pc = "done" => RunMode(w) = "legacy"
      /\ UNCHANGED <<polling, evidenceVars, expired, manuals, launches>>
  BY DEF PublishReport
<1>3. /\ r \in claims /\ r \in Runs /\ r.cmd \in CommandIds
      /\ thread[w].pc = "saved" => sidecar[w][r.cmd].st # "none"
  BY <1>1, <1>2, Parts DEF ThreadInv, ThreadOK, StoreTypes
<1>4. /\ thread \in [Workers -> Threads] /\ canon \in States /\ faults \in Nat
      /\ thread[w].res.target \in ReportTargets
  BY Parts DEF LocalTypes, StoreTypes, Threads, Results
<1>5. PICK n \in States : n = ReportedState(canon, r.cmd, thread[w].res.target)
  <2>1. thread[w].res.target \in ALLOWED_STATES /\ 0 \in Ids
    BY <1>4, MaxCommandAssumption DEF ReportTargets, ALLOWED_STATES, Ids
  <2>. QED
    BY <1>3, <1>4, <2>1, PayloadTypes
<1>6. /\ n.status \in ReportTargets /\ n.gen = canon.gen + 1
      /\ n.cmd = canon.cmd /\ n.rep = r.cmd
  BY <1>4, <1>5 DEF ReportedState, States
<1>7. PICK cm : cm = Commit(n, NoCommand, [run |-> r, kind |-> "result"])
  OBVIOUS
<1>8. cm \in Commits /\ Landable(w, cm) /\ cm.new.status # "CODEX_RUNNING"
  BY <1>3, <1>6, <1>7, ReportCommit
<1>9. PICK o \in Outcomes :
         /\ publish_cas(w, o, complete_already(w), complete_expected(w), cm)
         /\ IF ~Succeeded(o) THEN Goto(w, "unsaved")
            ELSE IF RunMode(w) = "typed" THEN Goto(w, "acking") ELSE Stop(w)
  BY <1>1, <1>5, <1>7 DEF PublishReport, complete_payload, ResultOf
<1>10. CasEffect(w, cm) /\ faults' \in Nat
  BY <1>4, <1>8, <1>9 DEF publish_cas, CasEffect, Fault
<1>11. CASE Stop(w)
  BY <1>2, <1>4, <1>8, <1>10, <1>11, StopEffect, PlainCasStep
<1>12. CASE Goto(w, "unsaved")
  <2>1. "unsaved" \in ThreadStates
    BY DEF ThreadStates
  <2>2. /\ thread' \in [Workers -> Threads] /\ thread'[w].pc = "unsaved"
        /\ thread'[w].run = thread[w].run
        /\ \A v \in Workers \ {w} : thread'[v] = thread[v]
    BY <1>4, <1>12, <2>1, GotoEffect
  <2>. QED
    BY <1>2, <1>8, <1>10, <2>2, PlainCasStep
<1>13. CASE Goto(w, "acking") /\ RunMode(w) = "typed"
  <2>1. "acking" \in ThreadStates
    BY DEF ThreadStates
  <2>2. /\ thread' \in [Workers -> Threads] /\ thread'[w].pc = "acking"
        /\ thread'[w].run = thread[w].run
        /\ \A v \in Workers \ {w} : thread'[v] = thread[v]
    BY <1>4, <1>13, <2>1, GotoEffect
  <2>3. sidecar[w][thread[w].run.cmd].st # "none"
    BY <1>1, <1>2, <1>3, <1>13
  <2>. QED
    BY <1>2, <1>8, <1>10, <2>2, <2>3, PlainCasStep
<1>. QED
  BY <1>9, <1>11, <1>12, <1>13

\* The run's own request for recovery.
LEMMA NetworkRecoveryStep ==
    ASSUME IInv, NEW w \in Workers, PublishNetworkRecovery(w) PROVE IInv'
<1>1. PICK r \in Runs : r = thread[w].run
  BY Parts DEF LocalTypes, Threads
<1>2. /\ thread[w].pc = "armed"
      /\ UNCHANGED <<polling, evidenceVars, expired, manuals, launches>>
  BY DEF PublishNetworkRecovery
<1>3. /\ thread \in [Workers -> Threads] /\ faults \in Nat
      /\ journal[w][thread[w].run.cmd].st # "none"
  BY <1>2, Parts DEF LocalTypes, ThreadInv, ThreadOK
<1>4. PICK cm : cm = Commit(RecoveryRequiredState(canon, r), NoCommand, NoReport)
  OBVIOUS
<1>5. cm \in Commits /\ Landable(w, cm) /\ cm.new.status # "CODEX_RUNNING"
  BY <1>4, RecoveryCommit
<1>6. PICK o \in Outcomes :
         /\ publish_cas(w, o, matches_recovery_state(canon, thread[w].run),
                        matches_execution_lease(canon, thread[w].run), cm)
         /\ IF Succeeded(o) THEN Goto(w, "confirming") ELSE Stop(w)
  BY <1>1, <1>4 DEF PublishNetworkRecovery
<1>7. CasEffect(w, cm) /\ faults' \in Nat
  BY <1>3, <1>5, <1>6 DEF publish_cas, CasEffect, Fault
<1>8. CASE Stop(w)
  BY <1>2, <1>3, <1>5, <1>7, <1>8, StopEffect, PlainCasStep
<1>9. CASE Goto(w, "confirming")
  <2>1. "confirming" \in ThreadStates
    BY DEF ThreadStates
  <2>2. /\ thread' \in [Workers -> Threads] /\ thread'[w].pc = "confirming"
        /\ thread'[w].run = thread[w].run
        /\ \A v \in Workers \ {w} : thread'[v] = thread[v]
    BY <1>3, <1>9, <2>1, GotoEffect
  <2>. QED
    BY <1>2, <1>3, <1>5, <1>7, <2>2, PlainCasStep
<1>. QED
  BY <1>6, <1>8, <1>9

\* Recovery of an expired lease.
LEMMA ExpiredLeaseStep ==
    ASSUME IInv, NEW w \in Workers, mark_expired_lease(w) PROVE IInv'
<1>1. PICK r \in Runs : r = clone[w].run
  BY Parts DEF StoreTypes, States
<1>2. PICK cm : cm = Commit(RecoveryRequiredState(canon, r), NoCommand, NoReport)
  OBVIOUS
<1>3. cm \in Commits /\ Landable(w, cm) /\ cm.new.status # "CODEX_RUNNING"
  BY <1>2, RecoveryCommit
<1>4. /\ UNCHANGED <<polling, evidenceVars, expired, manuals, launches>>
      /\ thread' = thread /\ faults \in Nat
  BY Parts DEF mark_expired_lease, LocalTypes
<1>5. PICK o \in Outcomes :
         publish_cas(w, o, matches_recovery_state(canon, r),
                     lease_expired(canon) /\ matches_execution_lease(canon, r),
                     cm)
  BY <1>1, <1>2 DEF mark_expired_lease
<1>6. CasEffect(w, cm) /\ faults' \in Nat
  BY <1>3, <1>4, <1>5 DEF publish_cas, CasEffect, Fault
<1>. QED
  BY <1>3, <1>4, <1>6, PlainCasStep

\* A reconciler marks one existing sidecar, or none, after a quiet publication.
LEMMA SidecarCasStep ==
    ASSUME IInv, NEW w \in Workers, NEW c \in CommandIds, NEW cm \in Commits,
           CasEffect(w, cm), cm.new.status # "CODEX_RUNNING", faults' \in Nat,
           UNCHANGED <<polling, thread, journal, expired, manuals, launches>>,
           sidecar[w][c].st # "none",
           \/ sidecar' = sidecar
           \/ \E st \in SidecarStates \ {"none"} : MarkSidecar(w, c, st)
    PROVE  IInv'
<1>1. claims' = claims
  BY Parts, CasIsQuiet DEF Quiet
<1>2. sidecar \in [Workers -> [CommandIds -> Sidecars]] /\ SidecarInv
      /\ journal \in [Workers -> [CommandIds -> Journals]] /\ JournalInv
  BY Parts DEF LocalTypes
<1>3. /\ sidecar' \in [Workers -> [CommandIds -> Sidecars]] /\ SidecarInv'
      /\ \A v \in Workers, d \in CommandIds :
            sidecar[v][d].st # "none" => sidecar'[v][d].st # "none"
  <2>1. CASE sidecar' = sidecar
    BY <1>1, <1>2, <2>1 DEF SidecarInv
  <2>2. CASE \E st \in SidecarStates \ {"none"} : MarkSidecar(w, c, st)
    BY <1>1, <1>2, <2>2, SidecarMarked
  <2>. QED
    BY <2>1, <2>2
<1>4. journal' \in [Workers -> [CommandIds -> Journals]] /\ JournalInv'
  BY <1>1, <1>2 DEF JournalInv
<1>5. EvidenceKept
  BY <1>3 DEF EvidenceKept
<1>. QED
  BY <1>3, <1>4, <1>5, CasStep

\* The same for one existing journal.
LEMMA JournalCasStep ==
    ASSUME IInv, NEW w \in Workers, NEW c \in CommandIds, NEW cm \in Commits,
           CasEffect(w, cm), cm.new.status # "CODEX_RUNNING", faults' \in Nat,
           UNCHANGED <<polling, thread, sidecar, expired, manuals, launches>>,
           journal[w][c].st # "none",
           \/ journal' = journal
           \/ \E st \in SidecarStates \ {"none"} : MarkJournal(w, c, st)
    PROVE  IInv'
<1>1. claims' = claims
  BY Parts, CasIsQuiet DEF Quiet
<1>2. sidecar \in [Workers -> [CommandIds -> Sidecars]] /\ SidecarInv
      /\ journal \in [Workers -> [CommandIds -> Journals]] /\ JournalInv
  BY Parts DEF LocalTypes
<1>3. /\ journal' \in [Workers -> [CommandIds -> Journals]] /\ JournalInv'
      /\ \A v \in Workers, d \in CommandIds :
            journal[v][d].st # "none" => journal'[v][d].st # "none"
  <2>1. CASE journal' = journal
    BY <1>1, <1>2, <2>1 DEF JournalInv
  <2>2. CASE \E st \in SidecarStates \ {"none"} : MarkJournal(w, c, st)
    BY <1>1, <1>2, <2>2, JournalMarked
  <2>. QED
    BY <2>1, <2>2
<1>4. sidecar' \in [Workers -> [CommandIds -> Sidecars]] /\ SidecarInv'
  BY <1>1, <1>2 DEF SidecarInv
<1>5. EvidenceKept
  BY <1>3 DEF EvidenceKept
<1>. QED
  BY <1>3, <1>4, <1>5, CasStep

\* A deferred interruption journal.
LEMMA ReconcileJournalStep ==
    ASSUME IInv, NEW w \in Workers, NEW c \in CommandIds,
           _reconcile_one_journal(w, c)
    PROVE  IInv'
<1>1. PICK r \in Runs : r = journal[w][c].run
  BY Parts DEF LocalTypes, Journals
<1>2. PICK cm : cm = Commit(RecoveryRequiredState(canon, r), NoCommand, NoReport)
  OBVIOUS
<1>3. cm \in Commits /\ Landable(w, cm) /\ cm.new.status # "CODEX_RUNNING"
  BY <1>2, RecoveryCommit
<1>4. /\ UNCHANGED <<polling, thread, sidecar, expired, manuals, launches>>
      /\ journal[w][c].st = "pending" /\ faults \in Nat
  BY Parts DEF _reconcile_one_journal, LocalTypes
<1>5. {"superseded", "reconciled", "conflict"} \subseteq SidecarStates \ {"none"}
  BY DEF SidecarStates
<1>6. CASE /\ UNCHANGED <<canonVars, cloneVars, faults>>
           /\ \E st \in {"superseded", "reconciled", "conflict"} :
                 MarkJournal(w, c, st)
  <2>1. CasEffect(w, cm)
    BY <1>6 DEF CasEffect
  <2>. QED
    BY <1>3, <1>4, <1>5, <1>6, <2>1, JournalCasStep
<1>7. CASE \E o \in Outcomes :
             /\ publish_cas(w, o, matches_recovery_state(canon, r),
                            matches_execution_lease(canon, r), cm)
             /\ \/ journal' = journal
                \/ \E st \in {"reconciled", "conflict"} : MarkJournal(w, c, st)
  <2>1. CasEffect(w, cm) /\ faults' \in Nat
    BY <1>3, <1>4, <1>7 DEF publish_cas, CasEffect, Fault
  <2>. QED
    BY <1>3, <1>4, <1>5, <1>7, <2>1, JournalCasStep
<1>. QED
  BY <1>1, <1>2, <1>6, <1>7 DEF _reconcile_one_journal

\* Publication-only reconciliation of one sidecar.
LEMMA ReconcileOneStep ==
    ASSUME IInv, NEW w \in Workers, NEW c \in CommandIds,
           sidecar[w][c].st # "none", _reconcile_one(w, c),
           UNCHANGED <<polling, thread, journal, expired, manuals, launches>>
    PROVE  IInv'
<1>1. PICK e \in Sidecars : e = sidecar[w][c]
  BY Parts DEF LocalTypes
<1>2. /\ e.run \in claims /\ e.run \in Runs /\ e.run.cmd = c
      /\ e.res.target \in ReportTargets
  BY <1>1, Parts DEF SidecarInv, StoreTypes, Sidecars, Results
<1>3. canon \in States /\ faults \in Nat
  BY Parts DEF StoreTypes, LocalTypes
<1>4. PICK n \in States : n = ReportedState(canon, c, e.res.target)
  <2>1. e.res.target \in ALLOWED_STATES /\ 0 \in Ids
    BY <1>2, MaxCommandAssumption DEF ReportTargets, ALLOWED_STATES, Ids
  <2>. QED
    BY <1>2, <1>3, <2>1, PayloadTypes
<1>5. /\ n.status \in ReportTargets /\ n.gen = canon.gen + 1
      /\ n.cmd = canon.cmd /\ n.rep = e.run.cmd
  BY <1>2, <1>3, <1>4 DEF ReportedState, States
<1>6. PICK cm : cm = Commit(n, NoCommand, [run |-> e.run, kind |-> "result"])
  OBVIOUS
<1>7. cm \in Commits /\ Landable(w, cm) /\ cm.new.status # "CODEX_RUNNING"
  BY <1>2, <1>5, <1>6, ReportCommit
<1>8. {"superseded", "reconciled", "conflict"} \subseteq SidecarStates \ {"none"}
  BY DEF SidecarStates
<1>9. CASE /\ UNCHANGED <<canonVars, cloneVars, faults>>
           /\ MarkSidecar(w, c, pending_report_decision(w, c))
           /\ pending_report_decision(w, c) # "publish"
  <2>1. CasEffect(w, cm)
    BY <1>9 DEF CasEffect
  <2>2. pending_report_decision(w, c) \in {"superseded", "conflict"}
    BY <1>9 DEF pending_report_decision
  <2>3. \E st \in SidecarStates \ {"none"} : MarkSidecar(w, c, st)
    BY <1>8, <1>9, <2>2
  <2>. QED
    BY <1>3, <1>7, <1>9, <2>1, <2>3, SidecarCasStep
<1>10. CASE \E o \in Outcomes :
             /\ publish_cas(w, o,
                  /\ reports[c] = ResultOf(e.run)
                  /\ canon.rep >= c
                  /\ ~matches_execution_lease(canon, e.run),
                  /\ reports[c] = NoReport
                  /\ canon.rep = c - 1
                  /\ matches_execution_lease(canon, e.run), cm)
             /\ \/ sidecar' = sidecar
                \/ \E st \in {"reconciled", "conflict"} : MarkSidecar(w, c, st)
  <2>1. CasEffect(w, cm) /\ faults' \in Nat
    BY <1>3, <1>7, <1>10 DEF publish_cas, CasEffect, Fault
  <2>. QED
    BY <1>7, <1>8, <1>10, <2>1, SidecarCasStep
<1>. QED
  BY <1>1, <1>4, <1>6, <1>9, <1>10 DEF _reconcile_one, ResultOf

\* A pending report of a run without a WAL.
LEMMA LegacyReportStep ==
    ASSUME IInv, NEW w \in Workers, NEW c \in CommandIds,
           ReconcileLegacyReport(w, c)
    PROVE  IInv'
<1>1. /\ sidecar[w][c].st = "pending" /\ _reconcile_one(w, c)
      /\ UNCHANGED <<polling, thread, journal, expired, manuals, launches>>
  BY DEF ReconcileLegacyReport
<1>. QED
  BY <1>1, ReconcileOneStep

\* Typed recovery: supersede, require recovery, or publish the report.
LEMMA TypedReportStep ==
    ASSUME IInv, NEW w \in Workers, NEW c \in CommandIds,
           _reconcile_typed_report(w, c)
    PROVE  IInv'
<1>1. /\ sidecar[w][c].st # "none"
      /\ UNCHANGED <<polling, thread, journal, expired, manuals, launches>>
      /\ \/ /\ MarkSidecar(w, c, "superseded")
            /\ UNCHANGED <<canonVars, cloneVars, faults>>
         \/ _transition_typed_recovery(w, c)
         \/ _reconcile_one(w, c)
  BY DEF _reconcile_typed_report
<1>2. PICK cm : cm = Commit(RecoveryRequiredState(canon, NoRun), NoCommand,
                            NoReport)
  OBVIOUS
<1>3. /\ cm \in Commits /\ Landable(w, cm) /\ cm.new.status # "CODEX_RUNNING"
      /\ faults \in Nat
  BY <1>2, RecoveryCommit, InitialRecords, Parts DEF LocalTypes
<1>4. {"superseded", "conflict"} \subseteq SidecarStates \ {"none"}
  BY DEF SidecarStates
<1>5. CASE /\ UNCHANGED <<canonVars, cloneVars, faults>>
           /\ \E st \in {"superseded", "conflict"} : MarkSidecar(w, c, st)
  <2>1. CasEffect(w, cm)
    BY <1>5 DEF CasEffect
  <2>. QED
    BY <1>1, <1>3, <1>4, <1>5, <2>1, SidecarCasStep
<1>6. CASE \E o \in Outcomes :
             /\ publish_cas(w, o, canon.status = "RECOVERY_REQUIRED",
                            matches_execution_lease(canon, sidecar[w][c].run),
                            cm)
             /\ sidecar' = sidecar \/ MarkSidecar(w, c, "conflict")
  <2>1. CasEffect(w, cm) /\ faults' \in Nat
    BY <1>3, <1>6 DEF publish_cas, CasEffect, Fault
  <2>. QED
    BY <1>1, <1>3, <1>4, <1>6, <2>1, SidecarCasStep
<1>7. CASE _transition_typed_recovery(w, c)
  BY <1>2, <1>5, <1>6, <1>7 DEF _transition_typed_recovery
<1>8. CASE _reconcile_one(w, c)
  BY <1>1, <1>8, ReconcileOneStep
<1>. QED
  BY <1>1, <1>5, <1>7, <1>8

\* The operator's resolution publishes a report of the journal's own lease.
LEMMA ResolutionStep ==
    ASSUME IInv, NEW w \in Workers, NEW c \in CommandIds,
           resolve_resolution(w, c)
    PROVE  IInv'
<1>1. PICK r : r = journal[w][c].run
  OBVIOUS
<1>2. /\ journal[w][c].st = "reconciled" /\ thread' = thread
      /\ UNCHANGED <<polling, evidenceVars, expired, manuals, launches>>
  BY DEF resolve_resolution
<1>3. r \in claims /\ r.cmd = c
  BY <1>1, <1>2, Parts DEF JournalInv
<1>4. canon \in States /\ faults \in Nat
  BY Parts DEF StoreTypes, LocalTypes
<1>5. PICK n \in States : n = ResolvedState(canon, c)
  <2>1. 0 \in Ids
    BY MaxCommandAssumption DEF Ids
  <2>. QED
    BY <1>4, <2>1, InitialRecords, PayloadTypes
<1>6. /\ n.status \in ReportTargets /\ n.gen = canon.gen + 1
      /\ n.cmd = canon.cmd /\ n.rep = r.cmd
  BY <1>3, <1>4, <1>5 DEF ResolvedState, States, ReportTargets
<1>7. PICK cm : cm = Commit(n, NoCommand, [run |-> r, kind |-> "interrupted"])
  OBVIOUS
<1>8. cm \in Commits /\ Landable(w, cm) /\ cm.new.status # "CODEX_RUNNING"
  BY <1>3, <1>6, <1>7, ReportCommit
<1>9. \E o \in Outcomes :
         publish_cas(w, o,
            /\ AlreadyResolved(canon, c, commands[c].basedOn, clone[w].gen)
            /\ reports[c] = InterruptedOf(r),
            /\ ResolutionAllowed(canon, c, commands[c].basedOn, clone[w].gen)
            /\ reports[c] = NoReport, cm)
  BY <1>1, <1>5, <1>7 DEF resolve_resolution, InterruptedOf
<1>10. CasEffect(w, cm) /\ faults' \in Nat
  BY <1>4, <1>8, <1>9 DEF publish_cas, CasEffect, Fault
<1>. QED
  BY <1>2, <1>8, <1>10, PlainCasStep

\* A command commit that moves the queue pointer on; what it replaces is the
\* unclaimed command at the head of the queue.
LEMMA CommandCommit ==
    ASSUME IInv, NEW w \in Workers, NEW n \in States, NEW k \in Commands,
           NEW cm, cm = Commit(n, k, NoReport), n.gen = canon.gen + 1,
           n.cmd > canon.cmd, n.status \in PENDING_STATES,
           k.withdraws = 0,
           \/ k.supersedes = 0
           \/ k.supersedes = canon.cmd /\ canon.status \in PENDING_STATES
    PROVE  /\ cm \in Commits /\ Landable(w, cm) /\ cm.base = canon
           /\ CommitOK(cm) /\ cm.new.status # "CODEX_RUNNING"
<1>1. canon \in States /\ StoreTypes
  BY Parts DEF StoreTypes
<1>2. /\ cm \in Commits /\ cm.base = canon /\ cm.new = n
      /\ cm.command = k /\ cm.report = NoReport
  BY <1>1, InitialRecords, CommitType
<1>3. n.gen >= canon.gen /\ n.cmd >= canon.cmd
  BY <1>1, Numbers
<1>4. n.status # "CODEX_RUNNING"
  BY DEF PENDING_STATES
<1>5. CommitOK(cm)
  BY <1>2, <1>3, <1>4 DEF CommitOK
<1>. QED
  BY <1>2, <1>4, <1>5 DEF Landable

\* The fields of a published queue state.
LEMMA PublishedFields ==
    ASSUME NEW s \in States, NEW c \in CommandIds,
           NEW st \in PENDING_STATES, NEW i \in Ids, NEW n,
           n = PublishedState(s, c, st, i)
    PROVE  n \in States /\ n.gen = s.gen + 1 /\ n.cmd = c /\ n.status = st
<1>1. st \in ALLOWED_STATES
  BY DEF PENDING_STATES, ALLOWED_STATES
<1>2. n \in States
  BY <1>1, InitialRecords, PayloadTypes
<1>3. n.gen = s.gen + 1 /\ n.cmd = c /\ n.status = st
  BY DEF PublishedState, States
<1>. QED
  BY <1>2, <1>3

\* The gateway publishes only onto the snapshot that it assessed.
LEMMA GatewayStep ==
    ASSUME IInv, NEW w \in Workers, GatewayPublish(w) PROVE IInv'
<1>1. PICK s \in States : s = clone[w]
  BY Parts DEF StoreTypes
<1>2. PICK c \in CommandIds : c = s.cmd + 1
  BY <1>1 DEF GatewayPublish
<1>3. PICK src \in COMMAND_SOURCES, kind \in COMMAND_KINDS, mode \in Modes,
           o \in Outcomes :
         publish_cas(w, o, FALSE, state_is_eligible(s),
            Commit(PublishedState(s, c, IF kind = "FINALIZE" THEN "FINALIZING"
                                        ELSE "COMMAND_READY", s.rep),
                   NewCommand(src, kind, s.rep, s.gen + 1, 0, 0, mode),
                   NoReport))
  BY <1>1, <1>2 DEF GatewayPublish
<1>4. /\ UNCHANGED <<polling, evidenceVars, expired, manuals, launches>>
      /\ thread' = thread
  BY DEF GatewayPublish, ThreadsUntouched
<1>5. PICK st \in PENDING_STATES :
         st = IF kind = "FINALIZE" THEN "FINALIZING" ELSE "COMMAND_READY"
  BY DEF PENDING_STATES
<1>6. /\ s.rep \in Ids /\ s.gen + 1 \in Nat /\ 0 \in Ids
      /\ mode \in {"legacy", "typed"} /\ s.cmd \in Int
      /\ src \in COMMAND_SOURCES \cup {"none"}
  BY MaxCommandAssumption, LanesAssumption, Numbers DEF States, Ids
<1>7. PICK k : k = NewCommand(src, kind, s.rep, s.gen + 1, 0, 0, mode)
  OBVIOUS
<1>8. k \in Commands /\ k.supersedes = 0 /\ k.withdraws = 0
  BY <1>6, <1>7 DEF NewCommand, Commands
<1>9. PICK n : n = PublishedState(s, c, st, s.rep)
  OBVIOUS
<1>10. n \in States /\ n.gen = s.gen + 1 /\ n.cmd = c /\ n.status = st
  BY <1>6, <1>9, PublishedFields
<1>11. PICK cm : cm = Commit(n, k, NoReport)
  OBVIOUS
<1>12. cm \in Commits /\ cm.new.status # "CODEX_RUNNING"
  BY <1>8, <1>10, <1>11, Parts, InitialRecords, CommitType DEF PENDING_STATES
<1>13. canon = s => Landable(w, cm)
  <2>1. SUFFICES ASSUME canon = s PROVE Landable(w, cm)
    OBVIOUS
  <2>2. n.cmd > canon.cmd
    BY <1>2, <1>6, <1>10, <2>1
  <2>. QED
    BY <1>8, <1>10, <1>11, <2>1, <2>2, CommandCommit
<1>14. publish_cas(w, o, FALSE, state_is_eligible(s), cm) /\ faults \in Nat
  BY <1>3, <1>5, <1>7, <1>9, <1>11, Parts DEF LocalTypes
<1>15. CasEffect(w, cm) /\ faults' \in Nat
  BY <1>13, <1>14 DEF publish_cas, CasEffect, Fault, state_is_eligible
<1>. QED
  BY <1>4, <1>12, <1>15, PlainCasStep

\* The claim.  It is never taken for already applied, since the run is fresh;
\* it lands only on the pending state of the thread's snapshot, for which no
\* lease and so no launch exists.
LEMMA ClaimStep ==
    ASSUME IInv, NEW w \in Workers, ClaimCommand(w) PROVE IInv'
<1>1. PICK r \in Runs : r = thread[w].run
  BY Parts DEF LocalTypes, Threads
<1>2. PICK snap \in States : snap = thread[w].snap
  BY Parts DEF LocalTypes, Threads
<1>3. /\ thread[w].pc = "ready"
      /\ UNCHANGED <<polling, sidecar, journal, expired, manuals, launches>>
  BY DEF ClaimCommand, evidenceVars
<1>4. /\ r.owner = w /\ r.cmd \in CommandIds /\ r \notin claims
      /\ snap.status \in PENDING_STATES /\ r.cmd = snap.cmd
      /\ r.gen = snap.gen + 1
  BY <1>1, <1>2, <1>3, Parts DEF ThreadInv, ThreadOK
<1>5. canon \in States /\ faults \in Nat /\ thread \in [Workers -> Threads]
  BY Parts DEF StoreTypes, LocalTypes
<1>6. PICK n \in States : n = ClaimedState(canon, r)
  <2>1. 0 \in Ids
    BY MaxCommandAssumption DEF Ids
  <2>. QED
    BY <1>4, <1>5, <2>1, PayloadTypes
<1>7. /\ n.status = "CODEX_RUNNING" /\ n.gen = canon.gen + 1
      /\ n.cmd = canon.cmd /\ n.run = r
  BY <1>5, <1>6 DEF ClaimedState, States
<1>8. PICK cm : cm = Commit(n, NoCommand, NoReport)
  OBVIOUS
<1>9. /\ cm \in Commits /\ cm.base = canon /\ cm.new = n
      /\ cm.command = NoCommand /\ cm.report = NoReport
  BY <1>8, Parts, InitialRecords, CommitType
<1>10. ~claim_already(w)
  BY <1>1, <1>4, Parts DEF claim_already, LeaseInv
<1>11. claim_expected(w) => /\ canon.status \in PENDING_STATES
                            /\ canon.gen = snap.gen /\ canon.cmd = snap.cmd
  BY <1>2, <1>4 DEF claim_expected, same_ready_snapshot
<1>12. claim_expected(w) => Landable(w, cm)
  <2>1. n.gen >= canon.gen /\ n.cmd >= canon.cmd
    BY <1>5, <1>7, Numbers
  <2>2. n.status \notin PENDING_STATES
    BY <1>7 DEF PENDING_STATES
  <2>. QED
    BY <1>4, <1>7, <1>9, <1>11, <2>1, <2>2 DEF Landable, CommitOK
<1>13. PICK o \in Outcomes :
         /\ publish_cas(w, o, claim_already(w), claim_expected(w), cm)
         /\ IF Succeeded(o) THEN Goto(w, "claimed") ELSE Stop(w)
  BY <1>1, <1>6, <1>8 DEF ClaimCommand, claim_payload
<1>14. CasEffect(w, cm) /\ faults' \in Nat
  BY <1>5, <1>10, <1>12, <1>13 DEF publish_cas, CasEffect, Fault
<1>15. StoreTypes' /\ StoreInv'
  BY <1>9, <1>14, Parts, CasKeepsStore
<1>16. /\ claims \subseteq claims' /\ claims' \subseteq claims \cup {r}
       /\ \A v \in Workers \ {w} : unpushed'[v] = unpushed[v]
  <2>1. CASE Land(cm) /\ UNCHANGED unpushed
    BY <1>7, <1>9, <2>1, Parts, LandTypes
  <2>2. CASE unpushed' = [unpushed EXCEPT ![w] = cm] /\ UNCHANGED canonVars
    BY <2>2, Parts DEF canonVars, StoreTypes
  <2>3. CASE UNCHANGED <<canonVars, unpushed>>
    BY <2>3 DEF canonVars
  <2>. QED
    BY <1>14, <2>1, <2>2, <2>3 DEF CasEffect, cloneVars
<1>17. Succeeded(o) => /\ r \in claims'
                       /\ launches[r.cmd] = 0
  <2>1. SUFFICES ASSUME Succeeded(o)
                 PROVE  r \in claims' /\ launches[r.cmd] = 0
    OBVIOUS
  <2>2. Land(cm) /\ claim_expected(w)
    BY <1>10, <1>13, <2>1 DEF publish_cas, Succeeded
  <2>3. r \in claims'
    BY <1>7, <1>9, <2>2, Parts, LandTypes
  <2>4. \A q \in claims : q.cmd < r.cmd
    BY <1>4, <1>11, <2>2, Parts DEF ClaimsInv
  <2>5. \A q \in claims : q.cmd # r.cmd
    BY <2>4, <1>4, Parts, Numbers DEF StoreTypes
  <2>6. ~(launches[r.cmd] > 0) /\ launches[r.cmd] \in Nat
    BY <1>4, <2>5, Parts DEF LaunchInv, LocalTypes
  <2>. QED
    BY <2>3, <2>6
<1>18. /\ thread' \in [Workers -> Threads]
       /\ \A v \in Workers \ {w} : thread'[v] = thread[v]
       /\ Succeeded(o) => thread'[w].pc = "claimed" /\ thread'[w].run = r
       /\ ~Succeeded(o) => thread'[w].pc = "idle"
  <2>1. "claimed" \in ThreadStates
    BY DEF ThreadStates
  <2>. QED
    BY <1>1, <1>5, <1>13, <2>1, GotoEffect, StopEffect
<1>19. LocalTypes'
  BY <1>3, <1>14, <1>18, Parts DEF LocalTypes
<1>20. ThreadInv'
  <2>1. SUFFICES ASSUME NEW v \in Workers PROVE ThreadOK(v)'
    BY DEF ThreadInv
  <2>2. CASE v = w
    <3>1. CASE Succeeded(o)
      BY <1>3, <1>4, <1>17, <1>18, <2>2, <3>1 DEF ThreadOK
    <3>2. CASE ~Succeeded(o)
      BY <1>18, <2>2, <3>2 DEF ThreadOK
    <3>. QED
      BY <3>1, <3>2
  <2>3. CASE v # w
    <3>1. /\ ThreadOK(v) /\ thread'[v] = thread[v]
          /\ unpushed'[v] = unpushed[v]
      BY <1>16, <1>18, <2>3, Parts DEF ThreadInv
    <3>2. thread[v].pc = "ready" => thread[v].run # r
      BY <1>4, <2>3, <3>1 DEF ThreadOK
    <3>. QED
      BY <1>3, <1>16, <3>1, <3>2 DEF ThreadOK
  <2>. QED
    BY <2>2, <2>3
<1>21. LocalInv'
  BY <1>3, <1>16, <1>20, Parts DEF LocalInv, SidecarInv, JournalInv, LaunchInv
<1>. QED
  BY <1>15, <1>19, <1>21, Assemble

(***************************************************************************)
(* Publications from clones of their own.                                  *)
(***************************************************************************)
\* A landing that grants no lease keeps the invariant.
LEMMA RemoteStep ==
    ASSUME IInv, NEW cm \in Commits, CommitOK(cm), cm.base = canon, Land(cm),
           UNCHANGED cloneVars, cm.new.status # "CODEX_RUNNING",
           UNCHANGED <<polling, thread, evidenceVars, expired, launches>>,
           faults' \in Nat, manuals' \subseteq manuals
    PROVE  IInv'
<1>1. StoreTypes' /\ StoreInv'
  BY Parts, RemoteKeepsStore
<1>2. claims' = claims /\ unpushed' = unpushed
  BY Parts, LandTypes DEF cloneVars
<1>3. Quiet /\ EvidenceKept
  BY <1>2 DEF Quiet, EvidenceKept, evidenceVars
<1>4. ThreadInv'
  BY <1>3, Parts, ThreadStays DEF ThreadInv
<1>5. LocalInv'
  BY <1>2, <1>4, Parts DEF LocalInv, SidecarInv, JournalInv, LaunchInv,
                           evidenceVars
<1>6. LocalTypes'
  BY Parts DEF LocalTypes, evidenceVars
<1>. QED
  BY <1>1, <1>5, <1>6, Assemble

\* Publication of a pending command that replaces nothing or the unclaimed head.
LEMMA QueueStep ==
    ASSUME IInv, NEW c \in CommandIds, NEW st \in PENDING_STATES,
           NEW i \in Ids, NEW k \in Commands, c > canon.cmd, k.withdraws = 0,
           \/ k.supersedes = 0
           \/ k.supersedes = canon.cmd /\ canon.status \in PENDING_STATES,
           Publish(Commit(PublishedState(canon, c, st, i), k, NoReport))
    PROVE  IInv'
<1>1. canon \in States /\ faults \in Nat
  BY Parts DEF StoreTypes, LocalTypes
<1>2. PICK n : n = PublishedState(canon, c, st, i)
  OBVIOUS
<1>3. n \in States /\ n.gen = canon.gen + 1 /\ n.cmd = c /\ n.status = st
  BY <1>1, <1>2, PublishedFields
<1>4. PICK cm : cm = Commit(n, k, NoReport)
  OBVIOUS
<1>5. /\ cm \in Commits /\ cm.base = canon /\ cm.new = n
      /\ cm.command = k /\ cm.report = NoReport
  BY <1>3, <1>4, Parts, InitialRecords, CommitType
<1>6. n.gen >= canon.gen /\ n.cmd >= canon.cmd /\ n.status # "CODEX_RUNNING"
  BY <1>1, <1>3, Numbers DEF PENDING_STATES
<1>7. CommitOK(cm)
  BY <1>3, <1>5, <1>6 DEF CommitOK
<1>8. /\ Land(cm) /\ UNCHANGED cloneVars
      /\ UNCHANGED <<polling, thread, evidenceVars, expired, launches>>
      /\ faults' = faults /\ manuals' = manuals
  BY <1>2, <1>4 DEF Publish, ThreadsUntouched
<1>. QED
  BY <1>1, <1>5, <1>6, <1>7, <1>8, RemoteStep

\* Every new id lies beyond the canonical pointer.
LEMMA NextIdIsNew ==
    ASSUME NEW c \in CommandIds, IsNextCommandId(c)
    PROVE  c > canon.cmd
BY DEF IsNextCommandId, KnownIds

\* The lanes that put a command at the head of the queue: supersede, repair,
\* and a malformed publication.
LEMMA ReplacementSteps ==
    ASSUME IInv,
           publish_manual_priority \/ repair_unclaimed_command \/ PublishMalformed
    PROVE  IInv'
<1>1. /\ canon \in States /\ canon.rep \in Ids /\ canon.rev \in Ids
      /\ canon.cmd \in Ids /\ canon.gen + 1 \in Nat /\ 0 \in Ids
      /\ commands \in [CommandIds -> Commands]
  BY Parts, MaxCommandAssumption DEF StoreTypes, States, Ids
<1>2. Modes \subseteq {"legacy", "typed"} /\ "COMMAND_READY" \in PENDING_STATES
  BY LanesAssumption DEF PENDING_STATES
<1>3. canon.cmd # 0 => canon.cmd \in CommandIds
  BY <1>1, MaxCommandAssumption DEF Ids, CommandIds
<1>4. /\ {"scheduled_chatgpt", "manual_chatgpt"} \subseteq COMMAND_SOURCES \cup {"none"}
      /\ "EXECUTE" \in COMMAND_KINDS
  BY DEF COMMAND_SOURCES, COMMAND_KINDS
<1>5. CASE publish_manual_priority
  <2>1. PICK c \in CommandIds, mode \in Modes :
           /\ IsNextCommandId(c)
           /\ Publish(Commit(
                PublishedState(canon, c, "COMMAND_READY", canon.rev),
                NewCommand("manual_chatgpt", "EXECUTE", canon.rep,
                           canon.gen + 1, canon.cmd, 0, mode), NoReport))
    BY <1>5 DEF publish_manual_priority
  <2>2. canon.status \in PENDING_STATES
    BY <1>2, <1>5 DEF publish_manual_priority, manual_supersede_decision
  <2>3. PICK k : k = NewCommand("manual_chatgpt", "EXECUTE", canon.rep,
                                canon.gen + 1, canon.cmd, 0, mode)
    OBVIOUS
  <2>4. k \in Commands /\ k.supersedes = canon.cmd /\ k.withdraws = 0
    BY <1>1, <1>2, <1>4, <2>3 DEF NewCommand, Commands
  <2>. QED
    BY <1>1, <1>2, <2>1, <2>2, <2>3, <2>4, NextIdIsNew, QueueStep
<1>6. CASE repair_unclaimed_command
  <2>1. PICK c \in CommandIds, mode \in Modes :
           /\ c > canon.cmd
           /\ Publish(Commit(
                PublishedState(canon, c, "COMMAND_READY", canon.rev),
                NewCommand(commands[canon.cmd].src, commands[canon.cmd].kind,
                           canon.rep, canon.gen + 1, canon.cmd, 0, mode),
                NoReport))
    BY <1>6 DEF repair_unclaimed_command
  <2>2. canon.status \in PENDING_STATES /\ canon.cmd # 0
    BY <1>2, <1>6 DEF repair_unclaimed_command, assess_unclaimed_command_repair
  <2>3. /\ commands[canon.cmd].src \in COMMAND_SOURCES \cup {"none"}
        /\ commands[canon.cmd].kind \in COMMAND_KINDS
    BY <1>1, <1>3, <2>2 DEF Commands
  <2>4. PICK k : k = NewCommand(commands[canon.cmd].src,
                                commands[canon.cmd].kind, canon.rep,
                                canon.gen + 1, canon.cmd, 0, mode)
    OBVIOUS
  <2>5. k \in Commands /\ k.supersedes = canon.cmd /\ k.withdraws = 0
    BY <1>1, <1>2, <2>3, <2>4 DEF NewCommand, Commands
  <2>. QED
    BY <1>1, <1>2, <2>1, <2>2, <2>4, <2>5, QueueStep
<1>7. CASE PublishMalformed
  <2>1. PICK c \in CommandIds :
           /\ IsNextCommandId(c)
           /\ Publish(Commit(
                PublishedState(canon, c, "COMMAND_READY", canon.rep),
                [NewCommand("scheduled_chatgpt", "EXECUTE", canon.rep,
                            canon.gen + 1, 0, 0, "legacy")
                 EXCEPT !.valid = FALSE], NoReport))
    BY <1>7 DEF PublishMalformed
  <2>2. PICK k : k = NewCommand("scheduled_chatgpt", "EXECUTE", canon.rep,
                                canon.gen + 1, 0, 0, "legacy")
    OBVIOUS
  <2>3. PICK q : q = [k EXCEPT !.valid = FALSE]
    OBVIOUS
  <2>4. k \in Commands /\ k.supersedes = 0 /\ k.withdraws = 0
    BY <1>1, <1>4, <2>2 DEF NewCommand, Commands
  <2>5. q \in Commands /\ q.supersedes = 0 /\ q.withdraws = 0
    BY <2>3, <2>4 DEF Commands
  <2>. QED
    BY <1>1, <1>2, <2>1, <2>2, <2>3, <2>5, NextIdIsNew, QueueStep
<1>. QED
  BY <1>5, <1>6, <1>7

\* State updates of the Supervisor that publish no command.
LEMMA SupervisorSteps ==
    ASSUME IInv, PauseForOwner \/ AcceptFinalDelivery PROVE IInv'
<1>1. canon \in States /\ faults \in Nat
  BY Parts DEF StoreTypes, LocalTypes
<1>2. PICK st \in {"HUMAN_REQUIRED", "DONE"} :
         Publish(Commit([canon EXCEPT !.status = st, !.gen = canon.gen + 1],
                        NoCommand, NoReport))
  BY DEF PauseForOwner, AcceptFinalDelivery
<1>3. PICK n : n = [canon EXCEPT !.status = st, !.gen = canon.gen + 1]
  OBVIOUS
<1>4. n \in States /\ n.status = st /\ n.gen = canon.gen + 1 /\ n.cmd = canon.cmd
  <2>1. st \in ALLOWED_STATES /\ canon.gen + 1 \in Nat
    BY <1>1 DEF States, ALLOWED_STATES
  <2>2. n \in States
    BY <1>1, <1>3, <2>1 DEF States
  <2>. QED
    BY <1>1, <1>3, <2>2 DEF States
<1>5. PICK cm : cm = Commit(n, NoCommand, NoReport)
  OBVIOUS
<1>6. /\ cm \in Commits /\ cm.base = canon /\ cm.new = n
      /\ cm.command = NoCommand /\ cm.report = NoReport
  BY <1>4, <1>5, Parts, InitialRecords, CommitType
<1>7. n.gen >= canon.gen /\ n.cmd >= canon.cmd
  BY <1>1, <1>4, Numbers
<1>8. CommitOK(cm) /\ cm.new.status # "CODEX_RUNNING"
  BY <1>4, <1>6, <1>7 DEF CommitOK, PENDING_STATES
<1>9. /\ Land(cm) /\ UNCHANGED cloneVars
      /\ UNCHANGED <<polling, thread, evidenceVars, expired, launches>>
      /\ faults' = faults /\ manuals' = manuals
  BY <1>2, <1>3, <1>5 DEF Publish, ThreadsUntouched
<1>. QED
  BY <1>1, <1>6, <1>8, <1>9, RemoteStep

\* The human's report of a fast-lane run.
LEMMA FinishManualStep ==
    ASSUME IInv, NEW r \in manuals, finish_manual(r) PROVE IInv'
<1>1. /\ canon \in States /\ faults \in Nat /\ r \in claims /\ r \in Runs
      /\ r.cmd \in CommandIds
  BY Parts DEF StoreTypes, LocalTypes, ClaimsInv
<1>2. PICK delivered \in BOOLEAN, outcome \in {"SUCCESS", "FAILED"} :
         Land(Commit(ReportedState(canon, r.cmd,
                        report_status_after_execution(
                           commands[r.cmd].kind, outcome, delivered)),
                     NoCommand, ResultOf(r)))
  BY DEF finish_manual
<1>3. PICK st \in {"REPORT_READY", "FINAL_REPORT_READY"} :
         st = report_status_after_execution(commands[r.cmd].kind, outcome,
                                            delivered)
  BY DEF report_status_after_execution
<1>4. PICK n \in States : n = ReportedState(canon, r.cmd, st)
  <2>1. st \in ALLOWED_STATES /\ 0 \in Ids
    BY MaxCommandAssumption DEF ALLOWED_STATES, Ids
  <2>. QED
    BY <1>1, <2>1, PayloadTypes
<1>5. /\ n.status = st /\ n.gen = canon.gen + 1 /\ n.cmd = canon.cmd
      /\ n.rep = r.cmd
  BY <1>1, <1>4 DEF ReportedState, States
<1>6. PICK p : p = [run |-> r, kind |-> "result"]
  OBVIOUS
<1>7. p \in Reports /\ p.run = r /\ p = ResultOf(r)
  BY <1>1, <1>6 DEF Reports, ResultOf
<1>8. PICK cm : cm = Commit(n, NoCommand, p)
  OBVIOUS
<1>9. /\ cm \in Commits /\ cm.base = canon /\ cm.new = n
      /\ cm.command = NoCommand /\ cm.report = p
  BY <1>7, <1>8, Parts, InitialRecords, CommitType
<1>10. n.gen >= canon.gen /\ n.cmd >= canon.cmd
  BY <1>1, <1>5, Numbers
<1>11. CommitOK(cm) /\ cm.new.status # "CODEX_RUNNING"
  BY <1>1, <1>5, <1>7, <1>9, <1>10 DEF CommitOK, PENDING_STATES
<1>12. /\ UNCHANGED cloneVars
       /\ UNCHANGED <<polling, thread, evidenceVars, expired, launches>>
       /\ faults' \in Nat /\ manuals' \subseteq manuals
  BY <1>1 DEF finish_manual, ThreadsUntouched, Fault
<1>13. Land(cm)
  BY <1>2, <1>3, <1>4, <1>7, <1>8
<1>. QED
  BY <1>9, <1>11, <1>12, <1>13, RemoteStep

\* Manual publication and claim.  The lease is of a new command, so no other
\* lease, launch or waiting thread can be of it, and it is no Worker's.
LEMMA ManualClaimStep ==
    ASSUME IInv, NEW c \in CommandIds, NEW k \in Commands, c > canon.cmd,
           \A d \in {k.supersedes, k.withdraws} \ {0} :
              d = canon.cmd /\ canon.status \in PENDING_STATES,
           ManualClaim(c, k)
    PROVE  IInv'
<1>1. canon \in States /\ faults \in Nat /\ manuals \subseteq Runs
      /\ launches \in [CommandIds -> Nat]
  BY Parts DEF StoreTypes, LocalTypes
<1>2. PICK n \in States : n = ManualClaimedState(canon, c)
  <2>1. 0 \in Ids
    BY MaxCommandAssumption DEF Ids
  <2>. QED
    BY <1>1, <2>1, InitialRecords, PayloadTypes
<1>3. /\ n.status = "CODEX_RUNNING" /\ n.gen = canon.gen + 2 /\ n.cmd = c
      /\ n.run = [owner |-> "manual", cmd |-> c, gen |-> canon.gen + 2]
  BY <1>1, <1>2 DEF ManualClaimedState, States
<1>4. PICK r \in Runs : r = n.run
  BY DEF States
<1>5. r.owner = "manual" /\ r.cmd = c /\ r.gen = n.gen /\ r.owner \notin Workers
  BY <1>3, <1>4, WorkersAssumption
<1>6. PICK cm : cm = Commit(n, k, NoReport)
  OBVIOUS
<1>7. /\ cm \in Commits /\ cm.base = canon /\ cm.new = n
      /\ cm.command = k /\ cm.report = NoReport
  BY <1>6, Parts, InitialRecords, CommitType
<1>8. n.gen >= canon.gen /\ n.cmd >= canon.cmd
  BY <1>1, <1>3, Numbers
<1>9. CommitOK(cm)
  BY <1>3, <1>4, <1>5, <1>7, <1>8 DEF CommitOK, PENDING_STATES
<1>10. /\ Land(cm) /\ UNCHANGED cloneVars
       /\ UNCHANGED <<polling, thread, sidecar, journal, expired>>
       /\ unpushed' = unpushed /\ faults' \in Nat
       /\ manuals' \subseteq manuals \cup {r}
       /\ \/ launches' = launches
          \/ launches' = [launches EXCEPT ![c] = launches[c] + 1]
  BY <1>1, <1>2, <1>4, <1>6 DEF ManualClaim, ThreadsUntouched, evidenceVars,
                                 Fault, cloneVars
<1>11. StoreTypes' /\ StoreInv'
  BY <1>4, <1>5, <1>7, <1>9, <1>10, Parts, RemoteKeepsStore
<1>12. claims' = claims \cup {r}
  BY <1>3, <1>4, <1>7, <1>10, Parts, LandTypes
<1>13. \A q \in claims : q.cmd # c
  <2>1. \A q \in claims : q.cmd <= canon.cmd /\ q \in Runs
    BY Parts DEF ClaimsInv, StoreTypes
  <2>. QED
    BY <1>1, <2>1, Numbers
<1>14. launches[c] = 0
  BY <1>1, <1>13, Parts DEF LaunchInv
<1>15. /\ launches' \in [CommandIds -> Nat] /\ launches'[c] \in {0, 1}
       /\ \A d \in CommandIds \ {c} : launches'[d] = launches[d]
  BY <1>1, <1>10, <1>14
<1>16. LocalTypes'
  BY <1>10, <1>15, Parts DEF LocalTypes
<1>17. ThreadInv'
  <2>1. SUFFICES ASSUME NEW v \in Workers PROVE ThreadOK(v)'
    BY DEF ThreadInv
  <2>2. ThreadOK(v) /\ thread'[v] = thread[v]
    BY <1>10, Parts DEF ThreadInv
  <2>3. thread[v].pc = "ready" => thread[v].run # r
    BY <1>5, <2>2 DEF ThreadOK
  <2>4. thread[v].pc = "claimed" => /\ thread[v].run.cmd \in CommandIds \ {c}
    BY <1>13, <2>2 DEF ThreadOK
  <2>. QED
    BY <1>10, <1>12, <1>15, <2>2, <2>3, <2>4 DEF ThreadOK
<1>18. LaunchInv'
  <2>1. SUFFICES ASSUME NEW d \in CommandIds
                 PROVE  /\ launches'[d] <= 1
                        /\ launches'[d] > 0 => \E q \in claims' : q.cmd = d
    BY DEF LaunchInv
  <2>2. CASE d = c
    BY <1>5, <1>12, <1>15, <2>2
  <2>3. CASE d # c
    BY <1>12, <1>15, <2>3, Parts DEF LaunchInv
  <2>. QED
    BY <2>2, <2>3
<1>19. LocalInv'
  BY <1>10, <1>12, <1>17, <1>18, Parts DEF LocalInv, SidecarInv, JournalInv
<1>. QED
  BY <1>11, <1>16, <1>19, Assemble

\* The two starts of the human fast lane.
LEMMA ManualStartSteps ==
    ASSUME IInv, start_manual \/ withdraw_and_manual_start PROVE IInv'
<1>1. /\ canon.rep \in Ids /\ canon.cmd \in Ids /\ canon.gen + 1 \in Nat
      /\ 0 \in Ids
  BY Parts, MaxCommandAssumption DEF StoreTypes, States, Ids
<1>2. "COMMAND_READY" \in PENDING_STATES
      /\ "manual_chatgpt" \in COMMAND_SOURCES \cup {"none"}
      /\ "EXECUTE" \in COMMAND_KINDS
  BY DEF PENDING_STATES, COMMAND_SOURCES, COMMAND_KINDS
<1>3. CASE start_manual
  <2>1. PICK c \in CommandIds, kind \in COMMAND_KINDS :
           /\ IsNextCommandId(c)
           /\ ManualClaim(c, NewCommand("manual_chatgpt", kind, canon.rep,
                                        canon.gen + 1,
                                        ManualStartSupersedes(canon), 0,
                                        "legacy"))
    BY <1>3 DEF start_manual
  <2>2. PICK d \in Ids : /\ d = ManualStartSupersedes(canon)
                         /\ d # 0 => /\ d = canon.cmd
                                     /\ canon.status \in PENDING_STATES
    BY <1>1, <1>2 DEF ManualStartSupersedes
  <2>3. PICK k : k = NewCommand("manual_chatgpt", kind, canon.rep,
                                canon.gen + 1, d, 0, "legacy")
    OBVIOUS
  <2>4. k \in Commands /\ k.supersedes = d /\ k.withdraws = 0
    BY <1>1, <1>2, <2>3 DEF NewCommand, Commands
  <2>5. ManualClaim(c, k)
    BY <2>1, <2>2, <2>3
  <2>. QED
    BY <2>1, <2>2, <2>4, <2>5, NextIdIsNew, ManualClaimStep
<1>4. CASE withdraw_and_manual_start
  <2>1. PICK c \in CommandIds :
           /\ IsNextCommandId(c)
           /\ ManualClaim(c, NewCommand("manual_chatgpt", "EXECUTE", canon.rep,
                                        canon.gen + 1, 0, canon.cmd, "legacy"))
    BY <1>4 DEF withdraw_and_manual_start
  <2>2. canon.status \in PENDING_STATES
    BY <1>2, <1>4 DEF withdraw_and_manual_start,
                      withdraw_and_manual_start_decision
  <2>3. PICK k : k = NewCommand("manual_chatgpt", "EXECUTE", canon.rep,
                                canon.gen + 1, 0, canon.cmd, "legacy")
    OBVIOUS
  <2>4. k \in Commands /\ k.supersedes = 0 /\ k.withdraws = canon.cmd
    BY <1>1, <1>2, <2>3 DEF NewCommand, Commands
  <2>5. ManualClaim(c, k)
    BY <2>1, <2>3
  <2>. QED
    BY <2>1, <2>2, <2>4, <2>5, NextIdIsNew, ManualClaimStep
<1>. QED
  BY <1>3, <1>4

(***************************************************************************)
(* The inductive invariant, and what it implies.                           *)
(***************************************************************************)
\* The initial state satisfies the invariant.
LEMMA InitIInv == Init => IInv
<1>. SUFFICES ASSUME Init PROVE IInv
  OBVIOUS
<1>2. StoreTypes
  BY InitialRecords DEF Init, StoreTypes
<1>3. LocalTypes
  BY InitialRecords DEF Init, LocalTypes
<1>4. CanonInv
  <2>1. claims = {} /\ canon.status = "REPORT_READY"
    BY DEF Init, Genesis
  <2>2. \A c \in CommandIds : reports[c] = NoReport /\ ~Replaced(c)
    BY DEF Init, Replaced, NoCommand, CommandIds
  <2>. QED
    BY <2>1, <2>2 DEF CanonInv, LeaseInv, ClaimsInv, UniqueLease, ReportsInv,
                      ReplacedInv
<1>5. CloneInv /\ UnpushedInv
  BY DEF Init, CloneInv, UnpushedInv
<1>6. LocalInv
  <2>1. \A w \in Workers : thread[w].pc = "idle"
    BY DEF Init, IdleThread
  <2>2. ThreadInv
    BY <2>1 DEF ThreadInv, ThreadOK
  <2>3. SidecarInv /\ JournalInv
    BY DEF Init, SidecarInv, JournalInv, NoSidecar, NoJournal
  <2>. QED
    BY <2>2, <2>3 DEF Init, LocalInv, LaunchInv
<1>. QED
  BY <1>2, <1>3, <1>4, <1>5, <1>6, Parts DEF StoreInv

\* Every step, of every actor, keeps the invariant.
LEMMA NextIInv == IInv /\ [Next]_vars => IInv'
<1>. SUFFICES ASSUME IInv, [Next]_vars PROVE IInv'
  OBVIOUS
<1>2. CASE LeaseDeadline
  BY <1>2, DeadlineStep
<1>3. CASE OperatorStep
  <2>1. ASSUME NEW w \in Workers, OperatorReset(w) PROVE IInv'
    BY <2>1, ResetStep
  <2>2. ASSUME NEW w \in Workers, NEW c \in CommandIds, resolve_resolution(w, c)
        PROVE  IInv'
    BY <2>2, ResolutionStep
  <2>3. CASE publish_manual_priority \/ repair_unclaimed_command
             \/ PublishMalformed
    BY <2>3, ReplacementSteps
  <2>4. CASE start_manual \/ withdraw_and_manual_start
    BY <2>4, ManualStartSteps
  <2>5. ASSUME NEW r \in manuals, finish_manual(r) PROVE IInv'
    BY <2>5, FinishManualStep
  <2>6. ASSUME NEW r \in manuals, FinishManualLate(r) PROVE IInv'
    BY <2>6, FinishLateStep
  <2>7. CASE PauseForOwner \/ AcceptFinalDelivery
    BY <2>7, SupervisorSteps
  <2>. QED
    BY <1>3, <2>1, <2>2, <2>3, <2>4, <2>5, <2>6, <2>7 DEF OperatorStep
<1>4. ASSUME NEW w \in Workers, HostStep(w) PROVE IInv'
  <2>1. CASE sync_to_remote(w)
    BY <2>1, SyncStep
  <2>2. CASE EndPass(w)
    BY <2>2, EndPassStep
  <2>3. CASE LateLanding(w)
    BY <2>3, LateLandingStep
  <2>4. CASE GatewayPublish(w)
    BY <2>4, GatewayStep
  <2>5. CASE Crash(w) \/ AbandonClaim(w)
    BY <2>5, StopSteps
  <2>6. CASE WorkerStep(w)
    BY <2>5, <2>6, TakeReadyStep, ClaimStep, LaunchStep, ExecutionSteps,
       SaveSteps, PublishReportStep, AckReportStep, JournalSteps,
       NetworkRecoveryStep DEF WorkerStep
  <2>7. CASE RecoveryStep(w)
    BY <2>7, ExpiredLeaseStep, ReconcileJournalStep, LegacyReportStep,
       TypedReportStep DEF RecoveryStep
  <2>. QED
    BY <1>4, <2>1, <2>2, <2>3, <2>4, <2>5, <2>6, <2>7 DEF HostStep
<1>5. CASE UNCHANGED vars
  <2>1. /\ UNCHANGED <<canonVars, cloneVars>>
        /\ UNCHANGED <<thread, evidenceVars, manuals, launches>>
        /\ UNCHANGED <<polling, thread, sidecar, journal, expired, manuals,
                       faults, launches>>
    BY <1>5 DEF vars, canonVars, cloneVars, evidenceVars
  <2>2. LocalTypes'
    BY <2>1, Parts DEF LocalTypes
  <2>. QED
    BY <2>1, <2>2, IdleStep
<1>. QED
  BY <1>2, <1>3, <1>4, <1>5 DEF Next

\* The inductive invariant holds for every number of hosts, commands, lanes
\* and faults.
THEOREM Inductive == Spec => []IInv
<1>. QED
  BY InitIInv, NextIInv, PTL DEF Spec

\* Type correctness of the whole system: every payload that any handler
\* publishes, saves or acknowledges is a record of its kind.
THEOREM TypeCorrect == Spec => []TypeOK
<1>1. IInv => TypeOK
  BY DEF IInv
<1>. QED
  BY <1>1, Inductive, PTL

\* No command is executed twice, whatever claims race, publications fail or
\* land late, and Workers restart (process_project).
THEOREM NoSecondLaunch == Spec => []AtMostOnce
<1>1. IInv => AtMostOnce
  BY DEF IInv, LocalInv, LaunchInv, AtMostOnce
<1>. QED
  BY <1>1, Inductive, PTL

\* A command is leased at most once in its life, and its canonical report is of
\* that lease (claim_expected, complete_expected, resolve_resolution).
THEOREM LeasedOnce == Spec => []OneLeasePerCommand
<1>1. IInv => OneLeasePerCommand
  BY DEF IInv, StoreInv, CanonInv, UniqueLease, ReportsInv, OneLeasePerCommand
<1>. QED
  BY <1>1, Inductive, PTL

\* A superseded, repaired or withdrawn command is never leased, executed or
\* reported (manual_supersede_decision, repair_unclaimed_command,
\* withdraw_and_manual_start).
THEOREM ReplacedStaysUnrun == Spec => []ReplacedNeverRuns
<1>1. IInv => ReplacedNeverRuns
  <2>1. SUFFICES ASSUME IInv, NEW c \in CommandIds, Replaced(c)
                 PROVE  /\ launches[c] = 0 /\ reports[c] = NoReport
                        /\ \A r \in claims : r.cmd # c
    BY DEF ReplacedNeverRuns
  <2>2. \A r \in claims : r.cmd # c
    BY <2>1, Parts DEF CanonInv, ReplacedInv
  <2>3. reports[c] = NoReport
    BY <2>1, <2>2, Parts DEF CanonInv, ReportsInv
  <2>4. launches[c] = 0
    BY <2>1, <2>2, Parts DEF LaunchInv, LocalTypes
  <2>. QED
    BY <2>2, <2>3, <2>4
<1>. QED
  BY <1>1, Inductive, PTL
=============================================================================
