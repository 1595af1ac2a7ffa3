------------------------------- MODULE HostProofs ------------------------------
(***************************************************************************)
(* Proofs about HostAdmission, for every number of processes and projects, *)
(* whatever they poll, whatever paths and targets they use and whatever    *)
(* limits their configurations set.                                        *)
(***************************************************************************)
EXTENDS HostAdmission, FiniteSetTheorems, TLAPS

(***************************************************************************)
(* The registry.                                                           *)
(***************************************************************************)
\* Conflict does not depend on who asks (_conflict_reason, paths_conflict).
LEMMA ConflictSymmetric ==
  ASSUME NEW p \in Projects, NEW q \in Projects, Conflict(p, q)
  PROVE  Conflict(q, p)
BY DEF Conflict, paths_conflict, SameTarget

\* The registry is finite.
LEMMA RegistryFinite ==
  ASSUME NEW S \in SUBSET (Workers \X Projects)
  PROVE  IsFiniteSet(S) /\ Cardinality(S) \in Nat
<1>1. IsFiniteSet(Workers \X Projects)
  BY HostAssumption, FS_Product
<1>2. IsFiniteSet(S)
  BY <1>1, FS_Subset
<1>. QED
  BY <1>2, FS_CardinalityType

\* What a process leaves of the registry: its own records, and those of live
\* processes that no other takes for dead.
LEMMA RemainingSmaller ==
  ASSUME HostTypeOK, NEW w \in Workers
  PROVE  /\ Remaining(w) \subseteq registry
         /\ \A r \in registry : Alive(r[1]) /\ Probeable(r[1]) => r \in Remaining(w)
         /\ \A p \in Projects : <<w, p>> \in registry => <<w, p>> \in Remaining(w)
<1>1. \A r \in registry : r[1] \in Workers
  BY DEF HostTypeOK
<1>. QED
  BY <1>1 DEF Remaining, SafeStale, Probeable

\* Dropping records keeps the rest compatible and within the limit.
LEMMA ShrinkingKeeps ==
  ASSUME HostTypeOK, RecordsDisjoint, SlotBound, registry' \subseteq registry
  PROVE  RecordsDisjoint' /\ SlotBound'
<1>1. RecordsDisjoint'
  BY DEF RecordsDisjoint, Conflict, SameTarget
<1>2. SUFFICES ASSUME registry' # {}
               PROVE  \E w \in Workers : Cardinality(registry') =< Limit[w]
  BY <1>1 DEF SlotBound
<1>3. PICK w \in Workers : Cardinality(registry) =< Limit[w]
  BY <1>2 DEF SlotBound
<1>4. Cardinality(registry') =< Cardinality(registry)
  <2>1. registry \in SUBSET (Workers \X Projects)
    BY DEF HostTypeOK
  <2>2. IsFiniteSet(registry)
    BY <2>1, RegistryFinite
  <2>. QED
    BY <2>2, FS_Subset
<1>5. Cardinality(registry) \in Nat /\ Cardinality(registry') \in Nat
  BY RegistryFinite DEF HostTypeOK
<1>6. Limit[w] \in Nat
  BY HostAssumption
<1>. QED
  BY <1>3, <1>4, <1>5, <1>6

\* Writing an admitted record keeps them compatible and within the limit.
LEMMA ReservingKeeps ==
  ASSUME HostTypeOK, RecordsDisjoint,
         NEW w \in Workers, NEW p \in Projects, ~ConflictReason(w, p),
         registry' = Remaining(w) \cup {<<w, p>>}
  PROVE  RecordsDisjoint' /\ SlotBound'
<1>1. /\ Remaining(w) \in SUBSET (Workers \X Projects)
      /\ registry' \in SUBSET (Workers \X Projects)
  BY RemainingSmaller DEF HostTypeOK
<1>2. RecordsDisjoint'
  <2>1. SUFFICES ASSUME NEW r \in registry', NEW s \in registry', r # s
                 PROVE  ~Conflict(r[2], s[2])
    BY DEF RecordsDisjoint, Conflict, SameTarget
  <2>2. r[2] \in Projects /\ s[2] \in Projects
    BY <1>1
  <2>3. CASE r \in Remaining(w) /\ s \in Remaining(w)
    BY <2>1, <2>3, RemainingSmaller DEF RecordsDisjoint
  <2>4. CASE r = <<w, p>> /\ s \in Remaining(w)
    BY <2>4 DEF ConflictReason
  <2>5. CASE r \in Remaining(w) /\ s = <<w, p>>
    BY <2>2, <2>5, ConflictSymmetric DEF ConflictReason
  <2>. QED
    BY <2>1, <2>3, <2>4, <2>5
<1>3. Cardinality(Remaining(w)) \in Nat /\ IsFiniteSet(Remaining(w))
  BY <1>1, RegistryFinite
<1>4. Cardinality(Remaining(w)) < Limit[w] /\ Limit[w] \in Nat
  BY <1>3, HostAssumption DEF ConflictReason
<1>5. Cardinality(registry') \in {Cardinality(Remaining(w)), Cardinality(Remaining(w)) + 1}
  BY <1>3, FS_AddElement
<1>6. Cardinality(registry') =< Limit[w]
  BY <1>3, <1>4, <1>5
<1>. QED
  BY <1>2, <1>6 DEF SlotBound

(***************************************************************************)
(* The steps.  A thread step moves one run; the rest of the table stays.   *)
(***************************************************************************)
\* What AtStep does to the table of runs.
LEMMA Moved ==
  ASSUME HostTypeOK, NEW w \in Workers, NEW p \in Projects,
         NEW from, NEW to \in ThreadStates, AtStep(w, p, from, to)
  PROVE  /\ thr' \in [Workers -> [Projects -> ThreadStates]]
         /\ thr[w][p] = from /\ thr'[w][p] = to
         /\ \A v \in Workers, q \in Projects : <<v, q>> # <<w, p>> => thr'[v][q] = thr[v][q]
BY DEF HostTypeOK, AtStep

\* A step of one run of a live process that keeps its record while it is
\* under way, and touches no other live record, keeps the table and the
\* registry in step.
LEMMA MoveKeeps ==
  ASSUME HostTypeOK, DeadIdle, HoldersReserved, RecordsStarted, UNCHANGED main,
         NEW w \in Workers, NEW p \in Projects, Alive(w),
         NEW from, NEW to \in ThreadStates, AtStep(w, p, from, to),
         registry' \subseteq registry \cup {<<w, p>>},
         to \in Holding /\ Probeable(w) => <<w, p>> \in registry',
         \A r \in registry :
           Alive(r[1]) /\ Probeable(r[1]) /\ r # <<w, p>> => r \in registry'
  PROVE  DeadIdle' /\ HoldersReserved' /\ RecordsStarted'
<1>1. \A v \in Workers : Alive(v)' = Alive(v)
  BY DEF Alive
<1>2. DeadIdle'
  BY <1>1, Moved DEF DeadIdle
<1>3. RecordsStarted'
  BY DEF RecordsStarted, Alive
<1>. SUFFICES ASSUME NEW t \in Holders', Probeable(t[1])
              PROVE  t \in registry'
  BY <1>2, <1>3 DEF HoldersReserved, Probeable
<1>4. PICK v \in Workers, q \in Projects : t = <<v, q>> /\ thr'[v][q] \in Holding
  BY DEF Holders
<1>5. CASE <<v, q>> = <<w, p>>
  BY <1>4, <1>5, Moved
<1>6. CASE <<v, q>> # <<w, p>>
  <2>1. thr[v][q] \in Holding
    BY <1>4, <1>6, Moved
  <2>2. t \in registry
    BY <1>4, <2>1 DEF HoldersReserved, Holders
  <2>3. Alive(v)
    BY <2>1 DEF DeadIdle, Holding
  <2>. QED
    BY <1>4, <1>6, <2>2, <2>3
<1>. QED
  BY <1>5, <1>6

\* Such a step keeps the pause if it enters the push only while the Owner
\* allows it.
LEMMA MoveKeepsPause ==
  ASSUME HostTypeOK, PauseStopsClaims, UNCHANGED <<control, paused>>,
         NEW w \in Workers, NEW p \in Projects,
         NEW from, NEW to \in ThreadStates, AtStep(w, p, from, to),
         to # "push" \/ ControlAllows(p),
         grace \ {<<w, p>>} \subseteq grace'
  PROVE  PauseStopsClaims'
<1>1. SUFFICES ASSUME NEW v \in Workers, NEW q \in Projects,
                      thr'[v][q] = "push", ~ControlAllows(q)
               PROVE  <<v, q>> \in grace'
  BY DEF PauseStopsClaims, ControlAllows
<1>2. <<v, q>> # <<w, p>>
  BY <1>1, Moved
<1>3. thr[v][q] = "push"
  BY <1>1, <1>2, Moved
<1>4. <<v, q>> \in grace
  BY <1>1, <1>3 DEF PauseStopsClaims
<1>. QED
  BY <1>2, <1>4

\* Every step of a run is of this kind.
LEMMA RunStepKeeps ==
  ASSUME HostInv, UNCHANGED <<procVars, control, paused>>,
         NEW w \in Workers, NEW p \in Projects, Alive(w),
         NEW from, NEW to \in ThreadStates, AtStep(w, p, from, to),
         \/ registry' \subseteq registry
         \/ ~ConflictReason(w, p) /\ registry' = Remaining(w) \cup {<<w, p>>},
         to \in Holding /\ Probeable(w) => <<w, p>> \in registry',
         \A r \in registry :
           Alive(r[1]) /\ Probeable(r[1]) /\ r # <<w, p>> => r \in registry',
         to # "push" \/ ControlAllows(p),
         grace \ {<<w, p>>} \subseteq grace', grace' \subseteq grace,
         ready' \subseteq ready, budget' \in [owner : Nat, faults : Nat]
  PROVE  HostInv'
<1>1. registry' \subseteq Workers \X Projects
  BY RemainingSmaller DEF HostInv, HostTypeOK
<1>2. HostTypeOK'
  BY <1>1, Moved DEF HostInv, HostTypeOK, procVars
<1>3. DeadIdle' /\ HoldersReserved' /\ RecordsStarted'
  <2>1. registry' \subseteq registry \cup {<<w, p>>}
    BY RemainingSmaller DEF HostInv
  <2>. QED
    BY <2>1, MoveKeeps DEF HostInv, procVars
<1>4. RecordsDisjoint' /\ SlotBound'
  BY ShrinkingKeeps, ReservingKeeps DEF HostInv
<1>5. PauseStopsClaims'
  BY MoveKeepsPause DEF HostInv
<1>. QED
  BY <1>2, <1>3, <1>4, <1>5 DEF HostInv

\* One fault less.
LEMMA BudgetSpent ==
  ASSUME HostTypeOK, budget.faults > 0, budget' = [budget EXCEPT !.faults = @ - 1]
  PROVE  budget' \in [owner : Nat, faults : Nat]
BY DEF HostTypeOK

\* A run that is under way has its record, in a process that all others see.
LEMMA HasRecord ==
  ASSUME HostInv, NEW w \in Workers, NEW p \in Projects, thr[w][p] \in Holding
  PROVE  Probeable(w) => <<w, p>> \in registry
BY DEF HostInv, HoldersReserved, Holders

\* Reading the state and the control.
LEMMA ConsiderKeeps ==
  ASSUME HostInv, NEW w \in Workers, NEW p \in Projects, Alive(w), Consider(w, p)
  PROVE  HostInv'
<1>1. /\ UNCHANGED <<procVars, registry, ready, ownerVars, budget>>
      /\ \/ AtStep(w, p, "start", "reserve")
         \/ AtStep(w, p, "start", "done")
  BY DEF Consider
<1>. QED
  BY <1>1, RunStepKeeps DEF ThreadStates, Active, Ended, Holding, ownerVars, HostInv, HostTypeOK

\* The reservation, under the lock of the registry.
LEMMA CheckAndReserveKeeps ==
  ASSUME HostInv, NEW w \in Workers, NEW p \in Projects, Alive(w), CheckAndReserve(w, p)
  PROVE  HostInv'
<1>1. UNCHANGED <<procVars, ready, ownerVars, budget>>
  BY DEF CheckAndReserve
<1>2. CASE /\ ~ConflictReason(w, p)
           /\ AtStep(w, p, "reserve", "held")
           /\ registry' = Remaining(w) \cup {<<w, p>>}
  BY <1>1, <1>2, RunStepKeeps, RemainingSmaller
     DEF ThreadStates, Active, Holding, ownerVars, HostInv, HostTypeOK
<1>3. CASE AtStep(w, p, "reserve", "done") /\ registry' = Remaining(w)
  BY <1>1, <1>3, RunStepKeeps, RemainingSmaller
     DEF ThreadStates, Ended, Holding, ownerVars, HostInv, HostTypeOK
<1>. QED
  BY <1>2, <1>3 DEF CheckAndReserve

\* The second reading of the state.
LEMMA RereadKeeps ==
  ASSUME HostInv, NEW w \in Workers, NEW p \in Projects, Alive(w), Reread(w, p)
  PROVE  HostInv'
<1>1. UNCHANGED <<procVars, ready, ownerVars, budget>>
  BY DEF Reread
<1>2. CASE AtStep(w, p, "held", "gate") /\ registry' = Remaining(w)
  <2>1. Probeable(w) => <<w, p>> \in Remaining(w)
    BY <1>2, HasRecord, RemainingSmaller DEF AtStep, Holding, HostInv
  <2>. QED
    BY <1>1, <1>2, <2>1, RunStepKeeps, RemainingSmaller
       DEF ThreadStates, Active, Holding, ownerVars, HostInv, HostTypeOK
<1>3. CASE AtStep(w, p, "held", "done") /\ registry' = Remaining(w) \ {<<w, p>>}
  BY <1>1, <1>3, RunStepKeeps, RemainingSmaller
     DEF ThreadStates, Ended, Holding, ownerVars, HostInv, HostTypeOK
<1>. QED
  BY <1>2, <1>3 DEF Reread

\* The last reading of the control.
LEMMA ClaimPayloadKeeps ==
  ASSUME HostInv, NEW w \in Workers, NEW p \in Projects, Alive(w), ClaimPayload(w, p)
  PROVE  HostInv'
<1>1. UNCHANGED <<procVars, ready, ownerVars, budget>>
  BY DEF ClaimPayload
<1>2. CASE ControlAllows(p) /\ AtStep(w, p, "gate", "push") /\ UNCHANGED registry
  <2>1. Probeable(w) => <<w, p>> \in registry
    BY <1>2, HasRecord DEF AtStep, Holding
  <2>. QED
    BY <1>1, <1>2, <2>1, RunStepKeeps
       DEF ThreadStates, Active, Holding, ownerVars, HostInv, HostTypeOK
<1>3. CASE AtStep(w, p, "gate", "failed") /\ registry' = registry \ {<<w, p>>}
  BY <1>1, <1>3, RunStepKeeps
     DEF ThreadStates, Ended, Holding, ownerVars, HostInv, HostTypeOK
<1>. QED
  BY <1>2, <1>3 DEF ClaimPayload

\* The claim.
LEMMA ClaimLandsKeeps ==
  ASSUME HostInv, NEW w \in Workers, NEW p \in Projects, Alive(w), ClaimLands(w, p)
  PROVE  HostInv'
<1>1. Probeable(w) => <<w, p>> \in registry
  BY HasRecord DEF ClaimLands, AtStep, Holding
<1>. QED
  BY <1>1, RunStepKeeps
     DEF ClaimLands, ThreadStates, Active, Holding, HostInv, HostTypeOK

\* A lost race.
LEMMA ClaimRetriedKeeps ==
  ASSUME HostInv, NEW w \in Workers, NEW p \in Projects, Alive(w), ClaimRetried(w, p)
  PROVE  HostInv'
<1>1. Probeable(w) => <<w, p>> \in registry
  BY HasRecord DEF ClaimRetried, AtStep, Holding
<1>2. budget' \in [owner : Nat, faults : Nat]
  BY BudgetSpent DEF ClaimRetried, HostInv
<1>. QED
  BY <1>1, <1>2, RunStepKeeps
     DEF ClaimRetried, ThreadStates, Active, Holding

\* A claim that is given up.
LEMMA ClaimFailsKeeps ==
  ASSUME HostInv, NEW w \in Workers, NEW p \in Projects, Alive(w), ClaimFails(w, p)
  PROVE  HostInv'
<1>. QED
  BY RunStepKeeps DEF ClaimFails, ThreadStates, Ended, Holding, HostInv, HostTypeOK

\* The inputs of the run.
LEMMA PrepareRunKeeps ==
  ASSUME HostInv, NEW w \in Workers, NEW p \in Projects, Alive(w), PrepareRun(w, p)
  PROVE  HostInv'
<1>1. Probeable(w) => <<w, p>> \in registry
  BY HasRecord DEF PrepareRun, AtStep, Holding
<1>. QED
  BY <1>1, RunStepKeeps
     DEF PrepareRun, ThreadStates, Active, Holding, ownerVars, HostInv, HostTypeOK

\* The end of the scope.
LEMMA CloseRunScopeKeeps ==
  ASSUME HostInv, NEW w \in Workers, NEW p \in Projects, Alive(w), CloseRunScope(w, p)
  PROVE  HostInv'
<1>. QED
  BY RunStepKeeps
     DEF CloseRunScope, ThreadStates, Active, Holding, ownerVars, HostInv, HostTypeOK

\* The report.
LEMMA SettleKeeps ==
  ASSUME HostInv, NEW w \in Workers, NEW p \in Projects, Alive(w), Settle(w, p)
  PROVE  HostInv'
<1>1. /\ UNCHANGED <<procVars, registry, ready, ownerVars, budget>>
      /\ \/ AtStep(w, p, "publish", "done")
         \/ AtStep(w, p, "publish", "restart")
  BY DEF Settle
<1>. QED
  BY <1>1, RunStepKeeps DEF ThreadStates, Ended, Holding, ownerVars, HostInv, HostTypeOK

\* A registry that cannot be read.
LEMMA RegistryUnavailableKeeps ==
  ASSUME HostInv, NEW w \in Workers, NEW p \in Projects, Alive(w), RegistryUnavailable(w, p)
  PROVE  HostInv'
<1>1. budget' \in [owner : Nat, faults : Nat]
  BY BudgetSpent DEF RegistryUnavailable, HostInv
<1>. QED
  BY <1>1, RunStepKeeps DEF RegistryUnavailable, ThreadStates, Ended, Holding, ownerVars

\* A failure that leaves the record behind.
LEMMA UnguardedFailureKeeps ==
  ASSUME HostInv, NEW w \in Workers, NEW p \in Projects, Alive(w), UnguardedFailure(w, p)
  PROVE  HostInv'
<1>1. budget' \in [owner : Nat, faults : Nat]
  BY BudgetSpent DEF UnguardedFailure, HostInv
<1>2. /\ UNCHANGED <<procVars, registry, ready, ownerVars>>
      /\ \/ AtStep(w, p, "held", "failed")
         \/ AtStep(w, p, "prepare", "failed")
  BY DEF UnguardedFailure
<1>. QED
  BY <1>1, <1>2, RunStepKeeps DEF ThreadStates, Ended, Holding, ownerVars

(***************************************************************************)
(* The main loop: it starts runs and collects ended ones, and may drop     *)
(* stale records.                                                          *)
(***************************************************************************)
\* A step of a main loop leaves every run that is under way, or ends it with
\* its process.
LEMMA LoopStepKeeps ==
  ASSUME HostInv, UNCHANGED <<ready, control, paused, prepared>>,
         main' \in [Workers -> {"off", "loop", "drain", "closing", "gone"}],
         barrier' \in [Workers -> {"RUNNING", "DRAINING", "CLOSED"}],
         lock' \in Workers \cup {None},
         budget' \in [owner : Nat, faults : Nat],
         thr' \in [Workers -> [Projects -> ThreadStates]],
         \A v \in Workers, q \in Projects :
           thr'[v][q] = thr[v][q] \/ thr'[v][q] \in {"none", "start"},
         DeadIdle',
         registry' = registry \/ \E w \in Workers : registry' = Remaining(w),
         \A v \in Workers : main'[v] = "off" => main[v] = "off",
         grace' \subseteq grace,
         \A v \in Workers, q \in Projects :
           <<v, q>> \in grace /\ thr'[v][q] = "push" => <<v, q>> \in grace'
  PROVE  HostInv'
<1>1. registry' \subseteq registry
  BY RemainingSmaller DEF HostInv
<1>2. HostTypeOK'
  BY <1>1 DEF HostInv, HostTypeOK
<1>3. RecordsDisjoint' /\ SlotBound'
  BY <1>1, ShrinkingKeeps DEF HostInv
<1>4. HoldersReserved'
  <2>1. SUFFICES ASSUME NEW v \in Workers, NEW q \in Projects, thr'[v][q] \in Holding,
                        Probeable(v)
                 PROVE  <<v, q>> \in registry'
    BY DEF HoldersReserved, Holders, Probeable
  <2>2. thr[v][q] \in Holding
    BY <2>1 DEF Holding
  <2>3. <<v, q>> \in registry
    BY <2>1, <2>2, HasRecord
  <2>4. Alive(v)
    BY <2>2 DEF HostInv, DeadIdle, Holding
  <2>. QED
    BY <2>1, <2>3, <2>4, RemainingSmaller DEF HostInv
<1>5. PauseStopsClaims'
  <2>1. SUFFICES ASSUME NEW v \in Workers, NEW q \in Projects,
                        thr'[v][q] = "push", ~ControlAllows(q)
                 PROVE  <<v, q>> \in grace'
    BY DEF PauseStopsClaims, ControlAllows
  <2>2. thr[v][q] = "push"
    BY <2>1
  <2>. QED
    BY <2>1, <2>2 DEF HostInv, PauseStopsClaims
<1>6. RecordsStarted'
  BY <1>1 DEF RecordsStarted, HostInv, HostTypeOK
<1>. QED
  BY <1>2, <1>3, <1>4, <1>5, <1>6 DEF HostInv

\* What collecting futures does to the table of runs.
LEMMA ReapedTable ==
  ASSUME HostTypeOK, NEW w \in Workers, thr' = Reaped(w)
  PROVE  /\ thr' \in [Workers -> [Projects -> ThreadStates]]
         /\ \A v \in Workers, q \in Projects :
              /\ thr'[v][q] = thr[v][q] \/ thr'[v][q] = "none"
              /\ v = w => thr'[v][q] = IF thr[v][q] \in Ended THEN "none" ELSE thr[v][q]
<1>1. \A v \in Workers : thr'[v] = IF v = w
                                   THEN [p \in Projects |-> IF thr[w][p] \in Ended
                                                            THEN "none" ELSE thr[w][p]]
                                   ELSE thr[v]
  BY DEF HostTypeOK, Reaped
<1>2. thr' \in [Workers -> [Projects -> ThreadStates]]
  BY <1>1 DEF HostTypeOK, Reaped, ThreadStates
<1>. QED
  BY <1>1, <1>2

\* A process whose runs all ended has none left once they are collected.
LEMMA NoneLeft ==
  ASSUME HostTypeOK, NEW w \in Workers, Leases(w) = {}, thr' = Reaped(w)
  PROVE  \A p \in Projects : thr'[w][p] = "none"
<1>1. \A p \in Projects : thr[w][p] \notin Active /\ thr[w][p] \in ThreadStates
  BY DEF Leases, HostTypeOK
<1>. QED
  BY <1>1, ReapedTable DEF ThreadStates

\* Start of a process.
LEMMA BootKeeps ==
  ASSUME HostInv, NEW w \in Workers, Boot(w)
  PROVE  HostInv'
<1>1. DeadIdle'
  BY DEF Boot, HostInv, HostTypeOK, DeadIdle, Alive
<1>. QED
  BY <1>1, LoopStepKeeps DEF Boot, HostInv, HostTypeOK, loopRest, ownerVars

\* A process that finds worker.lock taken.
LEMMA BootRefusedKeeps ==
  ASSUME HostInv, NEW w \in Workers, BootRefused(w)
  PROVE  HostInv'
<1>1. DeadIdle'
  BY DEF BootRefused, HostInv, HostTypeOK, DeadIdle, Alive
<1>. QED
  BY <1>1, LoopStepKeeps DEF BootRefused, HostInv, HostTypeOK, loopRest, ownerVars

\* Leaving the loop.
LEMMA LeaveTypes ==
  ASSUME HostTypeOK, NEW w \in Workers, Leave(w)
  PROVE  /\ main' \in [Workers -> {"off", "loop", "drain", "closing", "gone"}]
         /\ barrier' \in [Workers -> {"RUNNING", "DRAINING", "CLOSED"}]
         /\ lock' \in Workers \cup {None}
         /\ \A v \in Workers : v # w => main'[v] = main[v]
         /\ main'[w] = "closing"
BY DEF HostTypeOK, Leave

\* Collecting ended futures.
LEMMA ReapKeeps ==
  ASSUME HostInv, NEW w \in Workers, Reap(w)
  PROVE  HostInv'
<1>1. /\ thr' = Reaped(w) /\ registry' = Remaining(w) /\ UNCHANGED loopRest
      /\ main[w] = "loop"
  BY DEF Reap
<1>2. Leave(w) \/ UNCHANGED <<main, barrier, lock>>
  BY DEF Reap
<1>3. DeadIdle'
  <2>1. \A v \in Workers : ~Alive(v)' => ~Alive(v)
    BY <1>1, <1>2, LeaveTypes DEF Alive, HostInv
  <2>. QED
    BY <1>1, <2>1, ReapedTable DEF DeadIdle, HostInv
<1>. QED
  BY <1>1, <1>2, <1>3, ReapedTable, LeaveTypes, LoopStepKeeps
     DEF HostInv, HostTypeOK, loopRest, ownerVars

\* Admission of a run.
LEMMA SubmitKeeps ==
  ASSUME HostInv, NEW w \in Workers, NEW p \in Projects, Submit(w, p)
  PROVE  HostInv'
<1>1. /\ UNCHANGED <<main, barrier, lock, loopRest>> /\ registry' = Remaining(w)
      /\ main[w] = "loop" /\ thr' = [thr EXCEPT ![w][p] = "start"]
  BY DEF Submit
<1>2. thr' \in [Workers -> [Projects -> ThreadStates]]
  BY <1>1 DEF HostInv, HostTypeOK, ThreadStates, Active
<1>3. \A v \in Workers, q \in Projects :
        thr'[v][q] = IF v = w /\ q = p THEN "start" ELSE thr[v][q]
  BY <1>1 DEF HostInv, HostTypeOK
<1>4. DeadIdle'
  BY <1>1, <1>3 DEF HostInv, DeadIdle, Alive
<1>. QED
  BY <1>1, <1>2, <1>3, <1>4, LoopStepKeeps DEF HostInv, HostTypeOK, loopRest, ownerVars

\* The start of a drain.
LEMMA CodeChangedKeeps ==
  ASSUME HostInv, NEW w \in Workers, CodeChanged(w)
  PROVE  HostInv'
<1>1. DeadIdle'
  BY DEF CodeChanged, HostInv, HostTypeOK, DeadIdle, Alive
<1>. QED
  BY <1>1, LoopStepKeeps DEF CodeChanged, HostInv, HostTypeOK, loopRest, ownerVars

\* The end of a drain.
LEMMA DrainedKeeps ==
  ASSUME HostInv, NEW w \in Workers, Drained(w)
  PROVE  HostInv'
<1>1. /\ thr' = Reaped(w) /\ registry' = Remaining(w) /\ UNCHANGED loopRest
      /\ main[w] = "drain"
  BY DEF Drained
<1>2. \/ Leave(w)
      \/ main' = [main EXCEPT ![w] = "loop"] /\ UNCHANGED <<barrier, lock>>
  BY DEF Drained
<1>3. /\ main' \in [Workers -> {"off", "loop", "drain", "closing", "gone"}]
      /\ barrier' \in [Workers -> {"RUNNING", "DRAINING", "CLOSED"}]
      /\ lock' \in Workers \cup {None}
      /\ \A v \in Workers : v # w => main'[v] = main[v]
      /\ main'[w] \in {"closing", "loop"}
  BY <1>2, LeaveTypes DEF HostInv, HostTypeOK
<1>4. DeadIdle'
  BY <1>1, <1>3, ReapedTable DEF DeadIdle, Alive, HostInv
<1>. QED
  BY <1>1, <1>3, <1>4, ReapedTable, LoopStepKeeps
     DEF HostInv, HostTypeOK, loopRest, ownerVars

\* An interrupted loop.
LEMMA InterruptedKeeps ==
  ASSUME HostInv, NEW w \in Workers, Interrupted(w)
  PROVE  HostInv'
<1>1. Leave(w) /\ UNCHANGED <<thr, registry, loopRest>> /\ main[w] = "loop"
  BY DEF Interrupted
<1>2. DeadIdle'
  BY <1>1, LeaveTypes DEF DeadIdle, Alive, HostInv
<1>. QED
  BY <1>1, <1>2, LeaveTypes, LoopStepKeeps DEF HostInv, HostTypeOK, loopRest, ownerVars

\* The exit of a process.
LEMMA CloseKeeps ==
  ASSUME HostInv, NEW w \in Workers, Close(w)
  PROVE  HostInv'
<1>1. /\ thr' = Reaped(w) /\ registry' = Remaining(w) /\ UNCHANGED <<lock, loopRest>>
      /\ main' = [main EXCEPT ![w] = "gone"] /\ Leases(w) = {}
      /\ barrier' = [barrier EXCEPT ![w] = "CLOSED"]
  BY DEF Close
<1>2. \A p \in Projects : thr'[w][p] = "none"
  BY <1>1, NoneLeft DEF HostInv
<1>3. DeadIdle'
  BY <1>1, <1>2, ReapedTable DEF DeadIdle, Alive, HostInv, HostTypeOK
<1>. QED
  BY <1>1, <1>3, ReapedTable, LoopStepKeeps DEF HostInv, HostTypeOK, loopRest, ownerVars

\* The death of a process.
LEMMA WorkerDiesKeeps ==
  ASSUME HostInv, NEW w \in Workers, WorkerDies(w)
  PROVE  HostInv'
<1>1. /\ UNCHANGED <<barrier, registry, ready, control, paused, prepared>>
      /\ main' = [main EXCEPT ![w] = "gone"]
      /\ thr' = [thr EXCEPT ![w] = [p \in Projects |-> "none"]]
      /\ lock' = IF lock = w THEN None ELSE lock
      /\ grace' = {t \in grace : t[1] # w}
  BY DEF WorkerDies
<1>2. budget' \in [owner : Nat, faults : Nat]
  BY BudgetSpent DEF WorkerDies, HostInv
<1>3. /\ thr' \in [Workers -> [Projects -> ThreadStates]]
      /\ \A v \in Workers, q \in Projects :
           thr'[v][q] = IF v = w THEN "none" ELSE thr[v][q]
  BY <1>1 DEF HostInv, HostTypeOK, ThreadStates
<1>4. DeadIdle'
  BY <1>1, <1>3 DEF DeadIdle, Alive, HostInv, HostTypeOK
<1>5. /\ grace' \subseteq grace
      /\ \A v \in Workers, q \in Projects :
           <<v, q>> \in grace /\ thr'[v][q] = "push" => <<v, q>> \in grace'
  BY <1>1, <1>3
<1>. QED
  BY <1>1, <1>2, <1>3, <1>4, <1>5, LoopStepKeeps DEF HostInv, HostTypeOK

(***************************************************************************)
(* The Owner: no run and no record changes.                                *)
(***************************************************************************)
\* The part of the invariant that is not about the pause.
LEMMA OwnerStepKeeps ==
  ASSUME HostInv, Elsewhere, budget' \in [owner : Nat, faults : Nat],
         control' \in {"AUTO", "PAUSED"},
         paused' \subseteq Projects, grace' \subseteq Workers \X Projects,
         prepared' \in BOOLEAN, ready' \subseteq ready, PauseStopsClaims'
  PROVE  HostInv'
<1>1. UNCHANGED <<main, barrier, lock, thr, registry>>
  BY DEF Elsewhere
<1>2. HostTypeOK'
  BY <1>1 DEF HostInv, HostTypeOK
<1>3. DeadIdle' /\ HoldersReserved' /\ RecordsStarted'
  BY <1>1 DEF HostInv, DeadIdle, Alive, HoldersReserved, Holders, Probeable, RecordsStarted
<1>4. RecordsDisjoint' /\ SlotBound'
  BY <1>1, ShrinkingKeeps DEF HostInv
<1>. QED
  BY <1>2, <1>3, <1>4 DEF HostInv

\* The Owner's budget stays a budget.
LEMMA OwnerBudget ==
  ASSUME HostInv, OwnerActsOnState \/ OwnerRelents
  PROVE  Elsewhere /\ thr' = thr /\ budget' \in [owner : Nat, faults : Nat]
BY DEF OwnerActsOnState, OwnerRelents, Elsewhere, HostInv, HostTypeOK

\* Pausing and resuming the host.
LEMMA OwnerControlKeeps ==
  ASSUME HostInv, OwnerPauses \/ OwnerResumes
  PROVE  HostInv'
<1>0. OwnerActsOnState \/ OwnerRelents
  BY DEF OwnerPauses, OwnerResumes, OwnerActs
<1>1. /\ Elsewhere /\ budget' \in [owner : Nat, faults : Nat] /\ thr' = thr
      /\ UNCHANGED <<paused, prepared, ready>> /\ control' \in {"AUTO", "PAUSED"}
  BY <1>0, OwnerBudget DEF OwnerPauses, OwnerResumes, OwnerActs, OwnerRelents
<1>2. grace' \subseteq Workers \X Projects
  BY DEF OwnerPauses, OwnerResumes, InFlight, HostInv, HostTypeOK
<1>3. PauseStopsClaims'
  <2>1. CASE OwnerPauses
    BY <1>1, <2>1 DEF OwnerPauses, InFlight, PauseStopsClaims
  <2>2. CASE OwnerResumes
    BY <1>1, <2>2 DEF OwnerResumes, PauseStopsClaims, ControlAllows, HostInv
  <2>. QED
    BY <2>1, <2>2
<1>. QED
  BY <1>1, <1>2, <1>3, OwnerStepKeeps DEF HostInv, HostTypeOK

\* Pausing and resuming one project.
LEMMA SetProjectPausedKeeps ==
  ASSUME HostInv, NEW p \in Projects, set_project_paused(p)
  PROVE  HostInv'
<1>0. OwnerActsOnState \/ OwnerRelents
  BY DEF set_project_paused, OwnerActs
<1>1. /\ Elsewhere /\ budget' \in [owner : Nat, faults : Nat] /\ thr' = thr
      /\ UNCHANGED <<control, prepared, ready>> /\ paused' \subseteq Projects
  BY <1>0, OwnerBudget DEF set_project_paused, OwnerActs, OwnerRelents, HostInv, HostTypeOK
<1>2. grace' \subseteq Workers \X Projects
  BY DEF set_project_paused, InFlight, HostInv, HostTypeOK
<1>3. PauseStopsClaims'
  <2>1. CASE paused' = paused \cup {p} /\ grace' = grace \cup InFlight({p})
    BY <1>1, <2>1 DEF InFlight, PauseStopsClaims, ControlAllows, HostInv
  <2>2. CASE /\ paused' = paused \ {p}
             /\ grace' = IF control = "AUTO" THEN {t \in grace : t[2] # p} ELSE grace
    BY <1>1, <2>2 DEF PauseStopsClaims, ControlAllows, HostInv
  <2>. QED
    BY <2>1, <2>2 DEF set_project_paused
<1>. QED
  BY <1>1, <1>2, <1>3, OwnerStepKeeps DEF HostInv, HostTypeOK

\* Another writer, or a handoff.
LEMMA OtherWriterKeeps ==
  ASSUME HostInv, (\E p \in Projects : OtherWriter(p)) \/ HandoffPrepared
  PROVE  HostInv'
<1>1. /\ OwnerActsOnState /\ UNCHANGED ownerVars /\ thr' = thr
      /\ prepared' \in BOOLEAN /\ ready' \subseteq ready
  <2>1. CASE HandoffPrepared
    BY <2>1 DEF HandoffPrepared, OwnerActs, OwnerActsOnState, Elsewhere
  <2>2. ASSUME NEW p \in Projects, OtherWriter(p)
        PROVE  /\ OwnerActsOnState /\ UNCHANGED ownerVars /\ thr' = thr
               /\ prepared' = prepared /\ ready' \subseteq ready
    BY <2>2 DEF OtherWriter, OwnerActsOnState, Elsewhere
  <2>3. prepared \in BOOLEAN
    BY DEF HostInv, HostTypeOK
  <2>. QED
    BY <2>1, <2>2, <2>3
<1>2. PauseStopsClaims'
  BY <1>1 DEF ownerVars, PauseStopsClaims, ControlAllows, HostInv
<1>. QED
  BY <1>1, <1>2, OwnerBudget, OwnerStepKeeps DEF HostInv, HostTypeOK, ownerVars

(***************************************************************************)
(* The theorems.                                                           *)
(***************************************************************************)
\* The initial states.
LEMMA InitHostInv == HostInit => HostInv
<1>. SUFFICES ASSUME HostInit PROVE HostInv
  OBVIOUS
<1>1. HostTypeOK
  BY HostAssumption DEF HostInit, HostTypeOK, ThreadStates
<1>2. DeadIdle
  BY DEF HostInit, DeadIdle
<1>3. HoldersReserved /\ PauseStopsClaims
  BY DEF HostInit, HoldersReserved, Holders, Holding, PauseStopsClaims
<1>4. RecordsStarted /\ RecordsDisjoint /\ SlotBound
  BY DEF HostInit, RecordsStarted, RecordsDisjoint, SlotBound
<1>. QED
  BY <1>1, <1>2, <1>3, <1>4 DEF HostInv

\* Every step.
LEMMA NextHostInv == HostInv /\ [HostNext]_vars => HostInv'
<1>. SUFFICES ASSUME HostInv, [HostNext]_vars PROVE HostInv'
  OBVIOUS
<1>1. ASSUME NEW w \in Workers, NEW p \in Projects, ThreadStep(w, p) \/ ThreadFault(w, p)
      PROVE  HostInv'
  BY <1>1, ConsiderKeeps, CheckAndReserveKeeps, RereadKeeps, ClaimPayloadKeeps,
     ClaimLandsKeeps, ClaimRetriedKeeps, ClaimFailsKeeps, PrepareRunKeeps,
     CloseRunScopeKeeps, SettleKeeps, RegistryUnavailableKeeps, UnguardedFailureKeeps
     DEF ThreadStep, ThreadFault
<1>2. ASSUME NEW w \in Workers, NEW p \in Projects, Submit(w, p)
      PROVE  HostInv'
  BY <1>2, SubmitKeeps
<1>3. ASSUME NEW w \in Workers,
             \/ MainStep(w) \/ BootRefused(w) \/ CodeChanged(w)
             \/ Interrupted(w) \/ WorkerDies(w)
      PROVE  HostInv'
  BY <1>3, BootKeeps, BootRefusedKeeps, ReapKeeps, DrainedKeeps, CloseKeeps,
     CodeChangedKeeps, InterruptedKeeps, WorkerDiesKeeps DEF MainStep
<1>4. ASSUME \/ OwnerPauses \/ OwnerResumes \/ HandoffPrepared
             \/ \E p \in Projects : set_project_paused(p) \/ OtherWriter(p)
      PROVE  HostInv'
  BY <1>4, OwnerControlKeeps, SetProjectPausedKeeps, OtherWriterKeeps
<1>5. CASE UNCHANGED vars
  <2>1. UNCHANGED <<main, barrier, thr, registry, lock, ready, control, paused, grace,
                    prepared, budget>>
    BY <1>5 DEF vars, procVars, ownerVars
  <2>2. DeadIdle'
    BY <2>1 DEF HostInv, DeadIdle, Alive
  <2>. QED
    BY <2>1, <2>2, LoopStepKeeps DEF HostInv, HostTypeOK
<1>. QED
  BY <1>1, <1>2, <1>3, <1>4, <1>5 DEF HostNext

\* The inductive invariant holds of every behaviour.
THEOREM HostInductive == HostSpec => []HostInv
<1>. QED
  BY InitHostInv, NextHostInv, PTL DEF HostSpec

\* Every variable keeps its type: no step of a thread, a main loop or the
\* Owner leaves a run, a record or a process in a state the code does not know.
THEOREM HostTypeCorrect == HostSpec => []HostTypeOK
<1>1. HostInv => HostTypeOK
  BY DEF HostInv
<1>. QED
  BY <1>1, HostInductive, PTL

\* Exclusive execution on one host, across any number of Worker processes,
\* live, draining and dead, whichever of them their probes reach: runs under way
\* are compatible with one another as long as their processes are seen live by
\* all others (HostResourceArbiter.check_and_reserve, _safe_stale).
THEOREM SeenRunsDisjoint ==
  HostSpec => [](\A t, u \in Holders :
                   t # u /\ Probeable(t[1]) /\ Probeable(u[1]) => ~Conflict(t[2], u[2]))
<1>1. HostInv => \A t, u \in Holders :
                   t # u /\ Probeable(t[1]) /\ Probeable(u[1]) => ~Conflict(t[2], u[2])
  BY DEF HostInv, HoldersReserved, RecordsDisjoint
<1>. QED
  BY <1>1, HostInductive, PTL

\* Where every probe of a live process answers, as on POSIX, all runs under way
\* are pairwise compatible, and within a configured limit
\* (HostResourceArbiter.check_and_reserve, _conflict_reason).
THEOREM RunsDisjoint ==
  ASSUME \A v \in Workers : Probeable(v)
  PROVE  HostSpec => []ConcurrentRunsDisjoint
<1>1. HostInv => ConcurrentRunsDisjoint
  <2>. SUFFICES ASSUME HostInv PROVE ConcurrentRunsDisjoint
    OBVIOUS
  <2>1. Holders \subseteq registry /\ registry \in SUBSET (Workers \X Projects)
    BY DEF HostInv, HoldersReserved, HostTypeOK, Holders
  <2>2. \A t, u \in Holders : t # u => ~Conflict(t[2], u[2])
    BY <2>1 DEF HostInv, RecordsDisjoint
  <2>3. ASSUME Holders # {}
        PROVE  \E w \in Workers : Cardinality(Holders) =< Limit[w]
    <3>1. PICK w \in Workers : Cardinality(registry) =< Limit[w]
      BY <2>1, <2>3 DEF HostInv, SlotBound
    <3>2. IsFiniteSet(registry) /\ Cardinality(registry) \in Nat
      BY <2>1, RegistryFinite
    <3>3. Cardinality(Holders) =< Cardinality(registry)
      BY <2>1, <3>2, FS_Subset
    <3>4. Cardinality(Holders) \in Nat
      BY <2>1, RegistryFinite
    <3>. QED
      BY <3>1, <3>2, <3>3, <3>4, HostAssumption
  <2>. QED
    BY <2>2, <2>3 DEF ConcurrentRunsDisjoint
<1>. QED
  BY <1>1, HostInductive, PTL

\* The Owner's pause reaches every later claim and every retry of one
\* (claim_payload, require_new_execution, require_project_admission).
THEOREM PauseIsRespected == HostSpec => []PauseStopsClaims
<1>1. HostInv => PauseStopsClaims
  BY DEF HostInv
<1>. QED
  BY <1>1, HostInductive, PTL

\* A run that is not in the table is admitted by Submit only.
LEMMA LeasesOnlyShrink ==
  ASSUME HostInv, [HostNext]_vars, NEW w \in Workers, barrier[w] # "RUNNING"
  PROVE  Leases(w)' \subseteq Leases(w)
<1>. SUFFICES ASSUME NEW q \in Projects, thr'[w][q] \in Active
              PROVE  thr[w][q] \in Active
  BY DEF Leases
<1>. USE DEF HostInv
<1>1. CASE \E v \in Workers, p \in Projects : ThreadStep(v, p) \/ ThreadFault(v, p)
  <2>1. PICK v \in Workers, p \in Projects : ThreadStep(v, p) \/ ThreadFault(v, p)
    BY <1>1
  <2>2. \E from \in Active, to \in ThreadStates : AtStep(v, p, from, to)
    BY <2>1 DEF ThreadStep, ThreadFault, Consider, CheckAndReserve, Reread, ClaimPayload,
       ClaimLands, ClaimRetried, ClaimFails, PrepareRun, CloseRunScope, Settle,
       RegistryUnavailable, UnguardedFailure, ThreadStates, Active, Holding, Ended
  <2>3. PICK from \in Active, to \in ThreadStates : AtStep(v, p, from, to)
    BY <2>2
  <2>. QED
    BY <2>3, Moved
<1>2. CASE \E v \in Workers, p \in Projects : Submit(v, p)
  <2>1. PICK v \in Workers, p \in Projects : Submit(v, p)
    BY <1>2
  <2>2. v # w
    BY <2>1 DEF Submit
  <2>. QED
    BY <2>1, <2>2 DEF Submit, HostTypeOK
<1>3. CASE \E v \in Workers : thr' = Reaped(v)
  BY <1>3, ReapedTable DEF Active, Holding
<1>4. CASE \E v \in Workers : WorkerDies(v)
  BY <1>4 DEF WorkerDies, HostTypeOK, Active, Holding
<1>5. CASE thr' = thr
  BY <1>5
<1>6. ASSUME NEW v \in Workers,
             \/ MainStep(v) \/ BootRefused(v) \/ CodeChanged(v) \/ Interrupted(v)
      PROVE  thr' = thr \/ thr' = Reaped(v)
  BY <1>6 DEF MainStep, Boot, Reap, Drained, Close, BootRefused, CodeChanged, Interrupted
<1>7. ASSUME \/ OwnerPauses \/ OwnerResumes \/ HandoffPrepared \/ UNCHANGED vars
             \/ \E p \in Projects : set_project_paused(p) \/ OtherWriter(p)
      PROVE  thr' = thr
  BY <1>7 DEF OwnerPauses, OwnerResumes, HandoffPrepared, set_project_paused, OtherWriter,
     OwnerActs, OwnerActsOnState, OwnerRelents, Elsewhere, vars
<1>. QED
  BY <1>1, <1>2, <1>3, <1>4, <1>5, <1>6, <1>7 DEF HostNext

\* A Coordinator that drains admits nothing, in the loop and after it
\* (Coordinator.submit, AdmissionBarrier.try_admit).
THEOREM DrainIsFinal == HostSpec => DrainingAdmitsNothing
<1>1. HostInv /\ [HostNext]_vars =>
        [\A w \in Workers : barrier[w] # "RUNNING" => Leases(w)' \subseteq Leases(w)]_vars
  BY LeasesOnlyShrink
<1>. QED
  BY <1>1, HostInductive, PTL DEF HostSpec, DrainingAdmitsNothing

(***************************************************************************)
(* Reservations without a run: only a failure that no handler guards adds  *)
(* one, and it uses up a fault.                                            *)
(***************************************************************************)
\* A run that moves leaves no record behind when it enters or stays in the
\* guarded stretch, takes its record back, or had none to answer for.
LEMMA MoveLeaksNothing ==
  ASSUME HostInv, NEW w \in Workers, NEW p \in Projects,
         NEW from \in ThreadStates, NEW to \in ThreadStates, AtStep(w, p, from, to),
         main' = main, registry' \subseteq registry \cup {<<w, p>>},
         \/ to \in Holding
         \/ <<w, p>> \notin registry'
         \/ from \notin Holding /\ registry' \subseteq registry
  PROVE  Leaked' \subseteq Leaked
<1>. SUFFICES ASSUME NEW v \in Workers, NEW q \in Projects, <<v, q>> \in Leaked'
              PROVE  <<v, q>> \in Leaked
  <2>1. registry' \subseteq Workers \X Projects
    BY DEF HostInv, HostTypeOK
  <2>. QED
    BY <2>1 DEF Leaked
<1>1. /\ <<v, q>> \in registry' /\ thr'[v][q] \notin Holding /\ Alive(v)
  BY DEF Leaked, Holders, Alive
<1>2. thr \in [Workers -> [Projects -> ThreadStates]]
  BY DEF HostInv, HostTypeOK
<1>3. CASE v = w /\ q = p
  <2>1. thr'[w][p] = to /\ thr[w][p] = from
    BY <1>2 DEF AtStep
  <2>. QED
    BY <1>1, <1>3, <2>1 DEF Leaked, Holders
<1>4. CASE ~(v = w /\ q = p)
  <2>1. thr'[v][q] = thr[v][q]
    BY <1>2, <1>4 DEF AtStep
  <2>2. <<v, q>> \in registry
    BY <1>1, <1>4
  <2>. QED
    BY <1>1, <2>1, <2>2 DEF Leaked, Holders
<1>. QED
  BY <1>3, <1>4

\* Steps of a run that are no failure, or a failure that is handled.
LEMMA ThreadLeaksNothing ==
  ASSUME HostInv, NEW w \in Workers, NEW p \in Projects,
         ThreadStep(w, p) \/ ClaimRetried(w, p) \/ RegistryUnavailable(w, p)
  PROVE  Leaked' \subseteq Leaked
<1>. USE DEF ThreadStates, Active, Holding, Ended
<1>1. main' = main
  BY DEF ThreadStep, Consider, CheckAndReserve, Reread, ClaimPayload, ClaimLands, ClaimFails,
     PrepareRun, CloseRunScope, Settle, ClaimRetried, RegistryUnavailable, procVars
<1>2. CASE Consider(w, p)
  BY <1>1, <1>2, MoveLeaksNothing DEF Consider
<1>3. CASE CheckAndReserve(w, p)
  BY <1>1, <1>3, MoveLeaksNothing, RemainingSmaller DEF CheckAndReserve, HostInv
<1>4. CASE Reread(w, p)
  BY <1>1, <1>4, MoveLeaksNothing, RemainingSmaller DEF Reread, HostInv
<1>5. CASE ClaimPayload(w, p)
  BY <1>1, <1>5, MoveLeaksNothing DEF ClaimPayload
<1>6. CASE ClaimLands(w, p)
  BY <1>1, <1>6, MoveLeaksNothing DEF ClaimLands
<1>7. CASE ClaimFails(w, p)
  BY <1>1, <1>7, MoveLeaksNothing DEF ClaimFails
<1>8. CASE PrepareRun(w, p)
  BY <1>1, <1>8, MoveLeaksNothing DEF PrepareRun
<1>9. CASE CloseRunScope(w, p)
  BY <1>1, <1>9, MoveLeaksNothing DEF CloseRunScope
<1>10. CASE Settle(w, p)
  BY <1>1, <1>10, MoveLeaksNothing DEF Settle
<1>11. CASE ClaimRetried(w, p)
  BY <1>1, <1>11, MoveLeaksNothing DEF ClaimRetried
<1>12. CASE RegistryUnavailable(w, p)
  BY <1>1, <1>12, MoveLeaksNothing DEF RegistryUnavailable
<1>. QED
  BY <1>2, <1>3, <1>4, <1>5, <1>6, <1>7, <1>8, <1>9, <1>10, <1>11, <1>12 DEF ThreadStep

\* Every other step: no run leaves the stretch while its process lives, no
\* record is added, and a process that starts has none.
LEMMA OthersLeakNothing ==
  ASSUME HostInv, registry' \subseteq registry,
         \A v \in Workers, q \in Projects :
           thr[v][q] \in Holding => thr'[v][q] \in Holding \/ ~Alive(v)',
         \A v \in Workers, q \in Projects :
           Alive(v)' /\ ~Alive(v) => <<v, q>> \notin registry'
  PROVE  Leaked' \subseteq Leaked
<1>. SUFFICES ASSUME NEW v \in Workers, NEW q \in Projects, <<v, q>> \in Leaked'
              PROVE  <<v, q>> \in Leaked
  <2>1. registry' \subseteq Workers \X Projects
    BY DEF HostInv, HostTypeOK
  <2>. QED
    BY <2>1 DEF Leaked
<1>1. <<v, q>> \in registry' /\ thr'[v][q] \notin Holding /\ Alive(v)'
  BY DEF Leaked, Holders, Alive
<1>2. thr[v][q] \notin Holding /\ Alive(v)
  BY <1>1
<1>. QED
  BY <1>1, <1>2 DEF Leaked, Holders

\* The main loop.
LEMMA LoopLeaksNothing ==
  ASSUME HostInv, NEW w \in Workers,
         \/ MainStep(w) \/ BootRefused(w) \/ CodeChanged(w) \/ Interrupted(w)
  PROVE  Leaked' \subseteq Leaked
<1>1. registry' \subseteq registry
  BY RemainingSmaller DEF MainStep, Boot, Reap, Drained, Close, BootRefused, CodeChanged,
     Interrupted, HostInv
<1>2. thr' = thr \/ thr' = Reaped(w)
  BY DEF MainStep, Boot, Reap, Drained, Close, BootRefused, CodeChanged, Interrupted
<1>3. \A v \in Workers, q \in Projects : thr[v][q] \in Holding => thr'[v][q] \in Holding
  <2>1. CASE thr' = thr
    BY <2>1
  <2>2. CASE thr' = Reaped(w)
    <3>1. \A q \in Projects : thr[w][q] \in Holding => thr'[w][q] = thr[w][q]
      BY <2>2, ReapedTable DEF Holding, Ended, HostInv
    <3>2. \A v \in Workers \ {w} : thr'[v] = thr[v]
      BY <2>2 DEF Reaped, HostInv, HostTypeOK
    <3>. QED
      BY <3>1, <3>2
  <2>. QED
    BY <1>2, <2>1, <2>2
<1>4. \A v \in Workers : v # w \/ ~Boot(w) => (Alive(v)' => Alive(v))
  BY DEF MainStep, Boot, Reap, Drained, Close, BootRefused, CodeChanged, Interrupted, Leave,
     Alive, HostInv, HostTypeOK
<1>5. ASSUME Boot(w), NEW q \in Projects PROVE <<w, q>> \notin registry'
  BY <1>1, <1>5 DEF Boot, RecordsStarted, HostInv
<1>. QED
  BY <1>1, <1>3, <1>4, <1>5, OthersLeakNothing

\* Admission, death and everything outside the processes.
LEMMA OutsideLeaksNothing ==
  ASSUME HostInv,
         \/ \E w \in Workers, p \in Projects : Submit(w, p)
         \/ \E w \in Workers : WorkerDies(w)
         \/ Elsewhere
  PROVE  Leaked' \subseteq Leaked
<1>1. ASSUME NEW w \in Workers, NEW p \in Projects, Submit(w, p)
      PROVE  Leaked' \subseteq Leaked
  <2>1. \A v \in Workers, q \in Projects : thr[v][q] \in Holding => thr'[v][q] \in Holding
    BY <1>1 DEF Submit, Holding, HostInv, HostTypeOK
  <2>2. registry' \subseteq registry /\ main' = main
    BY <1>1, RemainingSmaller DEF Submit, HostInv
  <2>. QED
    BY <2>1, <2>2, OthersLeakNothing DEF Alive
<1>2. ASSUME NEW w \in Workers, WorkerDies(w)
      PROVE  Leaked' \subseteq Leaked
  <2>1. \A v \in Workers : Alive(v)' => v # w /\ Alive(v)
    BY <1>2 DEF WorkerDies, Alive, HostInv, HostTypeOK
  <2>2. \A v \in Workers \ {w} : thr'[v] = thr[v]
    BY <1>2 DEF WorkerDies, HostInv, HostTypeOK
  <2>3. registry' \subseteq registry
    BY <1>2 DEF WorkerDies
  <2>. QED
    BY <2>1, <2>2, <2>3, OthersLeakNothing
<1>3. CASE Elsewhere
  BY <1>3, OthersLeakNothing DEF Elsewhere, Alive
<1>. QED
  BY <1>1, <1>2, <1>3

\* The faults that are left never grow.
LEMMA FaultsSpent ==
  ASSUME HostInv, [HostNext]_vars
  PROVE  budget.faults \in Nat /\ budget'.faults \in Nat /\ budget'.faults =< budget.faults
<1>1. budget \in [owner : Nat, faults : Nat]
  BY DEF HostInv, HostTypeOK
<1>2. \/ budget' = budget
      \/ budget.owner > 0 /\ budget' = [budget EXCEPT !.owner = @ - 1]
      \/ budget.faults > 0 /\ budget' = [budget EXCEPT !.faults = @ - 1]
  <2>1. ASSUME NEW w \in Workers, NEW p \in Projects, ThreadStep(w, p) \/ Submit(w, p)
        PROVE  budget' = budget
    BY <2>1 DEF ThreadStep, Consider, CheckAndReserve, Reread, ClaimPayload, ClaimLands,
       ClaimFails, PrepareRun, CloseRunScope, Settle, Submit, loopRest
  <2>2. ASSUME NEW w \in Workers, NEW p \in Projects, ThreadFault(w, p)
        PROVE  budget.faults > 0 /\ budget' = [budget EXCEPT !.faults = @ - 1]
    BY <2>2 DEF ThreadFault, ClaimRetried, RegistryUnavailable, UnguardedFailure
  <2>3. ASSUME NEW w \in Workers,
               MainStep(w) \/ BootRefused(w) \/ CodeChanged(w) \/ Interrupted(w)
        PROVE  budget' = budget
    BY <2>3 DEF MainStep, Boot, Reap, Drained, Close, BootRefused, CodeChanged, Interrupted,
       loopRest
  <2>4. ASSUME NEW w \in Workers, WorkerDies(w)
        PROVE  budget.faults > 0 /\ budget' = [budget EXCEPT !.faults = @ - 1]
    BY <2>4 DEF WorkerDies
  <2>5. ASSUME \/ OwnerPauses \/ OwnerResumes \/ HandoffPrepared
               \/ \E p \in Projects : set_project_paused(p) \/ OtherWriter(p)
        PROVE  \/ budget' = budget
               \/ budget.owner > 0 /\ budget' = [budget EXCEPT !.owner = @ - 1]
    BY <2>5 DEF OwnerPauses, OwnerResumes, set_project_paused, OtherWriter, HandoffPrepared,
       OwnerActs, OwnerActsOnState, OwnerRelents
  <2>6. CASE UNCHANGED vars
    BY <2>6 DEF vars
  <2>. QED
    BY <2>1, <2>2, <2>3, <2>4, <2>5, <2>6 DEF HostNext
<1>. QED
  BY <1>1, <1>2

\* One step leaks nothing, or one reservation for one fault.
LEMMA OneLeakPerFault ==
  ASSUME HostInv, [HostNext]_vars
  PROVE  \/ Leaked' \subseteq Leaked
         \/ /\ \E r \in Workers \X Projects : Leaked' \subseteq Leaked \cup {r}
            /\ budget'.faults = budget.faults - 1
<1>1. ASSUME NEW w \in Workers, NEW p \in Projects, UnguardedFailure(w, p)
      PROVE  /\ \E r \in Workers \X Projects : Leaked' \subseteq Leaked \cup {r}
             /\ budget'.faults = budget.faults - 1
  <2>1. Leaked' \subseteq Leaked \cup {<<w, p>>}
    <3>1. UNCHANGED <<main, registry>>
      BY <1>1 DEF UnguardedFailure, procVars
    <3>2. \A v \in Workers, q \in Projects :
            <<v, q>> # <<w, p>> => thr'[v][q] = thr[v][q]
      BY <1>1 DEF UnguardedFailure, AtStep, HostInv, HostTypeOK
    <3>. QED
      BY <3>1, <3>2 DEF Leaked, Holders, Alive, HostInv, HostTypeOK
  <2>2. budget'.faults = budget.faults - 1
    BY <1>1 DEF UnguardedFailure, HostInv, HostTypeOK
  <2>. QED
    BY <2>1, <2>2
<1>2. ASSUME NEW w \in Workers, NEW p \in Projects, ThreadStep(w, p) \/ ThreadFault(w, p)
      PROVE  UnguardedFailure(w, p) \/ Leaked' \subseteq Leaked
  BY <1>2, ThreadLeaksNothing DEF ThreadFault
<1>3. ASSUME \/ OwnerPauses \/ OwnerResumes \/ HandoffPrepared \/ UNCHANGED vars
             \/ \E p \in Projects : set_project_paused(p) \/ OtherWriter(p)
      PROVE  Elsewhere
  BY <1>3 DEF OwnerPauses, OwnerResumes, HandoffPrepared, set_project_paused, OtherWriter,
     OwnerActs, OwnerActsOnState, OwnerRelents, Elsewhere, vars, procVars
<1>. QED
  BY <1>1, <1>2, <1>3, LoopLeaksNothing, OutsideLeaksNothing DEF HostNext

\* A reservation outlives its run only through a failure that no handler
\* guards, one for each (process_project, RunScope.close).
THEOREM ReservationsComeBack == HostSpec => []ReservationsReturned
<1>1. HostInit => ReservationsReturned
  <2>1. HostInit => Leaked = {} /\ MaxFaults - budget.faults = 0
    BY HostAssumption DEF HostInit, Leaked
  <2>. QED
    BY <2>1, FS_EmptySet DEF ReservationsReturned
<1>2. HostInv /\ ReservationsReturned /\ [HostNext]_vars => ReservationsReturned'
  <2>. SUFFICES ASSUME HostInv, ReservationsReturned, [HostNext]_vars
                PROVE  ReservationsReturned'
    OBVIOUS
  <2>1. Leaked \in SUBSET (Workers \X Projects) /\ MaxFaults \in Nat
    BY HostAssumption DEF Leaked, HostInv, HostTypeOK
  <2>2. IsFiniteSet(Leaked) /\ Cardinality(Leaked) \in Nat
    BY <2>1, RegistryFinite
  <2>3. budget.faults \in Nat /\ budget'.faults \in Nat /\ budget'.faults =< budget.faults
    BY FaultsSpent
  <2>4. CASE Leaked' \subseteq Leaked
    <3>1. Cardinality(Leaked') =< Cardinality(Leaked) /\ Cardinality(Leaked') \in Nat
      BY <2>2, <2>4, FS_Subset, FS_CardinalityType
    <3>. QED
      BY <2>1, <2>2, <2>3, <3>1 DEF ReservationsReturned
  <2>5. ASSUME NEW r \in Workers \X Projects, Leaked' \subseteq Leaked \cup {r},
               budget'.faults = budget.faults - 1
        PROVE  ReservationsReturned'
    <3>1. /\ IsFiniteSet(Leaked \cup {r})
          /\ Cardinality(Leaked \cup {r}) =< Cardinality(Leaked) + 1
          /\ Cardinality(Leaked \cup {r}) \in Nat
      <4>1. /\ IsFiniteSet(Leaked \cup {r})
            /\ Cardinality(Leaked \cup {r}) =
                 IF r \in Leaked THEN Cardinality(Leaked) ELSE Cardinality(Leaked) + 1
        BY <2>2, FS_AddElement
      <4>. QED
        BY <2>2, <4>1
    <3>2. /\ Cardinality(Leaked') =< Cardinality(Leaked \cup {r})
          /\ Cardinality(Leaked') \in Nat
      BY <2>5, <3>1, FS_Subset, FS_CardinalityType
    <3>. QED
      BY <2>1, <2>2, <2>3, <2>5, <3>1, <3>2 DEF ReservationsReturned
  <2>. QED
    BY <2>4, <2>5, OneLeakPerFault
<1>. QED
  BY <1>1, <1>2, HostInductive, PTL DEF HostSpec

===============================================================================
