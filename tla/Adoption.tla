------------------------------- MODULE Adoption -------------------------------
(***************************************************************************)
(* The engine's own repository and the outer authority that builds an      *)
(* adoption from it (vnext_runtime/adoption.py): a Candidate is frozen,    *)
(* the live main is revalidated, a reconciliation is planned path by path  *)
(* and the reconciled tree is promoted by a fast-forward only.             *)
(*                                                                         *)
(* A commit knows its ancestors, the paths it touched and its tree; a      *)
(* tree gives each path the set of edits its content carries.  A clean     *)
(* three-way merge applies to main what the Candidate added and removed.   *)
(***************************************************************************)
EXTENDS Naturals, FiniteSets, Sequences

CONSTANTS
  Paths,               \* representative repository paths
  Category,            \* protected_path_category of each path
  CleanPaths,          \* policy.clean_three_way_paths
  LatestMainPaths,     \* policy.documentation_latest_main_paths
  KernelPaths,         \* policy.protocol_kernel_clean_three_way_paths
  BoundaryPaths,       \* policy.boundary_forward_paths
  CandidatePaths,      \* bound: the paths a Candidate edits
  ForeignPaths,        \* bound: the paths others push to
  MaxAttempts          \* bound: Candidates frozen

Unprotected == "NONE"
Categories == {"NONE", "PROTOCOL_AUTHORITY", "PROJECT_CONTROL_PLANE",
               "PROTECTED_PATH", "LAUNCHER_SAFETY", "RECOVERY_IDENTITY"}

(* What each allowlist may name; that of section unions may name nothing.  *)
ReconciliationPolicy ==
  /\ CleanPaths \subseteq Paths /\ LatestMainPaths \subseteq Paths
  /\ KernelPaths \subseteq Paths /\ BoundaryPaths \subseteq Paths
  /\ \A p \in CleanPaths \cup LatestMainPaths : Category[p] = "NONE"
  /\ \A p \in KernelPaths : Category[p] = "PROTOCOL_AUTHORITY"
  /\ \A p \in BoundaryPaths : Category[p] \in {"LAUNCHER_SAFETY", "RECOVERY_IDENTITY"}

ASSUME AdoptionAssumption ==
  /\ Category \in [Paths -> Categories]
  /\ ReconciliationPolicy
  /\ CandidatePaths \subseteq Paths /\ ForeignPaths \subseteq Paths
  /\ MaxAttempts \in Nat \ {0}

VARIABLES
  commits,     \* every commit, in creation order; its index is its SHA
  local,       \* HEAD of main in the Stable checkout
  remote,      \* main at the remote
  plan         \* the outer authority's current adoption attempt

Attempts == 1..MaxAttempts
Foreign == MaxAttempts + 1          \* edits made on main by anyone else
Edits == 1..(MaxAttempts + 1)
Shas == 1..Len(commits)

Ancestor(a, b) == a \in commits[b].anc
Tree(c) == commits[c].tree
ChangedPaths(a, b) == {p \in Paths : Tree(a)[p] # Tree(b)[p]}
SourcePaths == {p \in Paths : Category[p] # "PROJECT_CONTROL_PLANE"}

(* A commit on top of the given parents. *)
Commit(parents, tree, touched, kind, of) ==
  [anc |-> (UNION {commits[c].anc : c \in parents}) \cup {Len(commits) + 1},
   tree |-> tree, touched |-> touched, kind |-> kind, of |-> of]

NoPlan == [stage |-> "none", attempt |-> 0, boot |-> 0, base |-> 0,
           candidate |-> 0, main |-> 0, target |-> 0]

AdoptionInit ==
  /\ commits = <<[anc |-> {1}, tree |-> [p \in Paths |-> {}], touched |-> {},
                  kind |-> "base", of |-> 0]>>
  /\ local = 1
  /\ remote = 1
  /\ plan = NoPlan

-----------------------------------------------------------------------------
(* Someone else pushes to main: a projects/** record or a source change.   *)
ForeignPush(p) ==
  /\ commits' = Append(commits,
       Commit({remote}, [Tree(remote) EXCEPT ![p] = @ \cup {Foreign}], {p}, "foreign", Foreign))
  /\ remote' = Len(commits')
  /\ UNCHANGED <<local, plan>>

(* freeze_candidate: a clean Candidate strictly ahead of its bootstrap.    *)
FreezeCandidate(p, boot) ==
  LET attempt == plan.attempt + 1 IN
  /\ plan.stage = "none"
  /\ attempt \in Attempts
  /\ Ancestor(boot, remote)
  /\ commits' = Append(commits,
       Commit({remote}, [Tree(remote) EXCEPT ![p] = @ \cup {attempt}], {p}, "candidate", attempt))
  /\ plan' = [NoPlan EXCEPT !.stage = "frozen", !.attempt = attempt, !.boot = boot,
                            !.base = remote, !.candidate = Len(commits')]
  /\ UNCHANGED <<local, remote>>

(* revalidate_latest_main: bind the plan to the main it observed.          *)
RevalidateMain ==
  /\ plan.stage = "frozen"
  /\ plan' = [plan EXCEPT !.stage = "revalidated", !.main = remote]
  /\ UNCHANGED <<commits, local, remote>>

-----------------------------------------------------------------------------
(* The verdict of _plan_explicit_reconciliation on one Candidate path.     *)
CandidateDelta == ChangedPaths(plan.base, plan.candidate)
LiveDelta == ChangedPaths(plan.base, plan.main)
TouchedSince(p) == \E c \in commits[plan.main].anc \ commits[plan.base].anc :
                      p \in commits[c].touched

(* A protected path only the Candidate changed: a kernel document main's   *)
(* history never touched, or launcher and recovery source whose contract   *)
(* markers are proven.                                                     *)
OneSidedProtected(p, clash, proven) ==
  IF Category[p] = "PROTOCOL_AUTHORITY" /\ p \in KernelPaths /\ ~TouchedSince(p)
  THEN IF p \in clash THEN "conflict" ELSE "CLEAN_THREE_WAY"
  ELSE IF p \in BoundaryPaths /\ proven THEN "BOUNDARY_FORWARD" ELSE "conflict"

(* Mutant: the Candidate's side of a path both sides changed wins. *)
FaultyBothChanged(p, clash, superset) == "CANDIDATE_ONLY"

(* A path both sides changed. *)
BothChanged(p, clash, superset) ==
  CASE /\ Tree(plan.candidate)[p] = Tree(plan.main)[p]
       /\ Category[p] \notin {"PROJECT_CONTROL_PLANE", "PROTECTED_PATH"} -> "IDENTICAL_TREE"
    [] p \in KernelPaths \cup CleanPaths ->
         IF p \in clash THEN "conflict" ELSE "CLEAN_THREE_WAY"
    [] p \in LatestMainPaths /\ superset -> "DOCUMENTATION_LATEST_MAIN"
    [] OTHER -> "conflict"

Resolution(p, clash, proven, superset) ==
  CASE p \notin CandidateDelta ->
         IF p \in LiveDelta THEN "STABLE_ONLY" ELSE "SHARED_BASELINE"
    [] p \in CandidateDelta /\ p \notin LiveDelta ->
         IF Category[p] # "NONE" THEN OneSidedProtected(p, clash, proven)
         ELSE "CANDIDATE_ONLY"
    [] OTHER -> BothChanged(p, clash, superset)

(* Mutant: a merge that keeps whatever either side has. *)
FaultyReconciledContent(p, resolution) ==
  CASE resolution \in {"CANDIDATE_ONLY", "BOUNDARY_FORWARD"} -> Tree(plan.candidate)[p]
    [] resolution = "CLEAN_THREE_WAY" -> Tree(plan.candidate)[p] \cup Tree(plan.main)[p]
    [] OTHER -> Tree(plan.main)[p]

(* git merge-file: what the Candidate added and removed, applied to main.  *)
MergedContent(p) ==
  (Tree(plan.main)[p] \ (Tree(plan.base)[p] \ Tree(plan.candidate)[p]))
    \cup (Tree(plan.candidate)[p] \ Tree(plan.base)[p])

(* The content the reconciled tree gives a path under its resolution.      *)
ReconciledContent(p, resolution) ==
  CASE resolution \in {"CANDIDATE_ONLY", "BOUNDARY_FORWARD"} -> Tree(plan.candidate)[p]
    [] resolution = "CLEAN_THREE_WAY" -> MergedContent(p)
    [] OTHER -> Tree(plan.main)[p]

(* plan_reconciliation and the integration commit built from it.  clash:   *)
(* paths on which git merge-file reports a conflict; proven, superset: the *)
(* outcome of the source and documentation proofs.                         *)
PlanReconciliation(clash, proven, superset) ==
  LET paths == ChangedPaths(plan.boot, plan.candidate)
      verdict == [p \in paths |-> Resolution(p, clash, proven, superset)]
      tree == [p \in Paths |-> IF p \in paths THEN ReconciledContent(p, verdict[p])
                               ELSE Tree(plan.main)[p]]
  IN
  /\ plan.stage = "revalidated"
  /\ remote = plan.main                                \* else MainHeadStaleError
  /\ IF \E p \in paths : verdict[p] = "conflict"
     THEN /\ plan' = [NoPlan EXCEPT !.attempt = plan.attempt]
          /\ UNCHANGED commits
     ELSE /\ commits' = Append(commits, Commit({plan.main, plan.candidate}, tree,
                          {p \in Paths : tree[p] # Tree(plan.main)[p]}, "adopt", plan.attempt))
          /\ plan' = [plan EXCEPT !.stage = "planned", !.target = Len(commits')]
  /\ UNCHANGED <<local, remote>>

(* main moved since it was revalidated: MainHeadStaleError at planning,    *)
(* integration_head_stale at the promotion guard.  Revalidate again.       *)
MainHeadStale ==
  /\ plan.stage \in {"revalidated", "planned"}
  /\ remote # plan.main
  /\ plan' = [plan EXCEPT !.stage = "frozen", !.main = 0, !.target = 0]
  /\ UNCHANGED <<commits, local, remote>>

(* PromotionGuard.validate: the exact integration head, forward only.      *)
PromotionAllowed ==
  /\ plan.stage = "planned"
  /\ remote = plan.main
  /\ Ancestor(remote, plan.target)

-----------------------------------------------------------------------------
(* HealthGateContract.evaluate.  A Worker's start always follows the       *)
(* restart request it answers, since the request is recorded first.        *)
HealthGate(expired, o) ==
  CASE expired -> "EXPIRED"
    [] ~expired /\ ~o.started -> "WAITING_FOR_RESTART"
    [] ~expired /\ o.started /\ o.heartbeat = "none" -> "PROBATION"
    [] ~expired /\ o.started /\ o.heartbeat = "before_start" -> "FAILED"
    [] ~expired /\ o.started /\ o.heartbeat = "after_start" /\ ~o.healthy -> "FAILED"
    [] OTHER -> IF o.probationOver THEN "READY" ELSE "PROBATION"

CommitType == [anc : SUBSET Nat, tree : [Paths -> SUBSET Edits], touched : SUBSET Paths,
               kind : {"base", "foreign", "candidate", "adopt", "revert"}, of : Nat]
AdoptionTypeOK ==
  /\ commits \in Seq(CommitType)
  /\ local \in Shas /\ remote \in Shas
  /\ plan \in [stage : {"none", "frozen", "revalidated", "planned"},
               attempt : 0..MaxAttempts, boot : Nat, base : Nat,
               candidate : Nat, main : Nat, target : Nat]
=============================================================================
