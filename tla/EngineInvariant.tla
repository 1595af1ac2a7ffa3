---------------------------- MODULE EngineInvariant ----------------------------
(***************************************************************************)
(* The inductive invariant behind the safety properties of EngineHandoff,  *)
(* in named parts: the commit graph, the outer authority's plan, the       *)
(* identity of the evidence, the reverts, where the Launcher is, and which *)
(* Worker may be alive then.                                               *)
(***************************************************************************)
EXTENDS EngineHandoff

Kind(c) == commits[c].kind
Of(c) == commits[c].of
Anc(c) == commits[c].anc
Reverts == {c \in Shas : Kind(c) = "revert"}

(***************************************************************************)
(* The commit graph: ancestry is a preorder that points backwards; an edit *)
(* of others is never lost along it, and a reverted edit never comes back  *)
(* to a source path.                                                       *)
(***************************************************************************)
AncestryInv ==
  \A c \in Shas :
    /\ c \in Anc(c)
    /\ Anc(c) \subseteq 1..c
    /\ \A d \in Anc(c) : Anc(d) \subseteq Anc(c)

ForeignKept ==
  \A c \in Shas : \A d \in Anc(c) : \A p \in Paths :
    Foreign \in Tree(d)[p] => Foreign \in Tree(c)[p]

RevertedGone ==
  \A c \in Shas : \A d \in Anc(c) :
    Kind(d) = "revert" => \A p \in SourcePaths : Of(d) \notin Tree(c)[p]

GraphInv == AncestryInv /\ ForeignKept /\ RevertedGone

(***************************************************************************)
(* What an adoption adds to the main it starts from: at most its own edit. *)
(***************************************************************************)
AddsOnly(base, head, attempt) ==
  \A p \in Paths :
    /\ Tree(base)[p] \subseteq Tree(head)[p]
    /\ Tree(head)[p] \subseteq Tree(base)[p] \cup {attempt}

Clean(c) == \A p \in Paths : Category[p] \in Blocking => Tree(c)[p] \cap Attempts = {}

(* No edit of a later attempt.                                             *)
Known(c) == \A p \in Paths : Tree(c)[p] \cap Attempts \subseteq 1..id.attempt

HeadsInv == Clean(local) /\ Clean(remote) /\ Known(local) /\ Known(remote)

PlanInv ==
  /\ id.attempt <= plan.attempt
  /\ plan.stage # "none" =>
       /\ id.attempt < plan.attempt
       /\ plan.boot \in Shas /\ plan.base \in Shas /\ plan.candidate \in Shas
       /\ plan.base \in Anc(remote)
       /\ Anc(plan.candidate) = Anc(plan.base) \cup {plan.candidate}
       /\ Kind(plan.candidate) = "candidate"
       /\ AddsOnly(plan.base, plan.candidate, plan.attempt)
  /\ plan.stage \in {"revalidated", "planned"} =>
       plan.main \in Shas /\ plan.base \in Anc(plan.main)
  /\ plan.stage = "planned" =>
       /\ plan.target \in Shas /\ plan.main \in Anc(plan.target)
       /\ AddsOnly(plan.main, plan.target, plan.attempt)

IdentityInv ==
  /\ evidence.phase = "NONE" => id.attempt = 0
  /\ evidence.phase # "NONE" =>
       /\ id.attempt \in Attempts
       /\ id.stable = id.main
       /\ id.main \in Shas /\ id.target \in Shas
       /\ id.main \in Anc(id.target)
       /\ AddsOnly(id.main, id.target, id.attempt)
       /\ Clean(id.main)
       /\ \A p \in Paths : id.attempt \notin Tree(id.main)[p]

(***************************************************************************)
(* The reverts: one for an attempt that is being or was rolled back, all   *)
(* others lie below the main that the current attempt started from.        *)
(***************************************************************************)
CurrentRevert(c) ==
  /\ evidence.phase \in {"ROLLBACK_REQUIRED", "ROLLED_BACK", "SUPERSEDED"}
  /\ Of(c) = id.attempt
  /\ id.target \in Anc(c)
  /\ c \notin Anc(id.target)
  /\ OnlyProjects(id.main, c)

RevertsInv ==
  \A c \in Reverts :
    /\ evidence.phase # "NONE"
    /\ Of(c) \in 1..id.attempt
    /\ c \in Anc(local)
    /\ \E d \in Anc(c) \ {c} : Anc(c) = Anc(d) \cup {c}
    /\ c \in Anc(id.main) \/ CurrentRevert(c)

OneRevert ==
  \A c, d \in Reverts : c \notin Anc(id.main) /\ d \notin Anc(id.main) => c = d

(* The revert of the current attempt, as the receipt records it.           *)
ReceiptsInv ==
  /\ \A a \in Attempts : a > id.attempt => receipts[a].op = "none"
  /\ evidence.phase # "NONE" /\ Receipt.op = "rollback" =>
       Receipt.sha \in Reverts /\ Receipt.sha \notin Anc(id.main)

(***************************************************************************)
(* The Launcher between two durable effects.                               *)
(***************************************************************************)
Adopting == {"receipt", "push", "mark"}
RollingBack == {"rreceipt", "rpush", "rstart", "ready"}

EffectsInv ==
  /\ launcher.pc \in Adopting =>
       evidence.phase \in {"QUIESCED", "SUPERSEDED"} /\ id.target \in Anc(local)
  /\ launcher.pc \in RollingBack => evidence.phase \in {"ROLLBACK_REQUIRED", "SUPERSEDED"}
  /\ launcher.pc = "rreceipt" => \E c \in Reverts : c \notin Anc(id.main)
  /\ launcher.pc \in {"rpush", "rstart", "ready"} => Receipt.op = "rollback"
  /\ launcher.pc \in {"rstart", "ready"} => Receipt.sha \in Anc(remote)
  /\ evidence.phase = "ROLLED_BACK" =>
       /\ evidence.rollback \in Reverts
       /\ evidence.rollback \notin Anc(id.main)
       /\ evidence.rollback \in Anc(remote)

(***************************************************************************)
(* The Workers.  Where the Launcher is decides which one may be alive.     *)
(***************************************************************************)
AliveAt(w) ==
  \/ launcher.pc = "watch" /\ w.pid = launcher.proc
  \/ /\ launcher.pc \in {"consume", "ready", "terminal"}
     /\ w.pid = launcher.repl /\ ~launcher.handed
     /\ w.kind \in {"adopt", "rollback"}

Closed == NonTerminal \ {"PREPARED"}

WorkersInv ==
  /\ \A w \in workers : AliveAt(w) /\ w.sha \in Shas
  /\ \A w, v \in workers : w = v
  /\ launcher.repl = 0 => \A w \in workers : launcher.pc = "watch"
  /\ launcher.pc = "consume" /\ workers # {} =>
       evidence.phase \in {"PROBATION", "ROLLBACK_REQUIRED", "SUPERSEDED"}
  /\ launcher.armed /\ launcher.pc \in {"spawn", "watch", "terminal"} =>
       evidence.phase \notin Closed
  /\ launcher.pc = "watch" /\ ~launcher.armed => \A w \in workers : w.kind = "unarmed"
  /\ launcher.pc \in {"terminal"} \cup Adopting \cup RollingBack => launcher.armed
  /\ launcher.pc = "consume" /\ workers # {} => launcher.armed

RunsInv ==
  \A w \in workers : w.kind # "unarmed" /\ w.run =>
    /\ evidence.phase \notin Closed
    /\ \A c \in Reverts : \A p \in SourcePaths : Of(c) \notin Tree(w.sha)[p]

\* The inductive invariant: wherever Launcher and Worker are, main, plan,
\* handoff evidence, receipts and the live Worker agree with it.
EngineInv ==
  /\ EngineTypeOK
  /\ GraphInv
  /\ HeadsInv
  /\ PlanInv
  /\ IdentityInv
  /\ RevertsInv
  /\ OneRevert
  /\ ReceiptsInv
  /\ EffectsInv
  /\ WorkersInv
  /\ RunsInv
=============================================================================
