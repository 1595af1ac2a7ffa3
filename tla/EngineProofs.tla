------------------------------ MODULE EngineProofs ------------------------------
(***************************************************************************)
(* The safety properties of EngineHandoff, for every set of paths, every   *)
(* reconciliation policy and every bound.  EngineInv (EngineInvariant) is  *)
(* inductive; its parts fall in two groups.  Core speaks of the commit     *)
(* graph, the plan, the identity, the reverts and the receipts, and has    *)
(* one lemma per way in which a step touches them (CoreFrame, Transition,  *)
(* Forward, Receipts, Grows).  The other parts speak of the Launcher and   *)
(* its Worker.  The lemma XInv says that action X keeps the invariant.     *)
(***************************************************************************)
EXTENDS EngineInvariant, SequenceTheorems, FiniteSetTheorems, TLAPS

(***************************************************************************)
(* The commit graph only grows.                                            *)
(***************************************************************************)
Extends ==
  /\ Shas \subseteq Shas'
  /\ \A c \in Shas : commits'[c] = commits[c]

\* A new commit leaves every earlier one as it was.
LEMMA Grown ==
  ASSUME AdoptionTypeOK, NEW m \in CommitType, commits' = Append(commits, m)
  PROVE  /\ commits' \in Seq(CommitType)
         /\ Len(commits) \in Nat
         /\ Len(commits') = Len(commits) + 1
         /\ Shas' = Shas \cup {Len(commits')}
         /\ Len(commits') \notin Shas
         /\ commits'[Len(commits')] = m
         /\ Extends
BY DEF AdoptionTypeOK, Shas, Extends

\* What the parts of a commit are.
LEMMA CommitTyped ==
  ASSUME AdoptionTypeOK, NEW c \in Shas
  PROVE  /\ commits[c] \in CommitType
         /\ commits[c].anc \subseteq Nat
         /\ commits[c].tree \in [Paths -> SUBSET Edits]
         /\ commits[c].of \in Nat
         /\ c \in Nat
<1>1. commits[c] \in CommitType /\ c \in Nat
  <2>1. commits \in Seq(CommitType) /\ c \in 1..Len(commits)
    BY DEF AdoptionTypeOK, Shas
  <2>. QED
    BY <2>1
<1>. QED
  BY <1>1 DEF CommitType

\* The ancestors of a known commit are known.
LEMMA AncKnown ==
  ASSUME AncestryInv, AdoptionTypeOK, NEW c \in Shas
  PROVE  Anc(c) \subseteq Shas /\ \A d \in Anc(c) : d =< c
BY DEF AncestryInv, Shas, AdoptionTypeOK

\* Ancestry is transitive.
LEMMA AncTrans ==
  ASSUME AncestryInv, NEW c \in Shas, NEW b \in Anc(c), NEW a \in Anc(b)
  PROVE a \in Anc(c)
BY DEF AncestryInv

\* Membership in the ancestry of a new commit.
AncOf(S, parents, n) ==
  /\ n \in S
  /\ \A q \in parents : commits[q].anc \subseteq S
  /\ \A d \in S : d = n \/ \E q \in parents : d \in commits[q].anc

\* A new commit keeps the graph when it loses no edit of others and brings none back
\* that one of its ancestors reverted.
LEMMA GraphGrows ==
  ASSUME AdoptionTypeOK, GraphInv, NEW m \in CommitType, commits' = Append(commits, m),
         NEW parents \in SUBSET Shas,
         AncOf(m.anc, parents, Len(commits) + 1),
         \A q \in parents, p \in Paths : Foreign \in Tree(q)[p] => Foreign \in m.tree[p],
         \A q \in parents : \A d \in Anc(q) : Kind(d) = "revert" =>
            \A p \in SourcePaths : Of(d) \notin m.tree[p],
         m.kind = "revert" => \A p \in SourcePaths : m.of \notin m.tree[p]
  PROVE  GraphInv'
<1>. DEFINE n == Len(commits')
<1>1. /\ n = Len(commits) + 1 /\ Len(commits) \in Nat /\ Shas' = Shas \cup {n} /\ n \notin Shas
      /\ commits'[n] = m
      /\ \A c \in Shas : commits'[c] = commits[c]
  BY Grown DEF Extends
<1>. HIDE DEF n
<1>2. \A c \in Shas : commits[c].anc \subseteq Shas
  BY AncKnown DEF GraphInv, Anc
<1>3. n \in m.anc /\ \A q \in parents : commits[q].anc \subseteq m.anc
  BY <1>1 DEF AncOf
<1>4. \A d \in m.anc : d = n \/ \E q \in parents : d \in commits[q].anc
  BY <1>1 DEF AncOf
<1>5. \A d \in m.anc \ {n} : d \in Shas /\ \E q \in parents : d \in commits[q].anc
  BY <1>2, <1>4
<1>7. AncestryInv'
  <2>. SUFFICES ASSUME NEW c \in Shas'
                PROVE  /\ c \in commits'[c].anc
                       /\ commits'[c].anc \subseteq 1..c
                       /\ \A d \in commits'[c].anc : commits'[d].anc \subseteq commits'[c].anc
    BY DEF AncestryInv, Anc
  <2>1. CASE c \in Shas
    <3>1. /\ c \in commits[c].anc
          /\ commits[c].anc \subseteq 1..c
          /\ \A d \in commits[c].anc : commits[d].anc \subseteq commits[c].anc
      BY <2>1 DEF GraphInv, AncestryInv, Anc
    <3>. QED
      BY <2>1, <3>1, <1>1, <1>2
  <2>2. CASE c = n
    <3>1. ASSUME NEW d \in m.anc, d # n PROVE commits'[d].anc \subseteq m.anc
      <4>1. PICK q \in parents : d \in commits[q].anc
        BY <3>1, <1>5
      <4>2. commits[d].anc \subseteq commits[q].anc
        BY <4>1 DEF GraphInv, AncestryInv, Anc
      <4>. QED
        BY <4>1, <4>2, <3>1, <1>1, <1>3, <1>5
    <3>2. m.anc \subseteq 1..n
      BY <1>5, <1>1 DEF Shas
    <3>. QED
      BY <2>2, <3>1, <3>2, <1>1, <1>3
  <2>. QED
    BY <2>1, <2>2, <1>1
<1>8. ForeignKept'
  <2>. SUFFICES ASSUME NEW c \in Shas', NEW d \in commits'[c].anc, NEW p \in Paths,
                       Foreign \in commits'[d].tree[p]
                PROVE  Foreign \in commits'[c].tree[p]
    BY DEF ForeignKept, Foreign, Anc, Tree
  <2>1. CASE c \in Shas
    BY <2>1, <1>1, <1>2 DEF GraphInv, ForeignKept, Anc, Tree
  <2>2. CASE c = n /\ d # n
    <3>1. PICK q \in parents : d \in commits[q].anc
      BY <2>2, <1>1, <1>5
    <3>2. q \in Shas /\ d \in Shas
      BY <3>1, <1>2
    <3>3. Foreign \in commits[q].tree[p]
      BY <3>1, <3>2, <1>1 DEF GraphInv, ForeignKept, Anc, Tree
    <3>. QED
      BY <3>3, <2>2, <1>1 DEF Tree
  <2>3. CASE c = n /\ d = n
    BY <2>3
  <2>. QED
    BY <2>1, <2>2, <2>3, <1>1
<1>9. RevertedGone'
  <2>. SUFFICES ASSUME NEW c \in Shas', NEW d \in commits'[c].anc, commits'[d].kind = "revert",
                       NEW p \in SourcePaths
                PROVE  commits'[d].of \notin commits'[c].tree[p]
    BY DEF RevertedGone, SourcePaths, Anc, Kind, Of, Tree
  <2>1. CASE c \in Shas
    BY <2>1, <1>1, <1>2 DEF GraphInv, RevertedGone, Anc, Kind, Of, Tree
  <2>2. CASE c = n /\ d # n
    <3>1. PICK q \in parents : d \in commits[q].anc
      BY <2>2, <1>1, <1>5
    <3>2. q \in Shas /\ d \in Shas
      BY <3>1, <1>2
    <3>. QED
      BY <3>1, <3>2, <2>2, <1>1 DEF Anc, Kind, Of
  <2>3. CASE c = n /\ d = n
    BY <2>3, <1>1
  <2>. QED
    BY <2>1, <2>2, <2>3, <1>1
<1>. QED
  BY <1>7, <1>8, <1>9 DEF GraphInv

-----------------------------------------------------------------------------
(***************************************************************************)
(* The part of the invariant that no process appears in.                   *)
(***************************************************************************)
Core == /\ AdoptionTypeOK /\ HandoffTypeOK
        /\ GraphInv /\ HeadsInv /\ PlanInv /\ IdentityInv
        /\ RevertsInv /\ OneRevert /\ ReceiptsInv

\* Nothing the graph, the plan, the identity and the receipts depend on moves.
LEMMA CoreFrame ==
  ASSUME Core, AdoptionTypeOK', HandoffTypeOK', UNCHANGED <<gitVars, evidence, receipts>>
  PROVE  Core'
<1>. USE DEF gitVars
<1>1. Shas' = Shas /\ Reverts' = Reverts /\ id' = id /\ Receipt' = Receipt
  BY DEF Shas, Reverts, Kind, id, Receipt
<1>2. GraphInv'
  BY <1>1 DEF Core, GraphInv, AncestryInv, ForeignKept, RevertedGone, Anc, Tree, Kind, Of
<1>3. HeadsInv'
  BY <1>1 DEF Core, HeadsInv, Clean, Known, Tree
<1>4. PlanInv'
  BY <1>1 DEF Core, PlanInv, Anc, Kind, AddsOnly, Tree
<1>5. IdentityInv'
  BY <1>1 DEF Core, IdentityInv, Anc, AddsOnly, Clean, Tree
<1>6. RevertsInv'
  BY <1>1 DEF Core, RevertsInv, CurrentRevert, OnlyProjects, ChangedPaths, Anc, Of, Tree
<1>7. OneRevert'
  BY <1>1 DEF Core, OneRevert, Anc
<1>8. ReceiptsInv'
  BY <1>1 DEF Core, ReceiptsInv, Anc
<1>. QED
  BY <1>2, <1>3, <1>4, <1>5, <1>6, <1>7, <1>8 DEF Core

\* The phases in which a revert of the current attempt may exist.
MayHaveRevert == {"ROLLBACK_REQUIRED", "ROLLED_BACK", "SUPERSEDED"}

\* Only the phase of the evidence moves.
LEMMA CoreTransition ==
  ASSUME Core, AdoptionTypeOK', HandoffTypeOK', UNCHANGED <<gitVars, receipts>>,
         id' = id, evidence.phase # "NONE", evidence'.phase # "NONE",
         evidence.phase \in MayHaveRevert => evidence'.phase \in MayHaveRevert
  PROVE  Core'
<1>. USE DEF gitVars
<1>1. Shas' = Shas /\ Reverts' = Reverts /\ Receipt' = Receipt
  BY DEF Shas, Reverts, Kind, Receipt
<1>2. GraphInv'
  BY <1>1 DEF Core, GraphInv, AncestryInv, ForeignKept, RevertedGone, Anc, Tree, Kind, Of
<1>3. HeadsInv'
  BY <1>1 DEF Core, HeadsInv, Clean, Known, Tree
<1>4. PlanInv'
  BY <1>1 DEF Core, PlanInv, Anc, Kind, AddsOnly, Tree
<1>5. IdentityInv'
  BY <1>1 DEF Core, IdentityInv, Anc, AddsOnly, Clean, Tree
<1>6. RevertsInv'
  BY <1>1
       DEF Core, RevertsInv, CurrentRevert, MayHaveRevert, OnlyProjects, ChangedPaths, Anc, Of, Tree
<1>7. OneRevert'
  BY <1>1 DEF Core, OneRevert, Anc
<1>8. ReceiptsInv'
  BY <1>1 DEF Core, ReceiptsInv, Anc
<1>. QED
  BY <1>2, <1>3, <1>4, <1>5, <1>6, <1>7, <1>8 DEF Core

\* The two heads move forward over existing commits.
LEMMA CoreForward ==
  ASSUME Core, AdoptionTypeOK', HandoffTypeOK',
         UNCHANGED <<commits, plan, evidence, receipts>>,
         local \in Anc(local'), remote \in Anc(remote'),
         Clean(local'), Clean(remote'), Known(local'), Known(remote')
  PROVE  Core'
<1>1. Shas' = Shas /\ Reverts' = Reverts /\ id' = id /\ Receipt' = Receipt
  BY DEF Shas, Reverts, Kind, id, Receipt
<1>2. GraphInv'
  BY <1>1 DEF Core, GraphInv, AncestryInv, ForeignKept, RevertedGone, Anc, Tree, Kind, Of
<1>3. HeadsInv'
  BY <1>1 DEF Core, HeadsInv, Clean, Known, Tree
<1>0. local' \in Shas /\ remote' \in Shas
  BY <1>1 DEF AdoptionTypeOK
<1>4. PlanInv'
  <2>1. Anc(remote) \subseteq Anc(remote')
    BY <1>0 DEF Core, GraphInv, AncestryInv
  <2>. QED
    BY <1>1, <2>1 DEF Core, PlanInv, Anc, Kind, AddsOnly, Tree
<1>5. IdentityInv'
  BY <1>1 DEF Core, IdentityInv, Anc, AddsOnly, Clean, Tree
<1>6. RevertsInv'
  <2>1. Anc(local) \subseteq Anc(local')
    BY <1>0 DEF Core, GraphInv, AncestryInv
  <2>. QED
    BY <1>1, <2>1 DEF Core, RevertsInv, CurrentRevert, OnlyProjects, ChangedPaths, Anc, Of, Tree
<1>7. OneRevert'
  BY <1>1 DEF Core, OneRevert, Anc
<1>8. ReceiptsInv'
  BY <1>1 DEF Core, ReceiptsInv, Anc
<1>. QED
  BY <1>2, <1>3, <1>4, <1>5, <1>6, <1>7, <1>8 DEF Core

\* Only the receipt of the current attempt is written.
LEMMA CoreReceipts ==
  ASSUME Core, AdoptionTypeOK', HandoffTypeOK', UNCHANGED gitVars, id' = id,
         evidence.phase # "NONE", evidence'.phase # "NONE",
         evidence.phase \in MayHaveRevert => evidence'.phase \in MayHaveRevert,
         receipts \in [Attempts -> ReceiptType],
         NEW r, receipts' = [receipts EXCEPT ![id.attempt] = r],
         r.op = "rollback" => r.sha \in Reverts /\ r.sha \notin Anc(id.main)
  PROVE  Core'
<1>. USE DEF gitVars
<1>1. Shas' = Shas /\ Reverts' = Reverts
  BY DEF Shas, Reverts, Kind
<1>2. GraphInv'
  BY <1>1 DEF Core, GraphInv, AncestryInv, ForeignKept, RevertedGone, Anc, Tree, Kind, Of
<1>3. HeadsInv'
  BY <1>1 DEF Core, HeadsInv, Clean, Known, Tree
<1>4. PlanInv'
  BY <1>1 DEF Core, PlanInv, Anc, Kind, AddsOnly, Tree
<1>5. IdentityInv'
  BY <1>1 DEF Core, IdentityInv, Anc, AddsOnly, Clean, Tree
<1>6. RevertsInv'
  BY <1>1
       DEF Core, RevertsInv, CurrentRevert, MayHaveRevert, OnlyProjects, ChangedPaths, Anc, Of, Tree
<1>7. OneRevert'
  BY <1>1 DEF Core, OneRevert, Anc
<1>8. ReceiptsInv'
  <2>1. id.attempt \in Attempts
    BY DEF Core, IdentityInv
  <2>2. Receipt' = r /\ \A a \in Attempts : a # id.attempt => receipts'[a] = receipts[a]
    BY <2>1 DEF Receipt
  <2>3. \A a \in Attempts : a > id.attempt => a # id.attempt
    BY <2>1, AdoptionAssumption DEF Attempts
  <2>. QED
    BY <1>1, <2>2, <2>3 DEF Core, ReceiptsInv, Anc
<1>. QED
  BY <1>2, <1>3, <1>4, <1>5, <1>6, <1>7, <1>8 DEF Core

\* The identity of the evidence speaks of existing commits.
LEMMA IdentityExtends ==
  ASSUME IdentityInv, AdoptionTypeOK, AncestryInv, Extends, UNCHANGED evidence
  PROVE  IdentityInv'
<1>1. id' = id
  BY DEF id
<1>. QED
  BY <1>1 DEF IdentityInv, Extends, Anc, AddsOnly, Clean, Tree

\* The plan speaks of existing commits below a main that only moves forward.
LEMMA PlanExtends ==
  ASSUME PlanInv, AdoptionTypeOK, AdoptionTypeOK', GraphInv, GraphInv', Extends,
         UNCHANGED <<plan, evidence>>, remote \in commits'[remote'].anc
  PROVE  PlanInv'
<1>1. id' = id
  BY DEF id
<1>2. commits'[remote].anc = Anc(remote) /\ remote' \in Shas'
  BY DEF AdoptionTypeOK, Extends, Anc
<1>3. Anc(remote) \subseteq commits'[remote'].anc
  BY <1>2 DEF GraphInv, AncestryInv, Anc
<1>. QED
  BY <1>1, <1>3 DEF PlanInv, Extends, Anc, AddsOnly, Kind, Tree

\* What is known of the reverts so far stays true in a larger graph.
LEMMA RevertsExtend ==
  ASSUME Core, AdoptionTypeOK', GraphInv', Extends, UNCHANGED <<evidence, receipts>>,
         Reverts \subseteq Reverts', local \in commits'[local'].anc
  PROVE  /\ \A c \in Reverts :
              /\ evidence'.phase # "NONE"
              /\ Of(c)' \in 1..id'.attempt
              /\ c \in Anc(local)'
              /\ \E d \in Anc(c)' \ {c} : Anc(c)' = Anc(d)' \cup {c}
              /\ c \in Anc(id.main)' \/ CurrentRevert(c)'
         /\ \A c \in Reverts : c \notin Anc(id.main)' => c \notin Anc(id.main)
         /\ ReceiptsInv'
<1>0. id' = id /\ Receipt' = Receipt
  BY DEF id, Receipt
<1>1. commits'[local].anc = Anc(local) /\ local' \in Shas' /\ local \in Shas
  BY DEF Core, AdoptionTypeOK, Extends, Anc
<1>2. Anc(local) \subseteq commits'[local'].anc
  BY <1>1 DEF GraphInv, AncestryInv, Anc
<1>3. \A c \in Shas : Anc(c) \subseteq Shas
  BY AncKnown DEF Core, GraphInv
<1>4. evidence.phase # "NONE" =>
        /\ id.main \in Shas /\ id.target \in Shas
        /\ commits'[id.main] = commits[id.main] /\ commits'[id.target] = commits[id.target]
  BY DEF Core, IdentityInv, Extends
<1>5. ASSUME NEW c \in Reverts
      PROVE /\ evidence'.phase # "NONE"
            /\ Of(c)' \in 1..id'.attempt
            /\ c \in Anc(local)'
            /\ \E d \in Anc(c)' \ {c} : Anc(c)' = Anc(d)' \cup {c}
            /\ c \in Anc(id.main)' \/ CurrentRevert(c)'
  <2>1. c \in Shas /\ commits'[c] = commits[c] /\ evidence.phase # "NONE"
    BY DEF Reverts, Extends, Core, RevertsInv
  <2>2. PICK d \in Anc(c) \ {c} : Anc(c) = Anc(d) \cup {c}
    BY DEF Core, RevertsInv
  <2>3. commits'[d] = commits[d]
    BY <2>1, <2>2, <1>3 DEF Extends
  <2>4. c \in Anc(id.main) \/ CurrentRevert(c)
    BY DEF Core, RevertsInv
  <2>5. c \in Anc(id.main)' \/ CurrentRevert(c)'
    BY <2>1, <2>4, <1>0, <1>4 DEF Anc, CurrentRevert, OnlyProjects, ChangedPaths, Tree, Of
  <2>6. Of(c) \in 1..id.attempt /\ c \in Anc(local)
    BY DEF Core, RevertsInv
  <2>. QED
    BY <2>1, <2>2, <2>3, <2>5, <2>6, <1>0, <1>2 DEF Anc, Of
<1>6. \A c \in Reverts : c \notin Anc(id.main)' => c \notin Anc(id.main)
  BY <1>0, <1>4 DEF Core, RevertsInv, Anc
<1>7. ReceiptsInv'
  BY <1>0, <1>4 DEF Core, ReceiptsInv, Anc
<1>. QED
  BY <1>5, <1>6, <1>7

\* A new commit that is no revert.
LEMMA CoreGrows ==
  ASSUME Core, AdoptionTypeOK', HandoffTypeOK', GraphInv', HeadsInv', PlanInv',
         NEW m \in CommitType, commits' = Append(commits, m), m.kind # "revert",
         UNCHANGED <<local, evidence, receipts>>
  PROVE  Core'
<1>1. /\ Shas' = Shas \cup {Len(commits')} /\ commits'[Len(commits')] = m
      /\ Extends
  BY Grown DEF Core
<1>2. Reverts' = Reverts
  BY <1>1 DEF Extends, Reverts, Kind
<1>3. local \in commits'[local'].anc
  BY DEF GraphInv, AncestryInv, AdoptionTypeOK, Anc
<1>4. IdentityInv'
  BY <1>1, IdentityExtends DEF Core, GraphInv
<1>5. RevertsInv'
  BY <1>1, <1>2, <1>3, RevertsExtend DEF RevertsInv
<1>6. ReceiptsInv'
  BY <1>1, <1>2, <1>3, RevertsExtend
<1>7. OneRevert'
  <2>1. \A c \in Reverts : c \notin Anc(id.main)' => c \notin Anc(id.main)
    BY <1>1, <1>2, <1>3, RevertsExtend
  <2>. QED
    BY <2>1, <1>2 DEF Core, OneRevert
<1>. QED
  BY <1>4, <1>5, <1>6, <1>7 DEF Core

\* The ancestry of a new commit on top of a known one.
LEMMA NewAnc ==
  ASSUME AdoptionTypeOK, NEW q \in Shas
  PROVE  /\ Anc(q) \cup {Len(commits) + 1} \in SUBSET Nat
         /\ AncOf(Anc(q) \cup {Len(commits) + 1}, {q}, Len(commits) + 1)
<1>1. Len(commits) \in Nat /\ Anc(q) \subseteq Nat
  BY CommitTyped DEF AdoptionTypeOK, Anc
<1>. QED
  BY <1>1 DEF Anc, AncOf

\* Someone else's push keeps the graph.
LEMMA ForeignPushCore ==
  ASSUME Core, HandoffTypeOK', NEW p \in ForeignPaths, ForeignPush(p),
         UNCHANGED <<evidence, receipts>>
  PROVE  Core' /\ Extends /\ Reverts' = Reverts /\ remote \in commits'[remote'].anc
<1>. DEFINE t == [Tree(remote) EXCEPT ![p] = @ \cup {Foreign}]
            m == Commit({remote}, t, {p}, "foreign", Foreign)
<1>0. /\ MaxAttempts \in Nat \ {0} /\ p \in Paths /\ Foreign \in Edits /\ Foreign \in Nat
      /\ Foreign \notin Attempts /\ \A i \in 0..MaxAttempts : i # Foreign
  BY AdoptionAssumption DEF Foreign, Edits, Attempts
<1>1. /\ remote \in Shas /\ {remote} \in SUBSET Shas /\ {p} \in SUBSET Paths
      /\ Tree(remote) \in [Paths -> SUBSET Edits]
  <2>1. remote \in Shas /\ AdoptionTypeOK
    BY DEF Core, AdoptionTypeOK
  <2>. QED
    BY <1>0, <2>1, CommitTyped DEF Tree
<1>2. t \in [Paths -> SUBSET Edits] /\ \A q \in Paths :
         t[q] = IF q = p THEN Tree(remote)[q] \cup {Foreign} ELSE Tree(remote)[q]
  BY <1>0, <1>1
<1>. HIDE DEF t
<1>3. /\ m \in CommitType /\ m.tree = t /\ m.kind = "foreign" /\ m.of = Foreign
      /\ AncOf(m.anc, {remote}, Len(commits) + 1)
      /\ m.anc = Anc(remote) \cup {Len(commits) + 1}
  <2>. DEFINE anc == Anc(remote) \cup {Len(commits) + 1}
  <2>1. (UNION {commits[c].anc : c \in {remote}}) = Anc(remote)
    BY DEF Anc
  <2>2. m = [anc |-> anc, tree |-> t, touched |-> {p}, kind |-> "foreign", of |-> Foreign]
    BY <2>1 DEF Commit
  <2>3. anc \in SUBSET Nat /\ AncOf(anc, {remote}, Len(commits) + 1)
    BY <1>1, NewAnc DEF Core
  <2>. HIDE DEF anc, m
  <2>4. m \in CommitType /\ m.anc = anc /\ m.tree = t /\ m.kind = "foreign" /\ m.of = Foreign
    <3>1. anc \in SUBSET Nat /\ t \in [Paths -> SUBSET Edits] /\ {p} \in SUBSET Paths
      BY <2>3, <1>1, <1>2
    <3>2. Foreign \in Nat
      BY <1>0
    <3>. QED
      BY <2>2, <3>1, <3>2 DEF CommitType
  <2>. QED
    BY <2>3, <2>4 DEF anc
<1>4. commits' = Append(commits, m) /\ remote' = Len(commits') /\ local' = local /\ plan' = plan
  BY DEF ForeignPush, t
<1>. HIDE DEF m
<1>5. /\ Len(commits') = Len(commits) + 1 /\ Shas' = Shas \cup {Len(commits')}
      /\ commits'[Len(commits')] = m /\ Extends /\ commits' \in Seq(CommitType)
      /\ Len(commits) \in Nat
  BY <1>3, <1>4, Grown DEF Core
<1>51. AdoptionTypeOK'
  BY <1>4, <1>5 DEF Core, AdoptionTypeOK
<1>6. GraphInv'
  <2>1. \A q \in {remote}, pp \in Paths : Foreign \in Tree(q)[pp] => Foreign \in m.tree[pp]
    BY <1>2, <1>3
  <2>2. \A q \in {remote} : \A d \in Anc(q) : Kind(d) = "revert" =>
          \A pp \in SourcePaths : Of(d) \notin m.tree[pp]
    <3>. SUFFICES ASSUME NEW d \in Anc(remote), Kind(d) = "revert", NEW pp \in SourcePaths
                  PROVE  Of(d) \notin m.tree[pp]
      OBVIOUS
    <3>1. d \in Reverts /\ pp \in Paths
      BY <1>1, AncKnown DEF Core, GraphInv, Reverts, SourcePaths
    <3>2. Of(d) \in 1..id.attempt /\ id.attempt \in 0..MaxAttempts
      BY <3>1 DEF Core, RevertsInv, HandoffTypeOK, id
    <3>3. Of(d) # Foreign
      BY <3>2, <1>0
    <3>4. Of(d) \notin Tree(remote)[pp]
      BY <1>1 DEF Core, GraphInv, RevertedGone
    <3>. QED
      BY <3>1, <3>3, <3>4, <1>2, <1>3
  <2>. QED
    BY <2>1, <2>2, <1>1, <1>3, <1>4, GraphGrows DEF Core
<1>7. remote \in commits'[remote'].anc
  <2>1. remote \in commits[remote].anc
    BY <1>1 DEF Core, GraphInv, AncestryInv, Anc
  <2>. QED
    BY <2>1, <1>3, <1>4, <1>5 DEF AncOf
<1>8. HeadsInv'
  <2>1. commits'[local'].tree = Tree(local) /\ commits'[remote'].tree = t /\ id' = id
    BY <1>3, <1>4, <1>5 DEF Core, AdoptionTypeOK, Extends, Tree, id
  <2>2. \A q \in Paths : t[q] \cap Attempts = Tree(remote)[q] \cap Attempts
    BY <1>0, <1>2
  <2>. QED
    BY <2>1, <2>2 DEF Core, HeadsInv, Clean, Known, Tree
<1>9. PlanInv'
  BY <1>4, <1>5, <1>6, <1>7, <1>51, PlanExtends DEF Core
<1>10. Core'
  BY <1>3, <1>4, <1>6, <1>8, <1>9, <1>51, CoreGrows
<1>11. Reverts' = Reverts
  BY <1>3, <1>5 DEF Extends, Reverts, Kind
<1>. QED
  BY <1>5, <1>7, <1>10, <1>11

\* A frozen Candidate keeps the graph.
LEMMA FreezeCandidateCore ==
  ASSUME Core, HandoffTypeOK', NEW p \in CandidatePaths,
         NEW boot \in {1, remote}, FreezeCandidate(p, boot), UNCHANGED <<evidence, receipts>>
  PROVE  Core' /\ Extends /\ Reverts' = Reverts
<1>. DEFINE a == plan.attempt + 1
            t == [Tree(remote) EXCEPT ![p] = @ \cup {a}]
            m == Commit({remote}, t, {p}, "candidate", a)
<1>0. /\ MaxAttempts \in Nat \ {0} /\ p \in Paths /\ a \in Attempts /\ a \in Edits /\ a \in Nat
      /\ a # Foreign /\ plan.attempt \in 0..MaxAttempts /\ id.attempt \in 0..MaxAttempts
      /\ id.attempt <= plan.attempt /\ id.attempt < a
  <2>1. plan.attempt \in 0..MaxAttempts
    BY DEF Core, AdoptionTypeOK
  <2>2. id.attempt \in 0..MaxAttempts
    BY DEF Core, HandoffTypeOK, id
  <2>3. id.attempt <= plan.attempt
    BY DEF Core, PlanInv
  <2>4. a \in Attempts
    BY DEF FreezeCandidate
  <2>. QED
    BY <2>1, <2>2, <2>3, <2>4, AdoptionAssumption DEF Foreign, Edits, Attempts
<1>1. /\ remote \in Shas /\ {remote} \in SUBSET Shas /\ {p} \in SUBSET Paths
      /\ Tree(remote) \in [Paths -> SUBSET Edits]
  <2>1. remote \in Shas /\ AdoptionTypeOK
    BY DEF Core, AdoptionTypeOK
  <2>. QED
    BY <1>0, <2>1, CommitTyped DEF Tree
<1>2. t \in [Paths -> SUBSET Edits] /\ \A q \in Paths :
         t[q] = IF q = p THEN Tree(remote)[q] \cup {a} ELSE Tree(remote)[q]
  BY <1>0, <1>1
<1>4. /\ commits' = Append(commits, m) /\ UNCHANGED <<local, remote>>
      /\ plan' = [NoPlan EXCEPT !.stage = "frozen", !.attempt = a, !.boot = boot,
                            !.base = remote, !.candidate = Len(commits')]
      /\ boot \in commits[remote].anc
  BY DEF FreezeCandidate, Ancestor
<1>. HIDE DEF t, a
<1>3. /\ m \in CommitType /\ m.tree = t /\ m.kind = "candidate" /\ m.of = a
      /\ AncOf(m.anc, {remote}, Len(commits) + 1)
      /\ m.anc = Anc(remote) \cup {Len(commits) + 1}
  <2>. DEFINE anc == Anc(remote) \cup {Len(commits) + 1}
  <2>1. (UNION {commits[c].anc : c \in {remote}}) = Anc(remote)
    BY DEF Anc
  <2>2. m = [anc |-> anc, tree |-> t, touched |-> {p}, kind |-> "candidate", of |-> a]
    BY <2>1 DEF Commit
  <2>3. anc \in SUBSET Nat /\ AncOf(anc, {remote}, Len(commits) + 1)
    BY <1>1, NewAnc DEF Core
  <2>. HIDE DEF anc, m
  <2>4. m \in CommitType /\ m.anc = anc /\ m.tree = t /\ m.kind = "candidate" /\ m.of = a
    <3>1. anc \in SUBSET Nat /\ t \in [Paths -> SUBSET Edits] /\ {p} \in SUBSET Paths
      BY <2>3, <1>1, <1>2
    <3>2. a \in Nat
      BY <1>0
    <3>. QED
      BY <2>2, <3>1, <3>2 DEF CommitType
  <2>. QED
    BY <2>3, <2>4 DEF anc
<1>. HIDE DEF m
<1>5. /\ Len(commits') = Len(commits) + 1 /\ Shas' = Shas \cup {Len(commits')}
      /\ commits'[Len(commits')] = m /\ Extends /\ commits' \in Seq(CommitType)
      /\ Len(commits) \in Nat
  BY <1>3, <1>4, Grown DEF Core
<1>51. AdoptionTypeOK'
  <2>1. boot \in Nat /\ remote \in Nat /\ Len(commits') \in Nat /\ a \in 0..MaxAttempts
    BY <1>0, <1>1, <1>5 DEF Shas, Attempts
  <2>2. plan' = [stage |-> "frozen", attempt |-> a, boot |-> boot, base |-> remote,
                 candidate |-> Len(commits'), main |-> 0, target |-> 0]
    BY <1>4 DEF NoPlan
  <2>. QED
    BY <2>1, <2>2, <1>4, <1>5 DEF Core, AdoptionTypeOK
<1>6. GraphInv'
  <2>1. \A q \in {remote}, pp \in Paths : Foreign \in Tree(q)[pp] => Foreign \in m.tree[pp]
    BY <1>2, <1>3
  <2>2. \A q \in {remote} : \A d \in Anc(q) : Kind(d) = "revert" =>
          \A pp \in SourcePaths : Of(d) \notin m.tree[pp]
    <3>. SUFFICES ASSUME NEW d \in Anc(remote), Kind(d) = "revert", NEW pp \in SourcePaths
                  PROVE  Of(d) \notin m.tree[pp]
      OBVIOUS
    <3>1. d \in Reverts /\ pp \in Paths
      BY <1>1, AncKnown DEF Core, GraphInv, Reverts, SourcePaths
    <3>2. Of(d) \in 1..id.attempt
      BY <3>1 DEF Core, RevertsInv
    <3>3. Of(d) # a
      BY <3>2, <1>0
    <3>4. Of(d) \notin Tree(remote)[pp]
      BY <1>1 DEF Core, GraphInv, RevertedGone
    <3>. QED
      BY <3>1, <3>3, <3>4, <1>2, <1>3
  <2>. QED
    BY <2>1, <2>2, <1>1, <1>3, <1>4, GraphGrows DEF Core
<1>8. HeadsInv'
  <2>1. commits'[local'].tree = Tree(local) /\ commits'[remote'].tree = Tree(remote) /\ id' = id
    BY <1>4, <1>5 DEF Core, AdoptionTypeOK, Extends, Tree, id
  <2>. QED
    BY <2>1 DEF Core, HeadsInv, Clean, Known, Tree
<1>9. PlanInv'
  <2>1. /\ plan'.stage = "frozen" /\ plan'.attempt = a /\ plan'.boot = boot
        /\ plan'.base = remote /\ plan'.candidate = Len(commits') /\ id' = id
    BY <1>4 DEF NoPlan, id
  <2>2. commits'[remote] = commits[remote] /\ remote \in Shas' /\ boot \in Shas'
    BY <1>1, <1>4, <1>5, AncKnown DEF Extends, Core, GraphInv, Anc
  <2>3. m.anc = Anc(remote) \cup {Len(commits')}
    BY <1>3, <1>5 DEF Anc, AncOf
  <2>4. remote \in Anc(remote)
    BY <1>1 DEF Core, GraphInv, AncestryInv
  <2>5. \A q \in Paths : Tree(remote)[q] \subseteq t[q] /\ t[q] \subseteq Tree(remote)[q] \cup {a}
    BY <1>2
  <2>6. /\ id'.attempt <= plan'.attempt /\ id'.attempt < plan'.attempt
        /\ plan'.boot \in Shas' /\ plan'.base \in Shas' /\ plan'.candidate \in Shas'
    BY <2>1, <2>2, <1>0, <1>5
  <2>7. plan'.base \in commits'[remote'].anc
    BY <2>1, <2>2, <2>4, <1>4 DEF Anc
  <2>8. /\ commits'[plan'.candidate].anc = commits'[plan'.base].anc \cup {plan'.candidate}
        /\ commits'[plan'.candidate].kind = "candidate"
        /\ commits'[plan'.candidate].tree = t
        /\ commits'[plan'.base].tree = Tree(remote)
    BY <2>1, <2>2, <2>3, <1>3, <1>5 DEF Anc, Tree
  <2>9. AddsOnly(plan.base, plan.candidate, plan.attempt)'
    BY <2>1, <2>5, <2>8 DEF AddsOnly, Tree
  <2>. QED
    BY <2>1, <2>6, <2>7, <2>8, <2>9 DEF PlanInv, Anc, Kind
<1>10. Core'
  BY <1>3, <1>4, <1>6, <1>8, <1>9, <1>51, CoreGrows
<1>11. Reverts' = Reverts
  BY <1>3, <1>5 DEF Extends, Reverts, Kind
<1>. QED
  BY <1>5, <1>10, <1>11

\* Binding the plan to the observed main, and dropping that binding.
LEMMA RevalidateCore ==
  ASSUME Core, AdoptionTypeOK', HandoffTypeOK', RevalidateMain \/ MainHeadStale,
         UNCHANGED <<evidence, receipts>>
  PROVE  Core'
<1>0. UNCHANGED <<commits, local, remote>>
  BY DEF RevalidateMain, MainHeadStale
<1>1. Shas' = Shas /\ Reverts' = Reverts /\ id' = id /\ Receipt' = Receipt
  BY <1>0 DEF Shas, Reverts, Kind, id, Receipt
<1>2. GraphInv'
  BY <1>0, <1>1 DEF Core, GraphInv, AncestryInv, ForeignKept, RevertedGone, Anc, Tree, Kind, Of
<1>3. HeadsInv'
  BY <1>0, <1>1 DEF Core, HeadsInv, Clean, Known, Tree
<1>4. PlanInv'
  <2>1. /\ plan'.stage \in {"frozen", "revalidated"} /\ plan.stage # "none"
        /\ plan'.attempt = plan.attempt /\ plan'.boot = plan.boot
        /\ plan'.base = plan.base /\ plan'.candidate = plan.candidate
        /\ plan'.stage = "revalidated" => plan'.main = remote
    BY DEF RevalidateMain, MainHeadStale, Core, AdoptionTypeOK
  <2>2. remote \in Shas
    BY DEF Core, AdoptionTypeOK
  <2>. QED
    BY <2>1, <2>2, <1>0, <1>1 DEF Core, PlanInv, Anc, Kind, AddsOnly, Tree
<1>5. IdentityInv'
  BY <1>0, <1>1 DEF Core, IdentityInv, Anc, AddsOnly, Clean, Tree
<1>6. RevertsInv'
  BY <1>0, <1>1 DEF Core, RevertsInv, CurrentRevert, OnlyProjects, ChangedPaths, Anc, Of, Tree
<1>7. OneRevert'
  BY <1>0, <1>1 DEF Core, OneRevert, Anc
<1>8. ReceiptsInv'
  BY <1>0, <1>1 DEF Core, ReceiptsInv, Anc
<1>. QED
  BY <1>2, <1>3, <1>4, <1>5, <1>6, <1>7, <1>8 DEF Core

\* Whatever the verdict on a path, the reconciled content is that of main and
\* at most the Candidate's edit.
LEMMA ReconciledAddsOnly ==
  ASSUME Core, plan.stage = "revalidated", NEW p \in Paths,
         NEW clash, NEW proven \in BOOLEAN, NEW superset \in BOOLEAN
  PROVE  LET t == ReconciledContent(p, Resolution(p, clash, proven, superset))
         IN  Tree(plan.main)[p] \subseteq t /\ t \subseteq Tree(plan.main)[p] \cup {plan.attempt}
<1>. DEFINE r == Resolution(p, clash, proven, superset)
<1>1. AddsOnly(plan.base, plan.candidate, plan.attempt)
  BY DEF Core, PlanInv
<1>2. /\ Tree(plan.base)[p] \subseteq Tree(plan.candidate)[p]
      /\ Tree(plan.candidate)[p] \subseteq Tree(plan.base)[p] \cup {plan.attempt}
  BY <1>1 DEF AddsOnly
<1>3. r \in {"CANDIDATE_ONLY", "BOUNDARY_FORWARD"} => Tree(plan.main)[p] = Tree(plan.base)[p]
  <2>1. r \in {"CANDIDATE_ONLY", "BOUNDARY_FORWARD"} => p \notin LiveDelta
    <3>1. BothChanged(p, clash, superset) \notin {"CANDIDATE_ONLY", "BOUNDARY_FORWARD"}
      BY DEF BothChanged
    <3>. QED
      BY <3>1 DEF Resolution
  <2>. QED
    BY <2>1 DEF LiveDelta, ChangedPaths
<1>. HIDE DEF r
<1>4. CASE r \in {"CANDIDATE_ONLY", "BOUNDARY_FORWARD"}
  <2>1. ReconciledContent(p, r) = Tree(plan.candidate)[p]
    BY <1>4 DEF ReconciledContent
  <2>. QED
    BY <2>1, <1>4, <1>2, <1>3 DEF r
<1>5. CASE r = "CLEAN_THREE_WAY"
  <2>1. ReconciledContent(p, r) = MergedContent(p)
    BY <1>5 DEF ReconciledContent
  <2>2. /\ Tree(plan.main)[p] \subseteq MergedContent(p)
        /\ MergedContent(p) \subseteq Tree(plan.main)[p] \cup {plan.attempt}
    BY <1>2 DEF MergedContent
  <2>. QED
    BY <2>1, <2>2 DEF r
<1>6. CASE r \notin {"CANDIDATE_ONLY", "BOUNDARY_FORWARD", "CLEAN_THREE_WAY"}
  <2>1. ReconciledContent(p, r) = Tree(plan.main)[p]
    BY <1>6 DEF ReconciledContent
  <2>. QED
    BY <2>1 DEF r
<1>. QED
  BY <1>4, <1>5, <1>6

\* The tree of the integration commit.
ReconciledTree(clash, proven, superset) ==
  LET paths == ChangedPaths(plan.boot, plan.candidate)
      verdict == [p \in paths |-> Resolution(p, clash, proven, superset)]
  IN [p \in Paths |-> IF p \in paths THEN ReconciledContent(p, verdict[p])
                      ELSE Tree(plan.main)[p]]

\* So the integration commit adds at most the edit of the Candidate to main.
LEMMA ReconciledTreeAddsOnly ==
  ASSUME Core, plan.stage = "revalidated",
         NEW clash, NEW proven \in BOOLEAN, NEW superset \in BOOLEAN, NEW t,
         t = ReconciledTree(clash, proven, superset)
  PROVE  /\ t \in [Paths -> SUBSET Edits]
         /\ \A p \in Paths : /\ Tree(plan.main)[p] \subseteq t[p]
                             /\ t[p] \subseteq Tree(plan.main)[p] \cup {plan.attempt}
<1>1. /\ plan.main \in Shas /\ plan.attempt \in 0..MaxAttempts /\ id.attempt < plan.attempt
      /\ id.attempt \in 0..MaxAttempts
  <2>1. plan.attempt \in 0..MaxAttempts /\ plan.main \in Shas /\ id.attempt < plan.attempt
    BY DEF Core, PlanInv, AdoptionTypeOK
  <2>2. id.attempt \in 0..MaxAttempts
    BY DEF Core, HandoffTypeOK, id
  <2>. QED
    BY <2>1, <2>2
<1>2. plan.attempt \in Edits
  BY <1>1, AdoptionAssumption DEF Edits
<1>3. Tree(plan.main) \in [Paths -> SUBSET Edits]
  BY <1>1, CommitTyped DEF Core, Tree
<1>4. ASSUME NEW p \in Paths
      PROVE /\ Tree(plan.main)[p] \subseteq t[p]
            /\ t[p] \subseteq Tree(plan.main)[p] \cup {plan.attempt}
  <2>1. t[p] = IF p \in ChangedPaths(plan.boot, plan.candidate)
               THEN ReconciledContent(p, Resolution(p, clash, proven, superset))
               ELSE Tree(plan.main)[p]
    BY DEF ReconciledTree
  <2>. QED
    BY <2>1, ReconciledAddsOnly
<1>5. t = [p \in Paths |-> t[p]]
  BY DEF ReconciledTree
<1>6. \A p \in Paths : t[p] \in SUBSET Edits
  BY <1>2, <1>3, <1>4
<1>. QED
  BY <1>4, <1>5, <1>6

\* A plan that is dropped leaves only its attempt.
LEMMA PlanDropped ==
  ASSUME AdoptionTypeOK, UNCHANGED <<commits, local, remote>>,
         plan' = [stage |-> "none", attempt |-> plan.attempt, boot |-> 0, base |-> 0,
                  candidate |-> 0, main |-> 0, target |-> 0]
  PROVE  AdoptionTypeOK'
<1>1. plan.attempt \in 0..MaxAttempts /\ Shas' = Shas
  BY DEF AdoptionTypeOK, Shas
<1>. QED
  BY <1>1 DEF AdoptionTypeOK

\* Planning keeps the graph, and the integration commit holds main.
LEMMA PlanReconciliationCore ==
  ASSUME Core, HandoffTypeOK', NEW clash, NEW proven \in BOOLEAN,
         NEW superset \in BOOLEAN, PlanReconciliation(clash, proven, superset),
         UNCHANGED <<evidence, receipts>>
  PROVE  Core' /\ Extends /\ Reverts' = Reverts
<1>. DEFINE t == ReconciledTree(clash, proven, superset)
            touched == {p \in Paths : t[p] # Tree(plan.main)[p]}
            m == Commit({plan.main, plan.candidate}, t, touched, "adopt", plan.attempt)
<1>1. /\ plan.stage = "revalidated" /\ remote = plan.main /\ UNCHANGED <<local, remote>>
      /\ \/ plan' = [NoPlan EXCEPT !.attempt = plan.attempt] /\ UNCHANGED commits
         \/ /\ commits' = Append(commits, m)
            /\ plan' = [plan EXCEPT !.stage = "planned", !.target = Len(commits')]
  BY DEF PlanReconciliation, ReconciledTree
<1>2. CASE plan' = [NoPlan EXCEPT !.attempt = plan.attempt] /\ UNCHANGED commits
  <2>. USE <1>2, <1>1
  <2>1. Shas' = Shas /\ Reverts' = Reverts /\ id' = id /\ Receipt' = Receipt /\ Extends
    BY DEF Shas, Reverts, Kind, id, Receipt, Extends
  <2>2. GraphInv'
    BY <2>1 DEF Core, GraphInv, AncestryInv, ForeignKept, RevertedGone, Anc, Tree, Kind, Of
  <2>3. HeadsInv'
    BY <2>1 DEF Core, HeadsInv, Clean, Known, Tree
  <2>4. PlanInv'
    BY <2>1 DEF Core, PlanInv, NoPlan
  <2>5. IdentityInv'
    BY <2>1 DEF Core, IdentityInv, Anc, AddsOnly, Clean, Tree
  <2>6. RevertsInv'
    BY <2>1 DEF Core, RevertsInv, CurrentRevert, OnlyProjects, ChangedPaths, Anc, Of, Tree
  <2>7. OneRevert'
    BY <2>1 DEF Core, OneRevert, Anc
  <2>8. ReceiptsInv'
    BY <2>1 DEF Core, ReceiptsInv, Anc
  <2>9. AdoptionTypeOK'
    BY PlanDropped DEF Core, NoPlan
  <2>. QED
    BY <2>1, <2>2, <2>3, <2>4, <2>5, <2>6, <2>7, <2>8, <2>9 DEF Core
<1>3. CASE /\ commits' = Append(commits, m)
           /\ plan' = [plan EXCEPT !.stage = "planned", !.target = Len(commits')]
  <2>0. /\ t \in [Paths -> SUBSET Edits]
        /\ \A p \in Paths : /\ Tree(plan.main)[p] \subseteq t[p]
                            /\ t[p] \subseteq Tree(plan.main)[p] \cup {plan.attempt}
        /\ touched \in SUBSET Paths
    BY <1>1, ReconciledTreeAddsOnly
  <2>. HIDE DEF t, touched
  <2>1. /\ plan.main \in Shas /\ plan.candidate \in Shas /\ plan.base \in Shas
        /\ plan.base \in Anc(plan.main)
        /\ Anc(plan.candidate) = Anc(plan.base) \cup {plan.candidate}
        /\ Kind(plan.candidate) = "candidate"
        /\ AddsOnly(plan.base, plan.candidate, plan.attempt)
        /\ id.attempt < plan.attempt
    BY <1>1 DEF Core, PlanInv
  <2>2. /\ plan.attempt \in 0..MaxAttempts /\ plan.attempt \in Nat /\ id.attempt \in 0..MaxAttempts
        /\ Foreign # plan.attempt
    <3>1. plan.attempt \in 0..MaxAttempts
      BY DEF Core, AdoptionTypeOK
    <3>2. id.attempt \in 0..MaxAttempts
      BY DEF Core, HandoffTypeOK, id
    <3>. QED
      BY <3>1, <3>2, AdoptionAssumption DEF Foreign
  <2>3. Anc(plan.base) \subseteq Anc(plan.main)
    BY <2>1 DEF Core, GraphInv, AncestryInv
  <2>4. /\ m \in CommitType /\ m.tree = t /\ m.kind = "adopt" /\ m.of = plan.attempt
        /\ m.anc = Anc(plan.main) \cup Anc(plan.candidate) \cup {Len(commits) + 1}
    <3>. DEFINE anc == Anc(plan.main) \cup Anc(plan.candidate) \cup {Len(commits) + 1}
    <3>1. (UNION {commits[c].anc : c \in {plan.main, plan.candidate}}) =
            Anc(plan.main) \cup Anc(plan.candidate)
      BY DEF Anc
    <3>2. m = [anc |-> anc, tree |-> t, touched |-> touched, kind |-> "adopt",
               of |-> plan.attempt]
      BY <3>1 DEF Commit
    <3>3. Len(commits) \in Nat /\ Anc(plan.main) \subseteq Nat /\ Anc(plan.candidate) \subseteq Nat
      BY <2>1, CommitTyped DEF Core, AdoptionTypeOK, Anc
    <3>4. anc \in SUBSET Nat
      BY <3>3
    <3>. HIDE DEF anc, m
    <3>5. m \in CommitType /\ m.anc = anc /\ m.tree = t /\ m.kind = "adopt" /\ m.of = plan.attempt
      BY <3>2, <3>4, <2>0, <2>2 DEF CommitType
    <3>. QED
      BY <3>5 DEF anc
  <2>. HIDE DEF m
  <2>5. /\ Len(commits') = Len(commits) + 1 /\ Shas' = Shas \cup {Len(commits')}
        /\ commits'[Len(commits')] = m /\ Extends /\ commits' \in Seq(CommitType)
        /\ Len(commits) \in Nat
    BY <1>3, <2>4, Grown DEF Core
  <2>51. AdoptionTypeOK'
    <3>1. Len(commits') \in Nat
      BY <2>5
    <3>. QED
      BY <1>1, <1>3, <2>5, <3>1 DEF Core, AdoptionTypeOK
  <2>6. GraphInv'
    <3>1. AncOf(m.anc, {plan.main, plan.candidate}, Len(commits) + 1)
      BY <2>4 DEF AncOf, Anc
    <3>2. \A q \in {plan.main, plan.candidate}, p \in Paths :
            Foreign \in Tree(q)[p] => Foreign \in m.tree[p]
      <4>. SUFFICES ASSUME NEW p \in Paths, Foreign \in Tree(plan.candidate)[p]
                    PROVE  Foreign \in Tree(plan.main)[p]
        BY <2>0, <2>4
      <4>1. Foreign \in Tree(plan.base)[p]
        BY <2>1, <2>2 DEF AddsOnly
      <4>. QED
        BY <4>1, <2>1 DEF Core, GraphInv, ForeignKept
    <3>3. \A q \in {plan.main, plan.candidate} : \A d \in Anc(q) : Kind(d) = "revert" =>
            \A p \in SourcePaths : Of(d) \notin m.tree[p]
      <4>. SUFFICES ASSUME NEW q \in {plan.main, plan.candidate}, NEW d \in Anc(q),
                           Kind(d) = "revert", NEW p \in SourcePaths
                    PROVE  Of(d) \notin m.tree[p]
        OBVIOUS
      <4>1. d \in Anc(plan.main)
        BY <2>1, <2>3
      <4>2. d \in Reverts /\ p \in Paths
        BY <4>1, <2>1, AncKnown DEF Core, GraphInv, Reverts, SourcePaths
      <4>3. Of(d) \in 1..id.attempt
        BY <4>2 DEF Core, RevertsInv
      <4>4. Of(d) # plan.attempt
        BY <4>3, <2>1, <2>2
      <4>5. Of(d) \notin Tree(plan.main)[p]
        BY <4>1, <2>1 DEF Core, GraphInv, RevertedGone
      <4>. QED
        BY <4>2, <4>4, <4>5, <2>0, <2>4
    <3>4. {plan.main, plan.candidate} \in SUBSET Shas
      BY <2>1
    <3>. QED
      BY <3>1, <3>2, <3>3, <3>4, <2>4, <1>3, GraphGrows DEF Core, m
  <2>7. HeadsInv'
    <3>1. /\ commits'[local'].tree = Tree(local) /\ commits'[remote'].tree = Tree(remote)
          /\ id' = id
      BY <1>1, <2>5 DEF Core, AdoptionTypeOK, Extends, Tree, id
    <3>. QED
      BY <3>1 DEF Core, HeadsInv, Clean, Known, Tree
  <2>8. PlanInv'
    <3>1. /\ plan'.stage = "planned" /\ plan'.attempt = plan.attempt /\ plan'.boot = plan.boot
          /\ plan'.base = plan.base /\ plan'.candidate = plan.candidate
          /\ plan'.main = plan.main /\ plan'.target = Len(commits') /\ id' = id
      BY <1>3 DEF Core, AdoptionTypeOK, id
    <3>2. /\ commits'[remote'] = commits[remote]
          /\ plan.boot \in Shas' /\ plan.base \in Shas' /\ plan.candidate \in Shas'
          /\ plan.main \in Shas' /\ Len(commits') \in Shas'
          /\ commits'[plan.base] = commits[plan.base] /\ commits'[plan.main] = commits[plan.main]
          /\ commits'[plan.candidate] = commits[plan.candidate]
      BY <1>1, <2>1, <2>5 DEF Core, AdoptionTypeOK, PlanInv, Extends
    <3>3. AddsOnly(plan.base, plan.candidate, plan.attempt)'
      BY <3>1, <3>2, <2>1 DEF AddsOnly, Tree
    <3>4. AddsOnly(plan.main, plan.target, plan.attempt)'
      BY <3>1, <3>2, <2>0, <2>4, <2>5 DEF AddsOnly, Tree
    <3>5. plan'.main \in commits'[plan'.target].anc
      <4>1. plan.main \in Anc(plan.main)
        BY <2>1 DEF Core, GraphInv, AncestryInv
      <4>. QED
        BY <4>1, <3>1, <2>4, <2>5
    <3>6. /\ id'.attempt <= plan'.attempt /\ id'.attempt < plan'.attempt
      BY <3>1, <2>1, <2>2
    <3>7. plan'.base \in commits'[remote'].anc /\ plan'.base \in commits'[plan'.main].anc
      BY <3>1, <3>2, <2>1, <1>1 DEF Anc
    <3>8. /\ commits'[plan'.candidate].anc = commits'[plan'.base].anc \cup {plan'.candidate}
          /\ commits'[plan'.candidate].kind = "candidate"
      BY <3>1, <3>2, <2>1 DEF Anc, Kind
    <3>. QED
      BY <3>1, <3>2, <3>3, <3>4, <3>5, <3>6, <3>7, <3>8 DEF PlanInv, Anc, Kind
  <2>9. Core'
    BY <1>1, <1>3, <2>4, <2>51, <2>6, <2>7, <2>8, CoreGrows DEF m
  <2>10. Reverts' = Reverts
    BY <2>4, <2>5 DEF Extends, Reverts, Kind
  <2>. QED
    BY <2>5, <2>9, <2>10
<1>. QED
  BY <1>1, <1>2, <1>3

\* A new attempt starts where every revert so far is history.
LEMMA PrepareCore ==
  ASSUME Core, EffectsInv, NEW cmd \in Nat, Prepare(cmd),
         UNCHANGED <<commits, local, remote, receipts>>,
         receipts \in [Attempts -> ReceiptType]
  PROVE  /\ Core' /\ Reverts' = Reverts /\ evidence.phase \notin NonTerminal
         /\ evidence'.phase = "PREPARED"
<1>1. /\ plan.stage = "planned" /\ remote = plan.main
      /\ id'.attempt = plan.attempt /\ id'.stable = plan.main /\ id'.main = plan.main
      /\ id'.target = plan.target /\ evidence'.phase = "PREPARED"
      /\ plan' = [NoPlan EXCEPT !.attempt = plan.attempt]
  BY DEF Prepare, PromotionAllowed, id
<1>2. \/ evidence.phase = "NONE"
      \/ evidence.phase = "COMPLETED" /\ remote = id.target
      \/ evidence.phase = "ROLLED_BACK" /\ remote = evidence.rollback
  BY <1>1 DEF Prepare, MayPrepare, SuccessorBase
<1>3. Shas' = Shas /\ Reverts' = Reverts
  BY DEF Shas, Reverts, Kind
<1>4. /\ id.attempt < plan.attempt /\ plan.main \in Shas /\ plan.target \in Shas
      /\ plan.main \in Anc(plan.target) /\ AddsOnly(plan.main, plan.target, plan.attempt)
      /\ remote \in Shas
  BY <1>1 DEF Core, PlanInv, AdoptionTypeOK
<1>5. plan.attempt \in Attempts /\ id.attempt \in 0..MaxAttempts /\ MaxAttempts \in Nat
  <2>1. plan.attempt \in 0..MaxAttempts
    BY DEF Core, AdoptionTypeOK
  <2>2. id.attempt \in 0..MaxAttempts
    BY DEF Core, HandoffTypeOK, id
  <2>. QED
    BY <2>1, <2>2, <1>4, AdoptionAssumption DEF Attempts
<1>6. \A c \in Reverts : c \in Anc(remote)
  <2>. SUFFICES ASSUME NEW c \in Reverts PROVE c \in Anc(remote)
    OBVIOUS
  <2>1. evidence.phase # "NONE" /\ (c \in Anc(id.main) \/ CurrentRevert(c))
    BY DEF Core, RevertsInv
  <2>2. /\ id.main \in Shas /\ id.target \in Shas /\ id.main \in Anc(id.target)
    BY <2>1 DEF Core, IdentityInv
  <2>3. Anc(id.main) \subseteq Anc(id.target)
    BY <2>2 DEF Core, GraphInv, AncestryInv
  <2>4. CASE evidence.phase = "COMPLETED" /\ remote = id.target
    BY <2>1, <2>3, <2>4 DEF CurrentRevert
  <2>5. CASE evidence.phase = "ROLLED_BACK" /\ remote = evidence.rollback
    <3>1. remote \in Reverts /\ remote \notin Anc(id.main)
      BY <2>5 DEF EffectsInv
    <3>2. id.target \in Anc(remote)
      BY <3>1 DEF Core, RevertsInv, CurrentRevert
    <3>3. Anc(id.target) \subseteq Anc(remote) /\ remote \in Anc(remote)
      BY <3>2, <1>4 DEF Core, GraphInv, AncestryInv
    <3>4. CASE c \in Anc(id.main)
      BY <3>3, <3>4, <2>3
    <3>5. CASE c \notin Anc(id.main)
      BY <3>1, <3>3, <3>5 DEF Core, OneRevert
    <3>. QED
      BY <3>4, <3>5
  <2>. QED
    BY <1>2, <2>1, <2>4, <2>5
<1>7. GraphInv'
  BY <1>3 DEF Core, GraphInv, AncestryInv, ForeignKept, RevertedGone, Anc, Tree, Kind, Of
<1>8. HeadsInv'
  <2>1. 1..id.attempt \subseteq 1..plan.attempt
    BY <1>4, <1>5 DEF Attempts
  <2>. QED
    BY <2>1, <1>1 DEF Core, HeadsInv, Clean, Known, Tree
<1>9. PlanInv'
  <2>1. plan'.stage = "none" /\ plan'.attempt = plan.attempt
    BY <1>1 DEF NoPlan
  <2>. QED
    BY <2>1, <1>1, <1>5 DEF PlanInv, Attempts
<1>10. IdentityInv'
  <2>1. \A p \in Paths : plan.attempt \notin Tree(remote)[p]
    <3>. SUFFICES ASSUME NEW p \in Paths, plan.attempt \in Tree(remote)[p] PROVE FALSE
      OBVIOUS
    <3>1. plan.attempt \in 1..id.attempt
      BY <1>5 DEF Core, HeadsInv, Known
    <3>. QED
      BY <3>1, <1>4, <1>5
  <2>2. Clean(remote)
    BY DEF Core, HeadsInv
  <2>. QED
    BY <2>1, <2>2, <1>1, <1>3, <1>4, <1>5 DEF IdentityInv, Anc, AddsOnly, Clean, Tree
<1>11. RevertsInv'
  <2>. SUFFICES ASSUME NEW c \in Reverts
                PROVE  /\ Of(c)' \in 1..id'.attempt
                       /\ c \in Anc(local)'
                       /\ \E d \in Anc(c)' \ {c} : Anc(c)' = Anc(d)' \cup {c}
                       /\ c \in Anc(id.main)'
    BY <1>1, <1>3 DEF RevertsInv
  <2>1. Of(c) \in 1..id.attempt /\ c \in Anc(local)
    BY DEF Core, RevertsInv
  <2>2. Of(c) \in 1..plan.attempt
    BY <2>1, <1>4, <1>5 DEF Attempts
  <2>3. \E d \in Anc(c) \ {c} : Anc(c) = Anc(d) \cup {c}
    BY DEF Core, RevertsInv
  <2>. QED
    BY <2>1, <2>2, <2>3, <1>1, <1>6 DEF Anc, Of
<1>12. OneRevert'
  BY <1>1, <1>3, <1>6 DEF OneRevert, Anc
<1>13. ReceiptsInv'
  <2>1. \A a \in Attempts : a > id.attempt => receipts[a].op = "none"
    BY DEF Core, ReceiptsInv
  <2>2. \A a \in Attempts : a > plan.attempt => a > id.attempt
    BY <1>4, <1>5 DEF Attempts
  <2>3. Receipt'.op = "none"
    BY <2>1, <1>1, <1>4, <1>5 DEF Receipt, Attempts
  <2>. QED
    BY <2>1, <2>2, <2>3, <1>1 DEF ReceiptsInv
<1>15. AdoptionTypeOK' /\ HandoffTypeOK'
  <2>2. AdoptionTypeOK'
    BY <1>1, PlanDropped DEF Core, NoPlan
  <2>3. evidence' = [phase |-> "PREPARED", rollback |-> 0,
                     id |-> [attempt |-> plan.attempt, stable |-> plan.main, main |-> plan.main,
                             candidate |-> plan.candidate, target |-> plan.target, command |-> cmd]]
        /\ late' = FALSE
    BY DEF Prepare
  <2>4. /\ plan.attempt \in 0..MaxAttempts /\ plan.main \in Nat /\ plan.candidate \in Nat
        /\ plan.target \in Nat
    BY DEF Core, AdoptionTypeOK
  <2>. QED
    BY <2>2, <2>3, <2>4 DEF HandoffTypeOK, Phases
<1>14. evidence.phase \notin NonTerminal
  BY <1>2 DEF NonTerminal, Terminal
<1>. QED
  BY <1>1, <1>3, <1>7, <1>8, <1>9, <1>10, <1>11, <1>12, <1>13, <1>14, <1>15 DEF Core

\* _existing_rollback_commit finds the revert of the current attempt, or there is none.
LEMMA ExistingRollbackIs ==
  ASSUME Core, evidence.phase # "NONE"
  PROVE  /\ ExistingRollback # 0 =>
              /\ ExistingRollback \in Reverts /\ ExistingRollback \notin Anc(id.main)
              /\ CurrentRevert(ExistingRollback)
         /\ ExistingRollback = 0 /\ id.target \in Anc(local) => \A c \in Reverts :
              c \in Anc(id.main)
         /\ Receipt.op = "rollback" => ExistingRollback = Receipt.sha /\ ExistingRollback # 0
         /\ ExistingRollback \in Nat
<1>. DEFINE found == {c \in commits[local].anc \ commits[id.target].anc :
                        /\ Ancestor(id.target, local)
                        /\ commits[c].kind = "revert"
                        /\ Ancestor(id.stable, c)
                        /\ OnlyProjects(id.main, c)}
<1>1. ExistingRollback = IF Receipt.op = "rollback" THEN Receipt.sha
                         ELSE IF found = {} THEN 0 ELSE CHOOSE c \in found : TRUE
  BY DEF ExistingRollback
<1>2. /\ local \in Shas /\ id.main \in Shas /\ id.target \in Shas /\ id.main \in Anc(id.target)
      /\ id.stable = id.main
  BY DEF Core, AdoptionTypeOK, IdentityInv
<1>3. Anc(id.main) \subseteq Anc(id.target) /\ Anc(local) \subseteq Shas
  <2>1. AncestryInv /\ AdoptionTypeOK
    BY DEF Core, GraphInv
  <2>. QED
    BY <1>2, <2>1, AncKnown DEF AncestryInv
<1>4. \A c \in found : c \in Reverts /\ c \notin Anc(id.main)
  BY <1>3 DEF Reverts, Kind, Anc
<1>5. Receipt.op = "rollback" => Receipt.sha \in Reverts /\ Receipt.sha \notin Anc(id.main)
  BY DEF Core, ReceiptsInv
<1>6. \A c \in Reverts : c \in Nat /\ c # 0
  BY DEF Reverts, Shas, Core, AdoptionTypeOK
<1>7. \A c \in Reverts : c \notin Anc(id.main) => CurrentRevert(c)
  BY DEF Core, RevertsInv
<1>8. found # {} => (CHOOSE c \in found : TRUE) \in found
  OBVIOUS
<1>9. ASSUME found = {}, id.target \in Anc(local), NEW c \in Reverts, c \notin Anc(id.main)
      PROVE FALSE
  <2>1. CurrentRevert(c) /\ c \in Anc(local) /\ c \in Shas /\ Kind(c) = "revert"
    BY <1>7, <1>9 DEF Core, RevertsInv, Reverts
  <2>2. Anc(id.target) \subseteq Anc(c)
    BY <2>1 DEF CurrentRevert, Core, GraphInv, AncestryInv
  <2>3. id.stable \in Anc(c)
    BY <2>2, <1>2
  <2>4. c \in found
    BY <2>1, <2>3, <1>9 DEF CurrentRevert, Ancestor, Anc, Kind
  <2>. QED
    BY <2>4, <1>9
<1>. HIDE DEF found
<1>. QED
  BY <1>1, <1>4, <1>5, <1>6, <1>7, <1>8, <1>9

\* A forward revert.
LEMMA RevertCore ==
  ASSUME Core, HandoffTypeOK', evidence.phase = "ROLLBACK_REQUIRED",
         ExistingRollback = 0, PostHeadSafe(id.target, local),
         commits' = Append(commits, Commit({local}, RevertTree(local),
                               ChangedPaths(id.main, id.target), "revert", id.attempt)),
         local' = Len(commits'), UNCHANGED <<remote, plan, evidence, receipts>>
  PROVE  /\ Core' /\ Extends
         /\ Reverts' = Reverts \cup {local'} /\ local' \notin Anc(id.main)'
         /\ local' \in Reverts'
<1>. DEFINE t == RevertTree(local)
            touched == ChangedPaths(id.main, id.target)
            m == Commit({local}, t, touched, "revert", id.attempt)
<1>0. /\ local \in Shas /\ id.main \in Shas /\ id.target \in Shas /\ id.main \in Anc(id.target)
      /\ id.attempt \in Attempts /\ AddsOnly(id.main, id.target, id.attempt)
      /\ \A p \in Paths : id.attempt \notin Tree(id.main)[p]
  BY DEF Core, AdoptionTypeOK, IdentityInv
<1>1. /\ id.attempt \in Nat /\ id.attempt # 0 /\ id.attempt # Foreign
  BY <1>0, AdoptionAssumption DEF Attempts, Foreign
<1>2. id.target \in Anc(local) /\ \A p \in SourcePaths : Tree(local)[p] = Tree(id.target)[p]
  BY DEF PostHeadSafe, OnlyProjects, ChangedPaths, Ancestor, Anc, SourcePaths
<1>3. Tree(local) \in [Paths -> SUBSET Edits]
  BY <1>0, CommitTyped DEF Core, Tree
<1>4. /\ t \in [Paths -> SUBSET Edits]
      /\ \A p \in Paths : /\ t[p] \subseteq Tree(local)[p]
                          /\ Tree(local)[p] \subseteq t[p] \cup {id.attempt}
      /\ \A p \in SourcePaths : t[p] = Tree(id.main)[p]
      /\ touched \in SUBSET Paths
  <2>1. \A p \in Paths :
          /\ Tree(id.main)[p] \subseteq Tree(id.target)[p]
          /\ Tree(id.target)[p] \subseteq Tree(id.main)[p] \cup {id.attempt}
    BY <1>0 DEF AddsOnly
  <2>2. \A p \in Paths : t[p] = IF p \in touched
                                THEN Tree(local)[p] \ (Tree(id.target)[p] \ Tree(id.main)[p])
                                ELSE Tree(local)[p]
    BY DEF RevertTree
  <2>3. t = [p \in Paths |-> t[p]]
    BY DEF RevertTree
  <2>4. touched \in SUBSET Paths /\ \A p \in Paths \ touched : Tree(id.main)[p] = Tree(id.target)[p]
    BY DEF ChangedPaths
  <2>5. SourcePaths \subseteq Paths
    BY DEF SourcePaths
  <2>. HIDE DEF t, touched
  <2>6. ASSUME NEW p \in Paths
        PROVE t[p] \subseteq Tree(local)[p] /\ Tree(local)[p] \subseteq t[p] \cup {id.attempt}
    BY <2>1, <2>2
  <2>7. ASSUME NEW p \in SourcePaths PROVE t[p] = Tree(id.main)[p]
    <3>1. p \in Paths /\ Tree(local)[p] = Tree(id.target)[p]
      BY <1>2, <2>5
    <3>. QED
      BY <3>1, <2>1, <2>2, <2>4
  <2>8. \A p \in Paths : t[p] \in SUBSET Edits
    BY <2>6, <1>3
  <2>. QED
    BY <2>3, <2>4, <2>6, <2>7, <2>8
<1>. HIDE DEF t, touched
<1>5. /\ m \in CommitType /\ m.tree = t /\ m.kind = "revert" /\ m.of = id.attempt
      /\ AncOf(m.anc, {local}, Len(commits) + 1)
      /\ m.anc = Anc(local) \cup {Len(commits) + 1}
  <2>. DEFINE anc == Anc(local) \cup {Len(commits) + 1}
  <2>1. (UNION {commits[c].anc : c \in {local}}) = Anc(local)
    BY DEF Anc
  <2>2. m = [anc |-> anc, tree |-> t, touched |-> touched, kind |-> "revert", of |-> id.attempt]
    BY <2>1 DEF Commit
  <2>3. anc \in SUBSET Nat /\ AncOf(anc, {local}, Len(commits) + 1)
    BY <1>0, NewAnc DEF Core
  <2>. HIDE DEF anc, m
  <2>4. m \in CommitType /\ m.anc = anc /\ m.tree = t /\ m.kind = "revert" /\ m.of = id.attempt
    BY <2>2, <2>3, <1>1, <1>4 DEF CommitType
  <2>. QED
    BY <2>3, <2>4 DEF anc
<1>6. commits' = Append(commits, m)
  BY DEF t, touched
<1>. HIDE DEF m
<1>7. /\ Len(commits') = Len(commits) + 1 /\ Shas' = Shas \cup {Len(commits')}
      /\ Len(commits') \notin Shas
      /\ commits'[Len(commits')] = m /\ Extends /\ commits' \in Seq(CommitType)
  BY <1>5, <1>6, Grown DEF Core
<1>8. /\ commits'[local'] = m /\ Shas' = Shas \cup {local'} /\ local' \notin Shas
      /\ m.anc = Anc(local) \cup {local'}
  BY <1>5, <1>7
<1>81. AdoptionTypeOK'
  BY <1>7, <1>8 DEF Core, AdoptionTypeOK
<1>9. GraphInv'
  <2>1. \A q \in {local}, p \in Paths : Foreign \in Tree(q)[p] => Foreign \in m.tree[p]
    BY <1>1, <1>4, <1>5
  <2>2. \A q \in {local} : \A d \in Anc(q) : Kind(d) = "revert" =>
          \A p \in SourcePaths : Of(d) \notin m.tree[p]
    BY <1>0, <1>4, <1>5 DEF Core, GraphInv, RevertedGone, SourcePaths
  <2>3. \A p \in SourcePaths : m.of \notin m.tree[p]
    BY <1>0, <1>4, <1>5 DEF SourcePaths
  <2>4. {local} \in SUBSET Shas
    BY <1>0
  <2>. QED
    BY <2>1, <2>2, <2>3, <2>4, <1>5, <1>6, GraphGrows DEF Core
<1>10. local \in commits'[local'].anc
  <2>1. local \in Anc(local)
    BY <1>0 DEF Core, GraphInv, AncestryInv
  <2>. QED
    BY <2>1, <1>8
<1>11. HeadsInv'
  <2>1. commits'[local'].tree = t /\ commits'[remote'].tree = Tree(remote) /\ id' = id
    BY <1>5, <1>7, <1>8 DEF Core, AdoptionTypeOK, Extends, Tree, id
  <2>. QED
    BY <2>1, <1>4 DEF Core, HeadsInv, Clean, Known, Tree
<1>12. PlanInv'
  <2>1. remote \in commits'[remote'].anc
    BY <1>81, <1>9 DEF AdoptionTypeOK, GraphInv, AncestryInv, Anc
  <2>. QED
    BY <2>1, <1>7, <1>9, <1>81, PlanExtends DEF Core
<1>13. IdentityInv'
  BY <1>7, IdentityExtends DEF Core, GraphInv
<1>14. Reverts' = Reverts \cup {local'}
  BY <1>5, <1>7, <1>8 DEF Extends, Reverts, Kind
<1>15. id' = id /\ commits'[id.main] = commits[id.main] /\ commits'[id.target] = commits[id.target]
       /\ commits'[local] = commits[local]
  BY <1>0, <1>7 DEF id, Extends
<1>16. Anc(id.main) \subseteq Shas /\ Anc(id.target) \subseteq Shas
  BY <1>0, AncKnown DEF Core, GraphInv
<1>17. RevertsInv'
  <2>1. \A c \in Reverts :
              /\ evidence'.phase # "NONE"
              /\ Of(c)' \in 1..id'.attempt
              /\ c \in Anc(local)'
              /\ \E d \in Anc(c)' \ {c} : Anc(c)' = Anc(d)' \cup {c}
              /\ c \in Anc(id.main)' \/ CurrentRevert(c)'
    BY <1>7, <1>9, <1>10, <1>14, <1>81, RevertsExtend
  <2>. DEFINE n == local'
  <2>2. /\ commits'[n].of \in 1..id'.attempt /\ n \in commits'[n].anc
        /\ local \in commits'[n].anc \ {n} /\ commits'[n].anc = commits'[local].anc \cup {n}
    <3>1. id.attempt \in 1..id.attempt
      BY <1>1
    <3>2. local # n
      BY <1>0, <1>8
    <3>. QED
      BY <3>1, <3>2, <1>5, <1>8, <1>10, <1>15 DEF Anc
  <2>3. /\ id'.target \in commits'[n].anc /\ n \notin commits'[id'.target].anc
        /\ commits'[n].of = id'.attempt
    BY <1>2, <1>5, <1>8, <1>15, <1>16 DEF Anc
  <2>4. \A p \in SourcePaths : commits'[id'.main].tree[p] = commits'[n].tree[p]
    BY <1>4, <1>5, <1>8, <1>15 DEF Tree
  <2>5. ChangedPaths(id.main, local)' \cap SourcePaths = {}
    BY <2>4 DEF ChangedPaths, Tree, SourcePaths
  <2>. HIDE DEF n
  <2>. SUFFICES ASSUME NEW c \in Reverts'
                PROVE  /\ evidence'.phase # "NONE"
                       /\ commits'[c].of \in 1..id'.attempt
                       /\ c \in commits'[local'].anc
                       /\ \E d \in commits'[c].anc \ {c} :
                            commits'[c].anc = commits'[d].anc \cup {c}
                       /\ \/ c \in commits'[id'.main].anc
                          \/ /\ evidence'.phase \in MayHaveRevert
                             /\ commits'[c].of = id'.attempt
                             /\ id'.target \in commits'[c].anc
                             /\ c \notin commits'[id'.target].anc
                             /\ {p \in Paths : commits'[id'.main].tree[p] # commits'[c].tree[p]}
                                  \cap SourcePaths = {}
    BY DEF RevertsInv, CurrentRevert, Anc, Of, OnlyProjects, ChangedPaths, Tree, MayHaveRevert,
           SourcePaths
  <2>6. CASE c \in Reverts
    BY <2>1, <2>6
         DEF CurrentRevert, Anc, Of, OnlyProjects, ChangedPaths, Tree, MayHaveRevert, SourcePaths
  <2>7. CASE c = n
    BY <2>2, <2>3, <2>5, <2>7 DEF n, MayHaveRevert, ChangedPaths, Tree
  <2>. QED
    BY <2>6, <2>7, <1>14 DEF n
<1>18. local' \notin commits'[id'.main].anc
  BY <1>8, <1>15, <1>16 DEF Anc
<1>19. OneRevert'
  <2>1. \A c \in Reverts : c \in Anc(id.main)
    BY <1>2, ExistingRollbackIs
  <2>. QED
    BY <2>1, <1>14, <1>15 DEF OneRevert, Anc
<1>20. ReceiptsInv'
  BY <1>7, <1>9, <1>10, <1>14, <1>81, RevertsExtend
<1>. QED
  BY <1>7, <1>81, <1>9, <1>11, <1>12, <1>13, <1>14, <1>17, <1>18, <1>19, <1>20 DEF Core, Anc

-----------------------------------------------------------------------------
(***************************************************************************)
(* The Launcher and its Worker.                                            *)
(***************************************************************************)
\* The Launcher record under each kind of update.
LEMMA GoToTyped ==
  ASSUME launcher \in LauncherType, NEW pc \in LauncherPcs, GoTo(pc)
  PROVE  /\ launcher' \in LauncherType /\ launcher'.pc = pc
         /\ launcher'.armed = launcher.armed /\ launcher'.proc = launcher.proc
         /\ launcher'.repl = launcher.repl /\ launcher'.handed = launcher.handed
BY DEF GoTo, LauncherType

\* A Launcher that is down.
LEMMA DownTyped ==
  /\ Down \in LauncherType /\ Down.pc = "down" /\ Down.repl = 0
  /\ Down.armed = FALSE
BY DEF Down, LauncherType, LauncherPcs, Pids

\* Six pids suffice: three at most are still known when a Worker starts.
LEMMA FreshPidTyped ==
  ASSUME workers = {}, health \in HealthType, launcher \in LauncherType
  PROVE  FreshPid \in Pids
<1>1. health.pid \in 0..6 /\ health.beat \in 0..6 /\ launcher.repl \in 0..6
  BY DEF HealthType, LauncherType, Pids
<1>. DEFINE S == Pids \ UsedPids
<1>2. UsedPids = {health.pid, health.beat, launcher.repl}
  BY DEF UsedPids
<1>3. \A x \in S : x \in 1..6
  BY DEF Pids
<1>4. 1 \in S \/ 2 \in S \/ 3 \in S \/ 4 \in S
  BY <1>1, <1>2 DEF Pids
<1>. HIDE DEF S
<1>5. \E p \in S : \A q \in S : p <= q
  <2>1. CASE 1 \in S
    BY <2>1, <1>3
  <2>2. CASE 1 \notin S /\ 2 \in S
    BY <2>2, <1>3
  <2>3. CASE 1 \notin S /\ 2 \notin S /\ 3 \in S
    BY <2>3, <1>3
  <2>4. CASE 1 \notin S /\ 2 \notin S /\ 3 \notin S /\ 4 \in S
    BY <2>4, <1>3
  <2>. QED
    BY <2>1, <2>2, <2>3, <2>4, <1>4
<1>6. FreshPid \in S
  BY <1>5 DEF FreshPid, S
<1>. QED
  BY <1>6 DEF S

\* The Launcher record once a replacement is started.
LEMMA StartTyped ==
  ASSUME launcher \in LauncherType, NEW pid \in Pids, NEW sha \in Nat, NEW kind,
         launcher' = [launcher EXCEPT !.repl = pid, !.target = sha, !.handed = FALSE,
                    !.fresh = TRUE, !.pc = IF kind = "rollback" THEN "ready" ELSE "consume"]
  PROVE  /\ launcher' \in LauncherType
         /\ launcher'.pc = (IF kind = "rollback" THEN "ready" ELSE "consume")
         /\ launcher'.armed = launcher.armed
         /\ launcher'.repl = pid /\ launcher'.handed = FALSE
BY DEF LauncherType, LauncherPcs

\* The Launcher's clauses survive what does not move the Launcher into them.
LEMMA EffectsKept ==
  ASSUME EffectsInv, Core, Extends, UNCHANGED receipts, id' = id,
         evidence'.rollback = evidence.rollback,
         \/ evidence'.phase = evidence.phase
         \/ evidence.phase # "ROLLED_BACK" /\ evidence'.phase = "SUPERSEDED",
         evidence.phase # "NONE" => Anc(local) \subseteq commits'[local'].anc,
         Anc(remote) \subseteq commits'[remote'].anc,
         Reverts \subseteq Reverts',
         launcher'.pc = launcher.pc \/ launcher'.pc \notin Adopting \cup RollingBack
  PROVE  EffectsInv'
<1>1. evidence.phase # "NONE" => commits'[id.main] = commits[id.main]
  BY DEF Core, IdentityInv, Extends
<1>2. Receipt' = Receipt
  BY DEF Receipt
<1>. QED
  BY <1>1, <1>2 DEF EffectsInv, Anc, Adopting, RollingBack

\* Outside those clauses there is nothing to keep.
LEMMA EffectsIdle ==
  ASSUME launcher'.pc \notin Adopting \cup RollingBack, evidence'.phase # "ROLLED_BACK"
  PROVE  EffectsInv'
BY DEF EffectsInv, Adopting, RollingBack

\* A running Worker keeps running on what it ran on.
LEMMA RunsKept ==
  ASSUME RunsInv, WorkersInv, Extends, Reverts' = Reverts,
         \A v \in workers' : v.kind # "unarmed" /\ v.run =>
           \E w \in workers : w.kind # "unarmed" /\ w.run /\ w.sha = v.sha,
         (\E w \in workers : w.kind # "unarmed" /\ w.run) /\ evidence.phase \notin Closed =>
           evidence'.phase \notin Closed
  PROVE  RunsInv'
<1>. SUFFICES ASSUME NEW v \in workers', v.kind # "unarmed", v.run
              PROVE /\ evidence'.phase \notin Closed
                    /\ \A c \in Reverts : \A p \in SourcePaths :
                          commits'[c].of \notin commits'[v.sha].tree[p]
  BY DEF RunsInv, Of, Tree, Closed, SourcePaths
<1>1. PICK w \in workers : w.kind # "unarmed" /\ w.run /\ w.sha = v.sha
  OBVIOUS
<1>2. evidence.phase \notin Closed /\ \A c \in Reverts : \A p \in SourcePaths :
        Of(c) \notin Tree(w.sha)[p]
  BY <1>1 DEF RunsInv
<1>3. w.sha \in Shas
  BY DEF WorkersInv
<1>. QED
  BY <1>1, <1>2, <1>3 DEF Extends, Reverts, Of, Tree

\* Without a Worker only the phase in which the Launcher may watch one matters.
LEMMA NoWorkers ==
  ASSUME workers' = {},
         launcher'.armed /\ launcher'.pc \in {"spawn", "watch", "terminal"} =>
           evidence'.phase \notin Closed,
         launcher'.pc \in {"terminal"} \cup Adopting \cup RollingBack => launcher'.armed
  PROVE  WorkersInv' /\ RunsInv'
BY DEF WorkersInv, RunsInv, Closed, Adopting, RollingBack

\* The one Worker changes in place.
LEMMA AlterKeeps ==
  ASSUME WorkersInv, NEW w \in workers, NEW v, Alter(w, v), v.pid = w.pid, v.kind = w.kind,
         v.sha = w.sha, UNCHANGED launcher, evidence'.phase = evidence.phase, Shas \subseteq Shas'
  PROVE  workers' = {v} /\ WorkersInv'
<1>1. workers = {w}
  BY DEF WorkersInv
<1>2. workers' = {v}
  BY <1>1 DEF Alter
<1>. QED
  BY <1>1, <1>2 DEF WorkersInv, AliveAt, Closed, Adopting, RollingBack

\* The one Worker ends.
LEMMA ExitKeeps ==
  ASSUME WorkersInv, launcher \in LauncherType, NEW w \in workers, NEW code \in {1, 75},
         Exit(w, code), evidence'.phase = evidence.phase
  PROVE  /\ workers' = {} /\ WorkersInv' /\ RunsInv' /\ launcher' \in LauncherType
         /\ launcher'.pc = launcher.pc \/ launcher'.pc = "consume"
<1>1. workers = {w} /\ AliveAt(w)
  BY DEF WorkersInv
<1>2. workers' = {}
  BY <1>1 DEF Exit
<1>3. \/ launcher' = [launcher EXCEPT !.pc = "consume", !.exit = code]
      \/ launcher' = launcher /\ ~(launcher.pc = "watch" /\ launcher.proc = w.pid)
  BY DEF Exit
<1>4. CASE launcher' = [launcher EXCEPT !.pc = "consume", !.exit = code]
  <2>1. launcher' \in LauncherType /\ launcher'.pc = "consume"
    BY <1>4 DEF LauncherType, LauncherPcs
  <2>. QED
    BY <2>1, <1>2, NoWorkers DEF Adopting, RollingBack
<1>5. CASE launcher' = launcher /\ ~(launcher.pc = "watch" /\ launcher.proc = w.pid)
  <2>1. launcher.pc \in {"consume", "ready", "terminal"}
    BY <1>1, <1>5 DEF AliveAt
  <2>2. launcher.armed /\ launcher.pc \in {"spawn", "watch", "terminal"}
          => evidence.phase \notin Closed
    BY DEF WorkersInv
  <2>3. launcher.pc \in {"terminal"} \cup Adopting \cup RollingBack => launcher.armed
    BY DEF WorkersInv
  <2>. QED
    BY <2>1, <2>2, <2>3, <1>2, <1>5, NoWorkers
<1>. QED
  BY <1>3, <1>4, <1>5

\* The two groups of parts.
LEMMA EngineParts ==
  EngineInv <=> EngineTypeOK /\ Core /\ EffectsInv /\ WorkersInv /\ RunsInv
BY DEF EngineInv, Core, EngineTypeOK

\* A step of the processes only: the repository, the evidence and the receipts stay.
LEMMA ProcessStep ==
  ASSUME EngineInv, UNCHANGED <<gitVars, evidence, late, receipts>>,
         launcher' \in LauncherType, workers' \subseteq WorkerType, health' \in HealthType,
         running' \in 0..MaxCommands, command' \in 0..MaxCommands, faults' \in 0..MaxFaults,
         launcher'.pc = launcher.pc \/ launcher'.pc \notin Adopting \cup RollingBack,
         WorkersInv', RunsInv'
  PROVE  EngineInv'
<1>1. /\ EngineTypeOK /\ Core /\ EffectsInv /\ AdoptionTypeOK /\ HandoffTypeOK
      /\ receipts \in [Attempts -> ReceiptType]
  BY EngineParts DEF EngineTypeOK
<1>2. AdoptionTypeOK' /\ HandoffTypeOK' /\ Extends /\ Reverts' = Reverts
  BY <1>1 DEF gitVars, AdoptionTypeOK, HandoffTypeOK, Shas, Extends, Reverts, Kind
<1>3. Core'
  BY <1>1, <1>2, CoreFrame
<1>4. EffectsInv'
  BY <1>1, <1>2, EffectsKept DEF gitVars, id, Anc
<1>5. EngineTypeOK'
  BY <1>1, <1>2 DEF EngineTypeOK
<1>. QED
  BY <1>3, <1>4, <1>5 DEF EngineInv, Core, EngineTypeOK

\* What the steps below start from.
LEMMA Typed ==
  ASSUME EngineInv
  PROVE  /\ AdoptionTypeOK /\ HandoffTypeOK /\ receipts \in [Attempts -> ReceiptType]
         /\ launcher \in LauncherType /\ workers \subseteq WorkerType /\ health \in HealthType
         /\ running \in 0..MaxCommands /\ command \in 0..MaxCommands /\ faults \in 0..MaxFaults
         /\ WorkersInv /\ RunsInv /\ EffectsInv /\ Core
BY EngineParts DEF EngineTypeOK

\* A disturbance stays within its bound.
LEMMA Disturbed ==
  ASSUME faults \in 0..MaxFaults, Disturb
  PROVE  faults' \in 0..MaxFaults
BY LauncherAssumption DEF Disturb

\* A step that leaves the repository alone.
LEMMA Unmoved ==
  ASSUME UNCHANGED gitVars
  PROVE  Extends /\ Reverts' = Reverts /\ Shas' = Shas
BY DEF gitVars, Extends, Shas, Reverts, Kind

\* The Worker's own steps.
LEMMA WorkerBootInv ==
  ASSUME EngineInv, NEW w \in workers, WorkerBoot(w)
  PROVE  EngineInv'
<1>. DEFINE v == [w EXCEPT !.up = TRUE]
<1>1. /\ Alter(w, v) /\ UNCHANGED <<gitVars, evidence, late, receipts, launcher, running,
        command, faults>>
      /\ health' = [health EXCEPT !.pid = w.pid, !.failure = FALSE]
  BY DEF WorkerBoot
<1>2. w \in WorkerType
  BY Typed
<1>3. v \in WorkerType /\ v.pid = w.pid /\ v.kind = w.kind /\ v.sha = w.sha /\ v.run = w.run
  BY <1>2 DEF WorkerType
<1>4. health' \in HealthType
  BY <1>1, <1>2, Typed DEF HealthType, WorkerType
<1>. HIDE DEF v
<1>5. Shas' = Shas /\ Extends /\ Reverts' = Reverts
  BY <1>1, Unmoved
<1>6. workers' = {v} /\ WorkersInv'
  BY <1>1, <1>3, <1>5, Typed, AlterKeeps
<1>7. RunsInv'
  BY <1>1, <1>3, <1>5, <1>6, Typed, RunsKept
<1>. QED
  BY <1>1, <1>3, <1>4, <1>6, <1>7, Typed, ProcessStep

\* PollOutcome keeps the invariant.
LEMMA PollOutcomeInv ==
  ASSUME EngineInv, NEW w \in workers, PollOutcome(w)
  PROVE  EngineInv'
<1>1. /\ UNCHANGED <<gitVars, evidence, late, receipts, launcher, workers, running, command,
        faults>>
      /\ health' = [health EXCEPT !.failure = w.sick]
  BY DEF PollOutcome
<1>2. w \in WorkerType
  BY Typed
<1>4. health' \in HealthType
  BY <1>1, <1>2, Typed DEF HealthType, WorkerType
<1>5. Shas' = Shas /\ Extends /\ Reverts' = Reverts
  BY <1>1, Unmoved
<1>6. WorkersInv'
  BY <1>1, <1>5, Typed DEF WorkersInv, AliveAt, Closed, Adopting, RollingBack
<1>7. RunsInv'
  BY <1>1, <1>5, Typed, RunsKept
<1>. QED
  BY <1>1, <1>4, <1>6, <1>7, Typed, ProcessStep

\* ProbationElapses keeps the invariant.
LEMMA ProbationElapsesInv ==
  ASSUME EngineInv, NEW w \in workers, ProbationElapses(w)
  PROVE  EngineInv'
<1>. DEFINE v == [w EXCEPT !.ripe = TRUE]
<1>1. /\ Alter(w, v) /\ UNCHANGED <<gitVars, evidence, late, receipts, launcher, workVars, faults>>
  BY DEF ProbationElapses
<1>2. w \in WorkerType
  BY Typed
<1>3. v \in WorkerType /\ v.pid = w.pid /\ v.kind = w.kind /\ v.sha = w.sha /\ v.run = w.run
  BY <1>2 DEF WorkerType
<1>. HIDE DEF v
<1>5. Shas' = Shas /\ Extends /\ Reverts' = Reverts
  BY <1>1, Unmoved
<1>6. workers' = {v} /\ WorkersInv'
  BY <1>1, <1>3, <1>5, Typed, AlterKeeps
<1>7. RunsInv'
  BY <1>1, <1>3, <1>5, <1>6, Typed, RunsKept
<1>. QED
  BY <1>1, <1>3, <1>6, <1>7, Typed, ProcessStep DEF workVars

\* PreclaimFailure keeps the invariant.
LEMMA PreclaimFailureInv ==
  ASSUME EngineInv, NEW w \in workers, PreclaimFailure(w)
  PROVE  EngineInv'
<1>1. /\ UNCHANGED <<gitVars, evidence, late, receipts, launcher, workers, running, command>>
      /\ health' = [health EXCEPT !.failure = TRUE, !.stage = TRUE] /\ Disturb
  BY DEF PreclaimFailure
<1>4. health' \in HealthType
  BY <1>1, Typed DEF HealthType
<1>5. Shas' = Shas /\ Extends /\ Reverts' = Reverts
  BY <1>1, Unmoved
<1>6. WorkersInv'
  BY <1>1, <1>5, Typed DEF WorkersInv, AliveAt, Closed, Adopting, RollingBack
<1>7. RunsInv'
  BY <1>1, <1>5, Typed, RunsKept
<1>. QED
  BY <1>1, <1>4, <1>6, <1>7, Typed, Disturbed, ProcessStep

\* What a Worker that may claim runs on: the source of the local head.
LEMMA MayRun ==
  ASSUME EngineInv, NEW w \in workers, w.kind # "unarmed", ClaimsAllowed(w), ~CodeChanged(w)
  PROVE  /\ evidence.phase \notin Closed
         /\ \A c \in Reverts : \A p \in SourcePaths : Of(c) \notin Tree(w.sha)[p]
<1>1. evidence.phase \notin Closed
  <2>1. CASE w.kind \in {"plain", "unarmed"}
    <3>1. launcher.pc = "watch"
      BY <2>1, Typed DEF WorkersInv, AliveAt
    <3>2. launcher.armed
      BY <3>1, Typed DEF WorkersInv, LauncherType
    <3>. QED
      BY <3>1, <3>2, Typed DEF WorkersInv
  <2>2. CASE evidence.phase \in {"ROLLED_BACK", "COMPLETED"}
    BY <2>2 DEF Closed, NonTerminal, Terminal
  <2>. QED
    BY <2>1, <2>2 DEF ClaimsAllowed
<1>2. ASSUME NEW c \in Reverts, NEW p \in SourcePaths PROVE Of(c) \notin Tree(w.sha)[p]
  <2>1. Tree(w.sha)[p] = Tree(local)[p]
    BY DEF CodeChanged, ChangedPaths, SourcePaths
  <2>2. c \in Anc(local) /\ Kind(c) = "revert" /\ local \in Shas
    BY Typed DEF Core, RevertsInv, Reverts, AdoptionTypeOK
  <2>3. Of(c) \notin Tree(local)[p]
    BY <2>2, Typed DEF Core, GraphInv, RevertedGone
  <2>. QED
    BY <2>1, <2>3
<1>. QED
  BY <1>1, <1>2

\* Claim keeps the invariant.
LEMMA ClaimInv ==
  ASSUME EngineInv, NEW w \in workers, Claim(w)
  PROVE  EngineInv'
<1>. DEFINE v == [w EXCEPT !.run = TRUE]
<1>1. /\ Alter(w, v) /\ UNCHANGED <<gitVars, evidence, late, receipts, launcher, faults>>
      /\ health' = [health EXCEPT !.runs = {running'}]
      /\ command < MaxCommands /\ command' = command + 1 /\ running' = command'
      /\ ~CodeChanged(w) /\ ClaimsAllowed(w)
  BY DEF Claim
<1>2. w \in WorkerType
  BY Typed
<1>3. v \in WorkerType /\ v.pid = w.pid /\ v.kind = w.kind /\ v.sha = w.sha
  BY <1>2 DEF WorkerType
<1>4. command' \in 1..MaxCommands
  BY <1>1, Typed, LauncherAssumption
<1>8. {running'} \in SUBSET (1..MaxCommands)
  BY <1>1, <1>4
<1>9. health' \in HealthType
  BY <1>1, <1>8, Typed DEF HealthType
<1>. HIDE DEF v
<1>5. Shas' = Shas /\ Extends /\ Reverts' = Reverts
  BY <1>1, Unmoved
<1>6. workers' = {v} /\ WorkersInv'
  BY <1>1, <1>3, <1>5, Typed, AlterKeeps
<1>7. RunsInv'
  <2>. SUFFICES ASSUME v.kind # "unarmed"
                PROVE  /\ evidence'.phase \notin Closed
                       /\ \A c \in Reverts : \A p \in SourcePaths :
                             commits'[c].of \notin commits'[v.sha].tree[p]
    BY <1>5, <1>6 DEF RunsInv, Of, Tree, Closed, SourcePaths
  <2>1. /\ evidence.phase \notin Closed
        /\ \A c \in Reverts : \A p \in SourcePaths : Of(c) \notin Tree(w.sha)[p]
    BY <1>1, <1>3, MayRun
  <2>. QED
    BY <2>1, <1>1, <1>3 DEF Of, Tree, gitVars
<1>. QED
  BY <1>1, <1>3, <1>4, <1>6, <1>7, <1>9, Typed, ProcessStep

\* Settle keeps the invariant.
LEMMA SettleInv ==
  ASSUME EngineInv, NEW w \in workers, Settle(w)
  PROVE  EngineInv'
<1>1. /\ running' = 0 /\ UNCHANGED <<gitVars, evidence, late, receipts, command, faults>>
      /\ \/ /\ health' = [health EXCEPT !.runs = {}, !.pid = 0, !.failure = TRUE]
            /\ Exit(w, 75)
         \/ /\ health' = [health EXCEPT !.runs = {}]
            /\ Alter(w, [w EXCEPT !.run = FALSE])
            /\ UNCHANGED launcher
  BY DEF Settle
<1>2. w \in WorkerType
  BY Typed
<1>3. Shas' = Shas /\ Extends /\ Reverts' = Reverts
  BY <1>1, Unmoved
<1>4. health' \in HealthType
  BY <1>1, Typed DEF HealthType
<1>5. running' \in 0..MaxCommands
  BY <1>1, LauncherAssumption
<1>6. CASE Exit(w, 75)
  <2>1. /\ workers' = {} /\ WorkersInv' /\ RunsInv' /\ launcher' \in LauncherType
        /\ launcher'.pc = launcher.pc \/ launcher'.pc = "consume"
    BY <1>1, <1>6, Typed, ExitKeeps
  <2>. QED
    BY <2>1, <1>1, <1>4, <1>5, Typed, ProcessStep DEF Adopting, RollingBack
<1>7. CASE Alter(w, [w EXCEPT !.run = FALSE]) /\ UNCHANGED launcher
  <2>. DEFINE v == [w EXCEPT !.run = FALSE]
  <2>1. v \in WorkerType /\ v.pid = w.pid /\ v.kind = w.kind /\ v.sha = w.sha /\ v.run = FALSE
    BY <1>2 DEF WorkerType
  <2>2. Alter(w, v)
    BY <1>7
  <2>. HIDE DEF v
  <2>3. workers' = {v} /\ WorkersInv'
    BY <1>1, <1>3, <1>7, <2>1, <2>2, Typed, AlterKeeps
  <2>4. RunsInv'
    BY <2>1, <2>3 DEF RunsInv
  <2>. QED
    BY <2>1, <2>3, <2>4, <1>1, <1>4, <1>5, <1>7, Typed, ProcessStep
<1>. QED
  BY <1>1, <1>6, <1>7

\* HotRestart keeps the invariant.
LEMMA HotRestartInv ==
  ASSUME EngineInv, NEW w \in workers, HotRestart(w)
  PROVE  EngineInv'
<1>1. /\ UNCHANGED <<gitVars, evidence, late, receipts, running, command, faults>>
      /\ health' = [health EXCEPT !.pid = 0, !.failure = TRUE] /\ Exit(w, 75)
  BY DEF HotRestart
<1>2. health' \in HealthType
  BY <1>1, Typed DEF HealthType
<1>3. /\ workers' = {} /\ WorkersInv' /\ RunsInv' /\ launcher' \in LauncherType
      /\ launcher'.pc = launcher.pc \/ launcher'.pc = "consume"
  BY <1>1, Typed, ExitKeeps
<1>. QED
  BY <1>1, <1>2, <1>3, Typed, ProcessStep DEF Adopting, RollingBack

\* WorkerDies keeps the invariant.
LEMMA WorkerDiesInv ==
  ASSUME EngineInv, NEW w \in workers, WorkerDies(w)
  PROVE  EngineInv'
<1>1. UNCHANGED <<gitVars, evidence, late, receipts, workVars>> /\ Disturb /\ Exit(w, 1)
  BY DEF WorkerDies
<1>3. /\ workers' = {} /\ WorkersInv' /\ RunsInv' /\ launcher' \in LauncherType
      /\ launcher'.pc = launcher.pc \/ launcher'.pc = "consume"
  BY <1>1, Typed, ExitKeeps
<1>. QED
  BY <1>1, <1>3, Typed, Disturbed, ProcessStep DEF Adopting, RollingBack, workVars

\* WorkerPoll keeps the invariant.
LEMMA WorkerPollInv ==
  ASSUME EngineInv, NEW w \in workers, WorkerPoll(w)
  PROVE  EngineInv'
<1>1. /\ UNCHANGED <<commits, remote, plan, evidence, late, receipts, launcher, workers,
                     command, faults>>
      /\ running' = (IF w.run THEN running ELSE 0)
      /\ health' = [health EXCEPT !.beat = w.pid, !.runs = {running'} \ {0}]
      /\ local' = IF local \in Anc(remote) THEN remote ELSE local
  BY DEF WorkerPoll, refresh_active_run_health, Ancestor, Anc
<1>2. /\ w \in WorkerType /\ Core /\ AdoptionTypeOK /\ HandoffTypeOK /\ EffectsInv
      /\ local \in Shas /\ remote \in Shas
  BY Typed DEF AdoptionTypeOK
<1>3. running' \in 0..MaxCommands
  BY <1>1, Typed, LauncherAssumption
<1>4. {running'} \ {0} \in SUBSET (1..MaxCommands)
  BY <1>3, LauncherAssumption
<1>5. health' \in HealthType
  BY <1>1, <1>2, <1>4, Typed DEF HealthType, WorkerType
<1>6. Shas' = Shas /\ Extends /\ Reverts' = Reverts /\ id' = id
  BY <1>1 DEF Shas, Extends, Reverts, Kind, id
<1>7. local' \in Shas /\ local \in Anc(local') /\ remote \in Anc(remote)
  BY <1>1, <1>2 DEF Core, GraphInv, AncestryInv
<1>8. AdoptionTypeOK' /\ HandoffTypeOK'
  BY <1>1, <1>2, <1>6, <1>7 DEF AdoptionTypeOK, HandoffTypeOK
<1>9. Clean(local') /\ Known(local') /\ Clean(remote') /\ Known(remote')
  BY <1>1, <1>2 DEF Core, HeadsInv
<1>10. Core'
  BY <1>1, <1>2, <1>7, <1>8, <1>9, CoreForward
<1>11. EffectsInv'
  <2>1. Anc(local) \subseteq Anc(local')
    BY <1>2, <1>7 DEF Core, GraphInv, AncestryInv
  <2>. QED
    BY <2>1, <1>1, <1>2, <1>6, EffectsKept DEF Anc
<1>12. WorkersInv'
  BY <1>1, <1>6, Typed DEF WorkersInv, AliveAt, Closed, Adopting, RollingBack
<1>13. RunsInv'
  BY <1>1, <1>6, Typed, RunsKept
<1>14. EngineTypeOK'
  BY <1>1, <1>3, <1>5, <1>8, Typed DEF EngineTypeOK
<1>. QED
  BY <1>10, <1>11, <1>12, <1>13, <1>14 DEF EngineInv, Core

-----------------------------------------------------------------------------
\* The Launcher exits and takes every Worker with it.
LEMMA ReturnInv ==
  ASSUME EngineInv, Return1, UNCHANGED <<gitVars, evidence, late, receipts, workVars>>,
         faults' \in 0..MaxFaults
  PROVE  EngineInv'
<1>1. launcher' \in LauncherType /\ launcher'.pc = "down" /\ workers' = {}
  BY DownTyped DEF Return1
<1>2. WorkersInv' /\ RunsInv'
  BY <1>1, NoWorkers DEF Adopting, RollingBack
<1>. QED
  BY <1>1, <1>2, Typed, ProcessStep DEF workVars, Adopting, RollingBack

\* Every way the Launcher may exit.
LEMMA LauncherExits ==
  ASSUME EngineInv, \/ LauncherDies \/ ConsumeBlocked \/ QuiescenceTimeout \/ ProbationTimeout
                    \/ RollbackBlocked \/ RollbackNotReady
  PROVE  EngineInv'
<1>1. CASE LauncherDies
  BY <1>1, Typed, Disturbed, ReturnInv DEF LauncherDies
<1>2. CASE ConsumeBlocked \/ QuiescenceTimeout \/ ProbationTimeout \/ RollbackBlocked
             \/ RollbackNotReady
  <2>1. Return1 /\ UNCHANGED <<gitVars, evidence, late, receipts, workVars>> /\ faults' = faults
    BY <1>2
         DEF ConsumeBlocked, QuiescenceTimeout, ProbationTimeout, RollbackBlocked, RollbackNotReady
  <2>. QED
    BY <2>1, Typed, ReturnInv
<1>. QED
  BY <1>1, <1>2

\* Where no Worker lives.
LEMMA Empty ==
  ASSUME EngineInv,
         \/ launcher.pc \notin {"watch", "consume", "ready", "terminal"}
         \/ launcher.pc = "consume" /\ evidence.phase \notin {"PROBATION", "ROLLBACK_REQUIRED",
              "SUPERSEDED"}
         \/ launcher.pc # "watch" /\ (launcher.repl = 0 \/ launcher.handed)
  PROVE  workers = {}
BY Typed DEF WorkersInv, AliveAt

\* LauncherStart keeps the invariant.
LEMMA LauncherStartInv ==
  ASSUME EngineInv, NEW armed \in BOOLEAN, LauncherStart(armed)
  PROVE  EngineInv'
<1>1. /\ launcher.pc = "down" /\ UNCHANGED <<gitVars, evidence, late, receipts, workers, workVars>>
      /\ launcher' = [Down EXCEPT !.armed = armed, !.exit = 75,
           !.pc = IF armed /\ evidence.phase # "NONE" THEN "consume" ELSE "spawn"]
      /\ Unless(armed)
  BY DEF LauncherStart
<1>2. workers = {}
  BY <1>1, Empty
<1>3. /\ launcher' \in LauncherType /\ launcher'.pc \in {"consume", "spawn"}
      /\ launcher'.armed /\ launcher'.pc = "spawn" => evidence.phase = "NONE"
  BY <1>1 DEF Down, LauncherType, LauncherPcs, Pids
<1>4. faults' \in 0..MaxFaults
  BY <1>1, Typed, Disturbed DEF Unless
<1>5. WorkersInv' /\ RunsInv'
  BY <1>1, <1>2, <1>3, NoWorkers DEF Closed, NonTerminal, Adopting, RollingBack
<1>. QED
  BY <1>1, <1>2, <1>3, <1>4, <1>5, Typed, ProcessStep DEF workVars, Adopting, RollingBack

\* SpawnWorker keeps the invariant.
LEMMA SpawnWorkerInv ==
  ASSUME EngineInv, SpawnWorker
  PROVE  EngineInv'
<1>. DEFINE pid == FreshPid
            kind == IF launcher.armed THEN "plain" ELSE "unarmed"
            v == Worker(pid, kind, 0, local, FALSE)
<1>1. /\ launcher.pc = "spawn" /\ UNCHANGED <<gitVars, evidence, late, receipts, workVars, faults>>
      /\ workers' = workers \cup {v}
      /\ launcher' = [launcher EXCEPT !.pc = "watch", !.proc = pid]
  BY DEF SpawnWorker
<1>2. workers = {}
  BY <1>1, Empty
<1>3. pid \in Pids /\ local \in Shas /\ local \in Nat
  BY <1>2, Typed, FreshPidTyped DEF AdoptionTypeOK, Shas
<1>. HIDE DEF pid
<1>4. kind \in {"plain", "unarmed", "adopt", "rollback"} /\ 0 \in 0..MaxAttempts
  BY AdoptionAssumption
<1>. HIDE DEF kind
<1>5. v \in WorkerType /\ v.pid = pid /\ v.kind = kind /\ v.sha = local /\ v.run = FALSE
  BY <1>3, <1>4 DEF Worker, WorkerType
<1>6. /\ launcher' \in LauncherType /\ launcher'.pc = "watch" /\ launcher'.proc = pid
      /\ launcher'.armed = launcher.armed
  BY <1>1, <1>3, Typed DEF LauncherType, LauncherPcs
<1>7. launcher.armed => evidence.phase \notin Closed
  BY <1>1, Typed DEF WorkersInv
<1>8. ~launcher.armed => v.kind = "unarmed"
  BY <1>5 DEF kind
<1>. HIDE DEF v
<1>9. workers' = {v}
  BY <1>1, <1>2
<1>10. Shas' = Shas
  BY <1>1, Unmoved
<1>11. WorkersInv'
  BY <1>1, <1>3, <1>5, <1>6, <1>7, <1>8, <1>9, <1>10
     DEF WorkersInv, AliveAt, Closed, Adopting, RollingBack
<1>12. RunsInv'
  BY <1>5, <1>9 DEF RunsInv
<1>. QED
  BY <1>1, <1>5, <1>6, <1>9, <1>11, <1>12, Typed, ProcessStep DEF workVars, Adopting, RollingBack

\* ConsumeNothing keeps the invariant.
LEMMA ConsumeNothingInv ==
  ASSUME EngineInv, ConsumeNothing
  PROVE  EngineInv'
<1>1. /\ launcher.pc = "consume" /\ evidence.phase = "NONE" /\ GoTo("spawn")
      /\ UNCHANGED <<gitVars, evidence, late, receipts, workers, workVars, faults>>
  BY DEF ConsumeNothing
<1>2. workers = {}
  BY <1>1, Empty
<1>3. launcher' \in LauncherType /\ launcher'.pc = "spawn"
  BY <1>1, Typed, GoToTyped DEF LauncherPcs
<1>4. WorkersInv' /\ RunsInv'
  BY <1>1, <1>2, <1>3, NoWorkers DEF Closed, NonTerminal, Adopting, RollingBack
<1>. QED
  BY <1>1, <1>3, <1>4, Typed, ProcessStep DEF workVars, Adopting, RollingBack

\* ConsumeTerminal keeps the invariant.
LEMMA ConsumeTerminalInv ==
  ASSUME EngineInv, ConsumeTerminal
  PROVE  EngineInv'
<1>. DEFINE take == launcher.repl # 0 /\ ~launcher.handed
            alive == \E w \in workers : w.pid = launcher.repl
<1>1. /\ \/ launcher.pc = "terminal"
         \/ launcher.pc = "consume" /\ evidence.phase \in Terminal
      /\ UNCHANGED <<gitVars, evidence, late, receipts, workers, workVars, faults>>
  BY DEF ConsumeTerminal
<1>2. \/ ~take /\ launcher' = [launcher EXCEPT !.pc = "spawn"]
      \/ take /\ alive /\ launcher' = [launcher EXCEPT !.pc = "watch", !.proc = launcher.repl,
           !.handed = TRUE]
      \/ take /\ ~alive /\ launcher' = [launcher EXCEPT !.pc = "consume", !.handed = TRUE,
           !.exit = 1]
  BY DEF ConsumeTerminal
<1>3. launcher.armed => evidence.phase \notin Closed
  BY <1>1, Typed DEF WorkersInv, Closed, NonTerminal
<1>4. \A w \in workers : w.pid = launcher.repl /\ w.sha \in Shas
  BY <1>1, Typed DEF WorkersInv, AliveAt
<1>5. Shas' = Shas /\ Extends /\ Reverts' = Reverts
  BY <1>1, Unmoved
<1>6. CASE ~take /\ launcher' = [launcher EXCEPT !.pc = "spawn"]
  <2>1. workers = {}
    BY <1>1, <1>6, Empty
  <2>2. launcher' \in LauncherType /\ launcher'.pc = "spawn" /\ launcher'.armed = launcher.armed
    BY <1>6, Typed DEF LauncherType, LauncherPcs
  <2>3. WorkersInv' /\ RunsInv'
    BY <1>1, <1>3, <2>1, <2>2, NoWorkers DEF Adopting, RollingBack
  <2>. QED
    BY <1>1, <2>2, <2>3, Typed, ProcessStep DEF workVars, Adopting, RollingBack
<1>7. CASE take /\ ~alive /\ launcher' = [launcher EXCEPT !.pc = "consume", !.handed = TRUE,
             !.exit = 1]
  <2>1. workers = {}
    BY <1>4, <1>7
  <2>2. launcher' \in LauncherType /\ launcher'.pc = "consume"
    BY <1>7, Typed DEF LauncherType, LauncherPcs
  <2>3. WorkersInv' /\ RunsInv'
    BY <1>1, <2>1, <2>2, NoWorkers DEF Adopting, RollingBack
  <2>. QED
    BY <1>1, <2>2, <2>3, Typed, ProcessStep DEF workVars, Adopting, RollingBack
<1>8. CASE take /\ alive /\ launcher' = [launcher EXCEPT !.pc = "watch", !.proc = launcher.repl,
             !.handed = TRUE]
  <2>1. launcher.armed
    BY <1>1, <1>8, Typed DEF WorkersInv
  <2>2. /\ launcher' \in LauncherType /\ launcher'.pc = "watch" /\ launcher'.proc = launcher.repl
        /\ launcher'.armed = launcher.armed
    BY <1>8, Typed DEF LauncherType, LauncherPcs
  <2>3. \A w, v \in workers : w = v
    BY Typed DEF WorkersInv
  <2>4. WorkersInv'
    BY <1>1, <1>3, <1>4, <1>5, <2>1, <2>2, <2>3
         DEF WorkersInv, AliveAt, Closed, Adopting, RollingBack
  <2>5. RunsInv'
    BY <1>1, <1>5, Typed, RunsKept
  <2>. QED
    BY <1>1, <2>2, <2>4, <2>5, Typed, ProcessStep DEF workVars, Adopting, RollingBack
<1>. QED
  BY <1>2, <1>6, <1>7, <1>8

\* A transition of the evidence.
LEMMA TransitionIs ==
  ASSUME HandoffTypeOK, NEW from, NEW to \in Phases, Transition(from, to)
  PROVE  /\ HandoffTypeOK' /\ evidence'.phase = to /\ id' = id
         /\ evidence'.rollback = evidence.rollback
         /\ evidence.phase \in from /\ evidence.phase \in NonTerminal /\ evidence.phase # "NONE"
<1>1. /\ evidence.phase \in from /\ evidence.phase \in NonTerminal /\ late' = late
      /\ evidence' = [evidence EXCEPT !.phase = to]
  BY DEF Transition, Current
<1>2. evidence.phase # "NONE"
  BY <1>1 DEF NonTerminal
<1>. QED
  BY <1>1, <1>2 DEF HandoffTypeOK, id

\* A step of the consumer that moves the phase and may start or keep a Worker.
LEMMA PhaseStep ==
  ASSUME EngineInv, UNCHANGED <<gitVars, receipts, workVars>>, HandoffTypeOK', id' = id,
         evidence.phase # "NONE", evidence'.phase # "NONE", evidence'.phase # "ROLLED_BACK",
         evidence.phase \in MayHaveRevert => evidence'.phase \in MayHaveRevert,
         launcher' \in LauncherType, workers' \subseteq WorkerType, faults' \in 0..MaxFaults,
         launcher'.pc \notin Adopting \cup RollingBack,
         WorkersInv', RunsInv'
  PROVE  EngineInv'
<1>1. /\ AdoptionTypeOK /\ Core
  BY Typed
<1>2. AdoptionTypeOK'
  BY <1>1 DEF gitVars, AdoptionTypeOK, Shas
<1>3. Core'
  BY <1>1, <1>2, CoreTransition
<1>4. EffectsInv'
  BY EffectsIdle
<1>5. EngineTypeOK'
  BY <1>2, Typed DEF EngineTypeOK, workVars
<1>. QED
  BY <1>3, <1>4, <1>5 DEF EngineInv, Core

\* Draining and quiescence.
LEMMA ConsumeDrainInv ==
  ASSUME EngineInv, ConsumePrepared \/ ConsumeDraining
  PROVE  EngineInv'
<1>1. /\ launcher.pc = "consume" /\ evidence.phase \in {"PREPARED", "DRAINING"}
      /\ UNCHANGED <<gitVars, receipts, launcher, workers, workVars, faults>>
      /\ \/ Transition({"PREPARED"}, "DRAINING") \/ Transition({"DRAINING"}, "QUIESCED")
  BY DEF ConsumePrepared, ConsumeDraining, Proceed, BeginDraining, RecordWorkerQuiesced
<1>2. workers = {}
  BY <1>1, Empty
<1>3. /\ HandoffTypeOK' /\ evidence'.phase \in {"DRAINING", "QUIESCED"} /\ id' = id
  BY <1>1, Typed, TransitionIs DEF Phases
<1>4. WorkersInv' /\ RunsInv'
  BY <1>1, <1>2, NoWorkers DEF Adopting, RollingBack
<1>. QED
  BY <1>1, <1>3, <1>4, Typed, PhaseStep DEF MayHaveRevert, Adopting, RollingBack

\* A replacement is started while no Worker lives.
LEMMA StartInv ==
  ASSUME EngineInv, workers = {}, NEW kind \in {"adopt", "rollback"}, NEW sha \in Nat,
         NEW sick \in BOOLEAN, StartReplacement(kind, sha, sick), Shas' = Shas, launcher.armed,
         evidence'.phase \in {"PROBATION", "ROLLBACK_REQUIRED", "SUPERSEDED"}
  PROVE  /\ launcher' \in LauncherType /\ workers' \subseteq WorkerType
         /\ launcher'.pc = (IF kind = "rollback" THEN "ready" ELSE "consume")
         /\ WorkersInv' /\ RunsInv'
<1>. DEFINE pid == FreshPid
            v == Worker(pid, kind, id.attempt, local, sick)
<1>1. /\ workers' = workers \cup {v}
      /\ launcher' = [launcher EXCEPT !.repl = pid, !.target = sha, !.handed = FALSE,
                    !.fresh = TRUE, !.pc = IF kind = "rollback" THEN "ready" ELSE "consume"]
  BY DEF StartReplacement
<1>2. pid \in Pids /\ local \in Shas /\ local \in Nat /\ id.attempt \in 0..MaxAttempts
  <2>1. pid \in Pids
    BY Typed, FreshPidTyped
  <2>2. local \in Shas /\ local \in Nat
    BY Typed DEF AdoptionTypeOK, Shas
  <2>3. id.attempt \in 0..MaxAttempts
    BY Typed DEF HandoffTypeOK, id
  <2>. QED
    BY <2>1, <2>2, <2>3
<1>. HIDE DEF pid
<1>3. v \in WorkerType /\ v.pid = pid /\ v.kind = kind /\ v.sha = local /\ v.run = FALSE
  BY <1>2 DEF Worker, WorkerType
<1>. HIDE DEF v
<1>4. /\ launcher' \in LauncherType
      /\ launcher'.pc = (IF kind = "rollback" THEN "ready" ELSE "consume")
      /\ launcher'.armed = launcher.armed
      /\ launcher'.repl = pid /\ launcher'.handed = FALSE
  BY <1>1, <1>2, Typed, StartTyped
<1>5. workers' = {v} /\ launcher'.pc \in {"ready", "consume"} /\ pid # 0
  BY <1>1, <1>2, <1>4 DEF Pids
<1>6. WorkersInv'
  BY <1>2, <1>3, <1>4, <1>5 DEF WorkersInv, AliveAt, Adopting, RollingBack
<1>7. RunsInv'
  BY <1>3, <1>5 DEF RunsInv
<1>. QED
  BY <1>3, <1>4, <1>5, <1>6, <1>7

\* ConsumeAdopted keeps the invariant.
LEMMA ConsumeAdoptedInv ==
  ASSUME EngineInv, NEW sick \in BOOLEAN, ConsumeAdopted(sick)
  PROVE  EngineInv'
<1>1. /\ launcher.pc = "consume" /\ evidence.phase = "ADOPTED" /\ Unless(~sick) /\ launcher.armed
      /\ UNCHANGED <<gitVars, receipts, workVars>>
      /\ \/ RecordWorkerRestart(id.target) /\ StartReplacement("adopt", id.target, sick)
         \/ RecordWorkerRestart(id.target) /\ GoTo("consume") /\ UNCHANGED workers
         \/ Return1 /\ UNCHANGED <<evidence, late>>
  BY DEF ConsumeAdopted, Proceed, Blocked
<1>2. workers = {}
  BY <1>1, Empty
<1>3. faults' \in 0..MaxFaults
  BY <1>1, Typed, Disturbed DEF Unless
<1>4. CASE Return1 /\ UNCHANGED <<evidence, late>>
  BY <1>1, <1>3, <1>4, ReturnInv
<1>5. CASE RecordWorkerRestart(id.target)
  <2>1. HandoffTypeOK' /\ evidence'.phase = "PROBATION" /\ id' = id
    BY <1>5, Typed, TransitionIs DEF RecordWorkerRestart, Phases
  <2>2. CASE GoTo("consume") /\ UNCHANGED workers
    <3>1. launcher' \in LauncherType /\ launcher'.pc = "consume"
      BY <2>2, Typed, GoToTyped DEF LauncherPcs
    <3>2. WorkersInv' /\ RunsInv'
      BY <1>2, <2>2, <3>1, NoWorkers DEF Adopting, RollingBack
    <3>. QED
      BY <1>1, <1>3, <2>1, <2>2, <3>1, <3>2, Typed, PhaseStep
           DEF MayHaveRevert, Adopting, RollingBack
  <2>3. CASE StartReplacement("adopt", id.target, sick)
    <3>1. id.target \in Nat /\ Shas' = Shas
      BY <1>1, Typed, Unmoved DEF HandoffTypeOK, id
    <3>2. /\ launcher' \in LauncherType /\ workers' \subseteq WorkerType
          /\ launcher'.pc = "consume" /\ WorkersInv' /\ RunsInv'
      BY <1>1, <1>2, <2>1, <2>3, <3>1, StartInv
    <3>. QED
      BY <1>1, <1>3, <2>1, <3>2, PhaseStep DEF MayHaveRevert, Adopting, RollingBack
  <2>. QED
    BY <1>1, <1>4, <2>2, <2>3
<1>. QED
  BY <1>1, <1>4, <1>5

\* ResumeProbation keeps the invariant.
LEMMA ResumeProbationInv ==
  ASSUME EngineInv, NEW sick \in BOOLEAN, ResumeProbation(sick)
  PROVE  EngineInv'
<1>1. /\ launcher.pc = "consume" /\ evidence.phase = "PROBATION" /\ Unless(~sick) /\ launcher.armed
      /\ UNCHANGED <<gitVars, receipts, workVars>> /\ launcher.repl = 0
      /\ RecordWorkerRestart(id.target) /\ StartReplacement("adopt", id.target, sick)
  BY DEF ResumeProbation, Proceed, Blocked
<1>2. workers = {}
  BY <1>1, Empty
<1>3. faults' \in 0..MaxFaults
  BY <1>1, Typed, Disturbed DEF Unless
<1>4. HandoffTypeOK' /\ evidence'.phase = "PROBATION" /\ id' = id
  BY <1>1, Typed, TransitionIs DEF RecordWorkerRestart, Phases
<1>5. id.target \in Nat /\ Shas' = Shas
  BY <1>1, Typed, Unmoved DEF HandoffTypeOK, id
<1>6. /\ launcher' \in LauncherType /\ workers' \subseteq WorkerType
      /\ launcher'.pc = "consume" /\ WorkersInv' /\ RunsInv'
  BY <1>1, <1>2, <1>4, <1>5, StartInv
<1>. QED
  BY <1>1, <1>3, <1>4, <1>6, PhaseStep DEF MayHaveRevert, Adopting, RollingBack

\* ObserveHealth keeps the invariant.
LEMMA ObserveHealthInv ==
  ASSUME EngineInv, ObserveHealth
  PROVE  EngineInv'
<1>1. /\ launcher.pc = "consume" /\ evidence.phase = "PROBATION" /\ launcher.armed
      /\ UNCHANGED <<gitVars, receipts, workers, workVars, faults>>
      /\ \/ Transition({"PROBATION"}, "COMPLETED") /\ GoTo("terminal")
         \/ Transition({"ADOPTED", "PROBATION"}, "ROLLBACK_REQUIRED") /\ UNCHANGED launcher
         \/ launcher' = [launcher EXCEPT !.fresh = FALSE] /\ UNCHANGED <<evidence, late>>
  BY DEF ObserveHealth, Proceed, Blocked, MarkHealthReady, RequestRollback
<1>2. Shas' = Shas /\ Extends /\ Reverts' = Reverts
  BY <1>1, Unmoved
<1>3. \A w \in workers : /\ w.pid = launcher.repl /\ ~launcher.handed
                         /\ w.kind \in {"adopt", "rollback"} /\ w.sha \in Shas
  BY <1>1, Typed DEF WorkersInv, AliveAt
<1>4. (\A w, v \in workers : w = v) /\ (launcher.repl = 0 => workers = {})
  BY <1>1, Typed DEF WorkersInv
<1>5. \A w \in workers : w.kind # "unarmed" => ~w.run
  BY <1>1, Typed DEF RunsInv, Closed, NonTerminal, Phases, Terminal
<1>6. RunsInv'
  BY <1>1, <1>5 DEF RunsInv
<1>7. CASE Transition({"PROBATION"}, "COMPLETED") /\ GoTo("terminal")
  <2>1. HandoffTypeOK' /\ evidence'.phase = "COMPLETED" /\ id' = id
    BY <1>7, Typed, TransitionIs DEF Phases
  <2>2. /\ launcher' \in LauncherType /\ launcher'.pc = "terminal"
        /\ launcher'.armed = launcher.armed
        /\ launcher'.repl = launcher.repl /\ launcher'.handed = launcher.handed
    BY <1>7, Typed, GoToTyped DEF LauncherPcs
  <2>3. WorkersInv'
    BY <1>1, <1>2, <1>3, <1>4, <2>1, <2>2
       DEF WorkersInv, AliveAt, Closed, NonTerminal, Terminal, Adopting, RollingBack
  <2>. QED
    BY <1>1, <1>6, <2>1, <2>2, <2>3, Typed, PhaseStep DEF MayHaveRevert, Adopting, RollingBack
<1>8. CASE Transition({"ADOPTED", "PROBATION"}, "ROLLBACK_REQUIRED") /\ UNCHANGED launcher
  <2>1. HandoffTypeOK' /\ evidence'.phase = "ROLLBACK_REQUIRED" /\ id' = id
    BY <1>8, Typed, TransitionIs DEF Phases
  <2>3. WorkersInv'
    BY <1>1, <1>2, <1>3, <1>4, <1>8, <2>1 DEF WorkersInv, AliveAt, Adopting, RollingBack
  <2>. QED
    BY <1>1, <1>6, <1>8, <2>1, <2>3, Typed, PhaseStep DEF MayHaveRevert, Adopting, RollingBack
<1>9. CASE launcher' = [launcher EXCEPT !.fresh = FALSE] /\ UNCHANGED <<evidence, late>>
  <2>2. /\ launcher' \in LauncherType /\ launcher'.pc = "consume"
        /\ launcher'.armed = launcher.armed
        /\ launcher'.repl = launcher.repl /\ launcher'.handed = launcher.handed
    BY <1>1, <1>9, Typed DEF LauncherType
  <2>3. WorkersInv'
    BY <1>1, <1>2, <1>3, <1>4, <1>9, <2>2 DEF WorkersInv, AliveAt, Adopting, RollingBack
  <2>. QED
    BY <1>1, <1>6, <1>9, <2>2, <2>3, Typed, ProcessStep DEF workVars
<1>. QED
  BY <1>1, <1>7, <1>8, <1>9

\* Where the attempt stands, whenever there is one.
LEMMA Standing ==
  ASSUME EngineInv, evidence.phase # "NONE"
  PROVE  /\ id.main \in Shas /\ id.target \in Shas /\ id.main \in Anc(id.target)
         /\ id.attempt \in Attempts /\ id.target \in Nat
         /\ Anc(id.main) \subseteq Anc(id.target)
         /\ local \in Shas /\ remote \in Shas
         /\ local \in Anc(local) /\ remote \in Anc(remote) /\ id.target \in Anc(id.target)
<1>1. /\ id.main \in Shas /\ id.target \in Shas /\ id.main \in Anc(id.target)
      /\ id.attempt \in Attempts
  BY Typed DEF Core, IdentityInv
<1>2. local \in Shas /\ remote \in Shas
  BY Typed DEF AdoptionTypeOK
<1>3. id.target \in Nat
  BY <1>1 DEF Shas
<1>4. AncestryInv
  BY Typed DEF Core, GraphInv
<1>. QED
  BY <1>1, <1>2, <1>3, <1>4 DEF AncestryInv

\* A step in which the head moves and no Worker lives.
LEMMA HeadStep ==
  ASSUME EngineInv, UNCHANGED <<commits, plan, evidence, late, receipts, workVars, faults>>,
         workers' = {}, launcher' \in LauncherType, local' \in Shas, remote' \in Shas,
         local \in Anc(local'), remote \in Anc(remote'),
         Clean(local'), Clean(remote'), Known(local'), Known(remote'),
         launcher'.pc \in {"terminal"} \cup Adopting \cup RollingBack => launcher'.armed,
         launcher'.pc \notin {"spawn", "watch", "terminal"},
         EffectsInv'
  PROVE  EngineInv'
<1>1. AdoptionTypeOK' /\ HandoffTypeOK'
  BY Typed DEF AdoptionTypeOK, HandoffTypeOK, Shas
<1>2. Core'
  BY <1>1, Typed, CoreForward
<1>3. WorkersInv' /\ RunsInv'
  BY NoWorkers
<1>4. EngineTypeOK'
  BY <1>1, Typed DEF EngineTypeOK, workVars
<1>. QED
  BY <1>2, <1>3, <1>4 DEF EngineInv, Core

\* Neither head carries a protected edit of a Candidate.
LEMMA HeadsClean ==
  ASSUME EngineInv
  PROVE  Clean(local) /\ Clean(remote) /\ Known(local) /\ Known(remote)
BY Typed DEF Core, HeadsInv

\* merge --ff-only: what is adopted passed the protected-path check.
LEMMA AdoptForwardInv ==
  ASSUME EngineInv, AdoptForward
  PROVE  EngineInv'
<1>1. /\ launcher.pc = "consume" /\ evidence.phase = "QUIESCED" /\ launcher.armed
      /\ UNCHANGED <<commits, remote, plan, evidence, late, receipts, workVars, faults>>
      /\ ~TouchesProtected(id.main, id.target)
      /\ \/ local = id.main /\ local' = id.target /\ GoTo("receipt") /\ UNCHANGED workers
         \/ local = id.target /\ GoTo("push") /\ UNCHANGED <<local, workers>>
         \/ UNCHANGED local /\ Return1
  BY DEF AdoptForward, Proceed, Blocked, ValidIdentity
<1>2. workers = {} /\ evidence.phase # "NONE"
  BY <1>1, Empty
<1>3. CASE UNCHANGED local /\ Return1
  BY <1>1, <1>3, Typed, ReturnInv DEF gitVars
<1>4. CASE /\ local' = id.target /\ local \in {id.main, id.target}
           /\ GoTo("receipt") \/ GoTo("push")
           /\ UNCHANGED workers
  <2>1. /\ launcher' \in LauncherType /\ launcher'.pc \in {"receipt", "push"} /\ launcher'.armed
    BY <1>1, <1>4, Typed, GoToTyped DEF LauncherPcs
  <2>2. local \in Anc(local') /\ local' \in Shas /\ id.target \in Anc(local')
    BY <1>2, <1>4, Standing
  <2>3. Clean(id.target)
    <3>1. \A p \in Paths : Category[p] \in Blocking => Tree(id.main)[p] = Tree(id.target)[p]
      BY <1>1 DEF TouchesProtected, ChangedPaths
    <3>2. Clean(id.main)
      BY <1>2, Typed DEF Core, IdentityInv
    <3>. QED
      BY <3>1, <3>2 DEF Clean
  <2>4. Known(id.target)
    <3>1. CASE local = id.target
      BY <3>1, HeadsClean
    <3>2. CASE local = id.main
      <4>1. AddsOnly(id.main, id.target, id.attempt) /\ id.attempt \in Attempts
        BY <1>2, Typed DEF Core, IdentityInv
      <4>2. id.attempt \in 1..id.attempt
        BY <4>1, AdoptionAssumption DEF Attempts
      <4>3. Known(id.main)
        BY <3>2, HeadsClean
      <4>. QED
        BY <4>1, <4>2, <4>3 DEF Known, AddsOnly
    <3>. QED
      BY <3>1, <3>2, <1>4
  <2>5. EffectsInv'
    <3>1. id' = id /\ Receipt' = Receipt
      BY <1>1 DEF id, Receipt
    <3>. QED
      BY <1>1, <2>1, <2>2, <3>1 DEF EffectsInv, Adopting, RollingBack, Anc
  <2>. QED
    BY <1>1, <1>2, <1>4, <2>1, <2>2, <2>3, <2>4, <2>5, HeadsClean, Standing, HeadStep
<1>. QED
  BY <1>1, <1>3, <1>4

\* A receipt is written while no Worker lives.
LEMMA ReceiptStep ==
  ASSUME EngineInv, UNCHANGED <<gitVars, workVars, faults>>, workers' = {}, HandoffTypeOK',
         launcher' \in LauncherType, id' = id,
         evidence.phase # "NONE", evidence'.phase # "NONE",
         evidence.phase \in MayHaveRevert => evidence'.phase \in MayHaveRevert,
         NEW r \in ReceiptType, receipts' = [receipts EXCEPT ![id.attempt] = r],
         r.op = "rollback" => r.sha \in Reverts /\ r.sha \notin Anc(id.main),
         launcher'.pc \in {"terminal"} \cup Adopting \cup RollingBack => launcher'.armed,
         launcher'.pc \notin {"spawn", "watch", "terminal"},
         EffectsInv'
  PROVE  EngineInv'
<1>1. AdoptionTypeOK'
  BY Typed DEF AdoptionTypeOK, Shas, gitVars
<1>2. Core'
  BY <1>1, Typed, CoreReceipts
<1>3. WorkersInv' /\ RunsInv'
  BY NoWorkers
<1>4. receipts' \in [Attempts -> ReceiptType]
  BY Typed
<1>5. EngineTypeOK'
  BY <1>1, <1>4, Typed DEF EngineTypeOK, workVars
<1>. QED
  BY <1>2, <1>3, <1>5 DEF EngineInv, Core

\* The adoption receipt.
LEMMA AdoptReceiptInv ==
  ASSUME EngineInv, AdoptReceipt
  PROVE  EngineInv'
<1>. DEFINE r == [op |-> "adopt", sha |-> id.target]
<1>1. /\ launcher.pc = "receipt" /\ GoTo("push")
      /\ receipts' = [receipts EXCEPT ![id.attempt] = r]
      /\ UNCHANGED <<gitVars, evidence, late, workers, workVars, faults>>
  BY DEF AdoptReceipt
<1>2. workers = {} /\ evidence.phase \in {"QUIESCED", "SUPERSEDED"} /\ id.target \in Anc(local)
        /\ launcher.armed
  BY <1>1, Empty, Typed DEF EffectsInv, WorkersInv, Adopting
<1>3. /\ launcher' \in LauncherType /\ launcher'.pc = "push" /\ launcher'.armed
  BY <1>1, <1>2, Typed, GoToTyped DEF LauncherPcs
<1>4. r \in ReceiptType /\ r.op = "adopt"
  BY <1>2, Standing DEF ReceiptType
<1>. HIDE DEF r
<1>5. id' = id /\ HandoffTypeOK'
  BY <1>1, Typed DEF id, HandoffTypeOK
<1>6. EffectsInv'
  BY <1>1, <1>2, <1>3, <1>5, Typed DEF EffectsInv, Adopting, RollingBack, Anc, gitVars
<1>. QED
  BY <1>1, <1>2, <1>3, <1>4, <1>5, <1>6, ReceiptStep DEF MayHaveRevert

\* The adoption is recorded in the evidence.
LEMMA AdoptMarkInv ==
  ASSUME EngineInv, AdoptMark
  PROVE  EngineInv'
<1>. DEFINE r == [op |-> "adopt", sha |-> id.target]
<1>1. /\ launcher.pc = "mark"
      /\ receipts' = [receipts EXCEPT ![id.attempt] = r]
      /\ UNCHANGED <<gitVars, workVars, faults>>
      /\ \/ Transition({"QUIESCED"}, "ADOPTED") /\ GoTo("consume") /\ UNCHANGED workers
         \/ Return1 /\ UNCHANGED <<evidence, late>>
  BY DEF AdoptMark, MarkAdopted
<1>2. workers = {} /\ evidence.phase \in {"QUIESCED", "SUPERSEDED"} /\ evidence.phase # "NONE"
  BY <1>1, Empty, Typed DEF EffectsInv, Adopting
<1>4. r \in ReceiptType /\ r.op = "adopt"
  BY <1>2, Standing DEF ReceiptType
<1>. HIDE DEF r
<1>5. CASE Transition({"QUIESCED"}, "ADOPTED") /\ GoTo("consume") /\ UNCHANGED workers
  <2>1. HandoffTypeOK' /\ evidence'.phase = "ADOPTED" /\ id' = id /\ evidence.phase = "QUIESCED"
    BY <1>5, Typed, TransitionIs DEF Phases
  <2>2. launcher' \in LauncherType /\ launcher'.pc = "consume"
    BY <1>5, Typed, GoToTyped DEF LauncherPcs
  <2>3. EffectsInv'
    BY <2>1, <2>2, EffectsIdle DEF Adopting, RollingBack
  <2>. QED
    BY <1>1, <1>2, <1>4, <1>5, <2>1, <2>2, <2>3, ReceiptStep
         DEF MayHaveRevert, Adopting, RollingBack
<1>6. CASE Return1 /\ UNCHANGED <<evidence, late>>
  <2>1. launcher' \in LauncherType /\ launcher'.pc = "down" /\ workers' = {}
    BY <1>6, DownTyped DEF Return1
  <2>2. id' = id /\ HandoffTypeOK'
    BY <1>6, Typed DEF id, HandoffTypeOK
  <2>3. EffectsInv'
    BY <1>2, <1>6, <2>1, EffectsIdle DEF Adopting, RollingBack
  <2>. QED
    BY <1>1, <1>2, <1>4, <1>6, <2>1, <2>2, <2>3, ReceiptStep
         DEF MayHaveRevert, Adopting, RollingBack
<1>. QED
  BY <1>1, <1>5, <1>6

\* A push of the local head from an ancestor of it.
LEMMA EnsureRemoteInv ==
  ASSUME EngineInv, NEW expected \in Anc(local), NEW base \in Anc(local),
           NEW next \in {"mark", "rstart"},
         EnsureRemoteAt(expected, base, next), workers = {}, launcher.armed,
         UNCHANGED <<commits, local, plan, evidence, late, receipts, workVars, faults>>,
         expected \in Anc(expected),
         evidence.phase \in IF next = "mark" THEN {"QUIESCED", "SUPERSEDED"}
                            ELSE {"ROLLBACK_REQUIRED", "SUPERSEDED"},
         next = "mark" => expected = id.target,
         next = "rstart" => Receipt.op = "rollback" /\ expected = Receipt.sha
  PROVE  EngineInv' /\ remote \in Anc(remote')
<1>1. \/ remote = expected /\ GoTo(next) /\ UNCHANGED <<remote, workers>>
      \/ remote = base /\ remote' = local /\ local = expected /\ GoTo(next) /\ UNCHANGED workers
      \/ remote = base /\ remote' = local /\ Return1
      \/ Return1 /\ UNCHANGED remote
  BY DEF EnsureRemoteAt
<1>2. /\ evidence.phase # "NONE" /\ evidence.phase # "ROLLED_BACK"
      /\ local \in Shas /\ remote \in Shas /\ local \in Anc(local) /\ remote \in Anc(remote)
  BY Standing
<1>3. remote' \in Shas /\ remote \in Anc(remote') /\ Clean(remote') /\ Known(remote')
  BY <1>1, <1>2, HeadsClean
<1>4. CASE Return1
  <2>1. launcher' \in LauncherType /\ launcher'.pc = "down" /\ workers' = {}
    BY <1>4, DownTyped DEF Return1
  <2>2. EffectsInv'
    BY <1>2, <2>1, EffectsIdle DEF Adopting, RollingBack
  <2>. QED
    BY <1>2, <1>3, <2>1, <2>2, HeadsClean, HeadStep DEF Adopting, RollingBack
<1>5. CASE GoTo(next) /\ UNCHANGED workers /\ remote' = expected
  <2>1. launcher' \in LauncherType /\ launcher'.pc = next /\ launcher'.armed
    BY <1>5, Typed, GoToTyped DEF LauncherPcs
  <2>2. id' = id /\ Receipt' = Receipt
    BY DEF id, Receipt
  <2>3. EffectsInv'
    <3>1. CASE next = "mark"
      BY <1>2, <2>1, <2>2, <3>1 DEF EffectsInv, Adopting, RollingBack, Anc
    <3>2. CASE next = "rstart"
      BY <1>2, <1>5, <2>1, <2>2, <3>2 DEF EffectsInv, Adopting, RollingBack, Anc
    <3>. QED
      BY <3>1, <3>2
  <2>. QED
    BY <1>2, <1>3, <1>5, <2>1, <2>3, HeadsClean, HeadStep DEF Adopting, RollingBack
<1>. QED
  BY <1>1, <1>3, <1>4, <1>5

\* The adopted target is pushed from the main it was planned on.
LEMMA AdoptPushInv ==
  ASSUME EngineInv, AdoptPush
  PROVE  EngineInv' /\ remote \in Anc(remote')
<1>1. /\ launcher.pc = "push" /\ EnsureRemoteAt(id.target, id.main, "mark")
      /\ UNCHANGED <<commits, local, plan, evidence, late, receipts, workVars, faults>>
  BY DEF AdoptPush
<1>2. /\ workers = {} /\ launcher.armed /\ evidence.phase \in {"QUIESCED", "SUPERSEDED"}
      /\ id.target \in Anc(local)
  BY <1>1, Empty, Typed DEF EffectsInv, WorkersInv, Adopting
<1>3. id.main \in Anc(local) /\ id.target \in Anc(id.target)
  <2>1. id.main \in Anc(id.target) /\ local \in Shas /\ id.target \in Anc(id.target)
    BY <1>2, Standing
  <2>2. AncestryInv
    BY Typed DEF Core, GraphInv
  <2>. QED
    BY <2>1, <2>2, <1>2, AncTrans
<1>. QED
  BY <1>1, <1>2, <1>3, EnsureRemoteInv

\* The forward revert, with the replacement stopped first.
LEMMA RollbackForwardInv ==
  ASSUME EngineInv, RollbackForward
  PROVE  EngineInv'
<1>1. /\ launcher.pc = "consume" /\ evidence.phase = "ROLLBACK_REQUIRED" /\ launcher.armed
      /\ workers' = {w \in workers : w.pid # launcher.repl \/ launcher.handed}
      /\ UNCHANGED <<remote, plan, evidence, late, receipts, workVars, faults>>
      /\ GoTo("rreceipt")
      /\ \/ ExistingRollback # 0 /\ UNCHANGED <<commits, local>>
         \/ /\ ExistingRollback = 0
            /\ PostHeadSafe(id.target, local)
            /\ commits' = Append(commits, Commit({local}, RevertTree(local),
                               ChangedPaths(id.main, id.target), "revert", id.attempt))
            /\ local' = Len(commits')
  BY DEF RollbackForward, Proceed, Blocked
<1>2. workers' = {}
  BY <1>1, Typed DEF WorkersInv, AliveAt
<1>3. launcher' \in LauncherType /\ launcher'.pc = "rreceipt" /\ launcher'.armed
  BY <1>1, Typed, GoToTyped DEF LauncherPcs
<1>4. WorkersInv' /\ RunsInv'
  BY <1>2, <1>3, NoWorkers
<1>5. HandoffTypeOK' /\ id' = id
  BY <1>1, Typed DEF HandoffTypeOK, id
<1>6. Core' /\ \E c \in Reverts' : c \notin Anc(id.main)'
  <2>1. CASE ExistingRollback # 0 /\ UNCHANGED <<commits, local>>
    <3>1. AdoptionTypeOK' /\ Reverts' = Reverts
      BY <1>1, <2>1, Typed DEF AdoptionTypeOK, Shas, Reverts, Kind
    <3>2. Core'
      BY <1>1, <1>5, <2>1, <3>1, Typed, CoreFrame DEF gitVars
    <3>3. ExistingRollback \in Reverts /\ ExistingRollback \notin Anc(id.main)
      BY <1>1, <2>1, Typed, ExistingRollbackIs
    <3>4. Anc(id.main)' = Anc(id.main)
      BY <1>5, <2>1 DEF Anc
    <3>. QED
      BY <3>1, <3>2, <3>3, <3>4
  <2>2. CASE ExistingRollback = 0 /\ PostHeadSafe(id.target, local)
             /\ commits' = Append(commits, Commit({local}, RevertTree(local),
                               ChangedPaths(id.main, id.target), "revert", id.attempt))
             /\ local' = Len(commits')
    <3>1. Core' /\ local' \in Reverts' /\ local' \notin Anc(id.main)'
      BY <1>1, <1>5, <2>2, Typed, RevertCore
    <3>. QED
      BY <3>1
  <2>. QED
    BY <1>1, <2>1, <2>2
<1>7. EffectsInv'
  BY <1>1, <1>3, <1>6 DEF EffectsInv, Adopting, RollingBack
<1>8. EngineTypeOK'
  BY <1>1, <1>2, <1>3, <1>6, Typed DEF EngineTypeOK, Core, workVars
<1>. QED
  BY <1>4, <1>6, <1>7, <1>8 DEF EngineInv, Core

\* The receipt names the revert of the current attempt.
LEMMA RollbackReceiptInv ==
  ASSUME EngineInv, RollbackReceipt
  PROVE  EngineInv'
<1>. DEFINE r == [op |-> "rollback", sha |-> ExistingRollback]
<1>1. /\ launcher.pc = "rreceipt"
      /\ UNCHANGED <<gitVars, evidence, late, workVars, faults>>
      /\ \/ receipts' = [receipts EXCEPT ![id.attempt] = r] /\ GoTo("rpush") /\ UNCHANGED workers
         \/ Return1 /\ UNCHANGED receipts
  BY DEF RollbackReceipt
<1>2. /\ workers = {} /\ evidence.phase \in {"ROLLBACK_REQUIRED", "SUPERSEDED"} /\ launcher.armed
      /\ \E c \in Reverts : c \notin Anc(id.main)
  BY <1>1, Empty, Typed DEF EffectsInv, WorkersInv, RollingBack
<1>3. CASE Return1 /\ UNCHANGED receipts
  BY <1>1, <1>3, Typed, ReturnInv
<1>4. CASE receipts' = [receipts EXCEPT ![id.attempt] = r] /\ GoTo("rpush") /\ UNCHANGED workers
  <2>1. ExistingRollback \in Reverts /\ ExistingRollback \notin Anc(id.main)
          /\ ExistingRollback \in Nat
    <3>1. PICK c \in Reverts : c \notin Anc(id.main)
      BY <1>2
    <3>2. c \in Anc(local) /\ id.target \in Anc(c) /\ local \in Shas /\ AncestryInv
      BY <3>1, Typed DEF Core, RevertsInv, CurrentRevert, AdoptionTypeOK, GraphInv
    <3>3. id.target \in Anc(local)
      BY <3>2, AncTrans
    <3>. QED
      BY <1>2, <3>1, <3>3, Typed, ExistingRollbackIs
  <2>2. r \in ReceiptType /\ r.op = "rollback" /\ r.sha = ExistingRollback
    BY <2>1 DEF ReceiptType
  <2>. HIDE DEF r
  <2>3. /\ launcher' \in LauncherType /\ launcher'.pc = "rpush" /\ launcher'.armed
    BY <1>2, <1>4, Typed, GoToTyped DEF LauncherPcs
  <2>4. id' = id /\ HandoffTypeOK'
    BY <1>1, Typed DEF id, HandoffTypeOK
  <2>5. Receipt' = r
    BY <1>2, <1>4, <2>4, Standing, Typed DEF Receipt
  <2>6. EffectsInv'
    BY <1>1, <1>2, <2>2, <2>3, <2>5 DEF EffectsInv, Adopting, RollingBack
  <2>. QED
    BY <1>1, <1>2, <1>4, <2>1, <2>2, <2>3, <2>4, <2>6, ReceiptStep DEF MayHaveRevert
<1>. QED
  BY <1>1, <1>3, <1>4

\* The revert is pushed from its one parent.
LEMMA RollbackPushInv ==
  ASSUME EngineInv, RollbackPush
  PROVE  EngineInv' /\ remote \in Anc(remote')
<1>. DEFINE er == ExistingRollback
<1>1. /\ launcher.pc = "rpush" /\ EnsureRemoteAt(er, Parent(er), "rstart")
      /\ UNCHANGED <<commits, local, plan, evidence, late, receipts, workVars, faults>>
  BY DEF RollbackPush
<1>2. /\ workers = {} /\ launcher.armed /\ evidence.phase \in {"ROLLBACK_REQUIRED", "SUPERSEDED"}
      /\ Receipt.op = "rollback"
  BY <1>1, Empty, Typed DEF EffectsInv, WorkersInv, RollingBack
<1>3. er \in Reverts /\ er = Receipt.sha
  BY <1>2, Typed, ExistingRollbackIs
<1>. HIDE DEF er
<1>4. /\ er \in Shas /\ er \in Anc(local) /\ local \in Shas /\ AncestryInv
      /\ \E d \in Anc(er) \ {er} : Anc(er) = Anc(d) \cup {er}
  BY <1>3, Typed DEF Core, RevertsInv, Reverts, AdoptionTypeOK, GraphInv
<1>5. Parent(er) \in Anc(er)
  BY <1>4 DEF Parent, Anc
<1>6. Parent(er) \in Anc(local) /\ er \in Anc(er)
  BY <1>4, <1>5, AncTrans DEF AncestryInv
<1>. QED
  BY <1>1, <1>2, <1>3, <1>4, <1>6, EnsureRemoteInv

\* The known-good Worker starts on the pushed revert.
LEMMA RollbackStartInv ==
  ASSUME EngineInv, NEW sick \in BOOLEAN, RollbackStart(sick)
  PROVE  EngineInv'
<1>1. /\ launcher.pc = "rstart" /\ UNCHANGED <<gitVars, evidence, late, receipts, workVars>>
      /\ StartReplacement("rollback", ExistingRollback, sick) /\ Unless(~sick)
  BY DEF RollbackStart
<1>2. /\ workers = {} /\ launcher.armed /\ evidence.phase \in {"ROLLBACK_REQUIRED", "SUPERSEDED"}
      /\ Receipt.op = "rollback" /\ Receipt.sha \in Anc(remote)
  BY <1>1, Empty, Typed DEF EffectsInv, WorkersInv, RollingBack
<1>3. ExistingRollback \in Nat /\ Shas' = Shas
  BY <1>1, <1>2, Typed, ExistingRollbackIs, Unmoved
<1>4. faults' \in 0..MaxFaults
  BY <1>1, Typed, Disturbed DEF Unless
<1>5. /\ launcher' \in LauncherType /\ workers' \subseteq WorkerType
      /\ launcher'.pc = "ready" /\ WorkersInv' /\ RunsInv'
  BY <1>1, <1>2, <1>3, StartInv
<1>6. AdoptionTypeOK' /\ HandoffTypeOK'
  BY <1>1, Typed DEF AdoptionTypeOK, HandoffTypeOK, Shas, gitVars
<1>7. Core'
  BY <1>1, <1>6, Typed, CoreFrame
<1>8. EffectsInv'
  <2>1. id' = id /\ Receipt' = Receipt
    BY <1>1 DEF id, Receipt
  <2>. QED
    BY <1>1, <1>2, <1>5, <2>1 DEF EffectsInv, Adopting, RollingBack, Anc, gitVars
<1>9. EngineTypeOK'
  BY <1>1, <1>4, <1>5, <1>6, Typed DEF EngineTypeOK, workVars
<1>. QED
  BY <1>5, <1>7, <1>8, <1>9 DEF EngineInv, Core

\* The verdict names that revert.
LEMMA RollbackDoneInv ==
  ASSUME EngineInv, RollbackDone
  PROVE  EngineInv'
<1>1. /\ launcher.pc = "ready" /\ UNCHANGED <<gitVars, receipts, workVars, faults>>
      /\ \/ /\ MarkForwardRollback(ExistingRollback) /\ GoTo("terminal") /\ UNCHANGED workers
         \/ Return1 /\ UNCHANGED <<evidence, late>>
  BY DEF RollbackDone
<1>2. /\ launcher.armed /\ evidence.phase \in {"ROLLBACK_REQUIRED", "SUPERSEDED"}
      /\ Receipt.op = "rollback" /\ Receipt.sha \in Anc(remote)
  BY <1>1, Typed DEF EffectsInv, WorkersInv, RollingBack
<1>3. CASE Return1 /\ UNCHANGED <<evidence, late>>
  BY <1>1, <1>3, Typed, ReturnInv
<1>4. CASE MarkForwardRollback(ExistingRollback) /\ GoTo("terminal") /\ UNCHANGED workers
  <2>1. /\ ExistingRollback \in Reverts /\ ExistingRollback \notin Anc(id.main)
        /\ ExistingRollback = Receipt.sha /\ ExistingRollback \in Nat
    BY <1>2, Typed, ExistingRollbackIs
  <2>2. /\ evidence' = [evidence EXCEPT !.phase = "ROLLED_BACK", !.rollback = ExistingRollback]
        /\ late' = late
    BY <1>4 DEF MarkForwardRollback
  <2>3. /\ HandoffTypeOK' /\ evidence'.phase = "ROLLED_BACK" /\ id' = id
        /\ evidence'.rollback = ExistingRollback
    BY <2>1, <2>2, Typed DEF HandoffTypeOK, Phases, id
  <2>4. /\ launcher' \in LauncherType /\ launcher'.pc = "terminal"
        /\ launcher'.armed = launcher.armed
        /\ launcher'.repl = launcher.repl /\ launcher'.handed = launcher.handed
    BY <1>4, Typed, GoToTyped DEF LauncherPcs
  <2>5. AdoptionTypeOK' /\ Shas' = Shas /\ Reverts' = Reverts /\ Extends
    BY <1>1, Typed, Unmoved DEF AdoptionTypeOK, gitVars
  <2>6. Core'
    BY <1>1, <1>2, <2>3, <2>5, Typed, CoreTransition DEF MayHaveRevert
  <2>7. EffectsInv'
    BY <1>1, <1>2, <2>1, <2>3, <2>4, <2>5 DEF EffectsInv, Adopting, RollingBack, Anc, gitVars
  <2>8. WorkersInv'
    <3>1. \A w \in workers : /\ w.pid = launcher.repl /\ ~launcher.handed
                             /\ w.kind \in {"adopt", "rollback"} /\ w.sha \in Shas
      BY <1>1, Typed DEF WorkersInv, AliveAt
    <3>2. (\A w, v \in workers : w = v) /\ (launcher.repl = 0 => workers = {})
      BY <1>1, Typed DEF WorkersInv
    <3>. QED
      BY <1>2, <1>4, <2>3, <2>4, <2>5, <3>1, <3>2
         DEF WorkersInv, AliveAt, Closed, NonTerminal, Terminal, Adopting, RollingBack
  <2>9. RunsInv'
    BY <1>4, <2>3, <2>5, Typed, RunsKept DEF Closed, NonTerminal, Terminal
  <2>10. EngineTypeOK'
    BY <1>1, <1>4, <2>3, <2>4, <2>5, Typed DEF EngineTypeOK, workVars
  <2>. QED
    BY <2>6, <2>7, <2>8, <2>9, <2>10 DEF EngineInv, Core
<1>. QED
  BY <1>1, <1>3, <1>4

-----------------------------------------------------------------------------
\* The outer authority and others.
LEMMA OutsideStep ==
  ASSUME EngineInv, Core', Extends, Reverts' = Reverts, Outside,
           UNCHANGED <<evidence, late, local>>,
         remote \in commits'[remote'].anc, faults' \in 0..MaxFaults
  PROVE  EngineInv'
<1>1. UNCHANGED <<receipts, launcher, workers, workVars>>
  BY DEF Outside
<1>2. /\ local \in Shas /\ remote' \in Shas' /\ commits'[local].anc = Anc(local) /\ id' = id
      /\ commits'[remote].anc = Anc(remote)
  BY Typed DEF Core, AdoptionTypeOK, Extends, Anc, id
<1>3. Anc(remote) \subseteq commits'[remote'].anc
  BY <1>2 DEF Core, GraphInv, AncestryInv, Anc
<1>4. EffectsInv'
  BY <1>1, <1>2, <1>3, Typed, EffectsKept
<1>5. WorkersInv'
  <2>1. Shas \subseteq Shas'
    BY DEF Extends
  <2>. QED
    BY <1>1, <2>1, Typed DEF WorkersInv, AliveAt, Closed, Adopting, RollingBack
<1>6. RunsInv'
  BY <1>1, Typed, RunsKept
<1>7. EngineTypeOK'
  BY <1>1, Typed DEF EngineTypeOK, Core, workVars
<1>. QED
  BY <1>4, <1>5, <1>6, <1>7 DEF EngineInv, Core

\* A remote head that stays is its own ancestor.
LEMMA RemoteStays ==
  ASSUME Core', UNCHANGED remote
  PROVE  remote \in commits'[remote'].anc
BY DEF Core, GraphInv, AncestryInv, AdoptionTypeOK, Anc

\* The outer authority only adds commits and leaves both heads alone.
LEMMA PlanningInv ==
  ASSUME EngineInv,
         \/ \E p \in CandidatePaths, boot \in {1, remote} :
              Planning(FreezeCandidate(p, boot)) /\ UNCHANGED faults
         \/ Planning(RevalidateMain) /\ UNCHANGED faults
         \/ \E clash \in {{}, KernelPaths \cup CleanPaths}, proven, superset \in BOOLEAN :
              Planning(PlanReconciliation(clash, proven, superset)) /\ UNCHANGED faults
         \/ Planning(MainHeadStale) /\ UNCHANGED faults
  PROVE  EngineInv' /\ Extends /\ UNCHANGED remote
<1>0. /\ Core /\ AdoptionTypeOK /\ HandoffTypeOK /\ faults \in 0..MaxFaults
  BY Typed
<1>1. Outside /\ UNCHANGED <<evidence, late, faults>>
  BY DEF Planning
<1>2. receipts' = receipts /\ HandoffTypeOK'
  BY <1>0, <1>1 DEF Outside, HandoffTypeOK
<1>3. Core' /\ Extends /\ Reverts' = Reverts /\ UNCHANGED <<local, remote>>
  <2>1. CASE \E p \in CandidatePaths, boot \in {1, remote} : Planning(FreezeCandidate(p, boot))
    <3>1. PICK p \in CandidatePaths, boot \in {1, remote} : FreezeCandidate(p, boot)
      BY <2>1 DEF Planning
    <3>2. UNCHANGED <<local, remote>>
      BY <3>1 DEF FreezeCandidate
    <3>. QED
      BY <1>0, <1>1, <1>2, <3>1, <3>2, FreezeCandidateCore
  <2>2. CASE Planning(RevalidateMain) \/ Planning(MainHeadStale)
    <3>1. RevalidateMain \/ MainHeadStale
      BY <2>2 DEF Planning
    <3>2. UNCHANGED <<commits, local, remote>>
      BY <3>1 DEF RevalidateMain, MainHeadStale
    <3>3. Shas' = Shas /\ Extends /\ Reverts' = Reverts
      BY <3>2 DEF Shas, Extends, Reverts, Kind
    <3>4. plan' \in [stage : {"none", "frozen", "revalidated", "planned"},
               attempt : 0..MaxAttempts, boot : Nat, base : Nat,
               candidate : Nat, main : Nat, target : Nat]
      <4>1. remote \in Nat
        BY <1>0 DEF AdoptionTypeOK, Shas
      <4>2. plan \in [stage : {"none", "frozen", "revalidated", "planned"},
               attempt : 0..MaxAttempts, boot : Nat, base : Nat,
               candidate : Nat, main : Nat, target : Nat]
        BY <1>0 DEF AdoptionTypeOK
      <4>3. \/ plan' = [plan EXCEPT !.stage = "revalidated", !.main = remote]
            \/ plan' = [plan EXCEPT !.stage = "frozen", !.main = 0, !.target = 0]
        BY <3>1 DEF RevalidateMain, MainHeadStale
      <4>4. CASE plan' = [plan EXCEPT !.stage = "revalidated", !.main = remote]
        BY <4>1, <4>2, <4>4
      <4>5. CASE plan' = [plan EXCEPT !.stage = "frozen", !.main = 0, !.target = 0]
        BY <4>2, <4>5
      <4>. QED
        BY <4>3, <4>4, <4>5
    <3>5. AdoptionTypeOK'
      BY <1>0, <3>2, <3>3, <3>4 DEF AdoptionTypeOK
    <3>. QED
      BY <1>0, <1>1, <1>2, <3>1, <3>2, <3>3, <3>5, RevalidateCore
  <2>3. CASE \E clash \in {{}, KernelPaths \cup CleanPaths}, proven, superset \in BOOLEAN :
              Planning(PlanReconciliation(clash, proven, superset))
    <3>1. PICK clash \in {{}, KernelPaths \cup CleanPaths}, proven \in BOOLEAN,
                 superset \in BOOLEAN :
              PlanReconciliation(clash, proven, superset)
      BY <2>3 DEF Planning
    <3>2. UNCHANGED <<local, remote>>
      BY <3>1 DEF PlanReconciliation
    <3>. QED
      BY <1>0, <1>1, <1>2, <3>1, <3>2, PlanReconciliationCore
  <2>. QED
    BY <2>1, <2>2, <2>3
<1>4. remote \in commits'[remote'].anc
  BY <1>3, RemoteStays
<1>. QED
  BY <1>0, <1>1, <1>3, <1>4, OutsideStep

\* Others push to main at any time.
LEMMA ForeignPushInv ==
  ASSUME EngineInv, \E p \in ForeignPaths : Planning(ForeignPush(p)) /\ Disturb
  PROVE  EngineInv' /\ Extends /\ remote \in commits'[remote'].anc
<1>1. PICK p \in ForeignPaths : Planning(ForeignPush(p)) /\ Disturb
  OBVIOUS
<1>2. ForeignPush(p) /\ Outside /\ UNCHANGED <<evidence, late>> /\ Disturb
  BY <1>1 DEF Planning
<1>3. receipts' = receipts /\ HandoffTypeOK' /\ local' = local
  BY <1>2, Typed DEF Outside, HandoffTypeOK, ForeignPush
<1>4. Core' /\ Extends /\ Reverts' = Reverts /\ remote \in commits'[remote'].anc
  BY <1>2, <1>3, Typed, ForeignPushCore
<1>. QED
  BY <1>2, <1>3, <1>4, Typed, Disturbed, OutsideStep

\* The next attempt is prepared.
LEMMA PrepareInv ==
  ASSUME EngineInv, Prepare(running), Outside, UNCHANGED <<commits, local, remote, faults>>
  PROVE  EngineInv'
<1>1. UNCHANGED <<receipts, launcher, workers, workVars>>
  BY DEF Outside
<1>2. running \in Nat
  BY Typed, LauncherAssumption
<1>3. /\ Core' /\ Reverts' = Reverts /\ evidence.phase \notin NonTerminal
      /\ evidence'.phase = "PREPARED"
  BY <1>1, <1>2, Typed, PrepareCore
<1>4. evidence.phase \notin {"QUIESCED", "SUPERSEDED", "ROLLBACK_REQUIRED", "PROBATION"}
  BY DEF Prepare, MayPrepare, SuccessorBase
<1>5. EffectsInv'
  BY <1>1, <1>3, <1>4, Typed DEF EffectsInv, Adopting, RollingBack
<1>6. Shas' = Shas /\ Extends
  BY DEF Shas, Extends
<1>7. WorkersInv'
  BY <1>1, <1>3, <1>4, <1>6, Typed DEF WorkersInv, AliveAt, Closed, Adopting, RollingBack
<1>8. RunsInv'
  BY <1>1, <1>3, <1>6, Typed, RunsKept DEF Closed
<1>9. EngineTypeOK'
  BY <1>1, <1>3, Typed DEF EngineTypeOK, Core, workVars
<1>. QED
  BY <1>3, <1>5, <1>7, <1>8, <1>9 DEF EngineInv, Core

\* The operator supersedes the attempt, or its deadline passes.
LEMMA ClosingInv ==
  ASSUME EngineInv, MarkSuperseded \/ DeadlinePasses, Outside, UNCHANGED gitVars, Disturb
  PROVE  EngineInv'
<1>1. UNCHANGED <<receipts, launcher, workers, workVars>> /\ faults' \in 0..MaxFaults
  BY Typed, Disturbed DEF Outside
<1>2. Shas' = Shas /\ Extends /\ Reverts' = Reverts
  BY Unmoved
<1>3. CASE DeadlinePasses
  <2>1. evidence' = evidence /\ late' = TRUE
    BY <1>3 DEF DeadlinePasses
  <2>2. AdoptionTypeOK' /\ HandoffTypeOK' /\ id' = id
    BY <1>2, <2>1, Typed DEF AdoptionTypeOK, HandoffTypeOK, gitVars, id
  <2>3. Core'
    BY <1>1, <2>1, <2>2, Typed, CoreFrame
  <2>4. EffectsInv'
    BY <1>1, <1>2, <2>1, <2>2, Typed, EffectsKept DEF gitVars, Anc
  <2>5. WorkersInv'
    BY <1>1, <1>2, <2>1, Typed DEF WorkersInv, AliveAt, Closed, Adopting, RollingBack
  <2>6. RunsInv'
    BY <1>1, <1>2, <2>1, Typed, RunsKept
  <2>7. EngineTypeOK'
    BY <1>1, <2>2, Typed DEF EngineTypeOK, workVars
  <2>. QED
    BY <2>3, <2>4, <2>5, <2>6, <2>7 DEF EngineInv, Core
<1>4. CASE MarkSuperseded
  <2>1. /\ HandoffTypeOK' /\ evidence'.phase = "SUPERSEDED" /\ id' = id
        /\ evidence'.rollback = evidence.rollback
        /\ evidence.phase \in NonTerminal /\ evidence.phase # "NONE"
    BY <1>4, Typed, TransitionIs DEF MarkSuperseded, Phases
  <2>2. AdoptionTypeOK'
    BY <1>2, Typed DEF AdoptionTypeOK, gitVars
  <2>3. Core'
    BY <1>1, <2>1, <2>2, Typed, CoreTransition DEF MayHaveRevert
  <2>4. EffectsInv'
    BY <1>1, <1>2, <2>1, <2>2, Typed, EffectsKept DEF gitVars, Anc, NonTerminal, Terminal
  <2>5. WorkersInv'
    BY <1>1, <1>2, <2>1, Typed
       DEF WorkersInv, AliveAt, Closed, NonTerminal, Terminal, Adopting, RollingBack
  <2>6. RunsInv'
    BY <1>1, <1>2, <2>1, Typed, RunsKept DEF Closed, NonTerminal, Terminal
  <2>7. EngineTypeOK'
    BY <1>1, <2>1, <2>2, Typed DEF EngineTypeOK, workVars
  <2>. QED
    BY <2>3, <2>4, <2>5, <2>6, <2>7 DEF EngineInv, Core
<1>. QED
  BY <1>3, <1>4

-----------------------------------------------------------------------------
\* The initial state.
LEMMA EngineInit ==
  ASSUME Init
  PROVE  EngineInv
<1>. DEFINE m == [anc |-> {1}, tree |-> [p \in Paths |-> {}], touched |-> {},
                  kind |-> "base", of |-> 0]
<1>1. /\ commits = <<m>> /\ local = 1 /\ remote = 1 /\ plan = NoPlan
      /\ evidence = NoEvidence /\ late = FALSE
  BY DEF Init, AdoptionInit, HandoffInit
<1>2. /\ receipts = [a \in Attempts |-> NoReceipt] /\ launcher = Down /\ workers = {}
      /\ health = [pid |-> 0, beat |-> 0, failure |-> FALSE, stage |-> FALSE, runs |-> {}]
      /\ running = 0 /\ command = 0 /\ faults = 0
  BY DEF Init, LauncherInit
<1>3. /\ m \in CommitType /\ m.anc = {1} /\ m.kind = "base" /\ \A p \in Paths : m.tree[p] = {}
  BY DEF CommitType
<1>. HIDE DEF m
<1>4. /\ commits \in Seq(CommitType) /\ Len(commits) = 1 /\ commits[1] = m
  BY <1>1, <1>3
<1>5. Shas = {1} /\ Reverts = {} /\ Anc(1) = {1} /\ \A p \in Paths : Tree(1)[p] = {}
  BY <1>3, <1>4 DEF Shas, Reverts, Kind, Anc, Tree
<1>6. /\ id.attempt = 0 /\ evidence.phase = "NONE" /\ plan.stage = "none" /\ plan.attempt = 0
  BY <1>1 DEF id, NoEvidence, NoIdentity, NoPlan
<1>7. AdoptionTypeOK
  BY <1>1, <1>4, <1>5, AdoptionAssumption DEF AdoptionTypeOK, NoPlan
<1>8. HandoffTypeOK
  <2>1. 0 \in 0..MaxAttempts /\ "NONE" \in Phases
    BY AdoptionAssumption DEF Phases
  <2>2. NoIdentity \in [attempt : 0..MaxAttempts, stable : Nat, main : Nat,
                       candidate : Nat, target : Nat, command : Nat]
    BY <2>1 DEF NoIdentity
  <2>. QED
    BY <1>1, <2>1, <2>2 DEF HandoffTypeOK, NoEvidence
<1>9. EngineTypeOK
  <2>1. NoReceipt \in ReceiptType
    BY DEF NoReceipt, ReceiptType
  <2>2. receipts \in [Attempts -> ReceiptType]
    BY <1>2, <2>1
  <2>3. health \in HealthType
    BY <1>2 DEF HealthType, Pids
  <2>4. running \in 0..MaxCommands /\ command \in 0..MaxCommands /\ faults \in 0..MaxFaults
    BY <1>2, LauncherAssumption
  <2>. QED
    BY <1>2, <1>7, <1>8, <2>2, <2>3, <2>4, DownTyped DEF EngineTypeOK
<1>10. GraphInv
  BY <1>3, <1>4, <1>5 DEF GraphInv, AncestryInv, ForeignKept, RevertedGone, Kind, Of
<1>11. HeadsInv
  BY <1>1, <1>5 DEF HeadsInv, Clean, Known
<1>12. PlanInv /\ IdentityInv
  BY <1>6 DEF PlanInv, IdentityInv
<1>13. RevertsInv /\ OneRevert
  BY <1>5 DEF RevertsInv, OneRevert
<1>14. ReceiptsInv
  BY <1>2, <1>6 DEF ReceiptsInv, NoReceipt
<1>15. EffectsInv
  BY <1>2, <1>6, DownTyped DEF EffectsInv, Adopting, RollingBack
<1>16. WorkersInv /\ RunsInv
  BY <1>2, DownTyped DEF WorkersInv, RunsInv, Adopting, RollingBack
<1>. QED
  BY <1>9, <1>10, <1>11, <1>12, <1>13, <1>14, <1>15, <1>16 DEF EngineInv

\* The tuple of variables, part by part.
LEMMA StutterInv ==
  ASSUME EngineInv, UNCHANGED vars
  PROVE  EngineInv'
<1>1. UNCHANGED <<gitVars, evidence, late, receipts, launcher, workers, workVars, faults>>
  BY DEF vars
<1>2. Shas' = Shas /\ Extends /\ Reverts' = Reverts
  BY <1>1, Unmoved
<1>3. WorkersInv'
  BY <1>1, <1>2, Typed DEF WorkersInv, AliveAt, Closed, Adopting, RollingBack
<1>4. RunsInv'
  BY <1>1, <1>2, Typed, RunsKept
<1>. QED
  BY <1>1, <1>3, <1>4, Typed, ProcessStep DEF workVars

\* Every step keeps the invariant.
LEMMA OuterStepInv ==
  ASSUME EngineInv, OuterStep
  PROVE  EngineInv'
<1>1. CASE \E p \in CandidatePaths, boot \in {1, remote} :
             /\ evidence.phase \in FreezePhases
             /\ Planning(FreezeCandidate(p, boot)) /\ UNCHANGED faults
  BY <1>1, PlanningInv
<1>2. CASE \E clash \in {{}, KernelPaths \cup CleanPaths}, proven, superset \in BOOLEAN :
             Planning(PlanReconciliation(clash, proven, superset)) /\ UNCHANGED faults
  BY <1>2, PlanningInv
<1>3. CASE (Planning(RevalidateMain) \/ Planning(MainHeadStale)) /\ UNCHANGED faults
  BY <1>3, PlanningInv
<1>4. CASE Prepare(running) /\ Outside /\ UNCHANGED <<commits, local, remote, faults>>
  BY <1>4, PrepareInv
<1>5. CASE \E p \in ForeignPaths : Planning(ForeignPush(p)) /\ Disturb
  BY <1>5, ForeignPushInv
<1>6. CASE (MarkSuperseded \/ DeadlinePasses) /\ Outside /\ UNCHANGED gitVars /\ Disturb
  BY <1>6, ClosingInv
<1>. QED
  BY <1>1, <1>2, <1>3, <1>4, <1>5, <1>6 DEF OuterStep

\* Every step of the Launcher.
LEMMA LauncherStepInv ==
  ASSUME EngineInv, LauncherStep
  PROVE  EngineInv'
<1>1. CASE \E armed \in BOOLEAN : LauncherStart(armed)
  BY <1>1, LauncherStartInv
<1>2. CASE SpawnWorker \/ ConsumeNothing \/ ConsumeTerminal
  BY <1>2, SpawnWorkerInv, ConsumeNothingInv, ConsumeTerminalInv
<1>3. CASE ConsumeBlocked \/ QuiescenceTimeout \/ ProbationTimeout \/ RollbackBlocked
             \/ RollbackNotReady
  BY <1>3, LauncherExits
<1>4. CASE ConsumePrepared \/ ConsumeDraining
  BY <1>4, ConsumeDrainInv
<1>5. CASE AdoptForward \/ AdoptReceipt \/ AdoptPush \/ AdoptMark
  BY <1>5, AdoptForwardInv, AdoptReceiptInv, AdoptPushInv, AdoptMarkInv
<1>6. CASE \E sick \in BOOLEAN : ConsumeAdopted(sick) \/ ResumeProbation(sick)
             \/ RollbackStart(sick)
  BY <1>6, ConsumeAdoptedInv, ResumeProbationInv, RollbackStartInv
<1>7. CASE ObserveHealth \/ RollbackForward \/ RollbackReceipt \/ RollbackPush \/ RollbackDone
  BY <1>7, ObserveHealthInv, RollbackForwardInv, RollbackReceiptInv, RollbackPushInv,
       RollbackDoneInv
<1>. QED
  BY <1>1, <1>2, <1>3, <1>4, <1>5, <1>6, <1>7 DEF LauncherStep

\* Every step of a Worker.
LEMMA WorkerStepInv ==
  ASSUME EngineInv, NEW w \in workers, WorkerStep(w)
  PROVE  EngineInv'
BY WorkerBootInv, WorkerPollInv, PollOutcomeInv, ProbationElapsesInv, ClaimInv, PreclaimFailureInv,
   SettleInv, HotRestartInv, WorkerDiesInv DEF WorkerStep

\* Every step of the system.
LEMMA EngineStep ==
  ASSUME EngineInv, [Next]_vars
  PROVE  EngineInv'
<1>1. CASE UNCHANGED vars
  BY <1>1, StutterInv
<1>2. CASE OuterStep
  BY <1>2, OuterStepInv
<1>3. CASE LauncherStep
  BY <1>3, LauncherStepInv
<1>4. CASE LauncherDies
  BY <1>4, LauncherExits
<1>5. CASE \E w \in workers : WorkerStep(w)
  BY <1>5, WorkerStepInv
<1>. QED
  BY <1>1, <1>2, <1>3, <1>4, <1>5 DEF Next

\* The inductive invariant: where the commit graph, the evidence, the Launcher and its Worker
\* stand to each other in every reachable state.
THEOREM EngineInductive == Spec => []EngineInv
<1>1. Init => EngineInv
  BY EngineInit
<1>2. EngineInv /\ [Next]_vars => EngineInv'
  BY EngineStep
<1>. QED
  BY <1>1, <1>2, PTL DEF Spec

\* The repository, the evidence, the Launcher and the Workers keep their types.
THEOREM EngineTypeCorrect == Spec => []EngineTypeOK
<1>1. EngineInv => EngineTypeOK
  BY DEF EngineInv
<1>. QED
  BY <1>1, EngineInductive, PTL

\* At most one Worker process lives, whatever the watchdog and the handoff consumer start,
\* stop and hand over, and wherever the Launcher dies.
THEOREM OneWorkerLives == Spec => []OneWorker
<1>1. EngineInv => OneWorker
  <2>. SUFFICES ASSUME EngineInv PROVE Cardinality(workers) <= 1
    BY DEF OneWorker
  <2>1. \A w, v \in workers : w = v
    BY DEF EngineInv, WorkersInv
  <2>2. CASE workers = {}
    BY <2>2, FS_EmptySet
  <2>3. CASE workers # {}
    <3>1. PICK w \in workers : TRUE
      BY <2>3
    <3>2. workers = {w}
      BY <2>1, <3>1
    <3>3. Cardinality({w}) = 1
      BY FS_Singleton
    <3>. QED
      BY <3>2, <3>3
  <2>. QED
    BY <2>2, <2>3
<1>. QED
  BY <1>1, EngineInductive, PTL

\* From draining to the verdict no Worker of an armed Launcher executes a command.
THEOREM HandoffIsQuiet == Spec => []NoRunDuringHandoff
<1>1. EngineInv => NoRunDuringHandoff
  BY DEF EngineInv, RunsInv, NoRunDuringHandoff, Closed
<1>. QED
  BY <1>1, EngineInductive, PTL

\* No Worker runs, or may claim, on source that a forward revert took out.
THEOREM RevertedStaysReverted == Spec => []RevertedSourceNeverRuns
<1>1. EngineInv => RevertedSourceNeverRuns
  <2>. SUFFICES ASSUME EngineInv, NEW w \in workers, w.kind # "unarmed",
                       w.run \/ (w.up /\ ClaimsAllowed(w) /\ ~CodeChanged(w)),
                       NEW c \in Shas, commits[c].kind = "revert", NEW p \in SourcePaths
                PROVE  commits[c].of \notin Tree(w.sha)[p]
    BY DEF RevertedSourceNeverRuns
  <2>1. c \in Reverts
    BY DEF Reverts, Kind
  <2>2. CASE w.run
    BY <2>1, <2>2 DEF EngineInv, RunsInv, Of
  <2>3. CASE ClaimsAllowed(w) /\ ~CodeChanged(w)
    BY <2>1, <2>3, MayRun DEF Of
  <2>. QED
    BY <2>2, <2>3
<1>. QED
  BY <1>1, EngineInductive, PTL

\* A rolled-back handoff names a pushed commit after the adoption whose source is that of
\* the main the adoption started from.
THEOREM RollbackIsForward == Spec => []RollbackRestoresSource
<1>1. EngineInv => RollbackRestoresSource
  <2>. SUFFICES ASSUME EngineInv, evidence.phase = "ROLLED_BACK"
                PROVE  /\ Ancestor(evidence.rollback, remote)
                       /\ Ancestor(id.target, evidence.rollback)
                       /\ OnlyProjects(id.main, evidence.rollback)
    BY DEF RollbackRestoresSource
  <2>1. /\ evidence.rollback \in Reverts /\ evidence.rollback \notin Anc(id.main)
        /\ evidence.rollback \in Anc(remote)
    BY DEF EngineInv, EffectsInv
  <2>2. CurrentRevert(evidence.rollback)
    BY <2>1 DEF EngineInv, RevertsInv
  <2>. QED
    BY <2>1, <2>2 DEF CurrentRevert, Ancestor, Anc
<1>. QED
  BY <1>1, EngineInductive, PTL

\* No Candidate edit to a protected path reaches remote main.
THEOREM AuthorityStaysOut == Spec => []AuthorityNeverAdopted
<1>1. EngineInv => AuthorityNeverAdopted
  BY DEF EngineInv, HeadsInv, Clean, AuthorityNeverAdopted
<1>. QED
  BY <1>1, EngineInductive, PTL

-----------------------------------------------------------------------------
\* History is only added to, and remote main only moves forward.
LEMMA GitStep ==
  ASSUME EngineInv, Next
  PROVE  Extends /\ (remote' = remote \/ remote \in commits'[remote'].anc)
<1>1. commits' = commits => Extends
  BY DEF Extends, Shas
<1>2. CASE OuterStep
  <2>1. CASE \E p \in CandidatePaths, boot \in {1, remote} :
               /\ evidence.phase \in FreezePhases
               /\ Planning(FreezeCandidate(p, boot)) /\ UNCHANGED faults
    BY <2>1, PlanningInv
  <2>2. CASE \E clash \in {{}, KernelPaths \cup CleanPaths}, proven, superset \in BOOLEAN :
               Planning(PlanReconciliation(clash, proven, superset)) /\ UNCHANGED faults
    BY <2>2, PlanningInv
  <2>3. CASE (Planning(RevalidateMain) \/ Planning(MainHeadStale)) /\ UNCHANGED faults
    BY <2>3, PlanningInv
  <2>4. CASE Prepare(running) /\ Outside /\ UNCHANGED <<commits, local, remote, faults>>
    BY <2>4, <1>1
  <2>5. CASE \E p \in ForeignPaths : Planning(ForeignPush(p)) /\ Disturb
    BY <2>5, ForeignPushInv
  <2>6. CASE (MarkSuperseded \/ DeadlinePasses) /\ Outside /\ UNCHANGED gitVars /\ Disturb
    BY <2>6, <1>1 DEF gitVars
  <2>. QED
    BY <1>2, <2>1, <2>2, <2>3, <2>4, <2>5, <2>6 DEF OuterStep
<1>3. CASE LauncherStep
  <2>1. CASE AdoptPush
    BY <2>1, <1>1, AdoptPushInv DEF AdoptPush, Anc
  <2>2. CASE RollbackPush
    BY <2>2, <1>1, RollbackPushInv DEF RollbackPush, Anc
  <2>3. CASE RollbackForward
    <3>1. evidence.phase = "ROLLBACK_REQUIRED"
            /\ UNCHANGED <<remote, plan, evidence, late, receipts>>
      BY <2>3 DEF RollbackForward, Proceed
    <3>2. HandoffTypeOK'
      BY <3>1, Typed DEF HandoffTypeOK
    <3>3. \/ commits' = commits
          \/ /\ ExistingRollback = 0
             /\ PostHeadSafe(id.target, local)
             /\ commits' = Append(commits, Commit({local}, RevertTree(local),
                                ChangedPaths(id.main, id.target), "revert", id.attempt))
             /\ local' = Len(commits')
      BY <2>3 DEF RollbackForward
    <3>. QED
      BY <1>1, <3>1, <3>2, <3>3, Typed, RevertCore
  <2>4. CASE ~AdoptPush /\ ~RollbackPush /\ ~RollbackForward
    <3>1. UNCHANGED <<commits, remote>>
      BY <1>3, <2>4 DEF LauncherStep, LauncherStart, SpawnWorker, ConsumeNothing, ConsumeTerminal,
         ConsumeBlocked, ConsumePrepared, ConsumeDraining, QuiescenceTimeout, AdoptForward,
         AdoptReceipt, AdoptMark, ConsumeAdopted, ResumeProbation, RollbackStart, ObserveHealth,
         ProbationTimeout, RollbackBlocked, RollbackReceipt, RollbackDone, RollbackNotReady, gitVars
    <3>. QED
      BY <1>1, <3>1
  <2>. QED
    BY <2>1, <2>2, <2>3, <2>4
<1>4. CASE LauncherDies
  BY <1>1, <1>4 DEF LauncherDies, gitVars
<1>5. CASE \E w \in workers : WorkerStep(w)
  <2>1. UNCHANGED <<commits, remote>>
    BY <1>5 DEF WorkerStep, WorkerBoot, WorkerPoll, PollOutcome, ProbationElapses, Claim,
       PreclaimFailure, Settle, HotRestart, WorkerDies, gitVars
  <2>. QED
    BY <1>1, <2>1
<1>. QED
  BY <1>2, <1>3, <1>4, <1>5 DEF Next

\* Remote main only moves forward and the work of others stays in its tree.
THEOREM LiveWorkIsKept == Spec => LiveWorkSurvives
<1>. DEFINE Kept == /\ remote \in commits'[remote'].anc
                    /\ \A p \in Paths : Foreign \in Tree(remote)[p] =>
                         Foreign \in commits'[remote'].tree[p]
<1>1. ASSUME EngineInv, [Next]_vars PROVE [Kept]_vars
  <2>1. CASE UNCHANGED vars
    BY <2>1
  <2>2. CASE Next
    <3>1. EngineInv'
      BY <1>1, EngineStep
    <3>2. AdoptionTypeOK' /\ GraphInv' /\ remote \in Shas
      BY <1>1, <3>1, Typed DEF EngineInv, EngineTypeOK, AdoptionTypeOK
    <3>3. Extends /\ (remote' = remote \/ remote \in commits'[remote'].anc)
      BY <1>1, <2>2, GitStep
    <3>4. remote' \in Shas' /\ remote' \in commits'[remote'].anc
      BY <3>2 DEF AdoptionTypeOK, GraphInv, AncestryInv, Anc
    <3>5. remote \in commits'[remote'].anc /\ commits'[remote] = commits[remote]
      BY <3>2, <3>3, <3>4 DEF Extends
    <3>6. \A p \in Paths : Foreign \in Tree(remote)[p] => Foreign \in commits'[remote'].tree[p]
      BY <3>2, <3>4, <3>5 DEF GraphInv, ForeignKept, Anc, Tree
    <3>. QED
      BY <3>5, <3>6
  <2>. QED
    BY <1>1, <2>1, <2>2
<1>2. EngineInv /\ [Next]_vars => [Kept]_vars
  BY <1>1
<1>. QED
  BY <1>2, EngineInductive, PTL DEF Spec, LiveWorkSurvives
=============================================================================
