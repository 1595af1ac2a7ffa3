--------------------------- MODULE BridgeInvariant ---------------------------
(***************************************************************************)
(* The inductive invariant behind the safety properties of BridgeProtocol, *)
(* in named parts.  The store part speaks of canonical history, the clones *)
(* and the local commits; the local part ties what a host, a human or a    *)
(* file in a runtime directory knows to the leases ever granted.           *)
(***************************************************************************)
EXTENDS BridgeProtocol

(***************************************************************************)
(* What every publication looks like, whoever makes it, when it is         *)
(* prepared from the canonical state it replaces.                          *)
(***************************************************************************)
CommitOK(cm) ==
    /\ cm.new.gen >= cm.base.gen
    /\ cm.new.cmd >= cm.base.cmd
    /\ cm.new.status \in PENDING_STATES => cm.new.cmd > cm.base.cmd
    /\ cm.new.status = "CODEX_RUNNING" =>
          /\ cm.new.cmd \in CommandIds
          /\ cm.new.run.cmd = cm.new.cmd
          /\ cm.new.run.gen = cm.new.gen
          /\ cm.new.cmd > cm.base.cmd \/ cm.base.status \in PENDING_STATES
    /\ cm.command # NoCommand =>
          \A c \in {cm.command.supersedes, cm.command.withdraws} \ {0} :
              /\ c = cm.base.cmd
              /\ cm.base.status \in PENDING_STATES
              /\ cm.new.cmd > cm.base.cmd
    /\ cm.report # NoReport =>
          cm.report.run \in claims /\ cm.new.rep = cm.report.run.cmd

(***************************************************************************)
(* Store part.                                                             *)
(***************************************************************************)
LeaseInv ==
    canon.status = "CODEX_RUNNING" =>
        canon.run \in claims /\ canon.run.cmd = canon.cmd

\* A granted lease is of a known command, and never of a pending one.
ClaimsInv ==
    \A r \in claims :
        /\ r.cmd \in CommandIds
        /\ r.cmd <= canon.cmd
        /\ canon.status \in PENDING_STATES => r.cmd < canon.cmd
        /\ r.gen <= canon.gen

UniqueLease == \A r, q \in claims : r.cmd = q.cmd => r = q

ReportsInv ==
    \A c \in CommandIds : reports[c] # NoReport =>
        reports[c].run \in claims /\ reports[c].run.cmd = c

ReplacedInv ==
    \A c \in CommandIds : Replaced(c) =>
        c < canon.cmd /\ \A r \in claims : r.cmd # c

CanonInv == LeaseInv /\ ClaimsInv /\ UniqueLease /\ ReportsInv /\ ReplacedInv

\* A host's clone has seen every lease that was granted to the host.
CloneInv ==
    \A r \in claims : r.owner \in Workers => r.gen <= clone[r.owner].gen

UnpushedInv ==
    \A w \in Workers : unpushed[w] # NoCommit =>
        /\ CommitOK(unpushed[w])
        /\ clone[w] = unpushed[w].new
        /\ unpushed[w].new.status = "CODEX_RUNNING" =>
              unpushed[w].new.run.owner = w

StoreInv == CanonInv /\ CloneInv /\ UnpushedInv

(***************************************************************************)
(* Local part.                                                             *)
(***************************************************************************)
ThreadOK(w) ==
    LET t == thread[w] IN
    /\ t.pc # "idle" => t.run.owner = w /\ t.run.cmd \in CommandIds
    /\ t.pc = "ready" =>
          /\ t.run \notin claims
          /\ t.snap.status \in PENDING_STATES
          /\ t.run.cmd = t.snap.cmd
          /\ t.run.gen = t.snap.gen + 1
          /\ unpushed[w] # NoCommit =>
                unpushed[w].new.status # "CODEX_RUNNING"
    /\ t.pc \notin {"idle", "ready"} => t.run \in claims
    /\ t.pc = "claimed" => launches[t.run.cmd] = 0
    /\ t.pc \in {"saved", "acking"} => sidecar[w][t.run.cmd].st # "none"
    /\ t.pc \in {"journaled", "armed", "confirming"} =>
          journal[w][t.run.cmd].st # "none"

ThreadInv == \A w \in Workers : ThreadOK(w)

SidecarInv ==
    \A w \in Workers, c \in CommandIds : sidecar[w][c].st # "none" =>
        sidecar[w][c].run \in claims /\ sidecar[w][c].run.cmd = c

JournalInv ==
    \A w \in Workers, c \in CommandIds : journal[w][c].st # "none" =>
        journal[w][c].run \in claims /\ journal[w][c].run.cmd = c

LaunchInv ==
    \A c \in CommandIds :
        /\ launches[c] <= 1
        /\ launches[c] > 0 => \E r \in claims : r.cmd = c

LocalInv == ThreadInv /\ SidecarInv /\ JournalInv /\ LaunchInv
            /\ manuals \subseteq claims

\* The inductive invariant.
IInv == TypeOK /\ StoreInv /\ LocalInv
=============================================================================
