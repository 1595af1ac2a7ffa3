----------------------------- MODULE BridgeStore -----------------------------
(***************************************************************************)
(* The shared state of one Bridge project: the canonical branch, each      *)
(* Worker host's dedicated clone of it and runtime directory, and the      *)
(* compare-and-swap publication of worker/git_store.py by which every      *)
(* actor changes canonical state.                                          *)
(*                                                                         *)
(* publish_cas serialises with every other push at the remote, so it is    *)
(* one step against canonical state.  What is kept of its internals is     *)
(* what callers can tell apart: who landed, what the caller was told, and  *)
(* what the caller's clone holds afterwards.                               *)
(***************************************************************************)
EXTENDS ProtocolCore

CONSTANTS FaultKinds,   \* subset of AllFaults that may happen
          MaxFaults     \* bound: number of faults in one behaviour

AllFaults == {"lost", "unseen", "stuck", "crash"}

ASSUME FaultsAssumption == FaultKinds \subseteq AllFaults /\ MaxFaults \in Nat

VARIABLES
    canon,      \* canonical state.json on the remote branch
    commands,   \* canonical commands/: append-only command files
    reports,    \* canonical reports/: append-only report files
    clone,      \* clone[w]: state.json in host w's working tree
    unpushed,   \* unpushed[w]: the local commit that host w's clone is ahead by
    polling,    \* polling[w]: w's main loop has synchronised and is in its pass
    thread,     \* thread[w]: w's process_project thread for this project
    sidecar,    \* sidecar[w][c]: pending-report-NNN.meta.json on host w
    journal,    \* journal[w][c]: recovery journal of w's run of command c
    expired,    \* the run whose lease deadline has passed
    manuals,    \* runs a human fast-lane executor believes it holds
    faults,     \* number of faults so far
    claims,     \* history: runs ever granted a canonical lease
    launches    \* history: executor launches per command

canonVars == <<canon, commands, reports, claims>>
cloneVars == <<clone, unpushed>>
evidenceVars == <<sidecar, journal>>
vars == <<canon, commands, reports, clone, unpushed, polling, thread, sidecar,
          journal, expired, manuals, faults, claims, launches>>

(***************************************************************************)
(* Commits: the state.json they change and the file they add.              *)
(***************************************************************************)
Commits == [base : States, new : States, command : Commands, report : Reports]
NoCommit == [base |-> Genesis, new |-> Genesis,
             command |-> NoCommand, report |-> NoReport]
Commit(new, command, report) ==
    [base |-> canon, new |-> new, command |-> command, report |-> report]

Land(cm) ==
    /\ canon' = cm.new
    /\ commands' = IF cm.command = NoCommand THEN commands
                   ELSE [commands EXCEPT ![cm.new.cmd] = cm.command]
    /\ reports' = IF cm.report = NoReport THEN reports
                  ELSE [reports EXCEPT ![cm.new.rep] = cm.report]
    /\ claims' = IF cm.new.status = "CODEX_RUNNING"
                 THEN claims \cup {cm.new.run} ELSE claims

(***************************************************************************)
(* What host w reads from its working tree.                                *)
(***************************************************************************)
LocalReport(w, c) ==
    IF unpushed[w].report # NoReport /\ unpushed[w].new.rep = c
    THEN unpushed[w].report
    ELSE IF c <= clone[w].rep THEN reports[c] ELSE NoReport

LocalCommand(w, c) ==
    IF unpushed[w].command # NoCommand /\ unpushed[w].new.cmd = c
    THEN unpushed[w].command ELSE commands[c]

(***************************************************************************)
(* publish_cas from host w's clone.  outcome is what happened:             *)
(*   "refused"   the clone has unpushed commits, so sync_to_remote raises  *)
(*   "lost"      transport failed and nothing was pushed                   *)
(*   "already"   already_applied holds, reported as success                *)
(*   "conflict"  neither already_applied nor expected holds                *)
(*   "applied"   landed and reported as success                            *)
(*   "unseen"    landed, but the caller was told that it failed            *)
(*   "stuck"     push timed out before landing: the commit stays local     *)
(***************************************************************************)
Outcomes == {"refused", "lost", "already", "conflict", "applied", "unseen",
             "stuck"}
Succeeded(outcome) == outcome \in {"applied", "already"}
\* Faulty variant: a transport error is taken for a canonical refusal.
AmbiguousOnly(outcome) == outcome \in {"refused", "unseen", "stuck"}
Failed(outcome) == outcome \in {"refused", "lost", "unseen", "stuck"}

Fault(kind) ==
    /\ kind \in FaultKinds
    /\ faults < MaxFaults
    /\ faults' = faults + 1

publish_cas(w, outcome, already, expected, cm) ==
    \/ /\ outcome = "refused"
       /\ unpushed[w] # NoCommit
       /\ UNCHANGED <<canonVars, cloneVars, faults>>
    \/ /\ outcome = "lost"
       /\ unpushed[w] = NoCommit
       /\ Fault("lost")
       /\ UNCHANGED <<canonVars, cloneVars>>
    \/ /\ outcome = "already"
       /\ unpushed[w] = NoCommit
       /\ already
       /\ clone' = [clone EXCEPT ![w] = canon]
       /\ UNCHANGED <<canonVars, unpushed, faults>>
    \/ /\ outcome = "conflict"
       /\ unpushed[w] = NoCommit
       /\ ~already
       /\ ~expected
       /\ clone' = [clone EXCEPT ![w] = canon]
       /\ UNCHANGED <<canonVars, unpushed, faults>>
    \/ /\ outcome \in {"applied", "unseen"}
       /\ unpushed[w] = NoCommit
       /\ ~already
       /\ expected
       /\ Land(cm)
       /\ clone' = [clone EXCEPT ![w] = cm.new]
       /\ IF outcome = "unseen" THEN Fault("unseen") ELSE UNCHANGED faults
       /\ UNCHANGED unpushed
    \/ /\ outcome = "stuck"
       /\ unpushed[w] = NoCommit
       /\ ~already
       /\ expected
       /\ Fault("stuck")
       /\ clone' = [clone EXCEPT ![w] = cm.new]
       /\ unpushed' = [unpushed EXCEPT ![w] = cm]
       /\ UNCHANGED canonVars

(***************************************************************************)
(* sync_to_remote at the top of a poll pass.  It refuses a clone that is   *)
(* ahead of the remote, and the pass with it.                              *)
(***************************************************************************)
sync_to_remote(w) ==
    /\ ~polling[w]
    /\ unpushed[w] = NoCommit
    /\ clone' = [clone EXCEPT ![w] = canon]
    /\ polling' = [polling EXCEPT ![w] = TRUE]
    /\ UNCHANGED <<canonVars, unpushed, thread, evidenceVars, expired, manuals,
                   faults, launches>>

EndPass(w) ==
    /\ polling[w]
    /\ polling' = [polling EXCEPT ![w] = FALSE]
    /\ UNCHANGED <<canonVars, cloneVars, thread, evidenceVars, expired,
                   manuals, faults, launches>>

\* A push that timed out at the client is still accepted by the server, while
\* the branch has not moved.  The clone is then no longer ahead.
LateLanding(w) ==
    /\ unpushed[w] # NoCommit
    /\ canon = unpushed[w].base
    /\ Land(unpushed[w])
    /\ unpushed' = [unpushed EXCEPT ![w] = NoCommit]
    /\ UNCHANGED <<clone, polling, thread, evidenceVars, expired, manuals,
                   faults, launches>>

\* An operator discards the local commit of a stopped pass by hand.
OperatorReset(w) ==
    /\ ~polling[w]
    /\ unpushed[w] # NoCommit
    /\ unpushed' = [unpushed EXCEPT ![w] = NoCommit]
    /\ clone' = [clone EXCEPT ![w] = canon]
    /\ UNCHANGED <<canonVars, polling, thread, evidenceVars, expired, manuals,
                   faults, launches>>
=============================================================================
