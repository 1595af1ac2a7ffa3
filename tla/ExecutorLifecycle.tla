--------------------------- MODULE ExecutorLifecycle ---------------------------
(***************************************************************************)
(* One executor run (codex_lifecycle.run_codex_process): a gate wrapper is *)
(* spawned, put into the per-run job and released; it starts the executor  *)
(* (root), which may start children and writes the final message.  The     *)
(* lifecycle loop polls all of this and decides when the run is over.      *)
(*                                                                         *)
(*   exec.procs  the live processes                                        *)
(*   exec.gate   none, held (waiting, outside the job), open (in the job   *)
(*               and released), launched, named (pid file written)         *)
(*   exec.final  the final-message file: absent, partial, or the marker    *)
(*   life        what the loop knows: pid read, exit seen, last probe and  *)
(*               whether it was stable, marker, reason, and done, which is *)
(*               TRUE once a run result exists                             *)
(***************************************************************************)
EXTENDS RunWal

CONSTANTS
  KillOnClose   \* closing the job kills its processes: TRUE on Windows,
                \* FALSE for a POSIX process group

VARIABLES mode, exec, life, stop

ASSUME KillAssumption == KillOnClose \in BOOLEAN

Executor == {"root", "child"}
Markers == {"SUCCESS", "FAILED"}
Reasons == {"none", "grace", "descendants", "owner_stop", "timeout", "network"}

ExecType == [procs : SUBSET ({"gate"} \cup Executor),
             gate : {"none", "held", "open", "launched", "named"},
             final : {"absent", "partial"} \cup Markers]
LifeType == [pid : BOOLEAN, exited : BOOLEAN, probe : {"absent", "partial"} \cup Markers,
             marker : {"none"} \cup Markers, reason : Reasons, done : BOOLEAN]

lifeVars == <<exec, life, stop>>

LifecycleInit ==
  /\ exec = [procs |-> {}, gate |-> "none", final |-> "absent"]
  /\ life = [pid |-> FALSE, exited |-> FALSE, probe |-> "absent",
             marker |-> "none", reason |-> "none", done |-> FALSE]
  /\ stop = FALSE

ExecutorAlive == exec.procs \cap Executor # {}

-----------------------------------------------------------------------------
(* The processes.                                                          *)

(* codex_process_gate.main: once the gate file exists the child is started *)
(* or its start raises and the wrapper exits.                              *)
GateLaunches ==
  /\ exec.gate = "open" /\ "gate" \in exec.procs
  /\ \/ exec' = [exec EXCEPT !.gate = "launched", !.procs = @ \cup {"root"}]
     \/ exec' = [exec EXCEPT !.procs = {}]
  /\ UNCHANGED <<life, stop>>

GateNames ==
  /\ exec.gate = "launched" /\ "gate" \in exec.procs
  /\ exec' = [exec EXCEPT !.gate = "named"]
  /\ UNCHANGED <<life, stop>>

GateExits ==
  /\ exec.gate = "named" /\ "gate" \in exec.procs /\ "root" \notin exec.procs
  /\ exec' = [exec EXCEPT !.procs = @ \ {"gate"}]
  /\ UNCHANGED <<life, stop>>

(* The executor is external: it may fork, write its final message at any   *)
(* time, a part of it first, and exit leaving its child behind.            *)
ExecutorForks ==
  /\ "root" \in exec.procs /\ "child" \notin exec.procs
  /\ exec' = [exec EXCEPT !.procs = @ \cup {"child"}]
  /\ UNCHANGED <<life, stop>>

ExecutorWrites ==
  /\ ExecutorAlive
  /\ exec.final \notin Markers
  /\ \E f \in ({"partial"} \cup Markers) \ {exec.final} :
       exec' = [exec EXCEPT !.final = f]
  /\ UNCHANGED <<life, stop>>

ExecutorExits ==
  /\ \E p \in exec.procs \cap Executor : exec' = [exec EXCEPT !.procs = @ \ {p}]
  /\ UNCHANGED <<life, stop>>

(* The Owner asks this exact run to stop: while its lease is canonical.    *)
request_stop ==
  /\ ~stop /\ mode = "phased" /\ pc \notin {"claimed", "ended", "down"}
  /\ stop' = TRUE
  /\ UNCHANGED <<exec, life>>

-----------------------------------------------------------------------------
(* The run's thread.                                                       *)

(* The provider hands a contained launcher to its runner: executor's own   *)
(* takes it, the Worker's does not.                                        *)
RunnerAccepts == mode # "unwired"

(* Only the Worker's runner is given a network guard.                      *)
Guarded == mode = "phased"

(* What the guard answers: disabled or disposed it allows, any failure of  *)
(* its probe blocks, else the country decides; the probe is external.      *)
GuardVerdict == IF Guarded THEN {"allowed", "blocked"} ELSE {"allowed"}

LogCreateIntent ==
  /\ pc = "launch" /\ RunnerAccepts
  /\ append("PROCESS_CREATE_INTENT", "spawn", "abort")
  /\ UNCHANGED lifeVars

(* Popen, directly or through the contained launcher.                      *)
Spawn ==
  /\ pc = "spawn"
  /\ \/ /\ exec' = [exec EXCEPT !.procs = {"gate"}, !.gate = "held"]
        /\ pc' = "assign"
        /\ UNCHANGED faults
     \/ /\ Fault
        /\ pc' = "abort"
        /\ UNCHANGED exec
  /\ UNCHANGED <<wal, life, stop>>

(* Into the job, then the gate file; a wrapper that cannot be assigned is  *)
(* killed, or stays behind its closed gate.                                *)
Assign ==
  /\ pc = "assign"
  /\ \/ /\ exec' = [exec EXCEPT !.gate = "open"]
        /\ pc' = "pid"
        /\ UNCHANGED faults
     \/ /\ Fault
        /\ pc' = "abort"
        /\ \E p \in SUBSET exec.procs : exec' = [exec EXCEPT !.procs = p]
  /\ UNCHANGED <<wal, life, stop>>

ReadPid ==
  /\ pc = "pid"
  /\ IF exec.gate = "named" /\ ~life.pid
     THEN /\ life' = [life EXCEPT !.pid = TRUE]
          /\ append("PROCESS_CREATED", "poll", "abort")
     ELSE /\ pc' = "poll"
          /\ UNCHANGED <<life, wal, faults>>
  /\ UNCHANGED <<exec, stop>>

PollExit ==
  /\ pc = "poll"
  /\ IF "gate" \notin exec.procs /\ ~life.exited
     THEN /\ life' = [life EXCEPT !.exited = TRUE]
          /\ append("PROCESS_EXITED", "probe", "abort")
     ELSE /\ pc' = "probe"
          /\ UNCHANGED <<life, wal, faults>>
  /\ UNCHANGED <<exec, stop>>

(* A valid marker counts once it has been seen unchanged for the stability *)
(* period; whether the period has passed is time's choice.                 *)
ProbeMarker ==
  /\ pc = "probe"
  /\ pc' = "decide"
  /\ \/ life' = [life EXCEPT !.probe = exec.final]
     \/ /\ exec.final \in Markers /\ life.probe = exec.final /\ life.marker = "none"
        /\ life' = [life EXCEPT !.marker = exec.final]
  /\ UNCHANGED <<exec, stop, wal, faults>>

Decide(next, reason) ==
  /\ pc = "decide"
  /\ pc' = next
  /\ life' = [life EXCEPT !.reason = reason]
  /\ UNCHANGED <<exec, stop, wal, faults>>

Drained == life.marker # "none" /\ exec.procs = {} /\ Decide("close", "none")

GraceExpired == life.marker # "none" /\ exec.procs # {} /\ Decide("kill", "grace")

(* The wrapper is gone for the settle period and no marker came.           *)
RootExited ==
  /\ life.marker = "none" /\ life.exited
  /\ IF exec.procs # {} THEN Decide("kill", "descendants") ELSE Decide("close", "none")

OwnerStop == life.marker = "none" /\ stop /\ Decide("kill", "owner_stop")

TimedOut == life.marker = "none" /\ ~stop /\ Decide("kill", "timeout")

GuardUnsafe ==
  /\ "blocked" \in GuardVerdict
  /\ life.marker = "none" /\ ~stop
  /\ Decide("kill", "network")

KeepWaiting ==
  /\ IF life.marker = "none" THEN ~stop ELSE exec.procs # {}
  /\ Decide("pid", "none")

(* _bounded_cleanup: the tree is terminated, or terminating it fails.      *)
BoundedCleanup ==
  /\ pc = "kill"
  /\ pc' = "close"
  /\ \/ exec' = [exec EXCEPT !.procs = {}] /\ UNCHANGED faults
     \/ Fault /\ UNCHANGED exec
  /\ UNCHANGED <<wal, life, stop>>

(* Mutant: the job outlives the run. *)
FaultyCloseScope ==
  /\ pc \in {"close", "abort"}
  /\ pc' = IF pc = "close" THEN "exit" ELSE "dispose"
  /\ UNCHANGED <<exec, wal, faults, life, stop>>

(* The finally clause, on the way out with a result or with an exception.  *)
(* A wrapper that was never assigned is not in the job; the death of one   *)
(* that is may come too late for the next poll.                            *)
CloseScope ==
  /\ \/ pc = "close" /\ pc' = "exit"
     \/ pc = "close" /\ "gate" \in exec.procs /\ pc' = "final"
     \/ pc = "abort" /\ pc' = "dispose"
  /\ exec' = IF KillOnClose /\ exec.gate # "held"
             THEN [exec EXCEPT !.procs = {}] ELSE exec
  /\ UNCHANGED <<wal, faults, life, stop>>

(* The exit the loop had not seen.                                         *)
RecordExit ==
  /\ pc = "exit"
  /\ IF "gate" \notin exec.procs /\ ~life.exited
     THEN /\ life' = [life EXCEPT !.exited = TRUE]
          /\ append("PROCESS_EXITED", "final", "dispose")
     ELSE /\ pc' = "final"
          /\ UNCHANGED <<life, wal, faults>>
  /\ UNCHANGED <<exec, stop>>

(* Mutant: the late marker of a stopped run is accepted. *)
FaultyFinalProbe ==
  /\ pc = "final"
  /\ pc' = "dispose"
  /\ life' = [life EXCEPT !.done = TRUE,
                !.marker = IF @ = "none" /\ exec.final \in Markers THEN exec.final ELSE @]
  /\ UNCHANGED <<exec, stop, wal, faults>>

(* The last look at the final message: a stopped run has none, any other   *)
(* takes a valid marker that the loop was too late to accept.              *)
FinalProbe ==
  /\ pc = "final"
  /\ pc' = "dispose"
  /\ life' = [life EXCEPT !.done = TRUE,
                !.marker = IF life.reason = "owner_stop" THEN "none"
                           ELSE IF @ = "none" /\ exec.final \in Markers
                           THEN exec.final ELSE @]
  /\ UNCHANGED <<exec, stop, wal, faults>>

ProcessStep ==
  \/ GateLaunches \/ GateNames \/ GateExits
  \/ ExecutorForks \/ ExecutorWrites \/ ExecutorExits

LifecycleStep ==
  \/ LogCreateIntent \/ Spawn \/ Assign \/ ReadPid \/ PollExit \/ ProbeMarker
  \/ Drained \/ GraceExpired \/ RootExited \/ OwnerStop \/ TimedOut \/ GuardUnsafe
  \/ KeepWaiting \/ BoundedCleanup \/ CloseScope \/ RecordExit \/ FinalProbe

===============================================================================
