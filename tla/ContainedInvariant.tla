--------------------------- MODULE ContainedInvariant --------------------------
(***************************************************************************)
(* The inductive invariant behind the safety properties of ContainedRun,   *)
(* in named parts.  Each part ties one piece of evidence or of the         *)
(* containment to where the run's thread is; "down" is everywhere after a  *)
(* crash.                                                                  *)
(***************************************************************************)
EXTENDS ContainedRun

(* The stretches of the run's thread.                                      *)
BeforeBind == {"claimed", "scope", "broker", "log_broker", "prepare", "bind"}
BeforeSpawn == BeforeBind \cup {"launch", "spawn"}
Running == {"assign", "pid", "poll", "probe", "decide", "kill", "close", "abort"}
Closing == {"exit", "final"}
Disposing == {"dispose", "join", "log_stopped", "snapshot", "reconcile", "log_reconciled",
              "log_egress", "release", "log_released"}
Freeing == {"free"}
Reporting == {"publish_intent", "save", "commit", "push_intent", "push", "observe",
              "confirm", "ack", "published", "resave", "ended"}
AfterFree == {"materialize"} \cup Reporting
PcType == BeforeSpawn \cup Running \cup Closing \cup Disposing \cup Freeing \cup AfterFree
          \cup {"down"}

(***************************************************************************)
(* The log: what the writer remembers is on disk, and the disk holds every *)
(* prerequisite of what it holds.                                          *)
(***************************************************************************)
WalClosed ==
  /\ wal.mem \subseteq wal.disk
  /\ \A k \in wal.disk : prerequisites[k] \subseteq wal.disk

(***************************************************************************)
(* The processes.                                                          *)
(***************************************************************************)
(* No process, or a wrapper that waits outside the job for ever.           *)
Inert ==
  \/ exec.procs = {}
  \/ exec.gate = "held" /\ exec.procs \subseteq {"gate"}

ProcsInv ==
  /\ pc \in BeforeSpawn => exec.gate = "none"
  /\ pc = "assign" => exec.gate = "held"
  /\ pc = "spawn" => "PROCESS_CREATE_INTENT" \in wal.disk
  /\ exec.gate = "none" => exec.procs = {}
  /\ exec.gate \in {"held", "open"} => exec.procs \subseteq {"gate"}
  /\ KillOnClose /\ pc \notin Running => Inert

(***************************************************************************)
(* What the lifecycle loop knows, and the result it leaves.                *)
(***************************************************************************)
LifeInv ==
  /\ life.marker # "none" => life.marker = exec.final
  /\ pc \in BeforeSpawn \cup Running \cup Closing => ~life.done
  /\ life.done /\ life.reason = "owner_stop" => life.marker = "none"

ReportInv ==
  /\ pc \notin Reporting \cup {"down"} => report = NoReport /\ sidecar = "none"
  /\ report.outcome = "SUCCESS" => life.done /\ life.marker = "SUCCESS"
  /\ report.marker => life.done /\ life.marker # "none"
  /\ report # NoReport /\ KillOnClose => Inert
  /\ sidecar = "none" => verdict = "none"
  /\ verdict = "completed" => report.marker /\ "PROCESS_EXITED" \in wal.disk

(***************************************************************************)
(* The containment.                                                        *)
(***************************************************************************)
(* Where the helper is known to enforce the containment of an egress run.  *)
Enforced == {"launch", "spawn"} \cup Running

HelperInv ==
  /\ helper.cont = "NEW" => ~helper.active
  /\ helper.cont = "UNKNOWN" => helper.lost
  /\ pc = "bind" => helper.active
  /\ pc \in Enforced /\ LaunchesEgress => helper.active /\ helper.bound
  /\ pc \in BeforeBind => ~helper.bound
  /\ "CONTAINMENT_PREPARED" \in wal.disk => helper.bound
  /\ ~LaunchesEgress => ~helper.active
  /\ pc = "log_released" => ~helper.active
  /\ pc \in Freeing \cup AfterFree => helper.lost \/ ~helper.active

ModeInv ==
  /\ pc \in {"spawn"} \cup Running \cup Closing => RunnerAccepts
  /\ pc \in BeforeSpawn \cup Running \cup Closing \cup Disposing \cup Freeing => held
  /\ pc \in AfterFree => ~held
  /\ pc \in {"broker", "log_broker", "prepare", "bind"} \cup (Disposing \ {"dispose"})
       => LaunchesEgress

(***************************************************************************)
(* The broker and the ledger of project egress.                            *)
(***************************************************************************)
BrokerInv ==
  /\ pc \in {"claimed", "scope", "broker"} => broker.state = "NEW"
  /\ ~LaunchesEgress /\ pc # "down" => broker.state = "NEW"
  /\ pc \in ((Disposing \ {"dispose", "join"}) \cup Freeing \cup AfterFree)
       /\ LaunchesEgress => broker.state = "CLOSED"
  /\ broker.relayed => broker.observed
  /\ \A c \in Handlers : broker.observed

LedgerInv ==
  /\ broker.ledger # "none" => broker.state = "CLOSED"
  /\ pc \in BeforeSpawn \cup Running \cup Closing
       \cup {"dispose", "join", "log_stopped", "snapshot"} => broker.ledger = "none"
  /\ pc = "log_egress" => broker.ledger # "none"
  /\ broker.ledger = "NO" =>
       ~broker.relayed /\ \A c \in Conns : conns[c] # "selecting"
  /\ "EGRESS_NO" \in wal.disk => broker.ledger = "NO"

(***************************************************************************)
(* The push.                                                               *)
(***************************************************************************)
PushInv ==
  /\ pc = "push" => "PUSH_INTENT" \in wal.disk
  /\ pc = "confirm" => Landed

(* What the records of the log stand for.                                  *)
RecordsInv ==
  /\ "PROCESS_CREATED" \in wal.disk => exec.gate = "named"
  /\ "PROCESS_EXITED" \in wal.disk => "gate" \notin exec.procs
  /\ "BROKER_STOPPED" \in wal.disk => broker.state = "CLOSED"
  /\ "CONTAINMENT_RELEASED" \in wal.disk =>
       ~helper.active /\ pc \notin BeforeSpawn \cup Running
  /\ "PUSH_CONFIRMED" \in wal.disk => Landed

\* The inductive invariant: wherever the run's thread (process_project and the
\* run scope) is, log, processes, containment, broker and report agree with it.
ContainedInv ==
  /\ ContainedTypeOK
  /\ pc \in PcType
  /\ WalClosed
  /\ IntentBeforeEffect
  /\ ProcsInv
  /\ LifeInv
  /\ ReportInv
  /\ HelperInv
  /\ ModeInv
  /\ BrokerInv
  /\ LedgerInv
  /\ PushInv
  /\ RecordsInv

===============================================================================
