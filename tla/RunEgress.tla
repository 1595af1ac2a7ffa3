------------------------------- MODULE RunEgress -------------------------------
(***************************************************************************)
(* The egress containment of one run (egress_runtime.RunEgressResources):  *)
(* a loopback broker with an acceptor and handler threads, and a resource  *)
(* of the privileged helper that confines the executor to that broker.     *)
(*                                                                         *)
(*   broker.state     NEW, ACTIVE, STOPPING (stop flag set), CLOSED        *)
(*   broker.observed  connections_observed > 0                             *)
(*   broker.relayed   some payload of the executor went out (history)      *)
(*   broker.ledger    the snapshot dispose took: none, YES or NO           *)
(*   conns[c]         idle, queued in the backlog, taken by the acceptor,  *)
(*                    handling, relaying (between two checks of the stop   *)
(*                    flag), selecting (past the check), closed            *)
(*   helper.active    the helper holds the run's resource                  *)
(*   helper.cont      RunContainment.state                                 *)
(*   helper.bound     the launcher holds the exact binding                 *)
(*   helper.lost      some exchange with the helper failed (history)       *)
(***************************************************************************)
EXTENDS ExecutorLifecycle

CONSTANTS
  Conns,     \* connections the executor may open
  Slots      \* MAX_BROKER_THREADS: handlers at a time

VARIABLES broker, conns, helper

ASSUME SlotsAssumption == IsFiniteSet(Conns) /\ Slots \in Nat \ {0}

BrokerType == [state : {"NEW", "ACTIVE", "STOPPING", "CLOSED"}, observed : BOOLEAN,
               relayed : BOOLEAN, ledger : {"none", "YES", "NO"}]
ConnStates == {"idle", "queued", "taken", "handling", "relaying", "selecting", "closed"}
HelperType == [active : BOOLEAN, bound : BOOLEAN, lost : BOOLEAN,
               cont : {"NEW", "PREPARED", "RECONCILED", "RELEASED", "UNKNOWN"}]

egressVars == <<broker, conns, helper>>

EgressInit ==
  /\ broker = [state |-> "NEW", observed |-> FALSE, relayed |-> FALSE, ledger |-> "none"]
  /\ conns = [c \in Conns |-> "idle"]
  /\ helper = [active |-> FALSE, cont |-> "NEW", bound |-> FALSE, lost |-> FALSE]

Handlers == {c \in Conns : conns[c] \in {"handling", "relaying", "selecting"}}
Stopping == broker.state \in {"STOPPING", "CLOSED"}

-----------------------------------------------------------------------------
(* The broker's threads.                                                   *)

Becomes(c, from, to) ==
  /\ conns[c] = from
  /\ conns' = [conns EXCEPT ![c] = to]

(* The contained executor reaches the broker's listening socket only.      *)
Connect(c) ==
  /\ ExecutorAlive /\ helper.active /\ broker.state = "ACTIVE"
  /\ Becomes(c, "idle", "queued")
  /\ UNCHANGED <<broker, helper>>

(* accept() returned before the socket closed; one at a time.              *)
Accept(c) ==
  /\ broker.state = "ACTIVE"
  /\ \A d \in Conns : conns[d] # "taken"
  /\ Becomes(c, "queued", "taken")
  /\ UNCHANGED <<broker, helper>>

(* Mutant: the handler starts before the connection is counted. *)
FaultyAdmitConnection(c) ==
  /\ Becomes(c, "taken", IF Cardinality(Handlers) < Slots THEN "handling" ELSE "closed")
  /\ UNCHANGED <<broker, helper>>

(* No slot: 503 and the next one.  Otherwise the connection is counted     *)
(* before its handler starts.  Neither looks at the stop flag.             *)
AdmitConnection(c) ==
  /\ IF Cardinality(Handlers) < Slots
     THEN /\ Becomes(c, "taken", "handling")
          /\ broker' = [broker EXCEPT !.observed = TRUE]
     ELSE /\ Becomes(c, "taken", "closed")
          /\ UNCHANGED broker
  /\ UNCHANGED helper

(* A health request, a refused method or target, an upstream failure, or   *)
(* an upstream that accepted the CONNECT.                                  *)
HandleConnection(c) ==
  /\ \/ Becomes(c, "handling", "closed")
     \/ Becomes(c, "handling", "relaying")
  /\ UNCHANGED <<broker, helper>>

(* The relay loop: the stop flag and the relay deadline are read before    *)
(* each select, which may still move data after the flag is set.           *)
RelayCheck(c) ==
  /\ \/ ~Stopping /\ Becomes(c, "relaying", "selecting")
     \/ Becomes(c, "relaying", "closed")
  /\ UNCHANGED <<broker, helper>>

RelayData(c) ==
  /\ \/ /\ Becomes(c, "selecting", "relaying")
        /\ broker' = [broker EXCEPT !.relayed = TRUE]
     \/ /\ Becomes(c, "selecting", "relaying") /\ UNCHANGED broker
     \/ /\ Becomes(c, "selecting", "closed") /\ UNCHANGED broker
  /\ UNCHANGED helper

BrokerThread(c) ==
  \/ Accept(c) \/ AdmitConnection(c) \/ HandleConnection(c)
  \/ RelayCheck(c) \/ RelayData(c)

-----------------------------------------------------------------------------
(* What the helper's service makes of the resource: it consumes the        *)
(* request id, then carries the request out or rejects it, whatever answer *)
(* reaches the run.                                                        *)
HelperHandles(served) == {helper.active, served}

(* One exchange with the helper (RunContainment._exchange): served, or     *)
(* refused, lost before it was served, or its answer lost.  A failed one   *)
(* leaves the containment UNKNOWN and its request id consumed.             *)
Exchange(served, state, next, failed) ==
  \/ /\ helper' = [helper EXCEPT !.active = served, !.cont = state]
     /\ pc' = next
     /\ UNCHANGED faults
  \/ /\ Fault
     /\ \E a \in HelperHandles(served) :
          helper' = [helper EXCEPT !.active = a, !.cont = "UNKNOWN", !.lost = TRUE]
     /\ pc' = failed

LaunchesEgress == mode # "phased"

(* prepare(): the broker first.  Its port may be taken.                    *)
StartBroker ==
  /\ pc = "broker"
  /\ \/ /\ broker' = [broker EXCEPT !.state = "ACTIVE"]
        /\ pc' = "log_broker"
        /\ UNCHANGED faults
     \/ /\ Fault
        /\ pc' = "dispose"
        /\ UNCHANGED broker
  /\ UNCHANGED <<wal, conns, helper>>

LogBrokerStarted ==
  /\ pc = "log_broker"
  /\ append("BROKER_STARTED", "prepare", "dispose")
  /\ UNCHANGED egressVars

(* Mutant: an unanswered PREPARE_RUN is taken for a prepared one. *)
FaultyPrepareContainment ==
  /\ pc = "prepare"
  /\ Exchange(TRUE, "PREPARED", "bind", "bind")
  /\ UNCHANGED <<wal, broker, conns>>

(* PREPARE_RUN must be answered ACTIVE.                                    *)
PrepareContainment ==
  /\ pc = "prepare"
  /\ Exchange(TRUE, "PREPARED", "bind", "dispose")
  /\ UNCHANGED <<wal, broker, conns>>

(* The launcher retains the exact binding, then the event.                 *)
BindLauncher ==
  /\ pc = "bind"
  /\ helper' = [helper EXCEPT !.bound = TRUE]
  /\ append("CONTAINMENT_PREPARED", "launch", "dispose")
  /\ UNCHANGED <<broker, conns>>

-----------------------------------------------------------------------------
(* dispose(): broker, then reconcile, then release; an error is kept and   *)
(* the next step runs.                                                     *)

(* Mutant: dispose leaves the stop flag clear. *)
FaultyStopBroker ==
  /\ pc = "dispose" /\ LaunchesEgress
  /\ pc' = "join"
  /\ UNCHANGED <<wal, faults, broker, conns, helper>>

(* The stop flag is set and the socket closed: the backlog is reset.  A    *)
(* broker that never became active has no threads and no event.            *)
StopBroker ==
  /\ pc = "dispose" /\ LaunchesEgress
  /\ \/ /\ broker.state = "ACTIVE"
        /\ broker' = [broker EXCEPT !.state = "STOPPING"]
        /\ pc' = "join"
     \/ /\ broker.state = "NEW"
        /\ broker' = [broker EXCEPT !.state = "CLOSED"]
        /\ pc' = "snapshot"
  /\ conns' = [c \in Conns |-> IF conns[c] = "queued" THEN "closed" ELSE conns[c]]
  /\ UNCHANGED <<wal, faults, helper>>

(* The joins end when the threads do, or after their timeouts.             *)
JoinBroker ==
  /\ pc = "join"
  /\ \/ Handlers = {} /\ (\A c \in Conns : conns[c] # "taken") /\ UNCHANGED faults
     \/ Fault
  /\ broker' = [broker EXCEPT !.state = "CLOSED"]
  /\ pc' = "log_stopped"
  /\ UNCHANGED <<wal, conns, helper>>

LogBrokerStopped ==
  /\ pc = "log_stopped"
  /\ append("BROKER_STOPPED", "snapshot", "reconcile")
  /\ UNCHANGED egressVars

LedgerSnapshot ==
  /\ pc = "snapshot"
  /\ broker' = [broker EXCEPT !.ledger = IF broker.observed THEN "YES" ELSE "NO"]
  /\ pc' = "reconcile"
  /\ UNCHANGED <<wal, faults, conns, helper>>

(* RECONCILE_RUN of a prepared containment; one never attempted needs      *)
(* nothing, one in doubt is released at once.                              *)
ReconcileContainment ==
  /\ pc = "reconcile"
  /\ \/ /\ helper.cont = "PREPARED"
        /\ Exchange(helper.active, "RECONCILED", "log_reconciled", "release")
     \/ /\ helper.cont = "NEW" /\ pc' = "free"
        /\ UNCHANGED <<helper, faults>>
     \/ /\ helper.cont = "UNKNOWN" /\ pc' = "release"
        /\ UNCHANGED <<helper, faults>>
  /\ UNCHANGED <<wal, broker, conns>>

LogReconciled ==
  /\ pc = "log_reconciled"
  /\ append("CONTAINMENT_RECONCILED",
            IF broker.ledger = "none" THEN "release" ELSE "log_egress", "release")
  /\ UNCHANGED egressVars

LogEgress ==
  /\ pc = "log_egress"
  /\ append(IF broker.ledger = "YES" THEN "EGRESS_YES" ELSE "EGRESS_NO",
            "release", "release")
  /\ UNCHANGED egressVars

(* RELEASE_RUN; the event only if the containment had been prepared.       *)
ReleaseContainment ==
  /\ pc = "release"
  /\ Exchange(FALSE, "RELEASED",
              IF helper.bound THEN "log_released" ELSE "free",
              "free")
  /\ UNCHANGED <<wal, broker, conns>>

LogReleased ==
  /\ pc = "log_released"
  /\ append("CONTAINMENT_RELEASED", "free", "free")
  /\ UNCHANGED egressVars

EgressStep ==
  \/ StartBroker \/ LogBrokerStarted \/ PrepareContainment \/ BindLauncher
  \/ StopBroker \/ JoinBroker \/ LogBrokerStopped \/ LedgerSnapshot
  \/ ReconcileContainment \/ LogReconciled \/ LogEgress
  \/ ReleaseContainment \/ LogReleased

===============================================================================
