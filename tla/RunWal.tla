-------------------------------- MODULE RunWal --------------------------------
(***************************************************************************)
(* The durable write-ahead log of one run (vnext_runtime/recovery_wal.py): *)
(* an append-only file of checked records, read again by recovery after a  *)
(* crash.  The log keeps the events it holds in memory (mem), the ones on  *)
(* disk (disk), and whether the file can no longer be read (torn).  Kinds  *)
(* occur at most once, so a log is a set; order is kept by the admission   *)
(* rule.  pc is where the run's thread is; an append moves it.             *)
(***************************************************************************)
EXTENDS Naturals, FiniteSets

CONSTANTS MaxFaults   \* bound on I/O, helper, push and process faults

VARIABLES pc, wal, faults

ASSUME FaultsAssumption == MaxFaults \in Nat

(* PROJECT_EGRESS_RECONCILED carries its verdict, so it is two kinds here. *)
EgressKinds == {"EGRESS_YES", "EGRESS_NO"}

WalEventKind ==
  {"RUN_CLAIMED", "PROCESS_CREATE_INTENT", "PROCESS_CREATED", "PROCESS_EXITED",
   "BROKER_STARTED", "BROKER_STOPPED", "CONTAINMENT_PREPARED",
   "CONTAINMENT_RECONCILED", "CONTAINMENT_RELEASED", "REPORT_MATERIALIZED",
   "REPORT_PUBLISH_INTENT", "REPORT_PUBLISHED", "PUSH_INTENT", "PUSH_CONFIRMED"}
  \cup EgressKinds

(* The event that must stand before each kind.                             *)
prerequisites ==
  [k \in WalEventKind |->
     CASE k \in {"RUN_CLAIMED", "PUSH_INTENT"} -> {}
       [] k \in {"PROCESS_CREATE_INTENT", "BROKER_STARTED",
                 "REPORT_MATERIALIZED"} -> {"RUN_CLAIMED"}
       [] k = "PROCESS_CREATED" -> {"PROCESS_CREATE_INTENT"}
       [] k = "PROCESS_EXITED" -> {"PROCESS_CREATED"}
       [] k \in {"BROKER_STOPPED", "CONTAINMENT_PREPARED"} -> {"BROKER_STARTED"}
       [] k \in {"CONTAINMENT_RECONCILED", "CONTAINMENT_RELEASED"} \cup EgressKinds
            -> {"CONTAINMENT_PREPARED"}
       [] k = "REPORT_PUBLISH_INTENT" -> {"REPORT_MATERIALIZED"}
       [] k = "REPORT_PUBLISHED" -> {"REPORT_PUBLISH_INTENT"}
       [] k = "PUSH_CONFIRMED" -> {"PUSH_INTENT"}]

(* What a reader of the file accepts: no duplicate, RUN_CLAIMED first,     *)
(* every prerequisite present.                                             *)
ValidEventSequence(events) ==
  /\ events # {} => "RUN_CLAIMED" \in events
  /\ \A k \in events : prerequisites[k] \subseteq events

Admits(k) == k \notin wal.mem /\ ValidEventSequence(wal.mem \cup {k})

WalInit ==
  /\ wal = [mem |-> {}, disk |-> {}, torn |-> FALSE]
  /\ faults = 0

Fault ==
  /\ faults < MaxFaults
  /\ faults' = faults + 1

(* A record the writer forgot makes the next one repeat its sequence       *)
(* number, which no reader accepts.                                        *)
Written(k) ==
  [mem |-> wal.mem \cup {k}, disk |-> wal.disk \cup {k},
   torn |-> wal.torn \/ wal.mem # wal.disk]

(* A failing write leaves nothing, part of the record, or all of it; the   *)
(* writer remembers none of these.                                         *)
Unwritten(k) ==
  {wal, [wal EXCEPT !.torn = TRUE],
   [wal EXCEPT !.disk = @ \cup {k}, !.torn = @ \/ wal.mem # wal.disk]}

(* An append by the run's thread: it moves to next, or to failed when the  *)
(* event is refused or the write fails.                                    *)
append(k, next, failed) ==
  \/ /\ Admits(k)
     /\ wal' = Written(k)
     /\ pc' = next
     /\ UNCHANGED faults
  \/ /\ ~Admits(k)
     /\ pc' = failed
     /\ UNCHANGED <<wal, faults>>
  \/ /\ Admits(k)
     /\ Fault
     /\ wal' \in Unwritten(k)
     /\ pc' = failed

(* What recovery can learn from the file.                                  *)
Recorded(k) == ~wal.torn /\ k \in wal.disk

===============================================================================
