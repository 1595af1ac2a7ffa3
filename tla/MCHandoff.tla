------------------------------ MODULE MCHandoff -------------------------------
(* One path of every kind the planner and the Launcher tell apart.         *)
EXTENDS EngineInvariant

MCCategory == [p \in Paths |->
  CASE p = "kernel" -> "PROTOCOL_AUTHORITY"
    [] p = "recovery" -> "RECOVERY_IDENTITY"
    [] p = "project" -> "PROJECT_CONTROL_PLANE"
    [] OTHER -> "NONE"]
=============================================================================
