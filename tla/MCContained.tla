------------------------------ MODULE MCContained ------------------------------
(***************************************************************************)
(* Instance of ContainedRun for TLC.                                       *)
(***************************************************************************)
EXTENDS ContainedInvariant, TLC

CONSTANTS c1, c2

MCConns == {c1, c2}

===============================================================================
