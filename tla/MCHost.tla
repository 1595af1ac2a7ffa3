-------------------------------- MODULE MCHost ---------------------------------
(***************************************************************************)
(* Instance of HostAdmission for TLC: w1 polls a and c, which may run      *)
(* together; w2 polls b, which works below the directory of a and pushes   *)
(* to the branch of c.  The processes see one another live, as on POSIX;   *)
(* or neither answers the other's probe, as on Windows when each has its   *)
(* own console.                                                            *)
(***************************************************************************)
EXTENDS HostAdmission

CONSTANTS w1, w2, a, b, c, g

MCWorkers == {w1, w2}
MCProjects == {a, b, c}
MCPolls == [w \in MCWorkers |-> IF w = w1 THEN {a, c} ELSE {b}]
MCLimit == [w \in MCWorkers |-> IF w = w1 THEN 2 ELSE 1]
MCPaths == [p \in MCProjects |->
             CASE p = a -> {<<"x">>}
               [] p = b -> {<<"x", "y">>}
               [] p = c -> {<<"z">>}]
MCAnswers == [w \in MCWorkers |-> MCWorkers]
MCSilent == [w \in MCWorkers |-> {}]
MCGitTarget == [p \in MCProjects |-> IF p = a THEN NoTarget ELSE g]

===============================================================================
