------------------------------ MODULE MCMemory ------------------------------
(* Instances of Memory for TLC: two jobs that share a key, and two notes of  *)
(* one session that mention the same file.                                   *)
EXTENDS Memory

CONSTANTS a1, a2, n1, n2, x1, file

Keys == [f \in Facts |-> IF f = 3 THEN "plain" ELSE "shared"]
Jobs == [f \in Facts |-> IF f = 2 THEN "other" ELSE "job"]
Job == [a \in Archives |-> "job"]
Session == [n \in Notes |-> "session"]
Some == {{1, 2, 3, a1}, {1, 2, a1, a2}, {2, 3, a1, n1, x1}, {n1, n2, x1}}
Names == [x \in Facts \cup Notes |-> IF x \in Notes THEN {file} ELSE IF x = 3 THEN {} ELSE {file}]
=============================================================================
