---------------------------- MODULE MCConductor ----------------------------
(* Instances of Conductor for TLC.                                         *)
EXTENDS ConductorInv, TLC

\* Two subtasks, the second built on the first.
Chain == (1 :> {}) @@ (2 :> {1})
\* A single subtask.
Single == (1 :> {})

Symmetry == Permutations(Workers)
=============================================================================
