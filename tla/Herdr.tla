------------------------------- MODULE Herdr --------------------------------
(* The panes of herdr, in which agents are opened (Spawn) and closed (Reaper). *)
EXTENDS FiniteSets

CONSTANT Panes  \* the handles herdr gives out, again and again
ASSUME PanesAssumption == IsFiniteSet(Panes)
=============================================================================
