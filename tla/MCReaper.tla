------------------------------ MODULE MCReaper ------------------------------
(* An instance of Reaper for TLC: an idle limit of four ticks.              *)
EXTENDS Reaper

B(h, o, f, t) == [humans |-> h, opens |-> o, faults |-> f, timely |-> t]
Small == {B(2, 0, 0, TRUE), B(1, 1, 0, TRUE), B(1, 0, 1, FALSE), B(1, 0, 1, TRUE)}
=============================================================================
