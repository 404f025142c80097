------------------------------ MODULE MCSpawn -------------------------------
(* An instance of Spawn for TLC: what may happen beside two or three requests. *)
EXTENDS Spawn

B(a, e, c, r, v, b, f, s, n) ==
  [asks |-> a, ends |-> e, closes |-> c, reaps |-> r, recovers |-> v, crashes |-> b,
   faults |-> f, sweeps |-> s, prunes |-> n]
Small ==
  {B(3, 1, 0, 0, 0, 0, 0, 0, 0), B(3, 0, 0, 0, 0, 0, 0, 1, 0), B(2, 1, 0, 0, 1, 0, 0, 0, 0),
   B(1, 1, 1, 0, 1, 0, 0, 0, 0), B(1, 1, 0, 1, 1, 0, 0, 0, 0), B(1, 0, 1, 1, 1, 0, 0, 0, 0),
   B(2, 0, 0, 1, 0, 1, 0, 0, 0), B(1, 0, 1, 0, 1, 0, 1, 0, 0), B(1, 1, 0, 0, 1, 1, 1, 0, 0),
   B(1, 1, 0, 0, 1, 0, 0, 0, 1), B(2, 0, 0, 0, 0, 0, 0, 0, 1)}
=============================================================================
