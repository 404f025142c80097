----------------------------- MODULE MCWatchdog -----------------------------
(* An instance of Watchdog for TLC: the four modes of the footer.            *)
EXTENDS Watchdog

FourModes == <<"plan", "auto", "manual", "acceptEdits">>
B(s, d, f) == [sessions |-> s, denials |-> d, faults |-> f]
Small == {B(2, 1, 0), B(1, 1, 1), B(1, 2, 0)}
=============================================================================
