------------------------------- MODULE MCProxy -------------------------------
(* Instances of Proxy for TLC: the ladder of the three default models, a    *)
(* dated name and one the pool does not know.                               *)
EXTENDS Proxy, TLC

Ladder == {"haiku", "sonnet", "opus"}
Names == Ladder \cup {"opus-dated", "unknown", "deepseek"}
TierOf == ("haiku" :> 0) @@ ("sonnet" :> 1) @@ ("opus" :> 2)
CostOf == ("haiku" :> 1) @@ ("sonnet" :> 3) @@ ("opus" :> 15)
Keyword == [m \in Names |-> IF m \in Ladder THEN m
                            ELSE IF m = "opus-dated" THEN "opus" ELSE "none"]
Windows == (0 :> 1) @@ (1 :> 4) @@ (2 :> 4)

Classed == ("work-a" :> "work") @@ ("ds-a" :> "deepseek") @@ ("bg-a" :> "bg") @@ ("a" :> "personal")

\* Only the personal session is metered, to keep the tallies of the others out
\* of the state.
Metered == [s \in DOMAIN Classed |-> IF s = "a" THEN {1} ELSE {0}]

Turn(s, m, str, d) ==
  [session |-> s, marker |-> FALSE, stream |-> str, model |-> m, size |-> 1, difficulty |-> d]
Permission(s, m, str, size) ==
  [session |-> s, marker |-> TRUE, stream |-> str, model |-> m, size |-> size, difficulty |-> "hard"]

Mixed ==
  {Turn("a", "opus-dated", TRUE, "normal"), Turn("bg-a", "opus", FALSE, "hard"),
   Turn("ds-a", "sonnet", TRUE, "hard"), Turn("work-a", "opus", FALSE, "normal"),
   Permission("work-a", "sonnet", FALSE, 2)}
Symmetry == Permutations(Slots)
Permissions == {Permission("a", "opus", str, 2) : str \in BOOLEAN}
=============================================================================
