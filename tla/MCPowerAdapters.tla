--------------------------- MODULE MCPowerAdapters ----------------------------
(* Values for model checking PowerAdapters: one schedule, from the first      *)
(* minute of the day to the last, and the symmetry of its dids and timer ids. *)
EXTENDS PowerAdapters, TLC

OnePlan == {[start |-> 0, end |-> DAY - 1, onoff |-> TRUE]}
Alike   == Permutations(Adapter) \cup Permutations(Timer)
=============================================================================
