---------------------------- MODULE MCFuelPlans -----------------------------
(***************************************************************************)
(* Small instances of FuelPlans for TLC.                                   *)
(***************************************************************************)
EXTENDS FuelPlanProperties, TLC

CONSTANTS r1, r2

Symmetry == Permutations({r1, r2})

Drive(km, stations) == [type |-> "drive", ends |-> "apart", km |-> km, stations |-> stations]
Rest == [type |-> "rest", ends |-> "same", km |-> 0, stations |-> {}]

\* With a tank of 4, after a day off: a day that fits but leaves too little for the next
\* morning, then one of two stops.
Trips == {<<Rest, Drive(3, {2}), Drive(8, {3, 4})>>}

\* A day may turn into a day off, and any into a long drive past no station.
Reroutings == {Rest, Drive(7, {})}

TripRoutes == UNION {{trip[l] : l \in Legs} : trip \in Trips} \cup Reroutings
=============================================================================
