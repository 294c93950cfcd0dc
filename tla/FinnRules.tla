----------------------------- MODULE FinnRules ------------------------------
(***************************************************************************)
(* The arithmetic of Finn, the fuel planner: how much of a tank is gone    *)
(* when a day's drive starts, what the day must leave for the next one,    *)
(* which earlier days have to be planned first, and one round of the       *)
(* placement loop.  Distances are whole kilometres: alongKmOnLeg rounds    *)
(* every station to the kilometre the tank walk reads back.                *)
(***************************************************************************)
EXTENDS Integers, Sequences, FiniteSets, FiniteSetsExt

\* Variant for the mutation runs: the difference is not clamped.
Unclamped(n) == n

AtLeastZero(n) == IF n < 0 THEN 0 ELSE n

-----------------------------------------------------------------------------
(* The tank walk *)

\* What the walk knows of one leg: how long it is, where its last fuel stop is (-1 for
\* none), the burn its declaration stands for (-1 for none), and whether it was warned about.
LegHistory == [km : Nat, lastFuel : Int, declared : Int, warned : BOOLEAN]

\* What is burned at the end of a leg, from what was at its start: a fuel stop is a refuel
\* where it stands, a warned leg one at its end, a declaration a baseline at its leg's start.
BurnAfter(leg, before) ==
    CASE leg.lastFuel >= 0 -> AtLeastZero(leg.km - leg.lastFuel)
      [] leg.lastFuel < 0 /\ leg.warned -> 0
      [] leg.lastFuel < 0 /\ ~leg.warned /\ leg.declared >= 0 -> leg.km + leg.declared
      [] OTHER -> leg.km + before

\* The kilometres burned since the last refuel, after driving the legs of `history`.
KmBurnedSinceLastRefuel(history) ==
    LET burn[i \in 0..Len(history)] ==
            IF i = 0 THEN 0 ELSE BurnAfter(history[i], burn[i - 1])
    IN  burn[Len(history)]

-----------------------------------------------------------------------------
(* Which earlier days to plan first *)

Unsourced == {"none", "failed"}
InFlight == {"computing", "pending"}

\* Where the tank walk from the target stops: the last of the earlier legs that carries a
\* fuel stop, a warning or the declaration, 0 for the start of the trip.
SourcingAnchor(earlier, seen, refuelled, declaredLeg) ==
    Max({0} \cup {l \in earlier :
                    l \in refuelled \/ seen[l] = "no_stations_found" \/ l = declaredLeg})

\* The drive legs after the anchor in one of the given statuses.
DrivesSince(anchor, earlier, drives, seen, statuses) ==
    {l \in earlier \cap drives : l > anchor /\ seen[l] \in statuses}

-----------------------------------------------------------------------------
(* Placement *)

\* The stations planLegFuelStops uses: past the start and no further than the end.
OnLeg(km, stations) == {s \in stations : 0 < s /\ s <= km}

\* fuelNeededAtLegStartKm: to the first station, or to the end, at most a full tank.
FuelNeededAtLegStart(km, stations, range) ==
    Min({km, range} \cup {s \in stations : 0 < s /\ s < km})

\* Variant for the mutation runs: the tank is full wherever the walk stands.
ReachOfFullTank(range, burn, at) == range

\* How far the tank goes from the last refuel: the leg's start or a stop placed on it.
Reach(range, burn, at) == IF at = 0 THEN range - burn ELSE range

EndInReach(km, reserve, range, burn, at) == (km - at) + reserve <= Reach(range, burn, at)

\* Variant for the mutation runs: a station the tank just reaches counts as out of reach.
SafeWithAKilometreLeft(km, stations, range, burn, at) ==
    {s \in OnLeg(km, stations) : at < s /\ s - at < Reach(range, burn, at)}

\* The stations ahead of the last refuel that the tank still reaches.
SafeStations(km, stations, range, burn, at) ==
    {s \in OnLeg(km, stations) : at < s /\ s - at <= Reach(range, burn, at)}

\* Variant for the mutation runs: the first station in reach instead of the last.
ChooseNearest(safe) == Min(safe)

\* choose: the farthest station in reach.
Choose(safe) == Max(safe)
=============================================================================
