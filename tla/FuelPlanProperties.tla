------------------------- MODULE FuelPlanProperties -------------------------
(***************************************************************************)
(* What lazy fuel planning promises, whichever days are opened in whatever *)
(* order.  A reference for the whole trip is planned day by day from the   *)
(* first, as if every day had been opened in turn by nobody else.          *)
(***************************************************************************)
EXTENDS FuelPlans

\* Every drive day up to l has stops and a status from a plan that read nothing older than
\* the last change of the trip.
PlannedUpTo(l) == l \in Drives /\ \A k \in 1..l : Firm(k)

\* Driving `km` and then `beyond` from a tank burned by `burn`, refuelling at the stops.
Drivable(km, beyond, tank, burn, at) ==
    LET refuels == {s \in at : 0 < s /\ s <= km}
    IN  \A p \in {0} \cup refuels :
            LET next == Min({km + beyond} \cup {s \in refuels : s > p})
            IN  next - p <= IF p = 0 THEN tank - burn ELSE tank

-----------------------------------------------------------------------------
(* The reference *)

PickedKm(l) == {s.km : s \in {x \in stops[l] : x.state = "selected"}}

\* What the reference is planned from: the trip, and what the driver has picked on its days.
TripAsItIs == [route |-> route, range |-> range, declared |-> declared,
               picked |-> [l \in Legs |-> PickedKm(l)]]

\* The greedy stops of a day after a refuel at `at`, 0 for the start of the day.
GreedyFrom(km, stations, tank, burn, reserve) ==
    LET from[at \in 0..km] ==
            LET reach == IF at = 0 THEN tank - burn ELSE tank
                safe == {s \in stations : at < s /\ s <= km /\ s <= at + reach}
            IN  IF km - at + reserve <= reach \/ safe = {} THEN {}
                ELSE {Max(safe)} \cup from[Max(safe)]
    IN  from

GreedyStops(km, stations, tank, burn, reserve) ==
    GreedyFrom(km, stations, tank, burn, reserve)[0]

\* What day l of trip t has to leave for the next drive, if it starts with `left`.
ReferenceReserve(t, l, left) ==
    LET later == {k \in Legs : k > l /\ t.route[k].type = "drive" /\ t.route[k].km > 0}
        next == Min(later)
    IN  IF \/ later = {}
           \/ t.declared # None /\ l < t.declared.leg /\ t.declared.leg <= next
           \/ left - t.route[l].km >= t.route[next].km
        THEN 0
        ELSE Min({t.range, t.route[next].km} \cup {s \in t.route[next].stations : s > 0})

\* One day of the reference: what is burned at its start, its stops, and the range left at
\* its end, from the range left at the end of the day before.
ReferenceDay(t, l, leftBefore) ==
    LET rt == t.route[l]
        left == IF t.declared # None /\ t.declared.leg = l
                THEN Min({t.range, t.declared.km}) ELSE leftBefore
        burn == t.range - left
        greedy == GreedyStops(rt.km, rt.stations, t.range, burn, ReferenceReserve(t, l, left))
        warned == rt.ends = "apart" /\ ~Drivable(rt.km, 0, t.range, burn, greedy)
        at == t.picked[l] \cup (IF rt.ends = "apart" /\ ~warned THEN Chosen(greedy) ELSE {})
    IN  [burn |-> burn, stops |-> at, warned |-> warned,
         left |-> CASE at # {} -> Min({t.range, t.range - (rt.km - Max(at))})
                    [] at = {} /\ warned -> t.range
                    [] at = {} /\ ~warned -> left - rt.km]

ReferenceOf(t) ==
    LET day[l \in 0..Days] ==
            IF l = 0 THEN [burn |-> 0, stops |-> {}, warned |-> FALSE, left |-> t.range]
            ELSE ReferenceDay(t, l, day[l - 1].left)
    IN  day

Reference == ReferenceOf(TripAsItIs)

-----------------------------------------------------------------------------
(* Invariants *)

\* A day planned after the last change is what planning the trip in order, around the
\* driver's own stops, would have made it, whichever days were opened first, and whichever of
\* them failed or were killed (fuel.ts: a day's plan is independent of which days the driver
\* happens to have opened).  A request that met others is counted if the days before were
\* planned when it walked over them; one that met nobody is counted in any case, unless an
\* unplanned day lay behind a fuel stop, a warning or the declaration (InSight), where the
\* cascade does not look: NothingUnplannedBehind is about those.
OpeningOrderDoesNotMatter ==
    \A l \in Legs :
        PlannedUpTo(l) =>
            /\ Refuels(l) = Reference[l].stops
            /\ (status[l] = "no_stations_found") <=> Reference[l].warned

\* Over the stored stops of all days up to l, a ready day is never driven past the range,
\* from refuel to refuel and to its end (range.ts: the hard rule), unless its plan was cut
\* off after MAX_STOPS_PER_LEG, or made for the default vehicle because the trip's could not
\* be read (ReadDefaultVehicle): then it is no plan of this trip, though it is stored as one.
NeverPastRange ==
    \A l \in Legs :
        PlannedUpTo(l) /\ status[l] = "ready" /\ Cardinality(Refuels(l)) < MaxStopsPerLeg =>
            Drivable(route[l].km, 0, range, BurnAtStart(l, range, declared), Refuels(l))

\* A day is warned about only if no choice among its stations gets the driver through it;
\* a warning for the default vehicle is again not counted.
WarnedOnlyIfImpossible ==
    \A l \in Legs :
        PlannedUpTo(l) /\ status[l] = "no_stations_found" =>
            ~ \E at \in SUBSET route[l].stations :
                Drivable(route[l].km, 0, range, BurnAtStart(l, range, declared), at)

\* When a plan is ready to be stored, no other choice of stations that reaches the next
\* day's fuel has fewer stops, and if there is such a choice the plan is one.
FewestStopsThatReachTomorrow ==
    \A r \in Requests :
        At(r, "begin") =>
            LET i == PlanInput(r)
            IN  \A at \in SUBSET OnLeg(i.km, i.stations) :
                    Drivable(i.km, i.reserve, i.range, i.burn, at) =>
                        /\ Drivable(i.km, i.reserve, i.range, i.burn, req[r].picked)
                        /\ Cardinality(req[r].picked) <= Cardinality(at)

\* One request pays for at most one search of a leg, however often the cascade and the
\* look-ahead need it (fuel.ts: at most one search per leg per request).
OneSearchPerLeg == \A r \in Requests, l \in Legs : req[r].bill[l] <= 1

\* A drive day with somewhere to go that nobody has planned.
Unplanned(k) == k \in Drives /\ route[k].ends = "apart" /\ status[k] = "none"

\* Between day k and day l the tank is filled, the driver was told to fill it, or a plan has
\* failed meanwhile.
RefuelledBetween(k, l) ==
    \E j \in k..(l - 1) : Refuels(j) # {} \/ status[j] \in {"no_stations_found", "failed"}

\* What the cascade takes for a refuel and the tank walk does not: the day of the declaration
\* itself, and a stop without a distance. Before a declared day nothing has to be planned.
TakenForRefuel(j) == (declared # None /\ declared.leg = j) \/ j \in unplaced

Stored(r) == At(r, "settle") /\ req[r].calm /\ req[r].outcome \in Searched

\* While nothing changes, a day is never stored on top of a day nobody has planned (fuel.ts:
\* source every earlier day this leg's tank state depends on), but where a declared day or a
\* stop without a distance comes between them; what that exception costs the run of
\* NothingUnplannedBehind shows.
NeverOverUnplannedDays ==
    \A r \in Requests :
        Stored(r) =>
            \A k \in 1..(Now(r) - 1) :
                Unplanned(k) =>
                    \/ RefuelledBetween(k, Now(r))
                    \/ \E j \in k..(Now(r) - 1) : TakenForRefuel(j)

\* The same without the exception, but that a declaration on a later day makes up for all
\* before it: every earlier day the tank depends on is planned first (fuel.ts). The code
\* passes over the declared day itself, whose own kilometres the tank walk counts.
NothingUnplannedBehind ==
    \A r \in Requests :
        Stored(r) =>
            \A k \in 1..(Now(r) - 1) :
                Unplanned(k) =>
                    \/ RefuelledBetween(k, Now(r))
                    \/ declared # None /\ declared.leg \in (k + 1)..(Now(r) - 1)

\* A leg says `computing`, which holds up every later day, only while a request is at work
\* on it, unless the last request to write it was killed since.
ComputingIsHeld ==
    \A l \in Legs :
        status[l] = "computing" =>
            l \in abandoned \/ \E r \in Requests : req[r].todo # <<>> /\ Now(r) = l

-----------------------------------------------------------------------------
(* Action property *)

\* A stop the driver picked is there until the driver dismisses it: no plan, late or not,
\* and no invalidation removes it (fuel.ts: user-picked stops are never touched).
PicksAreKept ==
    [][\A l \in Legs : \A s \in stops[l] :
            s.state = "selected" =>
                s \in stops'[l] \/ [s EXCEPT !.state = "dismissed"] \in stops'[l]]_vars

-----------------------------------------------------------------------------
(* The inductive invariant behind OneSearchPerLeg, ComputingIsHeld and PicksAreKept *)

\* From marking a day as computing to writing down what came of it.
Holding == {"vehicle", "walk", "ahead", "search", "place", "begin", "delete", "commit",
            "clear", "settle", "fail"}

Holds(r, l) == req[r].pc \in Holding /\ req[r].todo # <<>> /\ Now(r) = l

\* A request that plans has a day to plan.
HasADay == \A r \in Requests : req[r].pc \in Holding \cup {"load", "compute"} => req[r].todo # <<>>

\* What a plan is about to delete was the planner's, whatever the driver picks meanwhile.
VictimsAreOptions == \A r \in Requests : \A s \in req[r].victims : s.state = "option"

\* A request pays for a search exactly when it remembers what it found.
BillIsMemo ==
    \A r \in Requests, l \in Legs : req[r].bill[l] = IF req[r].known[l] = {} THEN 0 ELSE 1

\* A computing day is being planned, or was by a request killed since.
MarkIsHeld ==
    \A l \in Legs : status[l] = "computing" => l \in abandoned \/ \E r \in Requests : Holds(r, l)

OutcomeIsKnown == \A r \in Requests : req[r].outcome # "computing"

LazyInv == HasADay /\ VictimsAreOptions /\ BillIsMemo /\ MarkIsHeld /\ OutcomeIsKnown

-----------------------------------------------------------------------------
(* The inductive invariant behind NeverOverUnplannedDays *)

\* A day behind which the cascade does not look, or one that has failed.
Stopper(j) ==
    \/ Refuels(j) # {} \/ status[j] \in {"no_stations_found", "failed"}
    \/ TakenForRefuel(j)

\* No day before m is unplanned, but those behind a stopper.
Covered(m) == \A k \in 1..(m - 1) : Unplanned(k) => \E j \in k..(m - 1) : Stopper(j)

\* If one of the requests at work is calm all are, and nothing is being invalidated.
CalmTogether ==
    (\E r \in Requests : req[r].calm) =>
        /\ editor.todo = <<>>
        /\ \A r \in Requests : At(r, "idle") \/ req[r].calm

\* From its row on, a request plans its days in order, the last is the one it was asked for.
Planning == Holding \cup {"load", "compute"}

Ascending(q) == \A i, j \in 1..Len(q.todo) : i < j => q.todo[i] < q.todo[j]

\* What a request has seen unplanned covers what is, and a warning it has seen is covered.
SeenIsCovered(q) ==
    /\ \A k \in 1..(q.target - 1) : Unplanned(k) => q.seen[k] = "none"
    /\ \A a \in 1..(q.target - 1) : q.seen[a] = "no_stations_found" => Covered(a + 1)

\* Before the day a request works on everything is covered, and what is unplanned behind it
\* is still to come.
PlansInOrder(q) ==
    /\ Ascending(q) /\ q.todo[Len(q.todo)] = q.target
    /\ Covered(Head(q.todo))
    /\ \A k \in Head(q.todo)..(q.target - 1) : Unplanned(k) => \E i \in 1..Len(q.todo) : q.todo[i] = k

\* From its first write on, a calm plan's day is planned as far as anyone can see.
Storing == {"begin", "delete", "commit", "clear"}

CalmPlan(q) ==
    q.calm =>
        /\ q.pc = "refuels" => SeenIsCovered(q)
        /\ q.pc \in Planning => PlansInOrder(q)
        /\ q.pc \in Holding => ~Unplanned(Head(q.todo))
        /\ q.pc \in Storing => q.outcome # "none"
        /\ q.pc = "settle" /\ q.outcome = "none" => route[Head(q.todo)].ends # "apart"

CalmPlans == \A r \in Requests : CalmPlan(req[r])

CalmInv == CalmTogether /\ CalmPlans

-----------------------------------------------------------------------------
(* The inductive invariant by which a request that meets nobody stands on planned days *)

Steady(r) == ~At(r, "idle") /\ req[r].pure /\ req[r].alone = opens

\* The steps after the tank's walk.
Walked == {"ahead", "search", "place", "settle"} \cup Storing

\* Every earlier day is planned or still to come, and those that come have somewhere to go.
CascadeFills(q) ==
    /\ \A k \in 1..(q.target - 1) : Firm(k) \/ \E i \in 1..Len(q.todo) : q.todo[i] = k
    /\ \A i \in 1..(Len(q.todo) - 1) : route[q.todo[i]].ends = "apart"

\* The day under way will be one to stand on, if another comes after it.
GetsFirm(q) ==
    Len(q.todo) > 1 =>
        /\ q.pc \in Walked => q.grounded
        /\ q.pc \in {"settle"} \cup Storing => q.outcome \in Searched
        /\ q.pc = "commit" => OptionStops(Head(q.todo)) \subseteq q.victims
        /\ q.pc = "settle" => "stops" \in upToDate[Head(q.todo)]

SteadyPlan(r) ==
    LET q == req[r]
    IN  /\ q.calm
        /\ \A s \in Requests : s # r => At(s, "idle")
        /\ q.pc \in {"lookup", "refuels"} => InSight(q.target)
        /\ q.pc = "refuels" => \A k \in 1..(q.target - 1) : q.seen[k] = status[k]
        /\ q.pc \in Planning => CascadeFills(q) /\ GetsFirm(q)

SteadyInv ==
    \A r \in Requests : req[r].alone <= opens /\ (Steady(r) => SteadyPlan(r))

-----------------------------------------------------------------------------
(* The inductive invariant behind FewestStopsThatReachTomorrow *)

StationsOf(q) == OnLeg(q.leg.km, StationsFound(q, Head(q.todo)))

DrivesOn(q, at) == Drivable(q.leg.km, q.reserve, q.range, q.burn, at)

\* The stops placed so far are stations of the leg, each reached from the one before, and
\* whoever gets through to the next day's fuel has stopped as often by then.
GreedySoFar(q) ==
    /\ q.picked \subseteq StationsOf(q) /\ q.at \in {0} \cup q.picked
    /\ \A s \in q.picked : s <= q.at
    /\ \A p \in {0} \cup q.picked :
           p < q.at => \E s \in q.picked : p < s /\ s - p <= Reach(q.range, q.burn, p)
    /\ \A at \in SUBSET StationsOf(q) :
           DrivesOn(q, at) => Cardinality(q.picked) <= Cardinality({s \in at : s <= q.at})

\* A plan reaches the next day's fuel, if any does.
ReachesOn(q) ==
    \A at \in SUBSET StationsOf(q) :
        DrivesOn(q, at) => EndInReach(q.leg.km, q.reserve, q.range, q.burn, q.at)

\* The steps between a leg's row and the placement.
Early == {"compute", "vehicle", "walk", "ahead", "search"}

\* Before the placement nothing is placed; after it the plan waits to be stored.
GreedyPlan(q) ==
    /\ q.pc \notin {"place", "begin"} => q.at = 0
    /\ q.pc \in Early => q.picked = {}
    /\ q.pc \in {"place", "begin"} => GreedySoFar(q)
    /\ q.pc = "begin" => q.leg \in RouteRecords /\ ReachesOn(q)

GreedyInv == \A r \in Requests : GreedyPlan(req[r])

-----------------------------------------------------------------------------
(* The inductive invariant behind the first three properties, of the reference *)

\* No choice of stations gets the driver through day l of trip t.
NoWayThrough(t, l) ==
    ~ \E at \in SUBSET t.route[l].stations :
        Drivable(t.route[l].km, 0, t.range, ReferenceOf(t)[l].burn, at)

\* What is up to date of a day is what the reference has.
PlansAgree ==
    \A l \in Legs :
        /\ "stops" \in upToDate[l] =>
               route[l].ends = "apart" /\ Refuels(l) = Reference[l].stops
        /\ "status" \in upToDate[l] =>
               /\ (status[l] = "no_stations_found") <=> Reference[l].warned
               /\ Reference[l].warned => NoWayThrough(TripAsItIs, l)

\* What a request has read of trip t is so.
ReadIsSo(t, q) ==
    LET l == Head(q.todo)
    IN  /\ \A k \in Legs : q.known[k] \in {{}, {t.route[k].stations}}
        /\ q.pc \in Early \cup {"place", "begin"} => q.leg = t.route[l] /\ q.leg.ends = "apart"
        /\ q.pc \in {"walk", "ahead", "search", "place", "begin"} =>
               q.range = t.range /\ q.anchor = t.declared
        /\ q.pc \in {"place", "begin"} => q.known[l] # {}

\* A request is planning the day of the reference of trip t.
PlansReference(t, q) ==
    LET l == Head(q.todo)
        day == ReferenceOf(t)[l]
        reserve == ReferenceReserve(t, l, t.range - day.burn)
        from == GreedyFrom(t.route[l].km, t.route[l].stations, t.range, day.burn, reserve)
    IN  /\ q.pc \in {"ahead", "search", "place", "settle"} \cup Storing =>
               t.route[l].ends = "apart"
        /\ q.pc \in {"ahead", "search", "place", "begin"} => q.burn = day.burn
        /\ q.pc \in {"search", "place", "begin"} => q.reserve = reserve
        /\ q.pc = "place" => from[0] = q.picked \cup from[q.at]
        /\ q.pc \in {"begin", "delete", "commit"} =>
               day.stops = t.picked[l] \cup Chosen(q.picked)
        /\ q.pc \in {"delete", "commit"} => q.keep \subseteq t.picked[l]
        /\ q.pc = "clear" => day.stops = t.picked[l]
        /\ q.pc \in {"settle"} \cup Storing =>
               /\ q.outcome \in Searched
               /\ (q.outcome = "no_stations_found") <=> day.warned
               /\ day.warned => NoWayThrough(t, l)

\* Nothing an undisturbed request has read is out of date; one that stands on planned days
\* plans what the reference plans.
PurePlan(t, q) == q.pure => ReadIsSo(t, q) /\ (q.grounded => PlansReference(t, q))

ReferenceInv == PlansAgree /\ \A r \in Requests : PurePlan(TripAsItIs, req[r])
=============================================================================
