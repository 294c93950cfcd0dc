----------------------------- MODULE FuelPlans ------------------------------
(***************************************************************************)
(* Lazy fuel planning.  Opening a day asks Finn for that day's fuel stops: *)
(* the request first plans the earlier days the tank depends on, then the  *)
(* day itself, and leaves the stops and a status on the leg.  Meanwhile    *)
(* other days are opened, the driver picks or dismisses stops, the trip,   *)
(* its vehicle or the declared tank change, and plans are invalidated.     *)
(*                                                                         *)
(* A request takes one database statement, one station search or one round *)
(* of the placement loop per step, except that the selects of one walk     *)
(* over the legs and their stops are one step.                             *)
(***************************************************************************)
EXTENDS FinnRules

CONSTANTS
    None,
    Days,          \* number of legs, in their sort order
    Routes,        \* the routes a leg may have
    NewRoutes,     \* those an edit may give it
    FirstRoutes,   \* the trips to start from: functions from legs to routes
    Ranges,        \* fuel ranges of the vehicle in km; 0 is a profile without one
    Declarable,    \* the km a driver may declare to be left in the tank
    Requests,      \* day-open requests that may run at once
    MaxStopsPerLeg,\* MAX_STOPS_PER_LEG
    Upsets,        \* what may change or go wrong: some of the kinds of `Upset` below
    MaxUpsets,     \* bound: how often anything does
    MaxOpens       \* bound: how often a day is opened and not answered from the cache

Legs == 1..Days
Km == UNION {0..rt.km : rt \in Routes}
RouteRecords == [type : {"drive", "rest"}, ends : {"missing", "same", "apart"},
                 km : Nat, stations : SUBSET Nat]

ASSUME DaysAssumption == Days \in Nat /\ None \notin Legs
ASSUME RouteAssumption ==
    /\ Routes \subseteq RouteRecords /\ NewRoutes \subseteq Routes
    /\ FirstRoutes \subseteq [Legs -> Routes]
ASSUME TankAssumption == Ranges \subseteq Nat /\ Declarable \subseteq Nat \ {0}
ASSUME RequestAssumption == IsFiniteSet(Requests)
ASSUME FuelLimitAssumption ==
    /\ MaxStopsPerLeg \in Nat
    /\ MaxUpsets \in Nat /\ MaxOpens \in Nat

VARIABLES
    route,      \* leg -> its route: coordinates, length, and the stations along it
    range,      \* the vehicle's fuel range
    declared,   \* the declared tank state, or None
    unplaced,   \* legs with a fuel stop added by hand of which nobody gave the distance
    status,     \* leg -> fuel_status
    cached,     \* legs whose last search is stamped within the last 48 hours
    stops,      \* leg -> its fuel stops whose distance is known
    req,        \* request -> what it is doing
    editor,     \* the invalidations a change still has to make, leg by leg
    upsets,     \* how often anything changed or went wrong
    opens,      \* how often a day was opened
    abandoned,  \* history: legs whose status was last written by a request killed since
    upToDate    \* history: leg -> which of its stops and status were last written by
                \* a plan that read nothing older than the last change

vars == <<route, range, declared, unplaced, status, cached, stops, req, editor, upsets,
          opens, abandoned, upToDate>>

Statuses == {"none", "computing", "ready", "failed", "no_stations_found"}
Searched == {"ready", "no_stations_found"}

\* A fuel stop: `batch` tells rows of one place apart.
Stops == [km : Nat, state : {"option", "selected", "dismissed"}, batch : Nat]

Declarations == [leg : Legs, km : Nat]

Steps == {"idle", "lookup", "refuels", "failTarget", "load", "compute", "vehicle",
          "walk", "ahead", "search", "place", "begin", "delete", "commit",
          "clear", "settle", "fail"}

(***************************************************************************)
(* A request: the day it was asked for, the days it still plans (the first *)
(* is under way), what it read of them, the stations it found, the stops   *)
(* placed so far (`at` is the last) and how many searches a leg cost.      *)
(* History: `pure`, it read the trip, and nothing changed or was being     *)
(* invalidated since it was opened; `calm`, nor since any of those at work *)
(* with it was opened; `alone`, the number of its opening if it found      *)
(* nobody at work and every earlier day planned or there to be planned;    *)
(* `grounded`, it was so opened and nobody came since, or it stands on     *)
(* earlier days that were all planned since the last change.               *)
(***************************************************************************)
Reqs == [pc : Steps, target : Legs \cup {None}, todo : Seq(Legs),
         seen : [Legs -> Statuses], leg : RouteRecords \cup {None}, range : Nat,
         anchor : Declarations \cup {None}, burn : Nat, reserve : Nat, at : Nat,
         picked : SUBSET Nat, keep : SUBSET Nat, victims : SUBSET Stops,
         outcome : Statuses, known : [Legs -> SUBSET (SUBSET Nat)],
         bill : [Legs -> Nat], pure : BOOLEAN, calm : BOOLEAN, alone : Nat,
         grounded : BOOLEAN]

Idle == [pc |-> "idle", target |-> None, todo |-> <<>>,
         seen |-> [l \in Legs |-> "none"], leg |-> None, range |-> 0,
         anchor |-> None, burn |-> 0, reserve |-> 0, at |-> 0,
         picked |-> {}, keep |-> {}, victims |-> {},
         outcome |-> "none", known |-> [l \in Legs |-> {}],
         bill |-> [l \in Legs |-> 0], pure |-> FALSE, calm |-> FALSE,
         alone |-> 0, grounded |-> FALSE]

TypeOK ==
    /\ route \in [Legs -> Routes]
    /\ range \in Ranges
    /\ declared \in Declarations \cup {None}
    /\ unplaced \subseteq Legs
    /\ status \in [Legs -> Statuses]
    /\ cached \subseteq Legs
    /\ stops \in [Legs -> SUBSET Stops]
    /\ req \in [Requests -> Reqs]
    /\ editor \in [todo : Seq(Legs), cleared : BOOLEAN]
    /\ upsets \in Nat
    /\ opens \in Nat
    /\ abandoned \subseteq Legs
    /\ upToDate \in [Legs -> SUBSET {"stops", "status"}]

Init ==
    /\ route \in FirstRoutes
    /\ range \in Ranges \ {0}
    /\ declared = None
    /\ unplaced = {}
    /\ status = [l \in Legs |-> "none"]
    /\ cached = {}
    /\ stops = [l \in Legs |-> {}]
    /\ req = [r \in Requests |-> Idle]
    /\ editor = [todo |-> <<>>, cleared |-> FALSE]
    /\ upsets = 0
    /\ opens = 0
    /\ abandoned = {}
    /\ upToDate = [l \in Legs |-> {}]

At(r, pc) == req[r].pc = pc
Now(r) == Head(req[r].todo)
Put(r, rec) == req' = [req EXCEPT ![r] = rec]
Go(r, pc) == Put(r, [req[r] EXCEPT !.pc = pc])

Drives == {l \in Legs : route[l].type = "drive"}

Upset(kind) ==
    /\ kind \in Upsets
    /\ upsets < MaxUpsets
    /\ upsets' = upsets + 1

Trip == <<route, range, declared, unplaced>>
Bounds == <<editor, upsets, opens>>
\* What a statement on the row of a leg writes.
Row == <<status, cached, abandoned>>

-----------------------------------------------------------------------------
(* The leg's row and its stops *)

\* setFuelStatus stamps the cache on a completed search and clears it on `none`.
Stamped(l, s) ==
    CASE s \in Searched -> cached \cup {l}
      [] s = "none" -> cached \ {l}
      [] OTHER -> cached

SetFuelStatus(l, s) ==
    /\ status' = [status EXCEPT ![l] = s]
    /\ cached' = Stamped(l, s)
    /\ abandoned' = abandoned \ {l}

\* Of leg l, `part` was written by a plan that is up to date or not.
Note(l, part, current) ==
    upToDate' = [upToDate EXCEPT ![l] = IF current THEN @ \cup {part} ELSE @ \ {part}]

\* Variant for the mutation runs: every fuel stop of the leg is the planner's.
AllStops(l) == stops[l]

\* autoPlannerOptionSql: the planner's own rows; what the driver picked is not among them.
OptionStops(l) == {s \in stops[l] : s.state = "option"}

ClearOptions(l) == stops' = [stops EXCEPT ![l] = @ \ OptionStops(l)]

Current(r) == req[r].pure /\ req[r].grounded

\* A number no row of the leg, deleted or not, carries.
NewBatch(l) ==
    LET used == {s.batch : s \in stops[l] \cup UNION {req[r].victims : r \in Requests}}
    IN  Min(0..Cardinality(used) \ used)

\* The km of the stops that the tank walk counts as refuels.
Refuels(l) == {s.km : s \in {x \in stops[l] : x.state # "dismissed"}}

\* hasFuelStop of the cascade, which does not ask where the stop is.
HasFuelStop(l) == Refuels(l) # {} \/ l \in unplaced

-----------------------------------------------------------------------------
(* History: which days a plan may stand on *)

Whole(l) == upToDate[l] = {"stops", "status"} /\ status[l] \in Searched

\* A day off on which no plan of the day it used to be is left.
Bare(l) == OptionStops(l) = {} /\ status[l] # "no_stations_found"

\* What the days after l may stand on. A day off that leads somewhere is planned like a drive.
Firm(l) == IF l \in Drives \/ route[l].ends = "apart" THEN Whole(l) ELSE Bare(l)

\* A day that is there to be planned.
Blank(l) ==
    /\ l \in Drives /\ route[l].ends = "apart"
    /\ status[l] \in Unsourced /\ ~HasFuelStop(l)

\* Behind such a day the cascade does not look.
EndsTheCascade(l) ==
    \/ HasFuelStop(l) \/ status[l] = "no_stations_found"
    \/ declared # None /\ declared.leg = l

\* Every day before l is planned, or there to be planned where the cascade looks.
InSight(l) ==
    \A k \in 1..(l - 1) :
        Firm(k) \/ (Blank(k) /\ \A j \in k..(l - 1) : ~EndsTheCascade(j))

-----------------------------------------------------------------------------
(* planFuelStopsForLegLazy and sourcePrerequisiteLegs *)

CacheHit(l) == status[l] \in Searched /\ l \in cached

BeginOpen(r, l) ==
    /\ At(r, "idle")
    /\ opens < MaxOpens
    /\ opens' = opens + 1
    /\ Put(r, [Idle EXCEPT !.pc = "lookup", !.target = l,
                             !.pure = editor.todo = <<>>,
                             !.calm = /\ editor.todo = <<>>
                                      /\ \A s \in Requests : At(s, "idle") \/ req[s].calm,
                             !.alone = IF InSight(l) /\ \A s \in Requests : At(s, "idle")
                                       THEN opens' ELSE 0])
    /\ UNCHANGED <<Trip, Row, stops, editor, upToDate>>

\* A day is opened; one that is cached is answered as it is, and nothing happens.
OpenDay(r, l) == ~CacheHit(l) /\ BeginOpen(r, l) /\ UNCHANGED upsets

\* A cached day is opened with force, or planned inline by Penny's plan_fuel_stops.
ForceDay(r, l) == CacheHit(l) /\ BeginOpen(r, l) /\ Upset("force")

\* The target's row and the statuses of the legs before it.
ReadStatuses(r) ==
    LET l == req[r].target
    IN  /\ At(r, "lookup")
        /\ IF l = 1
           THEN Put(r, [req[r] EXCEPT !.pc = "load", !.todo = <<l>>])
           ELSE Put(r, [req[r] EXCEPT !.pc = "refuels",
                          !.seen = [k \in Legs |-> IF k < l THEN status[k] ELSE "none"]])
        /\ UNCHANGED <<Trip, Row, stops, Bounds, upToDate>>

\* Variant for the mutation runs: no earlier day is planned first.
NothingFirst(earlier, seen) == [toSource |-> {}, blockedBy |-> {}]

\* legsNeedingSourcingBefore, over the statuses read before and the stops as they are now.
LegsNeedingSourcingBefore(earlier, seen) ==
    LET refuelled == {l \in earlier : HasFuelStop(l)}
        anchor == SourcingAnchor(earlier, seen, refuelled,
                                 IF declared = None THEN 0 ELSE declared.leg)
    IN  [toSource |-> DrivesSince(anchor, earlier, Drives, seen, Unsourced),
         blockedBy |-> DrivesSince(anchor, earlier, Drives, seen, InFlight)]

\* Variant for the mutation runs: the newest first.
NewestFirst(ls) == [i \in 1..Cardinality(ls) |->
                      CHOOSE l \in ls : Cardinality({k \in ls : k > l}) = i - 1]

\* Oldest first.
InOrder(ls) == [i \in 1..Cardinality(ls) |->
                  CHOOSE l \in ls : Cardinality({k \in ls : k < l}) = i - 1]

\* The stops of the earlier legs and the declaration; then the day waits for another
\* request's search, or the days before it are queued.
DecideCascade(r) ==
    LET l == req[r].target
        plan == LegsNeedingSourcingBefore(1..(l - 1), req[r].seen)
    IN  /\ At(r, "refuels")
        /\ IF plan.blockedBy # {}
           THEN Put(r, [req[r] EXCEPT !.pc = "failTarget", !.seen = Idle.seen])
           ELSE Put(r, [req[r] EXCEPT !.pc = "load", !.seen = Idle.seen,
                                      !.todo = InOrder(plan.toSource \cup {l})])
        /\ UNCHANGED <<Trip, Row, stops, Bounds, upToDate>>

\* failLeg for the day that was asked for: an earlier one blocks it.
FailTarget(r) ==
    /\ At(r, "failTarget")
    /\ SetFuelStatus(req[r].target, "failed")
    /\ Put(r, Idle)
    /\ Note(req[r].target, "status", FALSE)
    /\ UNCHANGED <<Trip, stops, Bounds>>

-----------------------------------------------------------------------------
(* planOneLeg *)

\* The request's record when it is done with the arithmetic of a leg.
Forget(rec) == [rec EXCEPT !.leg = None, !.range = 0, !.anchor = None, !.burn = 0,
                           !.reserve = 0, !.at = 0]

\* The leg's row. Without coordinates it is marked `none`; a leg that goes nowhere is ready.
LoadLeg(r) ==
    LET rt == route[Now(r)]
        begin == [req[r] EXCEPT !.grounded = FALSE, !.picked = {}, !.keep = {}]
    IN  /\ At(r, "load")
        /\ CASE rt.ends = "missing" ->
                  Put(r, [begin EXCEPT !.pc = "settle", !.outcome = "none"])
             [] rt.ends = "same" ->
                  Put(r, [begin EXCEPT !.pc = "clear", !.outcome = "ready"])
             [] OTHER -> Put(r, [begin EXCEPT !.pc = "compute", !.leg = rt])
        /\ UNCHANGED <<Trip, Row, stops, Bounds, upToDate>>

MarkComputing(r) ==
    /\ At(r, "compute")
    /\ SetFuelStatus(Now(r), "computing")
    /\ Go(r, "vehicle")
    /\ Note(Now(r), "status", FALSE)
    /\ UNCHANGED <<Trip, stops, Bounds>>

\* resolveVehicleForTrip and normalizeRangeKm, then resolveDeclaredTankAnchor.
ReadTank(r) ==
    /\ At(r, "vehicle")
    /\ IF range = 0
       THEN Put(r, [Forget(req[r]) EXCEPT !.pc = "fail"])
       ELSE Put(r, [req[r] EXCEPT !.pc = "walk", !.range = range, !.anchor = declared])
    /\ UNCHANGED <<Trip, Row, stops, Bounds, upToDate>>

\* The trip's vehicle cannot be read, and the user's default one stands in, if that can be:
\* whatever its range, this is no plan of the trip.
ReadDefaultVehicle(r) ==
    /\ At(r, "vehicle")
    /\ Upset("unread")
    /\ \E km \in Ranges :
          IF km = 0
          THEN Put(r, [Forget(req[r]) EXCEPT !.pc = "fail", !.pure = FALSE])
          ELSE Put(r, [req[r] EXCEPT !.pc = "walk", !.range = km, !.anchor = declared,
                                     !.pure = FALSE])
    /\ UNCHANGED <<Trip, Row, stops, editor, opens, upToDate>>

DeclaredBurn(rng, anchor) == AtLeastZero(rng - anchor.km)

\* computeKmBurnedSinceLastRefuel gathers what the walk reads of one leg.
History(l, rng, anchor) ==
    [km |-> route[l].km,
     lastFuel |-> Max({-1} \cup Refuels(l)),
     declared |-> IF anchor # None /\ anchor.leg = l THEN DeclaredBurn(rng, anchor) ELSE -1,
     warned |-> status[l] = "no_stations_found"]

BurnAtStart(l, rng, anchor) ==
    IF anchor # None /\ anchor.leg = l
    THEN DeclaredBurn(rng, anchor)
    ELSE KmBurnedSinceLastRefuel([k \in 1..(l - 1) |-> History(k, rng, anchor)])

WalkBack(r) ==
    LET l == Now(r)
    IN  /\ At(r, "walk")
        /\ Put(r, [req[r] EXCEPT !.pc = "ahead",
                     !.burn = BurnAtStart(l, req[r].range, req[r].anchor),
                     !.grounded = req[r].alone = opens \/ \A k \in 1..(l - 1) : Firm(k)])
        /\ UNCHANGED <<Trip, Row, stops, Bounds, upToDate>>

-----------------------------------------------------------------------------
(* Searches: the memo of one request, and the look-ahead *)

\* Variant for the mutation runs: the request forgets what it searched.
NeverKnown(r, l) == FALSE

Known(r, l) == req[r].known[l] # {}

\* The request's record after legStations of leg l, at the price of a search unless known.
Searching(r, l) ==
    IF Known(r, l) THEN req[r]
    ELSE [req[r] EXCEPT !.known[l] = {route[l].stations}, !.bill[l] = @ + 1]

StationsFound(rec, l) == UNION rec.known[l]

\* What is left at the end of the day if it has no stop.
LeftWithoutStops(r) == req[r].range - req[r].burn - req[r].leg.km

\* The next drive day whose first stretch this day has to leave fuel for, as a set of at
\* most one leg: none if a declaration comes first or the whole day fits in what is left.
DayToLookAt(r) ==
    LET l == Now(r)
        later == {k \in Drives : k > l /\ route[k].km > 0}
        next == Min(later)
    IN  IF \/ later = {}
           \/ req[r].anchor # None /\ l < req[r].anchor.leg /\ req[r].anchor.leg <= next
           \/ LeftWithoutStops(r) >= route[next].km
        THEN {} ELSE {next}

\* nextDayReserveKm, and the early exit when leg and reserve fit in the tank: the request
\* still has the leg, for the two statements of the exit are inside the try.
LookAhead(r) ==
    LET look == DayToLookAt(r)
        rec == IF look = {} THEN req[r] ELSE Searching(r, Min(look))
        reserve ==
            IF look = {} THEN 0
            ELSE LET k == Min(look)
                 IN  FuelNeededAtLegStart(route[k].km, StationsFound(rec, k), rec.range)
    IN  /\ At(r, "ahead")
        /\ IF rec.burn + rec.leg.km + reserve <= rec.range
           THEN Put(r, [Forget(rec) EXCEPT !.pc = "clear", !.outcome = "ready",
                                           !.leg = rec.leg])
           ELSE Put(r, [rec EXCEPT !.pc = "search", !.reserve = reserve])
        /\ UNCHANGED <<Trip, Row, stops, Bounds, upToDate>>

SearchLeg(r) ==
    /\ At(r, "search")
    /\ Put(r, [Searching(r, Now(r)) EXCEPT !.pc = "place"])
    /\ UNCHANGED <<Trip, Row, stops, Bounds, upToDate>>

\* Inside the one try of planOneLeg: the select of the later legs, the two searches, and
\* what the early exit writes.
InTry(r) ==
    \/ At(r, "ahead")
    \/ At(r, "search") /\ ~Known(r, Now(r))
    \/ req[r].pc \in {"clear", "settle"} /\ req[r].leg # None

\* The station service throws, or a statement inside the try fails.
SearchThrows(r) ==
    /\ InTry(r)
    /\ Upset("threw")
    /\ Put(r, [Forget(req[r]) EXCEPT !.pc = "fail"])
    /\ UNCHANGED <<Trip, Row, stops, editor, opens, upToDate>>

-----------------------------------------------------------------------------
(* planLegFuelStops, one round of its loop per step *)

PlanInput(r) == [km |-> req[r].leg.km, stations |-> StationsFound(req[r], Now(r)),
                 range |-> req[r].range, burn |-> req[r].burn, at |-> req[r].at,
                 reserve |-> req[r].reserve]

Safe(i) == SafeStations(i.km, i.stations, i.range, i.burn, i.at)

\* tank_state_invalid is never geography: the leg fails.
TankStateInvalid(r) ==
    /\ At(r, "place")
    /\ req[r].range - req[r].burn <= 0
    /\ Put(r, [Forget(req[r]) EXCEPT !.pc = "fail"])
    /\ UNCHANGED <<Trip, Row, stops, Bounds, upToDate>>

Round(r) == At(r, "place") /\ req[r].range - req[r].burn > 0

\* The end and the reserve are in reach, or only the reserve is not and nothing can help.
PlanComplete(r) ==
    LET i == PlanInput(r)
    IN  /\ Round(r)
        /\ \/ EndInReach(i.km, i.reserve, i.range, i.burn, i.at)
           \/ Safe(i) = {} /\ EndInReach(i.km, 0, i.range, i.burn, i.at)
        /\ Put(r, [req[r] EXCEPT !.pc = "begin", !.outcome = "ready"])
        /\ UNCHANGED <<Trip, Row, stops, Bounds, upToDate>>

PlaceStop(r) ==
    LET i == PlanInput(r)
        pick == Choose(Safe(i))
    IN  /\ Round(r)
        /\ ~EndInReach(i.km, i.reserve, i.range, i.burn, i.at)
        /\ Safe(i) # {}
        /\ Put(r, [req[r] EXCEPT !.at = pick, !.picked = @ \cup {pick}])
        /\ UNCHANGED <<Trip, Row, stops, Bounds, upToDate>>

\* Stations exist but none is in reach: the honest warning. None at all: a failed search.
PlanGap(r) ==
    LET i == PlanInput(r)
    IN  /\ Round(r)
        /\ ~EndInReach(i.km, 0, i.range, i.burn, i.at)
        /\ Safe(i) = {}
        /\ IF i.stations = {}
           THEN Put(r, [Forget(req[r]) EXCEPT !.pc = "fail", !.picked = {}])
           ELSE Put(r, [Forget(req[r]) EXCEPT !.pc = "clear", !.picked = {},
                                              !.outcome = "no_stations_found"])
        /\ UNCHANGED <<Trip, Row, stops, Bounds, upToDate>>

-----------------------------------------------------------------------------
(* Storing the plan *)

\* The transaction's first select: the stations the driver has picked.
BeginStore(r) ==
    /\ At(r, "begin")
    /\ Put(r, [Forget(req[r]) EXCEPT !.pc = "delete",
                 !.keep = {s.km : s \in {x \in stops[Now(r)] : x.state = "selected"}}])
    /\ UNCHANGED <<Trip, Row, stops, Bounds, upToDate>>

\* The delete's snapshot. At READ COMMITTED it does not see what another transaction of
\* the same leg is about to commit.
DeleteOptions(r) ==
    /\ At(r, "delete")
    /\ Put(r, [req[r] EXCEPT !.pc = "commit", !.victims = OptionStops(Now(r))])
    /\ UNCHANGED <<Trip, Row, stops, Bounds, upToDate>>

\* The first MAX_STOPS_PER_LEG of the plan.
Chosen(picked) == {s \in picked : Cardinality({t \in picked : t < s}) < MaxStopsPerLeg}

\* The rows of the plan, without the stations the driver has picked already.
NewRows(r) ==
    {[km |-> s, state |-> "option", batch |-> NewBatch(Now(r))] :
        s \in Chosen(req[r].picked) \ req[r].keep}

\* Rows another transaction committed since this one's delete: they stay beside the new ones.
Missed(r) == OptionStops(Now(r)) \ req[r].victims

CommitStore(r) ==
    /\ At(r, "commit")
    /\ stops' = [stops EXCEPT ![Now(r)] = (@ \ req[r].victims) \cup NewRows(r)]
    /\ Put(r, [req[r] EXCEPT !.pc = "settle", !.victims = {}])
    /\ Note(Now(r), "stops",
            Current(r) /\ (Missed(r) # {} => "stops" \in upToDate[Now(r)]))
    /\ UNCHANGED <<Trip, Row, Bounds>>

\* clearAutoPlannerOptionStops of a leg that gets no stop.
ClearStops(r) ==
    /\ At(r, "clear")
    /\ ClearOptions(Now(r))
    /\ Go(r, "settle")
    /\ Note(Now(r), "stops", Current(r))
    /\ UNCHANGED <<Trip, Row, Bounds>>

\* The leg's last status; then the next day of the cascade, if there is one.
Settle(r) ==
    /\ At(r, "settle")
    /\ SetFuelStatus(Now(r), req[r].outcome)
    /\ Note(Now(r), "status", Current(r) /\ req[r].outcome \in Searched)
    /\ IF Len(req[r].todo) = 1
       THEN Put(r, Idle)
       ELSE Put(r, [req[r] EXCEPT !.pc = "load", !.todo = Tail(@), !.leg = None])
    /\ UNCHANGED <<Trip, stops, Bounds>>

\* Variant for the mutation runs: the failure is answered and not written down.
FailLegUnrecorded(r) ==
    /\ At(r, "fail")
    /\ IF Len(req[r].todo) = 1 THEN Put(r, Idle) ELSE Go(r, "failTarget")
    /\ UNCHANGED <<Trip, Row, stops, Bounds, upToDate>>

\* failLeg: a failed earlier day fails the day that was asked for as well.
FailLeg(r) ==
    /\ At(r, "fail")
    /\ SetFuelStatus(Now(r), "failed")
    /\ Note(Now(r), "status", FALSE)
    /\ IF Len(req[r].todo) = 1 THEN Put(r, Idle) ELSE Go(r, "failTarget")
    /\ UNCHANGED <<Trip, stops, Bounds>>

\* The function is killed, or a statement fails outside the one try of planOneLeg. An
\* open transaction rolls back.
Killed(r) ==
    /\ ~At(r, "idle")
    /\ Upset("killed")
    /\ abandoned' = abandoned \cup {l \in Legs : req[r].todo # <<>> /\ l = Now(r)}
    /\ Put(r, Idle)
    /\ UNCHANGED <<Trip, status, cached, stops, editor, opens, upToDate>>

-----------------------------------------------------------------------------
(* What else happens to the trip *)

\* 48 hours pass.
CacheExpires(l) ==
    /\ l \in cached
    /\ Upset("expire")
    /\ cached' = cached \ {l}
    /\ UNCHANGED <<Trip, status, abandoned, stops, req, editor, opens, upToDate>>

\* Something plans rest on changes: every plan, and every plan under way, is now one of
\* the trip as it was. The legs of `invalidated` are invalidated next, one by one.
Alter(kind, invalidated) ==
    /\ Upset(kind)
    /\ editor.todo = <<>>
    /\ editor' = [editor EXCEPT !.todo = InOrder(invalidated)]
    /\ upToDate' = [l \in Legs |-> {}]
    /\ req' = [r \in Requests |-> [req[r] EXCEPT !.pure = FALSE, !.calm = FALSE]]
    /\ UNCHANGED <<Row, opens>>

\* update_leg of a Penny turn: the leg is routed anew, then invalidated.
RerouteLeg(l, rt) ==
    /\ rt # route[l]
    /\ Alter("reroute", {l})
    /\ route' = [route EXCEPT ![l] = rt]
    /\ UNCHANGED <<range, declared, unplaced, stops>>

\* PATCH of a trip's vehicle: every leg is invalidated.
AssignVehicle(km) ==
    /\ km # range
    /\ Alter("assign", Legs)
    /\ range' = km
    /\ UNCHANGED <<route, declared, unplaced, stops>>

\* PATCH of the vehicle itself: no leg is.
EditVehicle(km) ==
    /\ km # range
    /\ Alter("vehicle", {})
    /\ range' = km
    /\ UNCHANGED <<route, declared, unplaced, stops>>

\* declare_fuel_state: the drive legs from the declared one on are invalidated.
DeclareFuelState(l, km) ==
    /\ Alter("declare", {k \in Drives : k >= l})
    /\ declared' = [leg |-> l, km |-> km]
    /\ UNCHANGED <<route, range, unplaced, stops>>

\* A fuel stop without a distance is added by hand, or dismissed. Nothing is invalidated.
AddOrDropStop(l) ==
    /\ Alter("add", {})
    /\ unplaced' \in {unplaced \cup {l}, unplaced \ {l}} /\ unplaced' # unplaced
    /\ UNCHANGED <<route, range, declared, stops>>

\* A row that a planner's open transaction is deleting cannot be written.
Locked(s) == \E r \in Requests : s \in req[r].victims

DismissStop(l, s) ==
    /\ s.state # "dismissed" /\ ~Locked(s)
    /\ Alter("dismiss", {})
    /\ stops' = [stops EXCEPT ![l] = (@ \ {s}) \cup {[s EXCEPT !.state = "dismissed"]}]
    /\ UNCHANGED Trip

\* A stop picked by the driver is still a refuel at the same place; but one that only a plan
\* of the trip as it was stands behind is news to the plans made since.
SelectStop(l, s) ==
    LET planned == "stops" \in upToDate[l]
    IN  /\ Upset("select")
        /\ s.state = "option" /\ ~Locked(s)
        /\ stops' = [stops EXCEPT ![l] = (@ \ {s}) \cup {[s EXCEPT !.state = "selected"]}]
        /\ req' = [r \in Requests |-> [req[r] EXCEPT !.pure = @ /\ planned]]
        /\ upToDate' = [k \in Legs |-> IF planned THEN upToDate[k] ELSE {}]
        /\ UNCHANGED <<Trip, Row, editor, opens>>

\* invalidateLegFuelCache: first the options, then the status.
InvalidateStops ==
    /\ editor.todo # <<>> /\ ~editor.cleared
    /\ ClearOptions(Head(editor.todo))
    /\ editor' = [editor EXCEPT !.cleared = TRUE]
    /\ Note(Head(editor.todo), "stops", FALSE)
    /\ UNCHANGED <<Trip, Row, req, upsets, opens>>

InvalidateStatus ==
    /\ editor.todo # <<>> /\ editor.cleared
    /\ SetFuelStatus(Head(editor.todo), "none")
    /\ editor' = [todo |-> Tail(editor.todo), cleared |-> FALSE]
    /\ Note(Head(editor.todo), "status", FALSE)
    /\ UNCHANGED <<Trip, stops, req, upsets, opens>>

-----------------------------------------------------------------------------
\* The placement loop runs without an await and touches no row: nothing comes between.
Place(r) == TankStateInvalid(r) \/ PlanComplete(r) \/ PlaceStop(r) \/ PlanGap(r)

Placing == \E r \in Requests : At(r, "place")

\* One statement or one search.
Work(r) ==
    \/ ReadStatuses(r) \/ DecideCascade(r) \/ FailTarget(r)
    \/ LoadLeg(r) \/ MarkComputing(r) \/ ReadTank(r) \/ ReadDefaultVehicle(r) \/ WalkBack(r)
    \/ LookAhead(r) \/ SearchLeg(r) \/ SearchThrows(r)
    \/ BeginStore(r) \/ DeleteOptions(r) \/ CommitStore(r)
    \/ ClearStops(r) \/ Settle(r) \/ FailLeg(r) \/ Killed(r)

DriverOrTurn ==
    \/ \E r \in Requests, l \in Legs : OpenDay(r, l) \/ ForceDay(r, l)
    \/ \E l \in Legs : CacheExpires(l)
    \/ \E l \in Legs, rt \in NewRoutes : RerouteLeg(l, rt)
    \/ \E km \in Ranges : AssignVehicle(km) \/ EditVehicle(km)
    \/ \E l \in Legs, km \in Declarable : DeclareFuelState(l, km)
    \/ \E l \in Legs : AddOrDropStop(l)
    \/ \E l \in Legs : \E s \in stops[l] : DismissStop(l, s) \/ SelectStop(l, s)
    \/ InvalidateStops \/ InvalidateStatus

Next ==
    \/ \E r \in Requests : Place(r)
    \/ ~Placing /\ ((\E r \in Requests : Work(r)) \/ DriverOrTurn)

Spec == Init /\ [][Next]_vars
=============================================================================
