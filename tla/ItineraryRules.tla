--------------------------- MODULE ItineraryRules ---------------------------
(***************************************************************************)
(* The pure rules of a trip's itinerary: the order of its legs, the gate a *)
(* batch of edits passes, where a new leg goes, the rebuild of the         *)
(* schedule, and what the continuity repair has to chain.                  *)
(*                                                                         *)
(* A trip is a function from leg ids to legs.  Places are marks on a line, *)
(* in kilometres; None stands for missing coordinates.                     *)
(***************************************************************************)
EXTENDS Integers, Sequences, FiniteSets, FiniteSetsExt, Functions, SequencesExt

CONSTANTS
    None,
    Places       \* kilometre marks

ASSUME PlaceAssumption == Places \subseteq Int /\ None \notin Places /\ None \notin Nat

Spots == Places \cup {None}

\* `route` is the pair of places the stored geometry was found between.
Legs == [kind : {"drive", "rest"}, sort : Int, start : Spots, end : Spots,
         route : (Places \X Places) \cup {None}, warned : BOOLEAN]

\* What an edit of Penny's says; fields it does not use or omits are None.
Edits == [op : {"add", "update", "delete", "report", "rename"}, leg : Nat \cup {None},
          kind : {"drive", "rest"}, start : Spots, end : Spots, sort : Int \cup {None},
          day : Int \cup {None}]

Km(p, q) == IF p < q THEN q - p ELSE p - q

DEFAULT_CONTINUITY_EPSILON_KM == 1
LEG_GAP_THRESHOLD_KM == 50
LEG_CHAIN_MATCH_KM == 50

\* f with leg l set to rec, added if it is not there.
With(f, l, rec) == [k \in DOMAIN f \cup {l} |-> IF k = l THEN rec ELSE f[k]]
Without(f, l) == Restrict(f, DOMAIN f \ {l})

Drives(f) == {l \in DOMAIN f : f[l].kind = "drive"}
Rests(f) == {l \in DOMAIN f : f[l].kind = "rest"}

-----------------------------------------------------------------------------
(* Order *)

\* A read ordered by sort_order returns legs of equal sort_order in any order.
Tied(f) == {l \in DOMAIN f : \E k \in DOMAIN f \ {l} : f[k].sort = f[l].sort}
Ties(f) == {t \in [Tied(f) -> Tied(f)] : IsInjective(t)}

Precedes(f, tie, k, l) ==
    f[k].sort < f[l].sort \/ (f[k].sort = f[l].sort /\ k # l /\ tie[k] < tie[l])

Index(f, tie, l) == Cardinality({k \in DOMAIN f : Precedes(f, tie, k, l)})

\* The leg of S that comes first, or last.
FirstOf(f, tie, S) == CHOOSE l \in S : \A k \in S \ {l} : Precedes(f, tie, l, k)
LastOf(f, tie, S) == CHOOSE l \in S : \A k \in S \ {l} : Precedes(f, tie, k, l)

Earlier(f, tie, l) == {k \in DOMAIN f : Precedes(f, tie, k, l)}

\* The leg right before l, as a set of at most one leg.
Previous(f, tie, l) ==
    IF Earlier(f, tie, l) = {} THEN {} ELSE {LastOf(f, tie, Earlier(f, tie, l))}

-----------------------------------------------------------------------------
(* The gate before dispatch *)

GapKeys(f, tie) ==
    {gap \in (DOMAIN f) \X (DOMAIN f) :
        /\ gap[1] \in Previous(f, tie, gap[2])
        /\ f[gap[1]].end # None /\ f[gap[2]].start # None
        /\ Km(f[gap[1]].end, f[gap[2]].start) > LEG_GAP_THRESHOLD_KM}

\* One action of the simulation: a new leg goes last, or where it says.
SimulateEdit(sim, e, skipped) ==
    CASE e.op = "update" /\ e.leg \in DOMAIN sim.legs ->
            [sim EXCEPT !.legs[e.leg].start = IF e.start = None THEN @ ELSE e.start,
                        !.legs[e.leg].end = IF e.end = None THEN @ ELSE e.end]
      [] e.op = "add" ->
            LET sort == IF e.sort = None THEN sim.maxSort + 1 ELSE e.sort
            IN  [legs |-> With(sim.legs, sim.synId,
                               [sort |-> sort, start |-> e.start, end |-> e.end]),
                 maxSort |-> IF e.sort = None THEN sort ELSE sim.maxSort,
                 synId |-> sim.synId + 1]
      [] e.op = "delete" /\ e.leg \notin skipped ->
            [sim EXCEPT !.legs = Without(@, e.leg)]
      [] OTHER -> sim

GateLegs(f) == [l \in DOMAIN f |-> [sort |-> f[l].sort, start |-> f[l].start, end |-> f[l].end]]

Simulate(f, batch, synId, skipped) ==
    FoldLeft(LAMBDA sim, e : SimulateEdit(sim, e, skipped),
             [legs |-> GateLegs(f), synId |-> synId,
              maxSort |-> Max({0} \cup {f[l].sort : l \in DOMAIN f})], batch).legs

DeletesOf(batch) == {e.leg : e \in {x \in Range(batch) : x.op = "delete"}}

\* The gaps a batch would leave that are not there yet; new legs come last of their sort.
NewGaps(f, tie, batch, synId, skipped) ==
    LET final == Simulate(f, batch, synId, skipped)
        order == [l \in DOMAIN final |-> IF l \in DOMAIN tie THEN tie[l] ELSE l]
    IN  GapKeys(final, order) \ GapKeys(f, tie)

\* Variant for the mutation runs: no delete is held back.
NoDeleteBlocked(f, tie, batch, synId) == {}

FindGapCreatingDeletes(f, tie, batch, synId) ==
    LET deletes == DeletesOf(batch)
        culprits == {l \in deletes \cap DOMAIN f :
                        NewGaps(f, tie, batch, synId, {l}) = {}}
    IN  IF \/ deletes = {} \/ Cardinality(DOMAIN f) < 2
           \/ NewGaps(f, tie, batch, synId, {}) = {}
        THEN {}
        ELSE IF culprits = {} THEN deletes ELSE culprits

-----------------------------------------------------------------------------
(* Where a new leg goes *)

MaxSort(f) == Max({-1} \cup {f[l].sort : l \in DOMAIN f})

\* After the last leg that ends where the new one starts, unless that is the last of all;
\* a set of at most one sort_order.
InferInsertAfterSort(f, start) ==
    LET matches == {l \in DOMAIN f : /\ start # None /\ f[l].end # None
                                     /\ Km(start, f[l].end) <= LEG_CHAIN_MATCH_KM}
    IN  {s \in {Max({-1} \cup {f[l].sort : l \in matches})} :
            matches # {} /\ s < MaxSort(f)}

\* The sort_order to insert after, shifting what is behind it; explicit placement wins.
InsertAfter(f, e) ==
    CASE e.leg \in DOMAIN f -> {f[e.leg].sort}
      [] e.leg \notin DOMAIN f /\ e.sort # None -> {}
      [] OTHER -> InferInsertAfterSort(f, e.start)

\* The legs with room made for the new one.
MakeRoom(f, e) ==
    [l \in DOMAIN f |->
        [f[l] EXCEPT !.sort = IF \E s \in InsertAfter(f, e) : @ > s THEN @ + 1 ELSE @]]

SortOf(f, e) ==
    IF InsertAfter(f, e) # {} THEN Max(InsertAfter(f, e)) + 1
    ELSE IF e.sort # None THEN e.sort ELSE MaxSort(f) + 1

-----------------------------------------------------------------------------
(* The rebuild of the schedule *)

\* Variant for the mutation runs: a rest day is left where it stands in the order, behind
\* the drive before it, as if it needed no place of its own.
DriveBefore(f, tie, r) ==
    LET before == {d \in Drives(f) : Precedes(f, tie, d, r)}
    IN  IF before = {} THEN FirstOf(f, tie, Drives(f)) ELSE LastOf(f, tie, before)

\* nearestDriveStopIndex: the drive that arrives nearest to a rest day, the first of them;
\* the last drive if that cannot be said.
NearestDriveStop(f, tie, r) ==
    LET spot == IF f[r].start # None THEN f[r].start ELSE f[r].end
        placed == {d \in Drives(f) : f[d].end # None}
        nearest == {d \in placed : \A e \in placed : Km(spot, f[d].end) <= Km(spot, f[e].end)}
    IN  IF spot = None \/ placed = {} THEN LastOf(f, tie, Drives(f))
        ELSE FirstOf(f, tie, nearest)

\* Variant for the mutation runs: of the rest days at one stop, the last comes first.
RankLastFirst(f, tie, l) ==
    LET stop == [r \in Rests(f) |-> NearestDriveStop(f, tie, r)]
        ahead(d) == {e \in Drives(f) : Precedes(f, tie, e, d)}
        drive == IF l \in Drives(f) THEN l ELSE stop[l]
        rankOfDrive == Cardinality(ahead(drive))
                       + Cardinality({r \in Rests(f) : stop[r] \in ahead(drive)})
    IN  IF l \in Drives(f) THEN rankOfDrive
        ELSE rankOfDrive + 1
             + Cardinality({r \in Rests(f) : stop[r] = drive /\ Precedes(f, tie, l, r)})

\* materializeSchedule: the drives in their order, each followed by its rest days.
Rank(f, tie, l) ==
    LET stop == [r \in Rests(f) |-> NearestDriveStop(f, tie, r)]
        ahead(d) == {e \in Drives(f) : Precedes(f, tie, e, d)}
        drive == IF l \in Drives(f) THEN l ELSE stop[l]
        rankOfDrive == Cardinality(ahead(drive))
                       + Cardinality({r \in Rests(f) : stop[r] \in ahead(drive)})
    IN  IF l \in Drives(f) THEN rankOfDrive
        ELSE rankOfDrive + 1
             + Cardinality({r \in Rests(f) : stop[r] = drive /\ Precedes(f, tie, r, l)})

\* rebuildTripSchedule: every leg gets its rank, and a rest day the place of its drive.
Rebuilt(f, tie) ==
    IF Drives(f) = {} THEN f
    ELSE [l \in DOMAIN f |->
            IF l \in Drives(f) THEN [f[l] EXCEPT !.sort = Rank(f, tie, l)]
            ELSE LET spot == f[NearestDriveStop(f, tie, l)].end
                 IN  [f[l] EXCEPT !.sort = Rank(f, tie, l), !.start = spot, !.end = spot]]

-----------------------------------------------------------------------------
(* Continuity and progress *)

\* Variant for the mutation runs: nothing is behind the driver.
NothingBehind(f, tie, anchor) == 0

AnchorIndex(f, tie, anchor) == IF anchor \in DOMAIN f THEN Index(f, tie, anchor) ELSE 0

\* Variant for the mutation runs: a jump is what the gate calls a gap.
StartFixesOfGaps(f, tie, anchor) ==
    {l \in Drives(f) :
        /\ Index(f, tie, l) > AnchorIndex(f, tie, anchor)
        /\ \E p \in Previous(f, tie, l) :
              /\ f[p].end # None
              /\ \/ f[l].start = None
                 \/ Km(f[p].end, f[l].start) > LEG_GAP_THRESHOLD_KM}

\* computeStartFixes: the drives behind the anchor that do not start where the leg before
\* them ends.
StartFixes(f, tie, anchor) ==
    {l \in Drives(f) :
        /\ Index(f, tie, l) > AnchorIndex(f, tie, anchor)
        /\ \E p \in Previous(f, tie, l) :
              /\ f[p].end # None
              /\ \/ f[l].start = None
                 \/ Km(f[p].end, f[l].start) > DEFAULT_CONTINUITY_EPSILON_KM}

\* Legs that still carry a warning although they are chained: their route is tried again.
Retries(f, tie, anchor) ==
    {l \in DOMAIN f \ StartFixes(f, tie, anchor) :
        /\ Index(f, tie, l) > AnchorIndex(f, tie, anchor)
        /\ f[l].warned /\ f[l].start # None /\ f[l].end # None}

\* What repairLegContinuity will write, one leg after the other.
RepairTargets(f, tie, anchor) ==
    IF Cardinality(DOMAIN f) < 2 THEN {}
    ELSE {[leg |-> l, index |-> Index(f, tie, l), fix |-> TRUE,
           origin |-> f[LastOf(f, tie, Earlier(f, tie, l))].end] :
            l \in StartFixes(f, tie, anchor)}
         \cup {[leg |-> l, index |-> Index(f, tie, l), fix |-> FALSE, origin |-> f[l].start] :
                 l \in Retries(f, tie, anchor)}

\* resolveNextDriveLeg: the first drive from the leg on that has an end nearest to p; a
\* set of at most one leg.
NextDriveLeg(f, tie, p) ==
    LET spots(l) == {f[l].start, f[l].end} \ {None}
        placed == {l \in DOMAIN f : spots(l) # {}}
        km(l) == Min({Km(p, s) : s \in spots(l)})
        nearest == {l \in placed : \A k \in placed : km(l) <= km(k)}
        from == IF placed = {} THEN 0 ELSE Index(f, tie, FirstOf(f, tie, nearest))
        ahead == {d \in Drives(f) : Index(f, tie, d) >= from}
    IN  IF Drives(f) = {} THEN {}
        ELSE IF ahead = {} THEN {LastOf(f, tie, Drives(f))} ELSE {FirstOf(f, tie, ahead)}

\* Variant for the mutation runs: the days are counted from the start of the trip.
LastDayFromStart(f, tie, anchor, anchorDay, startDay) == startDay + Cardinality(DOMAIN f) - 1

\* lastDayFromSchedule: one day per leg, hung off the day the current leg falls on.
LastDay(f, tie, anchor, anchorDay, startDay) ==
    LET first == IF anchor \in DOMAIN f THEN anchorDay - Index(f, tie, anchor) ELSE startDay
    IN  first + Cardinality(DOMAIN f) - 1
=============================================================================
