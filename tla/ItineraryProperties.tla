------------------------ MODULE ItineraryProperties -------------------------
(***************************************************************************)
(* What a driver may count on after a turn, whatever Penny queued in it.   *)
(***************************************************************************)
EXTENDS Itinerary

\* The order of a trip that has none of equal sort_order.
BySort(f) == [l \in DOMAIN f |-> l]

\* No turn is under way, and nothing has thrown or was killed since the last turn that
\* ran its pipeline to the end.
Settled == At("idle") /\ ~troubled

\* The drives end at known places, no two of them close to each other.
EndsApart(f) ==
    \A d \in Drives(f) :
        /\ f[d].end # None
        /\ \A e \in Drives(f) \ {d} : f[e].end # f[d].end

\* The legs are numbered from 0 without a gap, and every rest day starts and ends where
\* the leg before it ends.
InOrder(f) ==
    /\ {f[l].sort : l \in DOMAIN f} = 0..(Cardinality(DOMAIN f) - 1)
    /\ \A r \in Rests(f) : \E p \in Previous(f, BySort(f), r) :
          Ends(f, r) = <<f[p].end, f[p].end>>

\* The legs after the driver's current one, or after the first.
Ahead(f, at) == {l \in DOMAIN f : Index(f, BySort(f), l) > AnchorIndex(f, BySort(f), at)}

\* Leg l starts within a kilometre of where the one before it ends, if that is known.
ChainedAt(f, l) ==
    \A p \in Previous(f, BySort(f), l) :
        f[p].end # None =>
            /\ f[l].start # None
            /\ Km(f[p].end, f[l].start) <= DEFAULT_CONTINUITY_EPSILON_KM

\* What is asked of a settled trip holds of the trips to start from.
ASSUME SettledTripAssumption ==
    \A f \in Trips : Drives(f) # {} =>
        InOrder(f) /\ \A l \in Ahead(f, None) : ChainedAt(f, l)

\* The day leg l falls on, when the legs are read in the order `tie` gives those of equal
\* sort_order.
Date(tie, l) ==
    IF anchor \in DOMAIN legs
    THEN anchorDay + (Index(legs, tie, l) - Index(legs, tie, anchor))
    ELSE startDay + Index(legs, tie, l)

-----------------------------------------------------------------------------
(* Invariants *)

\* A settled trip is one day after the other, and every rest day is spent where the day
\* before it ends (trips.ts, rebuildTripSchedule: Penny can no longer leave a rest day
\* stranded after the drive it was meant to precede). A trip of rest days alone is not
\* rebuilt.
DaysInOrder == Settled /\ Drives(legs) # {} => InOrder(legs)

\* A settled trip never jumps: from the driver's current leg on, every day starts within a
\* kilometre of where the day before it ends, if that is known (trips.ts,
\* repairLegContinuity: the plan must never jump).
NeverJumps ==
    Settled /\ Drives(legs) # {} =>
        \A l \in Ahead(legs, anchor) : ChainedAt(legs, l)

\* A drive's stored route is the one between its endpoints, however often they were
\* edited, chained or moved under it, and whatever threw in between. One thing alone takes
\* them apart: a report commits the new start before the route from there is looked for
\* (trips.ts, applyTripProgress), and until one is found and stored, by that report or by
\* whatever writes the leg's route next, the old route stands.
RouteIsOfItsLeg ==
    \A l \in Drives(legs) \ strayed :
        legs[l].route \in {None, Ends(legs, l)}

\* A schedule just rebuilt is rebuilt into itself, if its drives end at places of their own
\* (trips.ts: idempotent, a no-op when the trip is already correct). Where two drives end at
\* one place, the rest days of the second visit move to the first.
RebuildSettles ==
    At("plan") /\ turn.whole /\ EndsApart(legs) => Rebuilt(legs, BySort(legs)) = legs

\* A batch of deletes that passes the gate leaves no gap the trip did not have, unless
\* several of its deletes were each found to be the culprit and others went ahead
\* (contiguityGate.ts: block any delete_leg that would leave a NEW gap).
DeletesLeaveNoNewGap ==
    LET refused == turn.blocked \cap DeletesOf(turn.batch)
        onlyDeletes == \A i \in 1..Len(turn.batch) : turn.batch[i].op = "delete"
    IN  /\ At("rebuild") /\ turn.plain /\ onlyDeletes
        /\ Cardinality(refused) <= 1 \/ refused = DeletesOf(turn.batch)
        => \A tie \in Ties(legs) : GapKeys(legs, tie) \subseteq turn.gaps

\* What the driver has driven stays as it was: while the current leg is a drive of the
\* trip, no edit of another leg, no rebuild and no repair changes a drive behind it
\* (trips.ts: we leave the behind-you legs alone).
BehindYouUntouched ==
    anchor \in Drives(legs) =>
        \A l \in DOMAIN travelled \cap DOMAIN legs : Ends(legs, l) = travelled[l]

\* The stored end date of a settled trip is the day of its last leg, as the itinerary dates
\* them: one day per leg, the current leg on the reported day (trips.ts,
\* syncTripEndDateFromLegs). A trip that lost its last leg keeps the date it had; one of
\* rest days that share a sort_order may be read in another order the next time.
EndDateIsLastDay ==
    Settled /\ DOMAIN legs # {} =>
        \E tie \in Ties(legs) : endDay = Max({Date(tie, l) : l \in DOMAIN legs})

-----------------------------------------------------------------------------
(* Action property *)

\* A rebuild loses no leg and never swaps two drives, and a rest day stays where it is
\* while some drive ends there.
RebuildKeepsTheRoute ==
    [][turn.pc = "rebuild" /\ turn'.pc = "plan" =>
        /\ DOMAIN legs' = DOMAIN legs
        /\ \A d, e \in Drives(legs) :
              legs[d].sort < legs[e].sort => legs'[d].sort < legs'[e].sort
        /\ \A d \in Drives(legs), r \in Rests(legs) :
              legs[r].start # None /\ legs[r].start = legs[d].end =>
                  legs'[r].start = legs[r].start]_vars
=============================================================================
