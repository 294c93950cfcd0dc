----------------------------- MODULE Itinerary ------------------------------
(***************************************************************************)
(* What a Penny turn does to the legs of its trip.  A batch of edits       *)
(* passes the contiguity gate and is dispatched edit by edit; if any was   *)
(* applied, the schedule is rebuilt, the legs are chained, and the trip's  *)
(* end date is derived.  Directions may find no route, statements throw,   *)
(* and the turn may be killed; the next turn starts from what is there.    *)
(* Turns of one trip run one after the other (PennyTurns), so a read and   *)
(* the writes decided on it are one step where nothing else comes between. *)
(***************************************************************************)
EXTENDS ItineraryRules

CONSTANTS
    Trips,        \* the trips to start from: functions from leg ids to legs
    Batches,      \* what Penny may queue in a turn: sequences of edits
    MaxTurns,     \* bound: turns
    MaxMishaps    \* bound: how often Directions, a statement or the platform fails

LegIds == Nat \ {0}

ASSUME BatchAssumption ==
    /\ Batches \subseteq Seq(Edits)
    /\ \A batch \in Batches : batch # <<>>
    /\ \A batch \in Batches : \A i \in 1..Len(batch) :   \* a report always says where and when
          batch[i].op = "report" => batch[i].start # None /\ batch[i].day # None
\* A trip to start from is one that earlier turns have settled.
ASSUME TripAssumption ==
    \A f \in Trips :
        /\ DOMAIN f \subseteq LegIds /\ IsFiniteSet(DOMAIN f)
        /\ f \in [DOMAIN f -> Legs]
        /\ \A l \in Drives(f) : f[l].route \in {None, <<f[l].start, f[l].end>>}
ASSUME ItineraryLimitAssumption == MaxTurns \in Nat /\ MaxMishaps \in Nat

VARIABLES
    legs,        \* the trip's legs
    anchor,      \* trips.current_leg_id
    anchorDay,   \* trips.progress_anchor_date
    startDay,    \* trips.start_date_parsed
    endDay,      \* trips.end_date
    born,        \* the highest leg id given so far
    turn,        \* the turn under way
    turns, mishaps,
    troubled,    \* history: something threw or was killed since the last whole pipeline
    strayed,     \* history: legs whose start a report moved without a route found from there
    travelled    \* history: endpoints of the drives behind the driver, as last edited

vars == <<legs, anchor, anchorDay, startDay, endDay, born, turn, turns, mishaps,
          troubled, strayed, travelled>>

Targets == [leg : LegIds, index : Nat, fix : BOOLEAN, origin : Spots]

\* `newLegs` are the ids of the legs added by this turn that no update has claimed; `next`
\* is the leg a report under way says is driven next.
\* History: `gaps` are the trip's gaps before it, `plain` that no two legs shared a
\* sort_order then and every edit went as it should.
TurnRecords ==
    [pc : {"idle", "dispatch", "reroute", "pin", "rebuild", "plan", "repair", "sync"},
     batch : Seq(Edits), at : Nat, blocked : SUBSET (Nat \cup {None}), applied : BOOLEAN,
     newLegs : Seq(LegIds), next : LegIds \cup {None}, targets : SUBSET Targets, whole : BOOLEAN,
     gaps : SUBSET (LegIds \X LegIds), plain : BOOLEAN]

NoTurn == [pc |-> "idle", batch |-> <<>>, at |-> 0, blocked |-> {}, applied |-> FALSE,
           newLegs |-> <<>>, next |-> None, targets |-> {}, whole |-> TRUE, gaps |-> {},
           plain |-> TRUE]

TypeOK ==
    /\ DOMAIN legs \subseteq LegIds /\ legs \in [DOMAIN legs -> Legs]
    /\ anchor \in LegIds \cup {None}
    /\ {anchorDay, startDay, endDay} \subseteq Int
    /\ born \in Nat /\ \A l \in DOMAIN legs : l <= born
    /\ turn \in TurnRecords
    /\ turns \in Nat /\ mishaps \in Nat
    /\ troubled \in BOOLEAN
    /\ strayed \subseteq DOMAIN legs
    /\ DOMAIN travelled \subseteq LegIds
    /\ travelled \in [DOMAIN travelled -> Spots \X Spots]

Init ==
    /\ legs \in Trips
    /\ anchor = None
    /\ anchorDay = 0
    /\ startDay = 0
    /\ endDay = Cardinality(DOMAIN legs) - 1
    /\ born = Max({0} \cup DOMAIN legs)
    /\ turn = NoTurn
    /\ turns = 0
    /\ mishaps = 0
    /\ troubled = FALSE
    /\ strayed = {}
    /\ travelled = <<>>

At(pc) == turn.pc = pc
Dates == <<anchor, anchorDay, startDay, endDay>>
Calendar == <<anchorDay, startDay, endDay>>

Mishap ==
    /\ mishaps < MaxMishaps
    /\ mishaps' = mishaps + 1

\* Directions finds a route from p to q, or does not.
Directions(ok) == IF ok THEN UNCHANGED mishaps ELSE Mishap

-----------------------------------------------------------------------------
(* The gate and the dispatch *)

StartTurn(batch) ==
    /\ At("idle") /\ turns < MaxTurns
    /\ turns' = turns + 1
    /\ \E tie \in Ties(legs) :
        turn' = [NoTurn EXCEPT !.pc = "dispatch", !.batch = batch, !.at = 1,
                     !.blocked = FindGapCreatingDeletes(legs, tie, batch, born + 1),
                     !.gaps = GapKeys(legs, tie),
                     !.plain = (Ties(legs) = {tie})]
    /\ UNCHANGED <<legs, Dates, born, mishaps, troubled, strayed, travelled>>

Edit == turn.batch[turn.at]

\* Variant for the mutation runs: the schedule and the chain are left to the next turn
\* unless the last edit was applied.
ToTheLastEdit(rec, applied) ==
    LET more == rec.at < Len(rec.batch)
    IN  [rec EXCEPT !.at = IF more THEN @ + 1 ELSE @,
                    !.applied = @ \/ applied,
                    !.pc = CASE more -> "dispatch" [] ~more /\ applied -> "rebuild" [] OTHER -> "idle"]

\* The turn after an edit. With nothing applied, there is nothing to settle.
AfterEdit(rec, applied) ==
    LET more == rec.at < Len(rec.batch)
    IN  [rec EXCEPT !.at = IF more THEN @ + 1 ELSE @,
                    !.applied = @ \/ applied,
                    !.pc = CASE more -> "dispatch"
                             [] ~more /\ (rec.applied \/ applied) -> "rebuild"
                             [] OTHER -> "idle"]

Dispatching(op) == At("dispatch") /\ Edit.op = op

\* The leg an edit means: one of the trip; for an update that names none, the oldest leg
\* this turn added that no update has claimed. A set of at most one leg.
Resolved ==
    IF Edit.leg \in DOMAIN legs THEN {Edit.leg}
    ELSE IF Edit.op = "update" /\ turn.newLegs # <<>>
         THEN {Head(turn.newLegs)} \cap DOMAIN legs
         ELSE {}

\* What the update leaves of them; asking takes the oldest off.
Claimed ==
    IF Edit.leg \in DOMAIN legs \/ turn.newLegs = <<>> THEN turn.newLegs ELSE Tail(turn.newLegs)

Blocked == Edit.op = "delete" /\ Edit.leg \in turn.blocked

\* An update says where the leg starts or ends, or it is about something else.
Told == Edit.start # None \/ Edit.end # None

\* A rest day cannot be moved: that is for the rebuild.
Refused ==
    \/ Edit.op \in {"delete", "update"} /\ Resolved = {}
    \/ Edit.op = "update" /\ Told /\ \A l \in Resolved : legs[l].kind = "rest"

\* What an edit that comes to nothing leaves of the unclaimed legs: an update may have taken
\* its leg off before it failed.
Unclaimed == {turn.newLegs} \cup {q \in {Claimed} : Edit.op = "update" /\ Resolved # {}}

\* An edit that the gate holds back, or that names no leg or a rest day to move.
Skip ==
    /\ At("dispatch") /\ (Blocked \/ Refused)
    /\ turn' = AfterEdit([turn EXCEPT
                   !.newLegs = IF Edit.op = "update" /\ Resolved # {} THEN Claimed ELSE @,
                   !.plain = @ /\ Blocked], FALSE)
    /\ UNCHANGED <<legs, Dates, born, turns, mishaps, troubled, strayed, travelled>>

DeleteLeg ==
    /\ Dispatching("delete") /\ ~Blocked
    /\ \E l \in Resolved :
        /\ legs' = Without(legs, l)
        /\ strayed' = strayed \ {l}
        /\ travelled' = Without(travelled, l)
    /\ turn' = AfterEdit(turn, TRUE)
    /\ UNCHANGED <<Dates, born, turns, mishaps, troubled>>

Ends(f, l) == <<f[l].start, f[l].end>>

\* Variant for the mutation runs: a route is looked for whatever is known of the ends.
MovedUnasked(leg, start, end, ok) ==
    [leg EXCEPT !.start = start, !.end = end, !.route = IF ok THEN <<start, end>> ELSE None]

\* The leg with the places an update gives it, on the route found between them; a route
\* is only looked for between two known places.
Moved(leg, start, end, ok) ==
    [leg EXCEPT !.start = start, !.end = end,
                !.route = CASE None \in {start, end} -> @
                            [] None \notin {start, end} /\ ok -> <<start, end>>
                            [] OTHER -> None]

\* The legs with the row of leg l written by the update under way. One that says nothing
\* of the places leaves the route alone.
UpdatedRow(l, ok) ==
    LET start == IF Edit.start = None THEN legs[l].start ELSE Edit.start
        end == IF Edit.end = None THEN legs[l].end ELSE Edit.end
    IN  IF Told THEN [legs EXCEPT ![l] = Moved(@, start, end, ok)] ELSE legs

WriteUpdate(l, ok) ==
    /\ ~Refused
    /\ legs' = UpdatedRow(l, ok)
    /\ strayed' = IF ~Told \/ None \in {legs'[l].start, legs'[l].end} THEN strayed
                  ELSE strayed \ {l}
    /\ travelled' = IF l \in DOMAIN travelled
                    THEN [travelled EXCEPT ![l] = Ends(legs', l)] ELSE travelled

UpdateLeg ==
    /\ Dispatching("update")
    /\ \E l \in Resolved, ok \in BOOLEAN : Directions(ok) /\ WriteUpdate(l, ok)
    /\ turn' = AfterEdit([turn EXCEPT !.newLegs = Claimed], TRUE)
    /\ UNCHANGED <<Dates, born, turns, troubled>>

\* The row was written, here with a route; what follows it (costs, the fuel cache) throws.
UpdateLegThrows ==
    /\ Dispatching("update")
    /\ Mishap
    /\ \E l \in Resolved : WriteUpdate(l, TRUE)
    /\ turn' = AfterEdit([turn EXCEPT !.newLegs = Claimed, !.plain = FALSE], FALSE)
    /\ troubled' = TRUE
    /\ UNCHANGED <<Dates, born, turns>>

NewLeg(ok) ==
    [kind |-> Edit.kind, sort |-> SortOf(legs, Edit), start |-> Edit.start,
     end |-> Edit.end, warned |-> FALSE,
     route |-> IF None \notin {Edit.start, Edit.end} /\ ok
               THEN <<Edit.start, Edit.end>> ELSE None]

AddLeg ==
    /\ Dispatching("add")
    /\ \E ok \in BOOLEAN :
        /\ Directions(ok)
        /\ legs' = With(MakeRoom(legs, Edit), born + 1, NewLeg(ok))
    /\ born' = born + 1
    /\ turn' = AfterEdit([turn EXCEPT !.newLegs = Append(@, born + 1)], TRUE)
    /\ UNCHANGED <<Dates, turns, troubled, strayed, travelled>>

\* Room was made; the insert throws.
AddLegThrows ==
    /\ Dispatching("add")
    /\ Mishap
    /\ legs' = MakeRoom(legs, Edit)
    /\ turn' = AfterEdit([turn EXCEPT !.plain = FALSE], FALSE)
    /\ troubled' = TRUE
    /\ UNCHANGED <<Dates, born, turns, strayed, travelled>>

\* rename_trip, as far as the start date goes.
WriteStartDay == startDay' = IF Edit.day = None THEN startDay ELSE Edit.day

RenameTrip ==
    /\ Dispatching("rename")
    /\ WriteStartDay
    /\ turn' = AfterEdit(turn, TRUE)
    /\ UNCHANGED <<legs, anchor, anchorDay, endDay, born, turns, mishaps, troubled,
                   strayed, travelled>>

\* The trip's row was written; naming the trip after its season throws.
RenameTripThrows ==
    /\ Dispatching("rename")
    /\ Mishap
    /\ WriteStartDay
    /\ turn' = AfterEdit([turn EXCEPT !.plain = FALSE], FALSE)
    /\ troubled' = TRUE
    /\ UNCHANGED <<legs, anchor, anchorDay, endDay, born, turns, strayed, travelled>>

\* The leg the driver will drive next: the one named, or the next from where they are; a
\* set of at most one leg.
NextLeg(tie) ==
    IF Edit.leg \in DOMAIN legs THEN {Edit.leg} ELSE NextDriveLeg(legs, tie, Edit.start)

\* applyTripProgress moves the start of the next drive to where the driver is. If a rest
\* day or none is next, only the trip's row is left to write.
ReportPosition ==
    /\ Dispatching("report")
    /\ \E tie \in Ties(legs) :
        \/ \E l \in NextLeg(tie) \cap Drives(legs) :
              /\ legs' = [legs EXCEPT ![l].start = Edit.start]
              /\ strayed' = strayed \cup {l}
              /\ travelled' = Without(travelled, l)
              /\ turn' = [turn EXCEPT !.pc = "reroute", !.next = l]
        \/ /\ NextLeg(tie) \cap Drives(legs) = {}
           /\ \E l \in IF NextLeg(tie) = {} THEN {None} ELSE NextLeg(tie) :
                 turn' = [turn EXCEPT !.pc = "pin", !.next = l]
           /\ UNCHANGED <<legs, strayed, travelled>>
    /\ UNCHANGED <<Dates, born, turns, mishaps, troubled>>

\* rerouteLeg: the route from there, or else the old one is left.
Rerouted(ok) ==
    LET l == turn.next
    IN  IF ok /\ None \notin {legs[l].start, legs[l].end}
        THEN /\ legs' = [legs EXCEPT ![l].route = Ends(legs, l)]
             /\ strayed' = strayed \ {l}
        ELSE UNCHANGED <<legs, strayed>>

RerouteLeg ==
    /\ At("reroute")
    /\ \E ok \in BOOLEAN : Directions(ok) /\ Rerouted(ok)
    /\ turn' = [turn EXCEPT !.pc = "pin"]
    /\ UNCHANGED <<Dates, born, turns, troubled, travelled>>

\* The trip's row says which leg is next and on which day; the drives before it are behind.
WriteProgress ==
    /\ anchor' = turn.next
    /\ anchorDay' = Edit.day
    /\ travelled' = [k \in {d \in Drives(legs) : turn.next # None
                                /\ legs[d].sort < legs[turn.next].sort} |-> Ends(legs, k)]
    /\ UNCHANGED <<legs, startDay, endDay, born, turns, strayed>>

PinTrip ==
    /\ At("pin")
    /\ WriteProgress
    /\ turn' = AfterEdit([turn EXCEPT !.next = None], TRUE)
    /\ UNCHANGED <<mishaps, troubled>>

\* The leg got a route and the trip's row was written; the fuel cache's invalidation throws.
PinTripThrows ==
    /\ At("pin") /\ turn.next \in Drives(legs) \ strayed
    /\ Mishap
    /\ WriteProgress
    /\ turn' = AfterEdit([turn EXCEPT !.next = None, !.plain = FALSE], FALSE)
    /\ troubled' = TRUE

\* The leg's start was written, and perhaps its route; the trip's row is not.
ReportThrows ==
    /\ At("reroute") \/ At("pin")
    /\ Mishap
    /\ turn' = AfterEdit([turn EXCEPT !.next = None, !.plain = FALSE], FALSE)
    /\ troubled' = TRUE
    /\ UNCHANGED <<legs, Dates, born, turns, strayed, travelled>>

\* An edit fails before it writes anything, or the feasibility gate refuses the add.
EditThrows ==
    /\ At("dispatch") /\ ~Blocked
    /\ Mishap
    /\ \E q \in Unclaimed :
        turn' = AfterEdit([turn EXCEPT !.newLegs = q, !.plain = FALSE], FALSE)
    /\ UNCHANGED <<legs, Dates, born, turns, troubled, strayed, travelled>>

-----------------------------------------------------------------------------
(* The pipeline; each of its parts is best effort *)

Rest == <<Dates, born, turns, travelled>>

RebuildTripSchedule ==
    /\ At("rebuild")
    /\ \E tie \in Ties(legs) : legs' = Rebuilt(legs, tie)
    /\ turn' = [turn EXCEPT !.pc = "plan"]
    /\ UNCHANGED <<Rest, mishaps, troubled, strayed>>

RebuildThrows ==
    /\ At("rebuild")
    /\ Mishap
    /\ turn' = [turn EXCEPT !.pc = "plan", !.whole = FALSE]
    /\ UNCHANGED <<legs, Rest, troubled, strayed>>

\* repairLegContinuity reads the legs and decides what to write.
PlanRepair ==
    /\ At("plan")
    /\ \E tie \in Ties(legs) :
        LET targets == RepairTargets(legs, tie, anchor)
        IN  turn' = [turn EXCEPT !.pc = IF targets = {} THEN "sync" ELSE "repair",
                                 !.targets = targets]
    /\ UNCHANGED <<legs, Rest, mishaps, troubled, strayed>>

\* The fixes come first, then the retries, each in the order of the legs.
ComesFirst(t) ==
    \A u \in turn.targets : (t.fix /\ ~u.fix) \/ (t.fix = u.fix /\ t.index <= u.index)

\* Variant for the mutation runs: a route that was not found leaves the old one in place.
RepairedKeepingRoute(leg, t, ok) ==
    LET found == ok /\ leg.end # None
    IN  [leg EXCEPT !.start = IF t.fix THEN t.origin ELSE @,
                    !.route = IF found THEN <<t.origin, leg.end>> ELSE @,
                    !.warned = ~found]

\* resolveContinuityRoute: the fresh route, or none and a warning.
Repaired(leg, t, ok) ==
    LET found == ok /\ leg.end # None
    IN  [leg EXCEPT !.start = IF t.fix THEN t.origin ELSE @,
                    !.route = IF found THEN <<t.origin, leg.end>> ELSE None,
                    !.warned = ~found]

RepairLeg ==
    /\ At("repair")
    /\ \E t \in turn.targets, ok \in BOOLEAN :
        /\ ComesFirst(t)
        /\ Directions(ok)
        /\ legs' = [legs EXCEPT ![t.leg] = Repaired(@, t, ok)]
        /\ strayed' = strayed \ {t.leg}
        /\ turn' = [turn EXCEPT !.targets = @ \ {t},
                                !.pc = IF turn.targets = {t} THEN "sync" ELSE @]
    /\ UNCHANGED <<Rest, troubled>>

\* The repair throws: the legs it has not come to stay as they are.
RepairThrows ==
    /\ At("plan") \/ At("repair")
    /\ Mishap
    /\ turn' = [turn EXCEPT !.pc = "sync", !.targets = {}, !.whole = FALSE]
    /\ UNCHANGED <<legs, Rest, troubled, strayed>>

SyncTripEndDate ==
    /\ At("sync")
    /\ \E tie \in Ties(legs) :
        endDay' = IF DOMAIN legs = {} THEN endDay
                  ELSE LastDay(legs, tie, anchor, anchorDay, startDay)
    /\ turn' = NoTurn
    /\ troubled' = ~turn.whole
    /\ UNCHANGED <<legs, anchor, anchorDay, startDay, born, turns, mishaps, strayed, travelled>>

SyncThrows ==
    /\ At("sync")
    /\ Mishap
    /\ turn' = NoTurn
    /\ troubled' = TRUE
    /\ UNCHANGED <<legs, Rest, strayed>>

\* The turn is killed: what it has written stays.
Killed ==
    /\ ~At("idle")
    /\ Mishap
    /\ turn' = NoTurn
    /\ troubled' = TRUE
    /\ UNCHANGED <<legs, Rest, strayed>>

Next ==
    \/ \E batch \in Batches : StartTurn(batch)
    \/ Skip \/ EditThrows
    \/ DeleteLeg
    \/ UpdateLeg \/ UpdateLegThrows
    \/ AddLeg \/ AddLegThrows
    \/ RenameTrip \/ RenameTripThrows
    \/ ReportPosition \/ RerouteLeg \/ PinTrip \/ PinTripThrows \/ ReportThrows
    \/ RebuildTripSchedule \/ RebuildThrows
    \/ PlanRepair \/ RepairLeg \/ RepairThrows
    \/ SyncTripEndDate \/ SyncThrows
    \/ Killed

Spec == Init /\ [][Next]_vars
=============================================================================
