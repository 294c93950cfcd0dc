-------------------------- MODULE Itinerary_proofs --------------------------
(***************************************************************************)
(* Proofs about the itinerary, for any trips, any batches of edits and any *)
(* number of turns and mishaps.  The order of the legs and the rebuild are *)
(* in ItineraryRules_proofs; here are the turn's steps.                    *)
(***************************************************************************)
EXTENDS ItineraryProperties, ItineraryRules_proofs

\* An edit is under way; a report takes several steps.
Editing == turn.pc \in {"dispatch", "reroute", "pin"}

\* What the types do not say of the state.
ShapeInv ==
    /\ IsFiniteSet(DOMAIN legs)
    /\ anchor # None => anchor <= born
    /\ Editing => turn.batch \in Batches /\ turn.at \in 1..Len(turn.batch)
    /\ turn.pc \in {"reroute", "pin"} => Edit.op = "report"
    /\ turn.pc = "reroute" => turn.next \in Drives(legs)
    /\ turn.pc = "pin" => turn.next \in DOMAIN legs \cup {None}
    /\ turn.pc # "repair" => turn.targets = {}
    /\ Editing \/ turn.pc = "rebuild" => turn.whole

\* What repairLegContinuity decided to write still fits the legs it is about to write to.
TargetInv ==
    /\ \A t \in turn.targets :
          /\ t.leg \in DOMAIN legs /\ t.origin \in Places
          /\ t.fix => t.leg \in Drives(legs)
          /\ ~t.fix => t.origin = legs[t.leg].start
    /\ \A t, u \in turn.targets : t.leg = u.leg => t = u

\* The drives behind the driver come before the current leg, and nothing is going to be
\* written to them.
BehindInv ==
    /\ DOMAIN travelled \subseteq Drives(legs)
    /\ anchor \in Drives(legs) =>
          \A l \in DOMAIN travelled :
             /\ legs[l].sort < legs[anchor].sort
             /\ travelled[l] = Ends(legs, l)
             /\ \A t \in turn.targets : t.leg # l

Chained(f, at) == \A l \in Ahead(f, at) : ChainedAt(f, l)

\* Each leg ahead is chained, or the repair has yet to move its start to where the leg
\* before it ends.
WillBeChained(f, at, targets) ==
    /\ \A t \in targets : t.fix => \A p \in Previous(f, BySort(f), t.leg) : t.origin = f[p].end
    /\ \A l \in Ahead(f, at) : ChainedAt(f, l) \/ \E t \in targets : t.fix /\ t.leg = l

EndIsLastDay(f, at, atDay, firstDay, lastDay) ==
    DOMAIN f # {} => \E tie \in Ties(f) : lastDay = LastDay(f, tie, at, atDay, firstDay)

\* Nothing has been written since the last pipeline that ran to the end.
Undisturbed == ~troubled /\ (turn.pc = "idle" \/ (turn.pc = "dispatch" /\ ~turn.applied))

\* What each part of the pipeline has achieved if nothing in it threw.
SettledInv ==
    /\ Undisturbed => EndIsLastDay(legs, anchor, anchorDay, startDay, endDay)
    /\ Undisturbed /\ Drives(legs) # {} => InOrder(legs) /\ Chained(legs, anchor)
    /\ turn.whole /\ turn.pc \in {"plan", "repair", "sync"} /\ Drives(legs) # {} => InOrder(legs)
    /\ turn.whole /\ turn.pc = "plan" /\ EndsApart(legs) => Rebuilt(legs, BySort(legs)) = legs
    /\ turn.whole /\ turn.pc = "repair" /\ Drives(legs) # {} =>
          WillBeChained(legs, anchor, turn.targets)
    /\ turn.whole /\ turn.pc = "sync" /\ Drives(legs) # {} => Chained(legs, anchor)

OnlyDeletes(batch) == \A i \in 1..Len(batch) : batch[i].op = "delete"

\* The deletes dispatched so far.
Dispatched(q) == 1..(IF q.pc = "dispatch" THEN q.at - 1 ELSE Len(q.batch))

\* Of the trip f the gate saw, the legs are what the deletes it let pass have left.
GateSaw(f, tie, n, q, now) ==
    /\ IsTrip(f) /\ AllDiffer(f)
    /\ q.gaps = GapKeys(f, tie)
    /\ q.blocked = FindGapCreatingDeletes(f, tie, q.batch, n)
    /\ now = Restrict(f, DOMAIN f \ ({q.batch[i].leg : i \in Dispatched(q)} \ q.blocked))

\* While a batch of deletes goes as it should, the legs are those the gate expects.
GateInv ==
    turn.pc \in {"dispatch", "rebuild"} /\ turn.plain /\ OnlyDeletes(turn.batch) =>
        /\ turn.batch \in Batches
        /\ \E f, tie, n : GateSaw(f, tie, n, turn, legs)

IInv == TypeOK /\ ShapeInv /\ TargetInv /\ RouteIsOfItsLeg /\ BehindInv /\ SettledInv /\ GateInv

-----------------------------------------------------------------------------
(* The state's parts *)

LEMMA LegsAreATrip ==
    ASSUME TypeOK, ShapeInv
    PROVE  IsTrip(legs)
<1>1. LegIds \subseteq Nat
  BY DEF LegIds
<1> QED
  BY <1>1 DEF TypeOK, ShapeInv, IsTrip

LEMMA NoTurnIs ==
    /\ NoTurn \in TurnRecords
    /\ NoTurn.pc = "idle" /\ NoTurn.targets = {} /\ NoTurn.whole = TRUE
<1>1. <<>> \in Seq(Edits) /\ <<>> \in Seq(LegIds)
  OBVIOUS
<1> QED
  BY <1>1 DEF NoTurn, TurnRecords

\* The turn after an edit.
LEMMA AfterEditIs ==
    ASSUME NEW rec \in TurnRecords, rec.at \in 1..Len(rec.batch),
           NEW a \in BOOLEAN
    PROVE  LET r == AfterEdit(rec, a)
           IN  /\ r \in TurnRecords
               /\ r.batch = rec.batch /\ r.targets = rec.targets /\ (r.whole <=> rec.whole)
               /\ r.applied <=> rec.applied \/ a
               /\ r.pc \in {"dispatch", "rebuild", "idle"}
               /\ r.pc = "dispatch" => r.at \in 1..Len(rec.batch)
               /\ r.pc = "idle" => ~rec.applied /\ ~a
<1> DEFINE more == rec.at < Len(rec.batch)
           at2 == IF more THEN rec.at + 1 ELSE rec.at
           applied2 == rec.applied \/ a
           pc2 == CASE more -> "dispatch"
                    [] ~more /\ (rec.applied \/ a) -> "rebuild"
                    [] OTHER -> "idle"
           r == AfterEdit(rec, a)
<1>1. r = [rec EXCEPT !.at = at2, !.applied = applied2, !.pc = pc2]
  BY DEF AfterEdit, TurnRecords
<1>2. Len(rec.batch) \in Nat /\ rec.at \in Nat /\ rec.applied \in BOOLEAN
  BY DEF TurnRecords
<1>3. at2 \in Nat /\ (more => at2 \in 1..Len(rec.batch))
  BY <1>2
<1>4. /\ pc2 \in {"dispatch", "rebuild", "idle"}
      /\ pc2 = "dispatch" => more
      /\ pc2 = "idle" => ~rec.applied /\ ~a
  <2>1. CASE more
    BY <2>1
  <2>2. CASE ~more /\ (rec.applied \/ a)
    BY <2>2
  <2>3. CASE ~more /\ ~(rec.applied \/ a)
    BY <2>3
  <2> QED
    BY <2>1, <2>2, <2>3
<1>5. applied2 \in BOOLEAN
  BY <1>2
<1> HIDE DEF at2, applied2, pc2, r, more
<1>6. /\ r \in TurnRecords
      /\ r.batch = rec.batch /\ r.targets = rec.targets /\ r.whole = rec.whole
      /\ r.applied = applied2 /\ r.pc = pc2 /\ r.at = at2
  BY <1>1, <1>3, <1>4, <1>5 DEF TurnRecords
<1> QED
  BY <1>3, <1>4, <1>6 DEF applied2, r

\* One row of a trip is written.
LEMMA RowWritten ==
    ASSUME NEW f, IsTrip(f), NEW l \in DOMAIN f, NEW leg \in Legs, NEW g,
           g = [f EXCEPT ![l] = leg]
    PROVE  /\ IsTrip(g) /\ DOMAIN g = DOMAIN f
           /\ g[l] = leg
           /\ \A k \in DOMAIN f \ {l} : g[k] = f[k]
  BY DEF IsTrip

\* A row is deleted.
LEMMA RowDeleted ==
    ASSUME NEW f, NEW l, NEW g, g = Without(f, l)
    PROVE  /\ DOMAIN g = DOMAIN f \ {l}
           /\ \A k \in DOMAIN g : g[k] = f[k]
           /\ \A S : f \in [DOMAIN f -> S] => g \in [DOMAIN g -> S]
           /\ IsTrip(f) => IsTrip(g)
<1>1. g = [k \in DOMAIN f \ {l} |-> f[k]]
  BY DEF Without, Restrict
<1>2. IsTrip(f) => IsFiniteSet(DOMAIN f \ {l})
  BY FS_RemoveElement DEF IsTrip
<1> QED
  BY <1>1, <1>2 DEF IsTrip

-----------------------------------------------------------------------------
(* The edits *)

\* The edit under way is one, and a report says where and when.
LEMMA EditIs ==
    ASSUME TypeOK, ShapeInv, Editing
    PROVE  /\ Edit \in Edits
           /\ Edit.start \in Spots /\ Edit.end \in Spots
           /\ Edit.op = "report" => Edit.start \in Places /\ Edit.day \in Int
<1>1. turn.batch \in Batches /\ turn.at \in 1..Len(turn.batch)
  BY DEF ShapeInv
<1>2. turn.batch \in Seq(Edits)
  BY DEF TypeOK, TurnRecords
<1>3. Edit \in Edits
  BY <1>1, <1>2 DEF Edit
<1>4. Edit.op = "report" => Edit.start # None /\ Edit.day # None
  BY <1>1, BatchAssumption DEF Edit
<1> QED
  BY <1>3, <1>4 DEF Edits, Spots

\* The turn goes on after an edit.
LEMMA TurnGoesOn ==
    ASSUME TypeOK, ShapeInv, Editing, NEW a \in BOOLEAN,
           NEW rec \in TurnRecords, turn' = AfterEdit(rec, a),
           rec.batch = turn.batch, rec.at = turn.at,
           rec.targets = turn.targets, rec.whole <=> turn.whole,
           rec.applied <=> turn.applied
    PROVE  /\ turn' \in TurnRecords
           /\ turn'.pc \in {"dispatch", "rebuild", "idle"}
           /\ turn'.pc = "dispatch" => turn'.batch \in Batches /\ turn'.at \in 1..Len(turn'.batch)
           /\ turn'.targets = {} /\ turn'.whole
           /\ a => turn'.pc # "idle" /\ turn'.applied
           /\ ~turn'.applied => ~turn.applied
           /\ turn'.pc = "idle" => ~turn.applied
<1>1. /\ turn.batch \in Batches /\ turn.at \in 1..Len(turn.batch)
      /\ turn.targets = {} /\ turn.whole
  BY DEF ShapeInv, Editing
<1>7. rec.at \in 1..Len(rec.batch)
  BY <1>1
<1> DEFINE r == AfterEdit(rec, a)
<1>8. /\ r \in TurnRecords
      /\ r.batch = rec.batch /\ r.targets = rec.targets /\ (r.whole <=> rec.whole)
      /\ r.applied <=> rec.applied \/ a
      /\ r.pc \in {"dispatch", "rebuild", "idle"}
      /\ r.pc = "dispatch" => r.at \in 1..Len(rec.batch)
      /\ r.pc = "idle" => ~rec.applied /\ ~a
  BY <1>7, AfterEditIs, Zenon
<1>9. turn' = r
  OBVIOUS
<1> HIDE DEF r
<1>2. /\ turn' \in TurnRecords
      /\ turn'.batch = rec.batch /\ turn'.targets = rec.targets /\ (turn'.whole <=> rec.whole)
      /\ turn'.applied <=> rec.applied \/ a
      /\ turn'.pc \in {"dispatch", "rebuild", "idle"}
      /\ turn'.pc = "dispatch" => turn'.at \in 1..Len(rec.batch)
      /\ turn'.pc = "idle" => ~rec.applied /\ ~a
  BY <1>8, <1>9, Zenon
<1>3. /\ a => turn'.pc # "idle" /\ turn'.applied
      /\ ~turn'.applied => ~turn.applied
      /\ turn'.pc = "idle" => ~turn.applied
  BY <1>2, Zenon
<1>4. turn'.targets = {} /\ turn'.whole
  BY <1>1, <1>2, Zenon
<1>5. turn'.pc = "dispatch" => turn'.batch \in Batches /\ turn'.at \in 1..Len(turn'.batch)
  BY <1>1, <1>2, Zenon
<1>6. turn' \in TurnRecords /\ turn'.pc \in {"dispatch", "rebuild", "idle"}
  BY <1>2, Zenon
<1> QED
  BY <1>3, <1>4, <1>5, <1>6, Zenon

\* The turn has come to its next edit, or to the end of the batch; `a`: the edit was applied.
Advanced(a) ==
    /\ turn' \in TurnRecords
    /\ turn'.pc \in {"dispatch", "rebuild", "idle"}
    /\ turn'.pc = "dispatch" => turn'.batch \in Batches /\ turn'.at \in 1..Len(turn'.batch)
    /\ turn'.targets = {} /\ turn'.whole
    /\ a => turn'.pc # "idle" /\ turn'.applied
    /\ ~turn'.applied => ~turn.applied
    /\ turn'.pc = "idle" => ~turn.applied

\* The same for the ways an edit leaves its mark on the turn.
LEMMA EditsGoOn ==
    ASSUME TypeOK, ShapeInv, Editing, NEW a \in BOOLEAN,
           NEW n \in Seq(LegIds), NEW k \in LegIds \cup {None}, NEW b \in BOOLEAN,
           turn' = AfterEdit([turn EXCEPT !.newLegs = n, !.next = k, !.plain = b], a)
    PROVE  Advanced(a)
<1> DEFINE rec == [turn EXCEPT !.newLegs = n, !.next = k, !.plain = b]
<1>1. /\ rec \in TurnRecords
      /\ rec.batch = turn.batch /\ rec.at = turn.at
      /\ rec.targets = turn.targets /\ (rec.whole <=> turn.whole)
      /\ rec.applied <=> turn.applied
  BY DEF TypeOK, TurnRecords
<1> HIDE DEF rec
<1> QED
  BY <1>1, TurnGoesOn DEF rec, Advanced

LEMMA AsTheyAre ==
    ASSUME TypeOK, NEW n \in Seq(LegIds), NEW k \in LegIds \cup {None}, NEW b \in BOOLEAN
    PROVE  LET m == turn.newLegs
               j == turn.next
               c == turn.plain
           IN  /\ turn = [turn EXCEPT !.newLegs = m, !.next = j, !.plain = c]
               /\ [turn EXCEPT !.newLegs = n] = [turn EXCEPT !.newLegs = n, !.next = j, !.plain = c]
               /\ [turn EXCEPT !.next = k] = [turn EXCEPT !.newLegs = m, !.next = k, !.plain = c]
               /\ [turn EXCEPT !.plain = b] = [turn EXCEPT !.newLegs = m, !.next = j, !.plain = b]
               /\ [turn EXCEPT !.newLegs = n, !.plain = b] =
                     [turn EXCEPT !.newLegs = n, !.next = j, !.plain = b]
               /\ [turn EXCEPT !.next = k, !.plain = b] =
                     [turn EXCEPT !.newLegs = m, !.next = k, !.plain = b]
               /\ m \in Seq(LegIds) /\ j \in LegIds \cup {None} /\ c \in BOOLEAN
  BY DEF TypeOK, TurnRecords

\* The legs added that no update has claimed.
LEMMA ClaimedIs ==
    ASSUME TypeOK
    PROVE  /\ Claimed \in Seq(LegIds)
           /\ Unclaimed \subseteq Seq(LegIds)
<1>1. turn.newLegs \in Seq(LegIds)
  BY DEF TypeOK, TurnRecords
<1>2. Claimed \in Seq(LegIds)
  BY <1>1 DEF Claimed
<1> QED
  BY <1>1, <1>2 DEF Unclaimed

\* The leg an edit means is one of the trip.
LEMMA ResolvedIs == Resolved \subseteq DOMAIN legs
  BY DEF Resolved

\* A leg that was moved.
LEMMA MovedIs ==
    ASSUME NEW leg \in Legs, NEW p \in Spots, NEW q \in Spots, NEW ok \in BOOLEAN
    PROVE  LET m == Moved(leg, p, q, ok)
           IN  /\ m \in Legs /\ m.kind = leg.kind /\ m.sort = leg.sort
               /\ m.start = p /\ m.end = q
               /\ None \in {p, q} => m.route = leg.route
               /\ None \notin {p, q} => m.route \in {None, <<p, q>>}
<1> DEFINE route == CASE None \in {p, q} -> leg.route
                      [] None \notin {p, q} /\ ok -> <<p, q>>
                      [] OTHER -> None
           m == Moved(leg, p, q, ok)
<1>1. m = [leg EXCEPT !.start = p, !.end = q, !.route = route]
  BY DEF Moved
<1>2. /\ None \in {p, q} => route = leg.route
      /\ None \notin {p, q} => route \in {None, <<p, q>>}
  <2>1. CASE None \in {p, q}
    BY <2>1
  <2>2. CASE None \notin {p, q} /\ ok
    BY <2>2
  <2>3. CASE None \notin {p, q} /\ ~ok
    BY <2>3
  <2> QED
    BY <2>1, <2>2, <2>3
<1>3. leg.route \in (Places \X Places) \cup {None}
  BY DEF Legs
<1>4. None \notin {p, q} => p \in Places /\ q \in Places
  BY DEF Spots
<1>5. route \in (Places \X Places) \cup {None}
  BY <1>2, <1>3, <1>4
<1> HIDE DEF route, m
<1>6. /\ m \in Legs /\ m.kind = leg.kind /\ m.sort = leg.sort
      /\ m.start = p /\ m.end = q /\ m.route = route
  BY <1>1, <1>5 DEF Legs
<1> QED
  BY <1>2, <1>6 DEF m

\* What an update makes of the row it writes.
LEMMA UpdateIs ==
    ASSUME TypeOK, ShapeInv, turn.pc = "dispatch", NEW l \in DOMAIN legs, NEW ok \in BOOLEAN
    PROVE  LET f == UpdatedRow(l, ok)
               p == IF Edit.start = None THEN legs[l].start ELSE Edit.start
               q == IF Edit.end = None THEN legs[l].end ELSE Edit.end
           IN  /\ IsTrip(f) /\ DOMAIN f = DOMAIN legs
               /\ \A k \in DOMAIN legs \ {l} : f[k] = legs[k]
               /\ f[l].kind = legs[l].kind /\ f[l].sort = legs[l].sort
               /\ f[l].start = p /\ f[l].end = q
               /\ None \in {p, q} => f[l].route = legs[l].route
               /\ None \notin {p, q} /\ Told => f[l].route \in {None, <<p, q>>}
               /\ ~Told => f = legs
<1> DEFINE p == IF Edit.start = None THEN legs[l].start ELSE Edit.start
           q == IF Edit.end = None THEN legs[l].end ELSE Edit.end
           m == Moved(legs[l], p, q, ok)
           f == UpdatedRow(l, ok)
<1>1. IsTrip(legs)
  BY LegsAreATrip
<1>2. legs[l] \in Legs
  BY DEF TypeOK
<1>3. p \in Spots /\ q \in Spots
  BY <1>2, EditIs DEF Legs, Editing
<1>4. f = IF Told THEN [legs EXCEPT ![l] = m] ELSE legs
  BY DEF UpdatedRow
<1>7. ~Told => p = legs[l].start /\ q = legs[l].end
  BY DEF Told
<1> HIDE DEF p, q, m, f
<1>5. /\ m \in Legs /\ m.kind = legs[l].kind /\ m.sort = legs[l].sort
      /\ m.start = p /\ m.end = q
      /\ None \in {p, q} => m.route = legs[l].route
      /\ None \notin {p, q} => m.route \in {None, <<p, q>>}
  BY <1>2, <1>3, MovedIs DEF m
<1>6. CASE Told
  <2>1. /\ IsTrip(f) /\ DOMAIN f = DOMAIN legs /\ f[l] = m
        /\ \A k \in DOMAIN legs \ {l} : f[k] = legs[k]
    BY <1>1, <1>4, <1>5, <1>6, RowWritten
  <2> QED
    BY <1>5, <1>6, <2>1 DEF f, p, q
<1>8. CASE ~Told
  BY <1>1, <1>4, <1>7, <1>8 DEF f, p, q
<1> QED
  BY <1>6, <1>8

\* Every edit leaves the turn at its next edit or at the end of its batch.
LEMMA EditsAdvance ==
    ASSUME TypeOK, ShapeInv
    PROVE  /\ Skip \/ EditThrows => turn.pc = "dispatch" /\ Advanced(FALSE)
           /\ DeleteLeg \/ UpdateLeg \/ AddLeg \/ RenameTrip =>
                 turn.pc = "dispatch" /\ Advanced(TRUE)
           /\ PinTrip => turn.pc = "pin" /\ Advanced(TRUE)
           /\ UpdateLegThrows \/ AddLegThrows \/ RenameTripThrows =>
                 turn.pc = "dispatch" /\ Advanced(FALSE) /\ troubled'
           /\ PinTripThrows \/ ReportThrows =>
                 turn.pc \in {"reroute", "pin"} /\ Advanced(FALSE) /\ troubled'
<1>1. ASSUME Editing, NEW a \in BOOLEAN, NEW n \in Seq(LegIds),
             NEW k \in LegIds \cup {None}, NEW b \in BOOLEAN,
             \/ turn' = AfterEdit(turn, a)
             \/ turn' = AfterEdit([turn EXCEPT !.newLegs = n], a)
             \/ turn' = AfterEdit([turn EXCEPT !.next = k], a)
             \/ turn' = AfterEdit([turn EXCEPT !.plain = b], a)
             \/ turn' = AfterEdit([turn EXCEPT !.newLegs = n, !.plain = b], a)
             \/ turn' = AfterEdit([turn EXCEPT !.next = k, !.plain = b], a)
      PROVE  Advanced(a)
  <2> DEFINE m == turn.newLegs
             j == turn.next
             c == turn.plain
  <2>1. /\ turn = [turn EXCEPT !.newLegs = m, !.next = j, !.plain = c]
        /\ [turn EXCEPT !.newLegs = n] = [turn EXCEPT !.newLegs = n, !.next = j, !.plain = c]
        /\ [turn EXCEPT !.next = k] = [turn EXCEPT !.newLegs = m, !.next = k, !.plain = c]
        /\ [turn EXCEPT !.plain = b] = [turn EXCEPT !.newLegs = m, !.next = j, !.plain = b]
        /\ [turn EXCEPT !.newLegs = n, !.plain = b] =
              [turn EXCEPT !.newLegs = n, !.next = j, !.plain = b]
        /\ [turn EXCEPT !.next = k, !.plain = b] =
              [turn EXCEPT !.newLegs = m, !.next = k, !.plain = b]
        /\ m \in Seq(LegIds) /\ j \in LegIds \cup {None} /\ c \in BOOLEAN
    BY <1>1, AsTheyAre, Zenon
  <2> HIDE DEF m, j, c
  <2>2. CASE turn' = AfterEdit(turn, a)
    <3>1. turn' = AfterEdit([turn EXCEPT !.newLegs = m, !.next = j, !.plain = c], a)
      BY <2>1, <2>2
    <3> QED
      BY <1>1, <2>1, <3>1, EditsGoOn
  <2>3. CASE turn' = AfterEdit([turn EXCEPT !.newLegs = n], a)
    <3>1. turn' = AfterEdit([turn EXCEPT !.newLegs = n, !.next = j, !.plain = c], a)
      BY <2>1, <2>3
    <3> QED
      BY <1>1, <2>1, <3>1, EditsGoOn
  <2>4. CASE turn' = AfterEdit([turn EXCEPT !.next = k], a)
    <3>1. turn' = AfterEdit([turn EXCEPT !.newLegs = m, !.next = k, !.plain = c], a)
      BY <2>1, <2>4
    <3> QED
      BY <1>1, <2>1, <3>1, EditsGoOn
  <2>5. CASE turn' = AfterEdit([turn EXCEPT !.plain = b], a)
    <3>1. turn' = AfterEdit([turn EXCEPT !.newLegs = m, !.next = j, !.plain = b], a)
      BY <2>1, <2>5
    <3> QED
      BY <1>1, <2>1, <3>1, EditsGoOn
  <2>6. CASE turn' = AfterEdit([turn EXCEPT !.newLegs = n, !.plain = b], a)
    <3>1. turn' = AfterEdit([turn EXCEPT !.newLegs = n, !.next = j, !.plain = b], a)
      BY <2>1, <2>6
    <3> QED
      BY <1>1, <2>1, <3>1, EditsGoOn
  <2>7. CASE turn' = AfterEdit([turn EXCEPT !.next = k, !.plain = b], a)
    <3>1. turn' = AfterEdit([turn EXCEPT !.newLegs = m, !.next = k, !.plain = b], a)
      BY <2>1, <2>7
    <3> QED
      BY <1>1, <2>1, <3>1, EditsGoOn
  <2> QED
    BY <1>1, <2>2, <2>3, <2>4, <2>5, <2>6, <2>7
<1>2. turn.newLegs \in Seq(LegIds) /\ born + 1 \in LegIds
  BY DEF TypeOK, TurnRecords, LegIds
<1>3. /\ <<>> \in Seq(LegIds) /\ Append(turn.newLegs, born + 1) \in Seq(LegIds)
      /\ Claimed \in Seq(LegIds) /\ Unclaimed \subseteq Seq(LegIds)
      /\ None \in LegIds \cup {None}
  BY <1>2, ClaimedIs
<1>11. turn.pc = "dispatch" => Editing
  BY DEF Editing
<1>4. ASSUME Skip PROVE turn.pc = "dispatch" /\ Advanced(FALSE)
  <2> DEFINE n == IF Edit.op = "update" /\ Resolved # {} THEN Claimed ELSE turn.newLegs
             b == turn.plain /\ Blocked
  <2>1. turn.pc = "dispatch"
    BY <1>4 DEF Skip, At
  <2>2. b \in BOOLEAN /\ n \in Seq(LegIds)
    BY <1>2, <1>3
  <2>3. turn' = AfterEdit([turn EXCEPT !.newLegs = n, !.plain = b], FALSE)
    BY <1>4 DEF Skip
  <2> HIDE DEF n, b
  <2> QED
    BY <2>1, <2>2, <2>3, <1>1, <1>3, <1>11
<1>5. ASSUME EditThrows PROVE turn.pc = "dispatch" /\ Advanced(FALSE)
  <2>1. turn.pc = "dispatch"
    BY <1>5 DEF EditThrows, At
  <2>2. PICK q \in Unclaimed :
          turn' = AfterEdit([turn EXCEPT !.newLegs = q, !.plain = FALSE], FALSE)
    BY <1>5 DEF EditThrows
  <2>3. q \in Seq(LegIds)
    BY <1>3
  <2> QED
    BY <2>1, <2>2, <2>3, <1>1, <1>3, <1>11
<1>6. ASSUME DeleteLeg \/ RenameTrip
      PROVE  turn.pc = "dispatch" /\ Advanced(TRUE)
  <2>1. turn.pc = "dispatch" /\ turn' = AfterEdit(turn, TRUE)
    BY <1>6 DEF DeleteLeg, RenameTrip, Dispatching, At
  <2> QED
    BY <2>1, <1>1, <1>3, <1>11
<1>7. ASSUME UpdateLeg PROVE turn.pc = "dispatch" /\ Advanced(TRUE)
  <2>1. turn.pc = "dispatch" /\ turn' = AfterEdit([turn EXCEPT !.newLegs = Claimed], TRUE)
    BY <1>7 DEF UpdateLeg, Dispatching, At
  <2> QED
    BY <2>1, <1>1, <1>3, <1>11
<1>8. ASSUME AddLeg PROVE turn.pc = "dispatch" /\ Advanced(TRUE)
  <2>1. turn.pc = "dispatch"
        /\ turn' = AfterEdit([turn EXCEPT !.newLegs = Append(turn.newLegs, born + 1)], TRUE)
    BY <1>8 DEF AddLeg, Dispatching, At
  <2> QED
    BY <2>1, <1>1, <1>3, <1>11
<1>9. ASSUME UpdateLegThrows PROVE turn.pc = "dispatch" /\ Advanced(FALSE) /\ troubled'
  <2>1. turn.pc = "dispatch" /\ troubled'
        /\ turn' = AfterEdit([turn EXCEPT !.newLegs = Claimed, !.plain = FALSE], FALSE)
    BY <1>9 DEF UpdateLegThrows, Dispatching, At
  <2> QED
    BY <2>1, <1>1, <1>3, <1>11
<1>10. ASSUME AddLegThrows \/ RenameTripThrows
       PROVE  turn.pc = "dispatch" /\ Advanced(FALSE) /\ troubled'
  <2>1. turn.pc = "dispatch" /\ troubled'
        /\ turn' = AfterEdit([turn EXCEPT !.plain = FALSE], FALSE)
    BY <1>10 DEF AddLegThrows, RenameTripThrows, Dispatching, At
  <2> QED
    BY <2>1, <1>1, <1>3, <1>11
<1>12. ASSUME PinTrip PROVE turn.pc = "pin" /\ Advanced(TRUE)
  <2>1. turn.pc = "pin" /\ turn' = AfterEdit([turn EXCEPT !.next = None], TRUE)
    BY <1>12 DEF PinTrip, At
  <2>2. Editing
    BY <2>1 DEF Editing
  <2> QED
    BY <2>1, <2>2, <1>1, <1>3
<1>13. ASSUME PinTripThrows \/ ReportThrows
       PROVE  turn.pc \in {"reroute", "pin"} /\ Advanced(FALSE) /\ troubled'
  <2>1. turn.pc \in {"reroute", "pin"} /\ troubled'
        /\ turn' = AfterEdit([turn EXCEPT !.next = None, !.plain = FALSE], FALSE)
    BY <1>13 DEF PinTripThrows, ReportThrows, At
  <2>2. Editing
    BY <2>1 DEF Editing
  <2> QED
    BY <2>1, <2>2, <1>1, <1>3
<1> QED
  BY <1>4, <1>5, <1>6, <1>7, <1>8, <1>9, <1>10, <1>12, <1>13

-----------------------------------------------------------------------------
(* Types *)

\* A batch blocks only legs its deletes name.
LEMMA BlockedAre ==
    ASSUME NEW f, NEW tie, NEW batch \in Seq(Edits), NEW n
    PROVE  FindGapCreatingDeletes(f, tie, batch, n) \in SUBSET (Nat \cup {None})
<1>1. DeletesOf(batch) \in SUBSET (Nat \cup {None})
  <2>1. \A e \in Range(batch) : e \in Edits
    BY DEF Range
  <2> QED
    BY <2>1 DEF DeletesOf, Edits
<1>2. FindGapCreatingDeletes(f, tie, batch, n) \in SUBSET DeletesOf(batch)
  BY DEF FindGapCreatingDeletes
<1> QED
  BY <1>1, <1>2

\* A mishap, or none.
LEMMA Mishaps ==
    ASSUME TypeOK
    PROVE  /\ Mishap => mishaps' \in Nat
           /\ \A ok \in BOOLEAN : Directions(ok) => mishaps' \in Nat
  BY DEF TypeOK, Mishap, Directions

\* Where the legs are a trip of known ids, and the rest of the state has its types.
TypesOf(f, n) == IsTrip(f) /\ DOMAIN f \subseteq LegIds /\ \A l \in DOMAIN f : l <= n

LEMMA TypesAre ==
    ASSUME TypeOK, ShapeInv
    PROVE  TypesOf(legs, born)
  BY LegsAreATrip DEF TypeOK, TypesOf

\* The types of the state after a step, from those of its parts.
LEMMA TypesFrom ==
    ASSUME TypesOf(legs', born'), anchor' \in LegIds \cup {None},
           anchorDay' \in Int, startDay' \in Int, endDay' \in Int, born' \in Nat,
           turn' \in TurnRecords, turns' \in Nat, mishaps' \in Nat, troubled' \in BOOLEAN,
           strayed' \subseteq DOMAIN legs', DOMAIN travelled' \subseteq LegIds,
           travelled' \in [DOMAIN travelled' -> Spots \X Spots]
    PROVE  TypeOK'
  BY DEF TypeOK, TypesOf, IsTrip

\* The shape of the state after an edit, and after a step of the pipeline.
LEMMA ShapeFrom ==
    ASSUME TypesOf(legs', born'), anchor' # None => anchor' <= born',
           Advanced(TRUE) \/ Advanced(FALSE)
    PROVE  ShapeInv'
<1>1. /\ turn'.pc \in {"dispatch", "rebuild", "idle"}
      /\ turn'.pc = "dispatch" => turn'.batch \in Batches /\ turn'.at \in 1..Len(turn'.batch)
      /\ turn'.targets = {} /\ turn'.whole
  BY DEF Advanced
<1>2. IsFiniteSet(DOMAIN legs')
  BY DEF TypesOf, IsTrip
<1> QED
  BY <1>1, <1>2 DEF ShapeInv, Editing

\* The ends of a leg are spots.
LEMMA EndsAreSpots ==
    ASSUME NEW f, IsTrip(f), NEW l \in DOMAIN f
    PROVE  Ends(f, l) \in Spots \X Spots
  BY DEF IsTrip, Legs, Ends

\* The legs and what is known of them after an update.
LEMMA WriteUpdateIs ==
    ASSUME TypeOK, ShapeInv, turn.pc = "dispatch", NEW l \in Resolved, NEW ok \in BOOLEAN,
           WriteUpdate(l, ok)
    PROVE  /\ l \in DOMAIN legs /\ legs' = UpdatedRow(l, ok)
           /\ IsTrip(legs') /\ DOMAIN legs' = DOMAIN legs
           /\ strayed' \subseteq DOMAIN legs
           /\ DOMAIN travelled' = DOMAIN travelled
           /\ \A k \in DOMAIN travelled : 
                 travelled'[k] = IF k = l THEN Ends(legs', l) ELSE travelled[k]
           /\ travelled' \in [DOMAIN travelled' -> Spots \X Spots]
<1>1. l \in DOMAIN legs /\ legs' = UpdatedRow(l, ok)
  BY ResolvedIs DEF WriteUpdate
<1>2. IsTrip(legs') /\ DOMAIN legs' = DOMAIN legs
  BY <1>1, UpdateIs
<1>3. strayed' \subseteq DOMAIN legs
  BY DEF WriteUpdate, TypeOK
<1>4. travelled \in [DOMAIN travelled -> Spots \X Spots]
  BY DEF TypeOK
<1>5. Ends(legs', l) \in Spots \X Spots
  BY <1>1, <1>2, EndsAreSpots
<1>6. travelled' = IF l \in DOMAIN travelled
                   THEN [travelled EXCEPT ![l] = Ends(legs', l)] ELSE travelled
  BY DEF WriteUpdate
<1> QED
  BY <1>1, <1>2, <1>3, <1>4, <1>5, <1>6

\* A new leg, in the room made for it.
LEMMA AddLegIs ==
    ASSUME TypeOK, ShapeInv, turn.pc = "dispatch", NEW ok \in BOOLEAN, NEW f,
           f = With(MakeRoom(legs, Edit), born + 1, NewLeg(ok))
    PROVE  /\ IsTrip(f) /\ DOMAIN f = DOMAIN legs \cup {born + 1}
           /\ born + 1 \notin DOMAIN legs
           /\ f[born + 1].route \in {None, Ends(f, born + 1)}
           /\ \A l \in DOMAIN legs :
                 /\ f[l].kind = legs[l].kind /\ f[l].route = legs[l].route
                 /\ f[l].start = legs[l].start /\ f[l].end = legs[l].end
           /\ \A k, l \in DOMAIN legs : legs[k].sort < legs[l].sort => f[k].sort < f[l].sort
<1> DEFINE room == MakeRoom(legs, Edit)
           new == NewLeg(ok)
<1>1. IsTrip(legs) /\ Edit \in Edits
  BY LegsAreATrip, EditIs DEF Editing
<1>2. /\ DOMAIN room = DOMAIN legs /\ IsTrip(room)
      /\ \A l \in DOMAIN legs :
            /\ room[l].kind = legs[l].kind /\ room[l].route = legs[l].route
            /\ room[l].start = legs[l].start /\ room[l].end = legs[l].end
      /\ \A k, l \in DOMAIN legs : legs[k].sort < legs[l].sort => room[k].sort < room[l].sort
  BY <1>1, RoomIsMade
<1>3. /\ new \in Legs
      /\ new.route \in {None, <<new.start, new.end>>}
  <2> DEFINE route == IF None \notin {Edit.start, Edit.end} /\ ok
                      THEN <<Edit.start, Edit.end>> ELSE None
  <2>1. new = [kind |-> Edit.kind, sort |-> SortOf(legs, Edit), start |-> Edit.start,
               end |-> Edit.end, warned |-> FALSE, route |-> route]
    BY DEF NewLeg
  <2>2. /\ Edit.kind \in {"drive", "rest"} /\ Edit.start \in Spots /\ Edit.end \in Spots
    BY <1>1 DEF Edits
  <2>3. SortOf(legs, Edit) \in Int
    BY <1>1, SortIsNumber
  <2>4. /\ route \in (Places \X Places) \cup {None}
        /\ route \in {None, <<Edit.start, Edit.end>>}
    BY <2>2 DEF Spots
  <2> HIDE DEF route
  <2> QED
    BY <2>1, <2>2, <2>3, <2>4 DEF Legs
<1>4. born + 1 \in Nat /\ born + 1 \notin DOMAIN legs
  BY DEF TypeOK
<1> HIDE DEF room, new
<1>5. /\ IsTrip(f) /\ DOMAIN f = DOMAIN room \cup {born + 1}
      /\ f[born + 1] = new
      /\ \A k \in DOMAIN room \ {born + 1} : f[k] = room[k]
  <2>1. f = [k \in DOMAIN room \cup {born + 1} |-> IF k = born + 1 THEN new ELSE room[k]]
    BY DEF room, new, With
  <2>2. IsFiniteSet(DOMAIN room \cup {born + 1})
    BY <1>2, FS_AddElement DEF IsTrip
  <2> QED
    BY <2>1, <2>2, <1>2, <1>3, <1>4 DEF IsTrip
<1>6. f[born + 1].route \in {None, Ends(f, born + 1)}
  BY <1>3, <1>5 DEF Ends
<1>7. \A l \in DOMAIN legs : f[l] = room[l]
  BY <1>2, <1>4, <1>5
<1> QED
  BY <1>2, <1>4, <1>5, <1>6, <1>7

\* A leg that was repaired.
LEMMA RepairedIs ==
    ASSUME NEW leg \in Legs, NEW t, t.origin \in Places, t.fix \in BOOLEAN,
           ~t.fix => t.origin = leg.start, NEW ok \in BOOLEAN
    PROVE  LET m == Repaired(leg, t, ok)
           IN  /\ m \in Legs /\ m.kind = leg.kind /\ m.sort = leg.sort
               /\ m.start = t.origin /\ m.end = leg.end
               /\ m.route \in {None, <<m.start, m.end>>}
<1> DEFINE found == ok /\ leg.end # None
           start == IF t.fix THEN t.origin ELSE leg.start
           route == IF found THEN <<t.origin, leg.end>> ELSE None
           m == Repaired(leg, t, ok)
<1>1. m = [leg EXCEPT !.start = start, !.route = route, !.warned = ~found]
  BY DEF Repaired, Legs
<1>2. start = t.origin
  OBVIOUS
<1>3. route \in (Places \X Places) \cup {None} /\ route \in {None, <<t.origin, leg.end>>}
  BY DEF Legs, Spots
<1>4. (~found) \in BOOLEAN
  OBVIOUS
<1> HIDE DEF found, start, route, m
<1>5. /\ m \in Legs /\ m.kind = leg.kind /\ m.sort = leg.sort
      /\ m.start = start /\ m.end = leg.end /\ m.route = route
  BY <1>1, <1>2, <1>3, <1>4 DEF Legs, Spots
<1> QED
  BY <1>2, <1>3, <1>5 DEF m

\* What a step of the repair does to the trip.
LEMMA RepairLegIs ==
    ASSUME TypeOK, ShapeInv, TargetInv, NEW t \in turn.targets, NEW ok \in BOOLEAN, NEW f,
           f = [legs EXCEPT ![t.leg] = Repaired(legs[t.leg], t, ok)]
    PROVE  /\ IsTrip(f) /\ DOMAIN f = DOMAIN legs /\ t.leg \in DOMAIN legs
           /\ \A k \in DOMAIN legs \ {t.leg} : f[k] = legs[k]
           /\ f[t.leg].kind = legs[t.leg].kind /\ f[t.leg].sort = legs[t.leg].sort
           /\ f[t.leg].start = t.origin /\ f[t.leg].end = legs[t.leg].end
           /\ ~t.fix => f[t.leg].start = legs[t.leg].start
           /\ f[t.leg].route \in {None, Ends(f, t.leg)}
           /\ t.origin \in Places
<1> DEFINE m == Repaired(legs[t.leg], t, ok)
<1>1. IsTrip(legs) /\ t.leg \in DOMAIN legs /\ t.origin \in Places
      /\ (~t.fix => t.origin = legs[t.leg].start)
  BY LegsAreATrip DEF TargetInv
<1>2. t.fix \in BOOLEAN /\ legs[t.leg] \in Legs
  BY <1>1 DEF TypeOK, TurnRecords, Targets
<1>3. /\ m \in Legs /\ m.kind = legs[t.leg].kind /\ m.sort = legs[t.leg].sort
      /\ m.start = t.origin /\ m.end = legs[t.leg].end
      /\ m.route \in {None, <<m.start, m.end>>}
  BY <1>1, <1>2, RepairedIs
<1> HIDE DEF m
<1>4. f = [legs EXCEPT ![t.leg] = m]
  BY DEF m
<1>5. /\ IsTrip(f) /\ DOMAIN f = DOMAIN legs /\ f[t.leg] = m
      /\ \A k \in DOMAIN legs \ {t.leg} : f[k] = legs[k]
  BY <1>1, <1>3, <1>4 DEF IsTrip
<1> QED
  BY <1>1, <1>3, <1>5 DEF Ends

\* What the state is before a step, in the form the steps use.
LEMMA StateIs ==
    ASSUME TypeOK, ShapeInv
    PROVE  /\ IsTrip(legs) /\ DOMAIN legs \subseteq LegIds /\ \A l \in DOMAIN legs : l <= born
           /\ anchor \in LegIds \cup {None} /\ (anchor # None => anchor <= born)
           /\ anchorDay \in Int /\ startDay \in Int /\ endDay \in Int /\ born \in Nat
           /\ turn \in TurnRecords /\ turns \in Nat /\ mishaps \in Nat /\ troubled \in BOOLEAN
           /\ strayed \subseteq DOMAIN legs /\ DOMAIN travelled \subseteq LegIds
           /\ travelled \in [DOMAIN travelled -> Spots \X Spots]
           /\ turn.pc # "repair" => turn.targets = {}
           /\ turn.pc \in {"dispatch", "reroute", "pin", "rebuild"} => turn.whole
           /\ turn.pc \in {"dispatch", "reroute", "pin"} =>
                 turn.batch \in Batches /\ turn.at \in 1..Len(turn.batch)
  BY LegsAreATrip DEF TypeOK, ShapeInv, Editing

\* The edits keep the types.
LEMMA SkipTypes ==
    ASSUME TypeOK, ShapeInv, Skip \/ EditThrows \/ RenameTrip \/ RenameTripThrows
    PROVE  TypeOK' /\ ShapeInv'
<1>1. Advanced(TRUE) \/ Advanced(FALSE)
  BY EditsAdvance
<1>2. /\ legs' = legs /\ anchor' = anchor /\ anchorDay' = anchorDay /\ endDay' = endDay
      /\ born' = born /\ turns' = turns /\ troubled' \in BOOLEAN /\ strayed' = strayed
      /\ travelled' = travelled
      /\ mishaps' \in Nat /\ startDay' \in Int
  <2>1. CASE Skip
    BY <2>1, StateIs DEF Skip, Dates
  <2>2. CASE EditThrows
    BY <2>2, StateIs, Mishaps DEF EditThrows, Dates
  <2>3. CASE RenameTrip \/ RenameTripThrows
    <3>1. Edit.day \in Int \cup {None}
      BY <2>3, EditIs DEF RenameTrip, RenameTripThrows, Dispatching, At, Edits, Editing
    <3>2. startDay' \in Int
      BY <2>3, <3>1, StateIs DEF RenameTrip, RenameTripThrows, WriteStartDay
    <3> QED
      BY <2>3, <3>2, StateIs, Mishaps DEF RenameTrip, RenameTripThrows
  <2> QED
    BY <2>1, <2>2, <2>3
<1>3. TypesOf(legs', born') /\ (anchor' # None => anchor' <= born')
  BY <1>2, TypesAre, StateIs
<1>4. turn' \in TurnRecords
  BY <1>1 DEF Advanced
<1> QED
  BY <1>1, <1>2, <1>3, <1>4, StateIs, TypesFrom, ShapeFrom

LEMMA DeleteTypes ==
    ASSUME TypeOK, ShapeInv, DeleteLeg
    PROVE  TypeOK' /\ ShapeInv'
<1>1. Advanced(TRUE) /\ turn' \in TurnRecords
  BY EditsAdvance DEF Advanced
<1>2. /\ anchor' = anchor /\ anchorDay' = anchorDay /\ startDay' = startDay /\ endDay' = endDay
      /\ born' = born /\ turns' = turns /\ mishaps' = mishaps /\ troubled' = troubled
  BY DEF DeleteLeg, Dates
<1>3. PICK l \in Resolved :
        legs' = Without(legs, l) /\ strayed' = strayed \ {l} /\ travelled' = Without(travelled, l)
  BY DEF DeleteLeg
<1>4. /\ DOMAIN legs' = DOMAIN legs \ {l} /\ IsTrip(legs')
  BY <1>3, StateIs, RowDeleted
<1>5. /\ DOMAIN travelled' = DOMAIN travelled \ {l}
      /\ travelled' \in [DOMAIN travelled' -> Spots \X Spots]
  BY <1>3, StateIs, RowDeleted
<1>6. TypesOf(legs', born')
  BY <1>2, <1>4, StateIs DEF TypesOf
<1>7. strayed' \subseteq DOMAIN legs' /\ DOMAIN travelled' \subseteq LegIds
  BY <1>3, <1>4, <1>5, StateIs
<1>8. anchor' # None => anchor' <= born'
  BY <1>2, StateIs
<1> QED
  BY <1>1, <1>2, <1>5, <1>6, <1>7, <1>8, StateIs, TypesFrom, ShapeFrom

LEMMA UpdateTypes ==
    ASSUME TypeOK, ShapeInv, UpdateLeg \/ UpdateLegThrows
    PROVE  TypeOK' /\ ShapeInv'
<1>1. Advanced(TRUE) \/ Advanced(FALSE)
  BY EditsAdvance
<1>2. turn' \in TurnRecords
  BY <1>1 DEF Advanced
<1>3. turn.pc = "dispatch"
  BY DEF UpdateLeg, UpdateLegThrows, Dispatching, At
<1>4. /\ anchor' = anchor /\ anchorDay' = anchorDay /\ startDay' = startDay /\ endDay' = endDay
      /\ born' = born /\ turns' = turns /\ troubled' \in BOOLEAN
  BY StateIs DEF UpdateLeg, UpdateLegThrows, Dates
<1>5. PICK l \in Resolved, ok \in BOOLEAN : WriteUpdate(l, ok)
  BY DEF UpdateLeg, UpdateLegThrows
<1>6. mishaps' \in Nat
  BY Mishaps DEF UpdateLeg, UpdateLegThrows
<1>7. /\ IsTrip(legs') /\ DOMAIN legs' = DOMAIN legs
      /\ strayed' \subseteq DOMAIN legs
      /\ DOMAIN travelled' = DOMAIN travelled
      /\ travelled' \in [DOMAIN travelled' -> Spots \X Spots]
  BY <1>3, <1>5, WriteUpdateIs
<1>8. TypesOf(legs', born')
  BY <1>4, <1>7, StateIs DEF TypesOf
<1>9. anchor' # None => anchor' <= born'
  BY <1>4, StateIs
<1> QED
  BY <1>1, <1>2, <1>4, <1>6, <1>7, <1>8, <1>9, StateIs, TypesFrom, ShapeFrom

LEMMA AddTypes ==
    ASSUME TypeOK, ShapeInv, AddLeg
    PROVE  TypeOK' /\ ShapeInv'
<1>1. Advanced(TRUE) /\ turn' \in TurnRecords /\ turn.pc = "dispatch"
  BY EditsAdvance DEF Advanced
<1>2. /\ anchor' = anchor /\ anchorDay' = anchorDay /\ startDay' = startDay /\ endDay' = endDay
      /\ born' = born + 1 /\ turns' = turns /\ troubled' = troubled /\ strayed' = strayed
      /\ travelled' = travelled
  BY DEF AddLeg, Dates
<1>3. PICK ok \in BOOLEAN :
        Directions(ok) /\ legs' = With(MakeRoom(legs, Edit), born + 1, NewLeg(ok))
  BY DEF AddLeg
<1>4. mishaps' \in Nat
  BY <1>3, Mishaps
<1>5. IsTrip(legs') /\ DOMAIN legs' = DOMAIN legs \cup {born + 1}
  BY <1>1, <1>3, AddLegIs
<1>6. born + 1 \in LegIds /\ born' \in Nat
  BY <1>2, StateIs DEF LegIds
<1>7. TypesOf(legs', born')
  <2>1. \A l \in DOMAIN legs : l \in Nat /\ l <= born /\ l \in LegIds
    BY StateIs DEF LegIds
  <2>2. \A l \in DOMAIN legs' : l <= born' /\ l \in LegIds
    BY <2>1, <1>2, <1>5, <1>6, StateIs
  <2> QED
    BY <2>2, <1>5 DEF TypesOf
<1>8. anchor' # None => anchor' <= born'
  <2>1. anchor \in LegIds => anchor \in Nat
    BY DEF LegIds
  <2> QED
    BY <2>1, <1>2, StateIs
<1> QED
  BY <1>1, <1>2, <1>4, <1>5, <1>6, <1>7, <1>8, StateIs, TypesFrom, ShapeFrom

LEMMA AddThrowsTypes ==
    ASSUME TypeOK, ShapeInv, AddLegThrows
    PROVE  TypeOK' /\ ShapeInv'
<1>1. Advanced(FALSE) /\ turn' \in TurnRecords /\ turn.pc = "dispatch"
  BY EditsAdvance DEF Advanced
<1>2. /\ anchor' = anchor /\ anchorDay' = anchorDay /\ startDay' = startDay /\ endDay' = endDay
      /\ born' = born /\ turns' = turns /\ troubled' = TRUE /\ strayed' = strayed
      /\ travelled' = travelled
      /\ legs' = MakeRoom(legs, Edit) /\ mishaps' \in Nat
  BY Mishaps DEF AddLegThrows, Dates
<1>3. IsTrip(legs') /\ DOMAIN legs' = DOMAIN legs
  BY <1>1, <1>2, EditIs, StateIs, RoomIsMade DEF Editing
<1>4. TypesOf(legs', born')
  BY <1>2, <1>3, StateIs DEF TypesOf
<1>5. anchor' # None => anchor' <= born'
  BY <1>2, StateIs
<1> QED
  BY <1>1, <1>2, <1>3, <1>4, <1>5, StateIs, TypesFrom, ShapeFrom

\* The leg a report names, or the next from where the driver is, is one of the trip.
LEMMA NextLegIs ==
    ASSUME TypeOK, ShapeInv, NEW tie \in Ties(legs)
    PROVE  \/ NextLeg(tie) = {}
           \/ \E l \in DOMAIN legs : NextLeg(tie) = {l}
<1>1. IsTrip(legs) /\ Breaks(tie, legs)
  BY LegsAreATrip, TieBreaks
<1>2. Drives(legs) \subseteq DOMAIN legs
  BY DEF Drives
<1>3. \/ NextDriveLeg(legs, tie, Edit.start) = {}
      \/ \E d \in Drives(legs) : NextDriveLeg(legs, tie, Edit.start) = {d}
  BY <1>1, NextDriveIs
<1> QED
  BY <1>2, <1>3 DEF NextLeg

\* The turn after a step of a report that is not its last.
Stepped(pc) ==
    /\ turn' \in TurnRecords /\ turn'.pc = pc
    /\ turn'.batch = turn.batch /\ turn'.at = turn.at
    /\ turn'.targets = turn.targets /\ (turn'.whole <=> turn.whole)

\* A report moves the start of one drive, or says only which leg is next, or that none is.
LEMMA ReportIs ==
    ASSUME TypeOK, ShapeInv, ReportPosition
    PROVE  /\ turn.pc = "dispatch" /\ Edit.op = "report"
           /\ \/ \E l \in Drives(legs) :
                    /\ Stepped("reroute") /\ turn'.next = l
                    /\ strayed' = strayed \cup {l}
                    /\ travelled' = Without(travelled, l)
                    /\ IsTrip(legs') /\ DOMAIN legs' = DOMAIN legs
                    /\ \A k \in DOMAIN legs \ {l} : legs'[k] = legs[k]
                    /\ legs'[l].kind = legs[l].kind /\ legs'[l].sort = legs[l].sort
              \/ /\ Stepped("pin") /\ turn'.next \in DOMAIN legs \cup {None}
                 /\ legs' = legs /\ strayed' = strayed /\ travelled' = travelled
<1>1. turn.pc = "dispatch" /\ Edit.op = "report"
  BY DEF ReportPosition, Dispatching, At
<1>2. PICK tie \in Ties(legs) :
        \/ \E l \in NextLeg(tie) \cap Drives(legs) :
              /\ legs' = [legs EXCEPT ![l].start = Edit.start]
              /\ strayed' = strayed \cup {l}
              /\ travelled' = Without(travelled, l)
              /\ turn' = [turn EXCEPT !.pc = "reroute", !.next = l]
        \/ /\ NextLeg(tie) \cap Drives(legs) = {}
           /\ \E l \in IF NextLeg(tie) = {} THEN {None} ELSE NextLeg(tie) :
                 turn' = [turn EXCEPT !.pc = "pin", !.next = l]
           /\ UNCHANGED <<legs, strayed, travelled>>
  BY DEF ReportPosition
<1>3. NextLeg(tie) \subseteq DOMAIN legs
  BY NextLegIs
<1>4. ASSUME NEW l \in Drives(legs),
             legs' = [legs EXCEPT ![l].start = Edit.start],
             turn' = [turn EXCEPT !.pc = "reroute", !.next = l]
      PROVE  /\ Stepped("reroute") /\ turn'.next = l
             /\ IsTrip(legs') /\ DOMAIN legs' = DOMAIN legs
             /\ \A k \in DOMAIN legs \ {l} : legs'[k] = legs[k]
             /\ legs'[l].kind = legs[l].kind /\ legs'[l].sort = legs[l].sort
  <2>1. l \in DOMAIN legs /\ l \in LegIds /\ legs[l] \in Legs
    BY StateIs DEF Drives, IsTrip
  <2>2. Stepped("reroute") /\ turn'.next = l
    BY <1>4, <2>1, StateIs DEF Stepped, TurnRecords
  <2> DEFINE m == [legs[l] EXCEPT !.start = Edit.start]
  <2>3. legs' = [legs EXCEPT ![l] = m]
    BY <1>4
  <2>4. Edit.start \in Places
    BY <1>1, EditIs DEF Editing
  <2>5. m \in Legs /\ m.kind = legs[l].kind /\ m.sort = legs[l].sort
    BY <2>1, <2>4 DEF Legs, Spots
  <2> HIDE DEF m
  <2> QED
    BY <2>1, <2>2, <2>3, <2>5, StateIs, RowWritten
<1>5. ASSUME NEW l \in DOMAIN legs \cup {None}, turn' = [turn EXCEPT !.pc = "pin", !.next = l]
      PROVE  Stepped("pin") /\ turn'.next = l
  <2>1. l \in LegIds \cup {None}
    BY StateIs
  <2> QED
    BY <1>5, <2>1, StateIs DEF Stepped, TurnRecords
<1>6. CASE \E l \in NextLeg(tie) \cap Drives(legs) :
              /\ legs' = [legs EXCEPT ![l].start = Edit.start]
              /\ strayed' = strayed \cup {l}
              /\ travelled' = Without(travelled, l)
              /\ turn' = [turn EXCEPT !.pc = "reroute", !.next = l]
  BY <1>1, <1>4, <1>6
<1>7. CASE /\ \E l \in IF NextLeg(tie) = {} THEN {None} ELSE NextLeg(tie) :
                 turn' = [turn EXCEPT !.pc = "pin", !.next = l]
           /\ UNCHANGED <<legs, strayed, travelled>>
  BY <1>1, <1>3, <1>5, <1>7
<1> QED
  BY <1>2, <1>6, <1>7

LEMMA ReportTypes ==
    ASSUME TypeOK, ShapeInv, ReportPosition
    PROVE  TypeOK' /\ ShapeInv'
<1>1. /\ anchor' = anchor /\ anchorDay' = anchorDay /\ startDay' = startDay /\ endDay' = endDay
      /\ born' = born /\ turns' = turns /\ mishaps' = mishaps /\ troubled' = troubled
  BY DEF ReportPosition, Dates
<1>2. turn.pc = "dispatch" /\ Edit.op = "report"
  BY ReportIs
<1>3. /\ Drives(legs) \subseteq DOMAIN legs
      /\ turn.batch \in Batches /\ turn.at \in 1..Len(turn.batch)
      /\ turn.targets = {} /\ turn.whole
  BY <1>2, StateIs DEF Drives
<1>4. ASSUME NEW l \in Drives(legs), Stepped("reroute"), turn'.next = l,
             strayed' = strayed \cup {l}, travelled' = Without(travelled, l),
             IsTrip(legs'), DOMAIN legs' = DOMAIN legs, legs'[l].kind = legs[l].kind
      PROVE  TypeOK' /\ ShapeInv'
  <2>5. travelled' = Without(travelled, l) /\ travelled \in [DOMAIN travelled -> Spots \X Spots]
    BY <1>4, StateIs
  <2>1. /\ DOMAIN travelled' = DOMAIN travelled \ {l}
        /\ travelled' \in [DOMAIN travelled' -> Spots \X Spots]
    BY <2>5, RowDeleted
  <2>2. TypesOf(legs', born') /\ strayed' \subseteq DOMAIN legs' /\ DOMAIN travelled' \subseteq LegIds
    BY <1>1, <1>3, <1>4, <2>1, StateIs DEF TypesOf
  <2>3. TypeOK'
    BY <1>1, <1>4, <2>1, <2>2, StateIs, TypesFrom DEF Stepped
  <2>4. l \in Drives(legs')
    BY <1>3, <1>4 DEF Drives
  <2> QED
    BY <1>1, <1>2, <1>3, <1>4, <2>3, <2>4, StateIs DEF ShapeInv, Stepped, Editing, Edit, IsTrip
<1>5. ASSUME Stepped("pin"), turn'.next \in DOMAIN legs \cup {None},
             legs' = legs, strayed' = strayed, travelled' = travelled
      PROVE  TypeOK' /\ ShapeInv'
  <2>1. TypesOf(legs', born')
    BY <1>1, <1>5, TypesAre
  <2>2. TypeOK'
    BY <1>1, <1>5, <2>1, StateIs, TypesFrom DEF Stepped
  <2> QED
    BY <1>1, <1>2, <1>3, <1>5, <2>2, StateIs DEF ShapeInv, Stepped, Editing, Edit, IsTrip
<1> QED
  BY <1>4, <1>5, ReportIs

\* A look for a route gives the leg its route, or changes nothing.
LEMMA RerouteIs ==
    ASSUME TypeOK, ShapeInv, RerouteLeg
    PROVE  /\ turn.pc = "reroute" /\ turn.next \in Drives(legs) /\ Stepped("pin")
           /\ turn'.next = turn.next /\ Edit.op = "report" /\ mishaps' \in Nat
           /\ IsTrip(legs') /\ DOMAIN legs' = DOMAIN legs
           /\ \A k \in DOMAIN legs \ {turn.next} : legs'[k] = legs[k]
           /\ \A k \in DOMAIN legs :
                 /\ legs'[k].kind = legs[k].kind /\ legs'[k].sort = legs[k].sort
                 /\ Ends(legs', k) = Ends(legs, k)
           /\ \/ legs' = legs /\ strayed' = strayed
              \/ /\ strayed' = strayed \ {turn.next}
                 /\ legs'[turn.next].route = Ends(legs', turn.next)
<1>1. /\ turn.pc = "reroute" /\ turn.next \in Drives(legs) /\ Edit.op = "report"
      /\ turn' = [turn EXCEPT !.pc = "pin"]
  BY DEF RerouteLeg, At, ShapeInv
<1>2. Stepped("pin") /\ turn'.next = turn.next
  BY <1>1, StateIs DEF Stepped, TurnRecords
<1>3. PICK ok \in BOOLEAN : Directions(ok) /\ Rerouted(ok)
  BY DEF RerouteLeg
<1>4. mishaps' \in Nat
  BY <1>3, Mishaps
<1> DEFINE l == turn.next
           m == [legs[l] EXCEPT !.route = Ends(legs, l)]
<1>5. l \in DOMAIN legs /\ legs[l] \in Legs
  BY <1>1, StateIs DEF Drives, IsTrip
<1>6. \/ legs' = legs /\ strayed' = strayed
      \/ /\ None \notin {legs[l].start, legs[l].end}
         /\ legs' = [legs EXCEPT ![l] = m] /\ strayed' = strayed \ {l}
  BY <1>3 DEF Rerouted
<1>7. CASE legs' = legs /\ strayed' = strayed
  BY <1>1, <1>2, <1>4, <1>7, StateIs
<1>8. CASE /\ None \notin {legs[l].start, legs[l].end}
           /\ legs' = [legs EXCEPT ![l] = m] /\ strayed' = strayed \ {l}
  <2>1. Ends(legs, l) \in Places \X Places
    BY <1>5, <1>8 DEF Legs, Spots, Ends
  <2>2. /\ m \in Legs /\ m.kind = legs[l].kind /\ m.sort = legs[l].sort
        /\ m.start = legs[l].start /\ m.end = legs[l].end /\ m.route = Ends(legs, l)
    BY <1>5, <2>1 DEF Legs
  <2> HIDE DEF m
  <2>3. /\ IsTrip(legs') /\ DOMAIN legs' = DOMAIN legs /\ legs'[l] = m
        /\ \A k \in DOMAIN legs \ {l} : legs'[k] = legs[k]
    BY <1>5, <1>8, <2>2, StateIs, RowWritten
  <2>4. /\ \A k \in DOMAIN legs : /\ legs'[k].kind = legs[k].kind /\ legs'[k].sort = legs[k].sort
                                 /\ Ends(legs', k) = Ends(legs, k)
        /\ legs'[l].route = Ends(legs', l)
    BY <1>5, <2>2, <2>3 DEF Ends
  <2> HIDE DEF l
  <2> QED
    BY <1>1, <1>2, <1>4, <1>8, <2>3, <2>4 DEF l
<1> QED
  BY <1>6, <1>7, <1>8

LEMMA RerouteTypes ==
    ASSUME TypeOK, ShapeInv, RerouteLeg
    PROVE  TypeOK' /\ ShapeInv'
<1>1. /\ anchor' = anchor /\ anchorDay' = anchorDay /\ startDay' = startDay /\ endDay' = endDay
      /\ born' = born /\ turns' = turns /\ troubled' = troubled /\ travelled' = travelled
  BY DEF RerouteLeg, Dates
<1>2. /\ turn.pc = "reroute" /\ turn.next \in Drives(legs) /\ Stepped("pin")
      /\ turn'.next = turn.next /\ Edit.op = "report" /\ mishaps' \in Nat
      /\ IsTrip(legs') /\ DOMAIN legs' = DOMAIN legs /\ strayed' \subseteq strayed
  BY RerouteIs
<1>3. /\ Drives(legs) \subseteq DOMAIN legs
      /\ turn.batch \in Batches /\ turn.at \in 1..Len(turn.batch)
      /\ turn.targets = {} /\ turn.whole
  BY <1>2, StateIs DEF Drives
<1>4. TypesOf(legs', born') /\ strayed' \subseteq DOMAIN legs'
  BY <1>1, <1>2, StateIs DEF TypesOf
<1>5. TypeOK'
  BY <1>1, <1>2, <1>4, StateIs, TypesFrom DEF Stepped
<1> QED
  BY <1>1, <1>2, <1>3, <1>5, StateIs DEF ShapeInv, Stepped, Editing, Edit, IsTrip

\* What is behind the driver when the leg a report names is next.
BehindNext == {d \in Drives(legs) : turn.next # None /\ legs[d].sort < legs[turn.next].sort}

\* The trip's row is written.
LEMMA PinIs ==
    ASSUME TypeOK, ShapeInv, PinTrip \/ PinTripThrows
    PROVE  /\ turn.pc = "pin" /\ turn.next \in DOMAIN legs \cup {None} /\ Edit.op = "report"
           /\ legs' = legs /\ strayed' = strayed /\ anchor' = turn.next /\ anchorDay' \in Int
           /\ travelled' = [k \in BehindNext |-> Ends(legs, k)]
           /\ startDay' = startDay /\ endDay' = endDay /\ born' = born /\ turns' = turns
           /\ mishaps' \in Nat /\ troubled' \in BOOLEAN
<1>1. turn.pc = "pin" /\ turn.next \in DOMAIN legs \cup {None} /\ Edit.op = "report"
  BY DEF PinTrip, PinTripThrows, At, ShapeInv
<1>2. WriteProgress
  BY DEF PinTrip, PinTripThrows
<1>3. Edit.day \in Int
  BY <1>1, EditIs DEF Editing
<1>4. mishaps' \in Nat /\ troubled' \in BOOLEAN
  BY StateIs, Mishaps DEF PinTrip, PinTripThrows
<1> QED
  BY <1>1, <1>2, <1>3, <1>4 DEF WriteProgress, BehindNext

LEMMA PinTypes ==
    ASSUME TypeOK, ShapeInv, PinTrip \/ PinTripThrows
    PROVE  TypeOK' /\ ShapeInv'
<1>1. Advanced(TRUE) \/ Advanced(FALSE)
  BY EditsAdvance
<1>2. turn' \in TurnRecords
  BY <1>1 DEF Advanced
<1>3. /\ turn.next \in DOMAIN legs \cup {None}
      /\ legs' = legs /\ strayed' = strayed /\ anchor' = turn.next /\ anchorDay' \in Int
      /\ travelled' = [k \in BehindNext |-> Ends(legs, k)]
      /\ startDay' = startDay /\ endDay' = endDay /\ born' = born /\ turns' = turns
      /\ mishaps' \in Nat /\ troubled' \in BOOLEAN
  BY PinIs
<1>4. BehindNext \subseteq DOMAIN legs
  BY DEF BehindNext, Drives
<1>5. /\ DOMAIN travelled' \subseteq LegIds
      /\ travelled' \in [DOMAIN travelled' -> Spots \X Spots]
  BY <1>3, <1>4, StateIs, EndsAreSpots
<1>6. TypesOf(legs', born') /\ anchor' \in LegIds \cup {None} /\ (anchor' # None => anchor' <= born')
  BY <1>3, TypesAre, StateIs
<1> QED
  BY <1>1, <1>2, <1>3, <1>5, <1>6, StateIs, TypesFrom, ShapeFrom

LEMMA ReportThrowsTypes ==
    ASSUME TypeOK, ShapeInv, ReportThrows
    PROVE  TypeOK' /\ ShapeInv'
<1>1. Advanced(FALSE) /\ turn' \in TurnRecords
  BY EditsAdvance DEF Advanced
<1>2. /\ legs' = legs /\ anchor' = anchor /\ anchorDay' = anchorDay /\ startDay' = startDay
      /\ endDay' = endDay /\ born' = born /\ turns' = turns /\ strayed' = strayed
      /\ travelled' = travelled /\ troubled' = TRUE /\ mishaps' \in Nat
  BY Mishaps DEF ReportThrows, Dates
<1>3. TypesOf(legs', born')
  BY <1>2, TypesAre
<1> QED
  BY <1>1, <1>2, <1>3, StateIs, TypesFrom, ShapeFrom

\* The pipeline keeps the types.
LEMMA StartTypes ==
    ASSUME TypeOK, ShapeInv, NEW batch \in Batches, StartTurn(batch)
    PROVE  TypeOK' /\ ShapeInv'
<1>1. /\ legs' = legs /\ anchor' = anchor /\ anchorDay' = anchorDay /\ startDay' = startDay
      /\ endDay' = endDay /\ born' = born /\ mishaps' = mishaps /\ troubled' = troubled
      /\ strayed' = strayed /\ travelled' = travelled
      /\ turns' = turns + 1
  BY DEF StartTurn, Dates
<1>2. PICK tie \in Ties(legs) :
        turn' = [NoTurn EXCEPT !.pc = "dispatch", !.batch = batch, !.at = 1,
                     !.blocked = FindGapCreatingDeletes(legs, tie, batch, born + 1),
                     !.gaps = GapKeys(legs, tie),
                     !.plain = (Ties(legs) = {tie})]
  BY DEF StartTurn
<1>3. batch \in Seq(Edits) /\ batch # <<>>
  BY BatchAssumption
<1>4. FindGapCreatingDeletes(legs, tie, batch, born + 1) \in SUBSET (Nat \cup {None})
  BY <1>3, BlockedAre
<1>5. GapKeys(legs, tie) \in SUBSET (LegIds \X LegIds)
  BY StateIs DEF GapKeys
<1>6. (Ties(legs) = {tie}) \in BOOLEAN
  OBVIOUS
<1>7. 1 \in 1..Len(batch)
  BY <1>3
<1> DEFINE blocked == FindGapCreatingDeletes(legs, tie, batch, born + 1)
           gaps == GapKeys(legs, tie)
           plain == (Ties(legs) = {tie})
<1> HIDE DEF blocked, gaps, plain
<1>8. turn' = [NoTurn EXCEPT !.pc = "dispatch", !.batch = batch, !.at = 1,
                   !.blocked = blocked, !.gaps = gaps, !.plain = plain]
  BY <1>2 DEF blocked, gaps, plain
<1>9. /\ blocked \in SUBSET (Nat \cup {None}) /\ gaps \in SUBSET (LegIds \X LegIds)
      /\ plain \in BOOLEAN
  BY <1>4, <1>5, <1>6 DEF blocked, gaps, plain
<1>10. /\ turn' \in TurnRecords
       /\ turn'.pc = "dispatch" /\ turn'.batch = batch /\ turn'.at = 1
       /\ turn'.targets = {} /\ turn'.whole
  BY <1>3, <1>8, <1>9, NoTurnIs DEF TurnRecords
<1>11. TypesOf(legs', born')
  BY <1>1, TypesAre
<1>12. TypeOK'
  <2>1. turns' \in Nat
    BY <1>1, StateIs
  <2> QED
    BY <1>1, <1>10, <1>11, <2>1, StateIs, TypesFrom
<1>13. ShapeInv'
  <2>1. turn'.batch \in Batches /\ turn'.at \in 1..Len(turn'.batch)
    BY <1>7, <1>10
  <2>2. IsFiniteSet(DOMAIN legs') /\ (anchor' # None => anchor' <= born')
    BY <1>1, StateIs DEF IsTrip
  <2> QED
    BY <1>10, <2>1, <2>2 DEF ShapeInv, Editing
<1> QED
  BY <1>12, <1>13

\* What a step of the pipeline does to the turn.
Piped(pc) ==
    /\ turn' \in TurnRecords /\ turn'.pc = pc
    /\ turn'.pc \in {"idle", "plan", "repair", "sync"}
    /\ turn'.pc # "repair" => turn'.targets = {}

LEMMA NoTurnPiped ==
    ASSUME turn' = NoTurn
    PROVE  Piped("idle")
  BY NoTurnIs DEF Piped

\* The pipeline has no hand in most of the state.
LEMMA PipedTypes ==
    ASSUME TypeOK, ShapeInv, NEW pc, Piped(pc),
           IsTrip(legs'), DOMAIN legs' = DOMAIN legs, endDay' \in Int, mishaps' \in Nat,
           troubled' \in BOOLEAN, strayed' \subseteq DOMAIN legs,
           anchor' = anchor, anchorDay' = anchorDay, startDay' = startDay, born' = born,
           turns' = turns, travelled' = travelled
    PROVE  TypeOK' /\ ShapeInv'
<1>1. TypesOf(legs', born')
  BY StateIs DEF TypesOf
<1>2. TypeOK'
  BY <1>1, StateIs, TypesFrom DEF Piped
<1>3. ShapeInv'
  BY <1>1, StateIs DEF ShapeInv, Piped, TypesOf, IsTrip, Editing
<1> QED
  BY <1>2, <1>3

\* The targets of a repair have their types.
LEMMA TargetTypes ==
    ASSUME TypeOK, ShapeInv, NEW tie \in Ties(legs)
    PROVE  RepairTargets(legs, tie, anchor) \in SUBSET Targets
<1>1. Breaks(tie, legs)
  BY StateIs, TieBreaks
<1> SUFFICES ASSUME NEW t \in RepairTargets(legs, tie, anchor)
             PROVE  t \in Targets
  OBVIOUS
<1>2. /\ t = [leg |-> t.leg, index |-> t.index, fix |-> t.fix, origin |-> t.origin]
      /\ t.leg \in DOMAIN legs /\ t.index \in Nat /\ t.fix \in BOOLEAN
      /\ t.origin \in Places
  BY <1>1, StateIs, TargetsAre
<1>3. t.leg \in LegIds /\ t.origin \in Spots
  BY <1>2, StateIs DEF Spots
<1> QED
  BY <1>2, <1>3 DEF Targets

LEMMA RebuildTypes ==
    ASSUME TypeOK, ShapeInv, RebuildTripSchedule \/ RebuildThrows
    PROVE  TypeOK' /\ ShapeInv'
<1>1. turn.pc = "rebuild" /\ turn.targets = {}
  BY StateIs DEF RebuildTripSchedule, RebuildThrows, At
<1>2. Piped("plan")
  <2>1. CASE RebuildTripSchedule
    <3>1. turn' = [turn EXCEPT !.pc = "plan"]
      BY <2>1 DEF RebuildTripSchedule
    <3> QED
      BY <3>1, <1>1, StateIs DEF Piped, TurnRecords
  <2>2. CASE RebuildThrows
    <3>1. turn' = [turn EXCEPT !.pc = "plan", !.whole = FALSE]
      BY <2>2 DEF RebuildThrows
    <3> QED
      BY <3>1, <1>1, StateIs DEF Piped, TurnRecords
  <2> QED
    BY <2>1, <2>2
<1>3. IsTrip(legs') /\ DOMAIN legs' = DOMAIN legs
  <2>1. CASE RebuildTripSchedule
    <3>1. PICK tie \in Ties(legs) : legs' = Rebuilt(legs, tie)
      BY <2>1 DEF RebuildTripSchedule
    <3>2. IsTrip(legs) /\ Breaks(tie, legs)
      BY StateIs, TieBreaks
    <3>3. CASE Drives(legs) = {}
      BY <3>1, <3>2, <3>3 DEF Rebuilt
    <3>4. CASE Drives(legs) # {}
      BY <3>1, <3>2, <3>4, RebuiltIs
    <3> QED
      BY <3>3, <3>4
  <2>2. CASE RebuildThrows
    BY <2>2, StateIs DEF RebuildThrows
  <2> QED
    BY <2>1, <2>2
<1>4. /\ endDay' = endDay /\ mishaps' \in Nat /\ troubled' = troubled /\ strayed' = strayed
      /\ anchor' = anchor /\ anchorDay' = anchorDay /\ startDay' = startDay /\ born' = born
      /\ turns' = turns /\ travelled' = travelled
  BY StateIs, Mishaps DEF RebuildTripSchedule, RebuildThrows, Rest, Dates
<1> QED
  BY <1>2, <1>3, <1>4, StateIs, PipedTypes

LEMMA PlanTypes ==
    ASSUME TypeOK, ShapeInv, PlanRepair
    PROVE  TypeOK' /\ ShapeInv'
<1>1. PICK tie \in Ties(legs) :
        turn' = [turn EXCEPT !.pc = IF RepairTargets(legs, tie, anchor) = {} THEN "sync"
                                    ELSE "repair",
                             !.targets = RepairTargets(legs, tie, anchor)]
  BY DEF PlanRepair
<1> DEFINE targets == RepairTargets(legs, tie, anchor)
<1>2. targets \in SUBSET Targets
  BY TargetTypes
<1>3. turn' = [turn EXCEPT !.pc = IF targets = {} THEN "sync" ELSE "repair",
                           !.targets = targets]
  BY <1>1
<1> HIDE DEF targets
<1>4. Piped(turn'.pc)
  BY <1>2, <1>3, StateIs DEF Piped, TurnRecords
<1>5. /\ legs' = legs
      /\ endDay' = endDay /\ mishaps' = mishaps /\ troubled' = troubled /\ strayed' = strayed
      /\ anchor' = anchor /\ anchorDay' = anchorDay /\ startDay' = startDay /\ born' = born
      /\ turns' = turns /\ travelled' = travelled
  BY DEF PlanRepair, Rest, Dates
<1> QED
  BY <1>4, <1>5, StateIs, PipedTypes

LEMMA RepairTypes ==
    ASSUME TypeOK, ShapeInv, TargetInv, RepairLeg
    PROVE  TypeOK' /\ ShapeInv'
<1>1. PICK t \in turn.targets, ok \in BOOLEAN :
        /\ Directions(ok)
        /\ legs' = [legs EXCEPT ![t.leg] = Repaired(legs[t.leg], t, ok)]
        /\ strayed' = strayed \ {t.leg}
        /\ turn' = [turn EXCEPT !.targets = turn.targets \ {t},
                                !.pc = IF turn.targets = {t} THEN "sync" ELSE turn.pc]
  BY DEF RepairLeg
<1>2. IsTrip(legs') /\ DOMAIN legs' = DOMAIN legs
  BY <1>1, RepairLegIs
<1>3. turn.pc = "repair"
  BY DEF RepairLeg, At
<1>4. turn.targets \in SUBSET Targets
  BY StateIs DEF TurnRecords
<1> DEFINE rest == turn.targets \ {t}
           pc == IF turn.targets = {t} THEN "sync" ELSE turn.pc
<1>5. rest \in SUBSET Targets /\ pc \in {"sync", "repair"} /\ (pc = "sync" => rest = {})
  BY <1>3, <1>4
<1>6. turn' = [turn EXCEPT !.targets = rest, !.pc = pc]
  BY <1>1
<1> HIDE DEF rest, pc
<1>7. Piped(turn'.pc)
  BY <1>5, <1>6, StateIs DEF Piped, TurnRecords
<1>8. /\ mishaps' \in Nat /\ strayed' \subseteq DOMAIN legs
      /\ endDay' = endDay /\ troubled' = troubled
      /\ anchor' = anchor /\ anchorDay' = anchorDay /\ startDay' = startDay /\ born' = born
      /\ turns' = turns /\ travelled' = travelled
  BY <1>1, StateIs, Mishaps DEF RepairLeg, Rest, Dates
<1> QED
  BY <1>2, <1>7, <1>8, StateIs, PipedTypes

LEMMA LastDayIsADay ==
    ASSUME TypeOK, ShapeInv, NEW tie \in Ties(legs)
    PROVE  LastDay(legs, tie, anchor, anchorDay, startDay) \in Int
<1>1. Breaks(tie, legs)
  BY StateIs, TieBreaks
<1>2. Cardinality(DOMAIN legs) \in Nat
  BY StateIs, FS_CardinalityType DEF IsTrip
<1>3. anchor \in DOMAIN legs => Index(legs, tie, anchor) \in Nat
  BY <1>1, <1>2, StateIs, IndexCounts
<1> QED
  BY <1>2, <1>3, StateIs DEF LastDay

LEMMA EndTypes ==
    ASSUME TypeOK, ShapeInv, RepairThrows \/ SyncTripEndDate \/ SyncThrows \/ Killed
    PROVE  TypeOK' /\ ShapeInv'
<1>1. Piped(turn'.pc)
  <2>1. CASE RepairThrows
    <3>1. turn' = [turn EXCEPT !.pc = "sync", !.targets = {}, !.whole = FALSE]
      BY <2>1 DEF RepairThrows
    <3> QED
      BY <3>1, StateIs DEF Piped, TurnRecords
  <2>2. CASE turn' = NoTurn
    BY <2>2, NoTurnIs DEF Piped
  <2> QED
    BY <2>1, <2>2 DEF SyncTripEndDate, SyncThrows, Killed
<1>2. endDay' \in Int
  <2>1. CASE SyncTripEndDate
    BY <2>1, LastDayIsADay, StateIs DEF SyncTripEndDate
  <2>2. CASE RepairThrows \/ SyncThrows \/ Killed
    BY <2>2, StateIs DEF RepairThrows, SyncThrows, Killed, Rest, Dates
  <2> QED
    BY <2>1, <2>2
<1>3. /\ legs' = legs /\ strayed' = strayed
      /\ anchor' = anchor /\ anchorDay' = anchorDay /\ startDay' = startDay /\ born' = born
      /\ turns' = turns /\ travelled' = travelled
  BY DEF RepairThrows, SyncTripEndDate, SyncThrows, Killed, Rest, Dates
<1>4. mishaps' \in Nat
  BY StateIs, Mishaps DEF RepairThrows, SyncTripEndDate, SyncThrows, Killed
<1>5. troubled' \in BOOLEAN
  <2>1. (~turn.whole) \in BOOLEAN
    OBVIOUS
  <2> QED
    BY <2>1, StateIs DEF RepairThrows, SyncTripEndDate, SyncThrows, Killed
<1> QED
  BY <1>1, <1>2, <1>3, <1>4, <1>5, StateIs, PipedTypes

\* Every step keeps the types.
LEMMA TypesKept ==
    ASSUME TypeOK, ShapeInv, TargetInv, Next
    PROVE  TypeOK' /\ ShapeInv'
<1>1. ASSUME NEW batch \in Batches, StartTurn(batch)
      PROVE  TypeOK' /\ ShapeInv'
  BY <1>1, StartTypes
<1>2. CASE Skip \/ EditThrows \/ RenameTrip \/ RenameTripThrows
  BY <1>2, SkipTypes
<1>3. CASE DeleteLeg
  BY <1>3, DeleteTypes
<1>4. CASE UpdateLeg \/ UpdateLegThrows
  BY <1>4, UpdateTypes
<1>5. CASE AddLeg
  BY <1>5, AddTypes
<1>6. CASE AddLegThrows
  BY <1>6, AddThrowsTypes
<1>7. CASE ReportPosition
  BY <1>7, ReportTypes
<1>8. CASE RerouteLeg
  BY <1>8, RerouteTypes
<1>9. CASE PinTrip \/ PinTripThrows
  BY <1>9, PinTypes
<1>10. CASE ReportThrows
  BY <1>10, ReportThrowsTypes
<1>11. CASE RebuildTripSchedule \/ RebuildThrows
  BY <1>11, RebuildTypes
<1>12. CASE PlanRepair
  BY <1>12, PlanTypes
<1>13. CASE RepairLeg
  BY <1>13, RepairTypes
<1>14. CASE RepairThrows \/ SyncTripEndDate \/ SyncThrows \/ Killed
  BY <1>14, EndTypes
<1> QED
  BY <1>1, <1>2, <1>3, <1>4, <1>5, <1>6, <1>7, <1>8, <1>9, <1>10, <1>11, <1>12, <1>13, <1>14 DEF Next

-----------------------------------------------------------------------------
(* Where the turn stands after a step, and what the repair has yet to write *)

LEMMA TurnStands ==
    ASSUME TypeOK, ShapeInv
    PROVE  /\ \A batch \in Batches : StartTurn(batch) =>
                 turn.pc = "idle" /\ turn'.pc = "dispatch" /\ ~turn'.applied
           /\ RebuildTripSchedule => turn'.pc = "plan" /\ turn'.whole
           /\ RebuildThrows => turn'.pc = "plan" /\ ~turn'.whole
           /\ RepairThrows => turn'.pc = "sync" /\ ~turn'.whole
           /\ SyncTripEndDate \/ SyncThrows \/ Killed => turn'.pc = "idle"
<1>1. ASSUME NEW batch \in Batches, StartTurn(batch)
      PROVE  turn.pc = "idle" /\ turn'.pc = "dispatch" /\ ~turn'.applied
  <2>1. turn.pc = "idle"
    BY <1>1 DEF StartTurn, At
  <2>2. PICK tie \in Ties(legs) :
          turn' = [NoTurn EXCEPT !.pc = "dispatch", !.batch = batch, !.at = 1,
                       !.blocked = FindGapCreatingDeletes(legs, tie, batch, born + 1),
                       !.gaps = GapKeys(legs, tie),
                       !.plain = (Ties(legs) = {tie})]
    BY <1>1 DEF StartTurn
  <2> DEFINE blocked == FindGapCreatingDeletes(legs, tie, batch, born + 1)
             gaps == GapKeys(legs, tie)
             plain == (Ties(legs) = {tie})
  <2> HIDE DEF blocked, gaps, plain
  <2>3. turn' = [NoTurn EXCEPT !.pc = "dispatch", !.batch = batch, !.at = 1,
                     !.blocked = blocked, !.gaps = gaps, !.plain = plain]
    BY <2>2 DEF blocked, gaps, plain
  <2>4. turn'.pc = "dispatch" /\ turn'.applied = FALSE
    BY <2>3 DEF NoTurn
  <2> QED
    BY <2>1, <2>4
<1>2. turn.pc = "rebuild" => turn.whole
  BY StateIs
<1>3. RebuildTripSchedule => turn'.pc = "plan" /\ turn'.whole
  BY <1>2, StateIs DEF RebuildTripSchedule, At, TurnRecords
<1>4. RebuildThrows => turn'.pc = "plan" /\ ~turn'.whole
  BY StateIs DEF RebuildThrows, TurnRecords
<1>5. RepairThrows => turn'.pc = "sync" /\ ~turn'.whole
  BY StateIs DEF RepairThrows, TurnRecords
<1>6. SyncTripEndDate \/ SyncThrows \/ Killed => turn'.pc = "idle"
  BY NoTurnIs DEF SyncTripEndDate, SyncThrows, Killed
<1> QED
  BY <1>1, <1>3, <1>4, <1>5, <1>6

\* Only the repair leaves something to write.
LEMMA RepairIsDue ==
    ASSUME TypeOK, ShapeInv, Next, turn'.pc = "repair"
    PROVE  PlanRepair \/ RepairLeg
<1>1. ~(Advanced(TRUE) \/ Advanced(FALSE))
  BY DEF Advanced
<1>2. ReportPosition \/ RerouteLeg => FALSE
  BY ReportIs, RerouteIs DEF Stepped
<1> QED
  BY <1>1, <1>2, EditsAdvance, TurnStands DEF Next

\* What the plan of a repair is.
LEMMA PlanIs ==
    ASSUME TypeOK, ShapeInv, PlanRepair
    PROVE  /\ turn.pc = "plan" /\ legs' = legs /\ anchor' = anchor /\ (turn'.whole <=> turn.whole)
           /\ \E tie \in Ties(legs) :
                 /\ turn'.targets = RepairTargets(legs, tie, anchor)
                 /\ turn'.pc = IF RepairTargets(legs, tie, anchor) = {} THEN "sync" ELSE "repair"
<1>1. turn.pc = "plan" /\ legs' = legs /\ anchor' = anchor
  BY DEF PlanRepair, At, Rest, Dates
<1>2. PICK tie \in Ties(legs) :
        turn' = [turn EXCEPT !.pc = IF RepairTargets(legs, tie, anchor) = {} THEN "sync"
                                    ELSE "repair",
                             !.targets = RepairTargets(legs, tie, anchor)]
  BY DEF PlanRepair
<1> DEFINE targets == RepairTargets(legs, tie, anchor)
<1>3. turn' = [turn EXCEPT !.pc = IF targets = {} THEN "sync" ELSE "repair",
                           !.targets = targets]
  BY <1>2
<1> HIDE DEF targets
<1>4. turn'.targets = targets /\ turn'.pc = IF targets = {} THEN "sync" ELSE "repair"
  BY <1>3, StateIs DEF TurnRecords
<1>5. turn'.whole <=> turn.whole
  BY <1>3, StateIs DEF TurnRecords
<1> QED
  BY <1>1, <1>4, <1>5 DEF targets

\* What a step of the repair does.
LEMMA RepairIs ==
    ASSUME TypeOK, ShapeInv, TargetInv, RepairLeg
    PROVE  /\ turn.pc = "repair" /\ anchor' = anchor /\ travelled' = travelled
           /\ turn'.whole <=> turn.whole
           /\ \E t \in turn.targets :
                 /\ turn'.targets = turn.targets \ {t}
                 /\ turn'.pc \in {"repair", "sync"}
                 /\ turn'.pc = "sync" => turn.targets = {t}
                 /\ strayed' = strayed \ {t.leg}
                 /\ IsTrip(legs') /\ DOMAIN legs' = DOMAIN legs /\ t.leg \in DOMAIN legs
                 /\ \A k \in DOMAIN legs \ {t.leg} : legs'[k] = legs[k]
                 /\ legs'[t.leg].kind = legs[t.leg].kind /\ legs'[t.leg].sort = legs[t.leg].sort
                 /\ legs'[t.leg].start = t.origin /\ legs'[t.leg].end = legs[t.leg].end
                 /\ ~t.fix => legs'[t.leg].start = legs[t.leg].start
                 /\ legs'[t.leg].route \in {None, Ends(legs', t.leg)}
                 /\ t.origin \in Places
<1>1. turn.pc = "repair" /\ anchor' = anchor /\ travelled' = travelled
  BY DEF RepairLeg, At, Rest, Dates
<1>2. PICK t \in turn.targets, ok \in BOOLEAN :
        /\ legs' = [legs EXCEPT ![t.leg] = Repaired(legs[t.leg], t, ok)]
        /\ strayed' = strayed \ {t.leg}
        /\ turn' = [turn EXCEPT !.targets = turn.targets \ {t},
                                !.pc = IF turn.targets = {t} THEN "sync" ELSE turn.pc]
  BY DEF RepairLeg
<1> DEFINE rest == turn.targets \ {t}
           pc == IF turn.targets = {t} THEN "sync" ELSE turn.pc
<1>3. pc \in {"repair", "sync"} /\ (pc = "sync" => turn.targets = {t})
  BY <1>1
<1>4. turn' = [turn EXCEPT !.targets = rest, !.pc = pc]
  BY <1>2
<1> HIDE DEF rest, pc
<1>5. turn'.targets = rest /\ turn'.pc = pc /\ (turn'.whole <=> turn.whole)
  BY <1>4, StateIs DEF TurnRecords
<1>6. /\ IsTrip(legs') /\ DOMAIN legs' = DOMAIN legs /\ t.leg \in DOMAIN legs
      /\ \A k \in DOMAIN legs \ {t.leg} : legs'[k] = legs[k]
      /\ legs'[t.leg].kind = legs[t.leg].kind /\ legs'[t.leg].sort = legs[t.leg].sort
      /\ legs'[t.leg].start = t.origin /\ legs'[t.leg].end = legs[t.leg].end
      /\ ~t.fix => legs'[t.leg].start = legs[t.leg].start
      /\ legs'[t.leg].route \in {None, Ends(legs', t.leg)}
      /\ t.origin \in Places
  BY <1>2, RepairLegIs
<1>7. turn'.targets = turn.targets \ {t} /\ turn'.pc \in {"repair", "sync"}
      /\ (turn'.pc = "sync" => turn.targets = {t})
  BY <1>3, <1>5 DEF rest
<1> QED
  BY <1>1, <1>2, <1>5, <1>6, <1>7

LEMMA TargetsKept ==
    ASSUME TypeOK, ShapeInv, TargetInv, Next, ShapeInv'
    PROVE  TargetInv'
<1>1. CASE turn'.pc # "repair"
  <2>1. turn'.targets = {}
    BY <1>1 DEF ShapeInv
  <2> QED
    BY <2>1 DEF TargetInv
<1>2. CASE PlanRepair
  <2>1. PICK tie \in Ties(legs) : turn'.targets = RepairTargets(legs, tie, anchor)
    BY <1>2, PlanIs
  <2>2. IsTrip(legs) /\ Breaks(tie, legs) /\ legs' = legs
    BY <1>2, StateIs, TieBreaks, PlanIs
  <2>3. /\ \A t \in turn'.targets :
              /\ t.leg \in DOMAIN legs /\ t.origin \in Places
              /\ t.fix => t.leg \in Drives(legs)
              /\ ~t.fix => t.origin = legs[t.leg].start
        /\ \A t, u \in turn'.targets : t.leg = u.leg => t = u
    BY <2>1, <2>2, TargetsAre
  <2> QED
    BY <2>2, <2>3 DEF TargetInv
<1>3. CASE RepairLeg
  <2>1. PICK t \in turn.targets :
          /\ turn'.targets = turn.targets \ {t}
          /\ DOMAIN legs' = DOMAIN legs
          /\ \A k \in DOMAIN legs \ {t.leg} : legs'[k] = legs[k]
          /\ legs'[t.leg].kind = legs[t.leg].kind
    BY <1>3, RepairIs
  <2>2. \A u \in turn'.targets :
          u \in turn.targets /\ u.leg \in DOMAIN legs \ {t.leg} /\ legs'[u.leg] = legs[u.leg]
    BY <2>1 DEF TargetInv
  <2>3. Drives(legs') = Drives(legs)
    BY <2>1 DEF Drives
  <2> QED
    BY <2>1, <2>2, <2>3 DEF TargetInv
<1> QED
  BY <1>1, <1>2, <1>3, RepairIsDue

\* A new leg has an id of its own.
LEMMA AddIs ==
    ASSUME TypeOK, ShapeInv, AddLeg
    PROVE  /\ anchor' = anchor /\ strayed' = strayed /\ travelled' = travelled
           /\ \E new \in LegIds :
                 /\ new \notin DOMAIN legs /\ new # anchor
                 /\ DOMAIN legs' = DOMAIN legs \cup {new}
                 /\ legs'[new].route \in {None, Ends(legs', new)}
                 /\ \A l \in DOMAIN legs :
                       /\ legs'[l].kind = legs[l].kind /\ legs'[l].route = legs[l].route
                       /\ legs'[l].start = legs[l].start /\ legs'[l].end = legs[l].end
                 /\ \A k, l \in DOMAIN legs :
                       legs[k].sort < legs[l].sort => legs'[k].sort < legs'[l].sort
<1>1. /\ anchor' = anchor /\ strayed' = strayed /\ travelled' = travelled
      /\ turn.pc = "dispatch"
  BY DEF AddLeg, Dispatching, At, Dates
<1>2. PICK ok \in BOOLEAN : legs' = With(MakeRoom(legs, Edit), born + 1, NewLeg(ok))
  BY DEF AddLeg
<1> DEFINE new == born + 1
           f == With(MakeRoom(legs, Edit), born + 1, NewLeg(ok))
<1>3. /\ IsTrip(f) /\ DOMAIN f = DOMAIN legs \cup {new}
      /\ new \notin DOMAIN legs
      /\ f[new].route \in {None, Ends(f, new)}
      /\ \A l \in DOMAIN legs :
            /\ f[l].kind = legs[l].kind /\ f[l].route = legs[l].route
            /\ f[l].start = legs[l].start /\ f[l].end = legs[l].end
      /\ \A k, l \in DOMAIN legs : legs[k].sort < legs[l].sort => f[k].sort < f[l].sort
  BY <1>1, AddLegIs, Zenon
<1>4. legs' = f
  BY <1>2
<1>5. new \in LegIds /\ new # anchor
  <2>1. anchor \in LegIds => anchor <= born
    BY StateIs, PlaceAssumption DEF LegIds
  <2>2. new \in LegIds
    BY StateIs DEF LegIds
  <2>3. anchor = None => new # anchor
    BY <2>2, PlaceAssumption DEF LegIds
  <2> QED
    BY <2>1, <2>2, <2>3, StateIs DEF LegIds
<1> HIDE DEF f, new
<1>6. /\ DOMAIN legs' = DOMAIN legs \cup {new}
      /\ legs'[new].route \in {None, Ends(legs', new)}
      /\ \A l \in DOMAIN legs :
            /\ legs'[l].kind = legs[l].kind /\ legs'[l].route = legs[l].route
            /\ legs'[l].start = legs[l].start /\ legs'[l].end = legs[l].end
      /\ \A k, l \in DOMAIN legs :
            legs[k].sort < legs[l].sort => legs'[k].sort < legs'[l].sort
  BY <1>3, <1>4 DEF Ends
<1> QED
  BY <1>1, <1>3, <1>5, <1>6

-----------------------------------------------------------------------------
(* Routes *)

LEMMA RoutesKept ==
    ASSUME TypeOK, ShapeInv, TargetInv, RouteIsOfItsLeg, Next
    PROVE  RouteIsOfItsLeg'
<1>1. IsTrip(legs)
  BY StateIs
<1>2. CASE legs' = legs /\ strayed' = strayed
  BY <1>2 DEF RouteIsOfItsLeg, Ends
<1>3. CASE DeleteLeg
  <2>1. PICK l \in Resolved : legs' = Without(legs, l) /\ strayed' = strayed \ {l}
    BY <1>3 DEF DeleteLeg
  <2>2. legs' = Without(legs, l)
    BY <2>1
  <2>3. DOMAIN legs' = DOMAIN legs \ {l} /\ \A k \in DOMAIN legs' : legs'[k] = legs[k]
    BY <2>2 DEF Without, Restrict
  <2> QED
    BY <2>1, <2>3 DEF RouteIsOfItsLeg, Ends, Drives
<1>4. CASE UpdateLeg \/ UpdateLegThrows
  <2>1. turn.pc = "dispatch" /\ \E l \in Resolved, ok \in BOOLEAN : WriteUpdate(l, ok)
    BY <1>4 DEF UpdateLeg, UpdateLegThrows, Dispatching, At
  <2>2. PICK l \in Resolved, ok \in BOOLEAN : WriteUpdate(l, ok)
    BY <2>1
  <2> DEFINE p == IF Edit.start = None THEN legs[l].start ELSE Edit.start
             q == IF Edit.end = None THEN legs[l].end ELSE Edit.end
  <2>3. l \in DOMAIN legs /\ legs' = UpdatedRow(l, ok)
    BY <2>1, <2>2, WriteUpdateIs
  <2>9. CASE ~Told
    <3>1. legs' = legs
      BY <2>1, <2>3, <2>9, UpdateIs
    <3>2. strayed' = strayed
      BY <2>2, <2>9 DEF WriteUpdate
    <3> QED
      BY <1>2, <3>1, <3>2
  <2> SUFFICES ASSUME Told PROVE RouteIsOfItsLeg'
    BY <2>9
  <2>4. /\ DOMAIN legs' = DOMAIN legs
        /\ \A k \in DOMAIN legs \ {l} : legs'[k] = legs[k]
        /\ legs'[l].kind = legs[l].kind
        /\ legs'[l].start = p /\ legs'[l].end = q
        /\ None \in {p, q} => legs'[l].route = legs[l].route
        /\ None \notin {p, q} => legs'[l].route \in {None, <<p, q>>}
    BY <2>1, <2>3, UpdateIs
  <2>5. strayed' = IF None \in {p, q} THEN strayed ELSE strayed \ {l}
    BY <2>2, <2>4 DEF WriteUpdate
  <2>6. legs[l].route \in (Places \X Places) \cup {None}
    BY <1>1, <2>3 DEF IsTrip, Legs
  <2>7. ASSUME l \in Drives(legs'), l \notin strayed' PROVE legs'[l].route \in {None, Ends(legs', l)}
    <3>1. CASE None \in {p, q}
      <4>1. l \in Drives(legs) \ strayed
        BY <2>3, <2>4, <2>5, <2>7, <3>1 DEF Drives
      <4>2. legs[l].route = None \/ legs[l].route = <<legs[l].start, legs[l].end>>
        BY <4>1 DEF RouteIsOfItsLeg, Ends
      <4>3. legs[l].start = None \/ legs[l].end = None
        BY <3>1
      <4>4. legs[l].route = None
        BY <2>6, <4>2, <4>3, PlaceAssumption
      <4> QED
        BY <2>4, <3>1, <4>4
    <3>2. CASE None \notin {p, q}
      BY <2>4, <3>2 DEF Ends
    <3> QED
      BY <3>1, <3>2
  <2>8. ASSUME NEW k \in Drives(legs') \ strayed', k # l PROVE legs'[k].route \in {None, Ends(legs', k)}
    <3>1. k \in Drives(legs) \ strayed /\ legs'[k] = legs[k]
      BY <2>4, <2>5, <2>8 DEF Drives
    <3> QED
      BY <3>1 DEF RouteIsOfItsLeg, Ends
  <2> QED
    BY <2>7, <2>8 DEF RouteIsOfItsLeg
<1>5. CASE AddLeg
  <2>1. strayed' = strayed
    BY <1>5, AddIs
  <2>3. PICK new \in LegIds :
          /\ DOMAIN legs' = DOMAIN legs \cup {new}
          /\ legs'[new].route \in {None, Ends(legs', new)}
          /\ \A l \in DOMAIN legs :
                /\ legs'[l].kind = legs[l].kind /\ legs'[l].route = legs[l].route
                /\ legs'[l].start = legs[l].start /\ legs'[l].end = legs[l].end
    BY <1>5, AddIs
  <2>4. ASSUME NEW k \in Drives(legs') \ strayed', k # new
        PROVE  legs'[k].route \in {None, Ends(legs', k)}
    <3>1. k \in Drives(legs) \ strayed
      BY <2>1, <2>3, <2>4 DEF Drives
    <3>2. k \in DOMAIN legs
      BY <3>1 DEF Drives
    <3> QED
      BY <2>3, <3>1, <3>2 DEF RouteIsOfItsLeg, Ends
  <2> QED
    BY <2>3, <2>4 DEF RouteIsOfItsLeg
<1>6. CASE AddLegThrows
  <2>1. strayed' = strayed /\ turn.pc = "dispatch" /\ legs' = MakeRoom(legs, Edit)
    BY <1>6 DEF AddLegThrows, Dispatching, At
  <2>2. /\ DOMAIN legs' = DOMAIN legs
        /\ \A l \in DOMAIN legs :
              /\ legs'[l].kind = legs[l].kind /\ legs'[l].route = legs[l].route
              /\ legs'[l].start = legs[l].start /\ legs'[l].end = legs[l].end
    BY <1>1, <2>1, EditIs, RoomIsMade DEF Editing
  <2> QED
    BY <2>1, <2>2 DEF RouteIsOfItsLeg, Ends, Drives
<1>7. CASE ReportPosition
  <2>1. CASE legs' = legs /\ strayed' = strayed
    BY <1>2, <2>1
  <2>2. ASSUME NEW l \in Drives(legs), strayed' = strayed \cup {l},
               DOMAIN legs' = DOMAIN legs, \A k \in DOMAIN legs \ {l} : legs'[k] = legs[k]
        PROVE  RouteIsOfItsLeg'
    BY <2>2 DEF RouteIsOfItsLeg, Ends, Drives
  <2> QED
    BY <1>7, <2>1, <2>2, ReportIs
<1>13. CASE RerouteLeg
  <2>1. CASE legs' = legs /\ strayed' = strayed
    BY <1>2, <2>1
  <2>2. CASE /\ strayed' = strayed \ {turn.next}
             /\ legs'[turn.next].route = Ends(legs', turn.next)
    <3>1. /\ DOMAIN legs' = DOMAIN legs
          /\ \A k \in DOMAIN legs \ {turn.next} : legs'[k] = legs[k]
          /\ \A k \in DOMAIN legs : legs'[k].kind = legs[k].kind
      BY <1>13, RerouteIs
    <3>2. Drives(legs') = Drives(legs) /\ Drives(legs) \subseteq DOMAIN legs
      BY <3>1 DEF Drives
    <3> QED
      BY <2>2, <3>1, <3>2 DEF RouteIsOfItsLeg, Ends
  <2> QED
    BY <1>13, <2>1, <2>2, RerouteIs
<1>8. CASE RebuildTripSchedule
  <2>1. PICK tie \in Ties(legs) : legs' = Rebuilt(legs, tie)
    BY <1>8 DEF RebuildTripSchedule
  <2>2. Breaks(tie, legs) /\ strayed' = strayed
    BY <1>1, <1>8, TieBreaks DEF RebuildTripSchedule
  <2>3. CASE Drives(legs) = {}
    BY <1>2, <2>1, <2>2, <2>3 DEF Rebuilt
  <2>4. CASE Drives(legs) # {}
    <3>1. /\ Drives(legs') = Drives(legs)
          /\ \A d \in Drives(legs) : /\ legs'[d].start = legs[d].start /\ legs'[d].end = legs[d].end
                                     /\ legs'[d].route = legs[d].route
      BY <1>1, <2>1, <2>2, <2>4, RebuiltIs
    <3> QED
      BY <2>2, <3>1 DEF RouteIsOfItsLeg, Ends
  <2> QED
    BY <2>3, <2>4
<1>9. CASE RepairLeg
  <2>1. PICK t \in turn.targets :
          /\ strayed' = strayed \ {t.leg}
          /\ DOMAIN legs' = DOMAIN legs /\ t.leg \in DOMAIN legs
          /\ \A k \in DOMAIN legs \ {t.leg} : legs'[k] = legs[k]
          /\ legs'[t.leg].kind = legs[t.leg].kind
          /\ legs'[t.leg].route \in {None, Ends(legs', t.leg)}
    BY <1>9, RepairIs
  <2>2. Drives(legs') = Drives(legs) /\ Drives(legs) \subseteq DOMAIN legs
    BY <2>1 DEF Drives
  <2> QED
    BY <2>1, <2>2 DEF RouteIsOfItsLeg, Ends
<1>10. \A batch \in Batches : StartTurn(batch) => legs' = legs /\ strayed' = strayed
  BY DEF StartTurn
<1>11. \/ Skip \/ EditThrows \/ RenameTrip \/ RenameTripThrows \/ RebuildThrows \/ PlanRepair
       \/ RepairThrows \/ SyncTripEndDate \/ SyncThrows \/ Killed \/ ReportThrows
       => legs' = legs /\ strayed' = strayed
  BY DEF Skip, EditThrows, RenameTrip, RenameTripThrows, RebuildThrows, PlanRepair, RepairThrows,
         SyncTripEndDate, SyncThrows, Killed, ReportThrows
<1>12. PinTrip \/ PinTripThrows => legs' = legs /\ strayed' = strayed
  BY PinIs
<1> QED
  BY <1>2, <1>3, <1>4, <1>5, <1>6, <1>7, <1>8, <1>9, <1>10, <1>11, <1>12, <1>13 DEF Next

-----------------------------------------------------------------------------
(* The drives behind the driver *)

LEMMA BehindKept ==
    ASSUME TypeOK, ShapeInv, TargetInv, BehindInv, Next, ShapeInv'
    PROVE  BehindInv'
<1>1. IsTrip(legs)
  BY StateIs
<1>2. ASSUME anchor' = anchor, travelled' = travelled,
             turn'.targets = {} \/ turn'.targets \subseteq turn.targets,
             Drives(legs) \subseteq Drives(legs'), anchor \in Drives(legs') => anchor \in Drives(legs),
             \A l \in Drives(legs) : anchor \in Drives(legs) /\ legs[l].sort < legs[anchor].sort =>
                 legs'[l].sort < legs'[anchor].sort,
             \A l \in DOMAIN travelled : anchor \in Drives(legs) => Ends(legs', l) = Ends(legs, l)
      PROVE  BehindInv'
  BY <1>2 DEF BehindInv
<1>3. ASSUME legs' = legs, anchor' = anchor, travelled' = travelled,
             turn'.pc # "repair" \/ turn'.targets \subseteq turn.targets
      PROVE  BehindInv'
  <2>1. turn'.targets = {} \/ turn'.targets \subseteq turn.targets
    BY <1>3 DEF ShapeInv
  <2> QED
    BY <1>2, <1>3, <2>1 DEF Ends
<1>4. CASE DeleteLeg
  <2>1. PICK l \in Resolved : legs' = Without(legs, l) /\ travelled' = Without(travelled, l)
    BY <1>4 DEF DeleteLeg
  <2>2. DOMAIN legs' = DOMAIN legs \ {l} /\ \A k \in DOMAIN legs' : legs'[k] = legs[k]
    BY <2>1 DEF Without, Restrict
  <2>3. /\ DOMAIN travelled' = DOMAIN travelled \ {l}
        /\ \A k \in DOMAIN travelled' : travelled'[k] = travelled[k]
    BY <2>1 DEF Without, Restrict
  <2>4. turn'.targets = {} /\ anchor' = anchor
    BY <1>4, EditsAdvance DEF Advanced, DeleteLeg, Dates
  <2>5. /\ DOMAIN travelled' \subseteq Drives(legs')
        /\ anchor \in Drives(legs') => anchor \in Drives(legs)
        /\ Drives(legs') \subseteq DOMAIN legs'
    BY <2>2, <2>3 DEF BehindInv, Drives
  <2> QED
    BY <2>2, <2>3, <2>4, <2>5 DEF BehindInv, Ends
<1>5. CASE UpdateLeg \/ UpdateLegThrows
  <2>1. turn.pc = "dispatch" /\ anchor' = anchor
    BY <1>5 DEF UpdateLeg, UpdateLegThrows, Dispatching, At, Dates
  <2>2. PICK l \in Resolved, ok \in BOOLEAN : WriteUpdate(l, ok)
    BY <1>5 DEF UpdateLeg, UpdateLegThrows
  <2>3. /\ l \in DOMAIN legs /\ legs' = UpdatedRow(l, ok)
        /\ DOMAIN travelled' = DOMAIN travelled
        /\ \A k \in DOMAIN travelled :
              travelled'[k] = IF k = l THEN Ends(legs', l) ELSE travelled[k]
    BY <2>1, <2>2, WriteUpdateIs
  <2>4. /\ DOMAIN legs' = DOMAIN legs
        /\ \A k \in DOMAIN legs \ {l} : legs'[k] = legs[k]
        /\ legs'[l].kind = legs[l].kind /\ legs'[l].sort = legs[l].sort
    BY <2>1, <2>3, UpdateIs
  <2>5. Drives(legs') = Drives(legs) /\ Drives(legs) \subseteq DOMAIN legs
    BY <2>3, <2>4 DEF Drives
  <2>6. turn'.targets = {}
    BY <1>5, EditsAdvance DEF Advanced
  <2>7. \A k \in DOMAIN legs : legs'[k].sort = legs[k].sort
    BY <2>4
  <2>8. anchor \in Drives(legs) =>
          \A k \in DOMAIN travelled' : travelled'[k] = Ends(legs', k)
    <3> SUFFICES ASSUME anchor \in Drives(legs), NEW k \in DOMAIN travelled
                 PROVE  travelled'[k] = Ends(legs', k)
      BY <2>3
    <3>1. k \in DOMAIN legs /\ travelled[k] = Ends(legs, k)
      BY <2>5 DEF BehindInv
    <3> QED
      BY <2>3, <2>4, <3>1 DEF Ends
  <2>9. anchor \in Drives(legs) =>
          \A k \in DOMAIN travelled : k \in DOMAIN legs /\ legs[k].sort < legs[anchor].sort
    BY <2>5 DEF BehindInv
  <2> QED
    BY <2>1, <2>3, <2>5, <2>6, <2>7, <2>8, <2>9 DEF BehindInv
<1>6. CASE AddLeg
  <2>1. PICK new \in LegIds :
          /\ new \notin DOMAIN legs /\ new # anchor
          /\ DOMAIN legs' = DOMAIN legs \cup {new}
          /\ \A l \in DOMAIN legs :
                /\ legs'[l].kind = legs[l].kind
                /\ legs'[l].start = legs[l].start /\ legs'[l].end = legs[l].end
          /\ \A k, l \in DOMAIN legs :
                legs[k].sort < legs[l].sort => legs'[k].sort < legs'[l].sort
    BY <1>6, AddIs
  <2>2. turn'.targets = {} /\ anchor' = anchor /\ travelled' = travelled
    BY <1>6, EditsAdvance, AddIs DEF Advanced
  <2>3. Drives(legs) \subseteq Drives(legs') /\ Drives(legs) \subseteq DOMAIN legs
        /\ (anchor \in Drives(legs') => anchor \in Drives(legs))
    BY <2>1 DEF Drives
  <2>4. \A l \in DOMAIN travelled : Ends(legs', l) = Ends(legs, l)
    BY <2>1, <2>3 DEF BehindInv, Ends
  <2> QED
    BY <1>2, <2>1, <2>2, <2>3, <2>4
<1>7. CASE AddLegThrows
  <2>1. turn.pc = "dispatch" /\ legs' = MakeRoom(legs, Edit) /\ anchor' = anchor
        /\ travelled' = travelled
    BY <1>7 DEF AddLegThrows, Dispatching, At, Dates
  <2>2. /\ DOMAIN legs' = DOMAIN legs
        /\ \A l \in DOMAIN legs :
              /\ legs'[l].kind = legs[l].kind
              /\ legs'[l].start = legs[l].start /\ legs'[l].end = legs[l].end
        /\ \A k, l \in DOMAIN legs :
              legs[k].sort < legs[l].sort => legs'[k].sort < legs'[l].sort
    BY <1>1, <2>1, EditIs, RoomIsMade DEF Editing
  <2>3. Drives(legs) = Drives(legs') /\ Drives(legs) \subseteq DOMAIN legs
    BY <2>2 DEF Drives
  <2>4. \A l \in DOMAIN travelled : Ends(legs', l) = Ends(legs, l)
    BY <2>2, <2>3 DEF BehindInv, Ends
  <2>5. turn'.targets = {}
    BY <1>7, EditsAdvance DEF Advanced
  <2> QED
    BY <1>2, <2>1, <2>2, <2>3, <2>4, <2>5
<1>8. CASE ReportPosition
  <2>1. turn'.pc # "repair" /\ turn'.targets = {} /\ anchor' = anchor
    BY <1>8, ReportIs DEF ReportPosition, Dates, Stepped, ShapeInv
  <2>2. CASE legs' = legs /\ travelled' = travelled
    BY <1>3, <2>1, <2>2
  <2>3. ASSUME NEW l \in Drives(legs), travelled' = Without(travelled, l),
               DOMAIN legs' = DOMAIN legs, \A k \in DOMAIN legs \ {l} : legs'[k] = legs[k],
               legs'[l].kind = legs[l].kind, legs'[l].sort = legs[l].sort
        PROVE  BehindInv'
    <3>1. /\ DOMAIN travelled' = DOMAIN travelled \ {l}
          /\ \A k \in DOMAIN travelled' : travelled'[k] = travelled[k]
      BY <2>3 DEF Without, Restrict
    <3>2. Drives(legs') = Drives(legs) /\ Drives(legs) \subseteq DOMAIN legs
      BY <2>3 DEF Drives
    <3>3. \A k \in DOMAIN legs : legs'[k].sort = legs[k].sort
      BY <2>3
    <3>4. DOMAIN travelled' \subseteq DOMAIN legs \ {l} /\ DOMAIN travelled' \subseteq Drives(legs)
      BY <3>1, <3>2 DEF BehindInv
    <3>5. anchor \in Drives(legs) =>
            \A k \in DOMAIN travelled' :
               legs[k].sort < legs[anchor].sort /\ travelled'[k] = Ends(legs, k)
      BY <3>1 DEF BehindInv
    <3>6. \A k \in DOMAIN travelled' : Ends(legs', k) = Ends(legs, k)
      BY <2>3, <3>4 DEF Ends
    <3> QED
      BY <2>1, <3>2, <3>3, <3>4, <3>5, <3>6 DEF BehindInv
  <2> QED
    BY <1>8, <2>2, <2>3, ReportIs
<1>9. CASE RerouteLeg
  <2>1. anchor' = anchor /\ travelled' = travelled
    BY <1>9 DEF RerouteLeg, Dates
  <2>2. /\ turn'.targets = {} /\ DOMAIN legs' = DOMAIN legs
        /\ \A k \in DOMAIN legs :
              /\ legs'[k].kind = legs[k].kind /\ legs'[k].sort = legs[k].sort
              /\ Ends(legs', k) = Ends(legs, k)
    BY <1>9, RerouteIs DEF Stepped, ShapeInv
  <2>3. Drives(legs') = Drives(legs) /\ Drives(legs) \subseteq DOMAIN legs
    BY <2>2 DEF Drives
  <2>4. DOMAIN travelled \subseteq DOMAIN legs
    BY <2>3 DEF BehindInv
  <2> QED
    BY <1>2, <2>1, <2>2, <2>3, <2>4
<1>16. CASE PinTrip \/ PinTripThrows
  <2>1. /\ legs' = legs /\ anchor' = turn.next /\ turn.next \in DOMAIN legs \cup {None}
        /\ travelled' = [k \in BehindNext |-> Ends(legs, k)]
    BY <1>16, PinIs
  <2>2. turn'.targets = {}
    BY <1>16, EditsAdvance DEF Advanced
  <2>3. DOMAIN travelled' = BehindNext /\ \A k \in BehindNext : travelled'[k] = Ends(legs, k)
    BY <2>1
  <2>4. \A k \in BehindNext : k \in Drives(legs) /\ legs[k].sort < legs[turn.next].sort
    BY DEF BehindNext
  <2> QED
    BY <2>1, <2>2, <2>3, <2>4 DEF BehindInv, Ends
<1>10. CASE RebuildTripSchedule
  <2>1. PICK tie \in Ties(legs) : legs' = Rebuilt(legs, tie)
    BY <1>10 DEF RebuildTripSchedule
  <2>2. Breaks(tie, legs) /\ anchor' = anchor /\ travelled' = travelled /\ turn'.pc = "plan"
    BY <1>1, <1>10, TieBreaks, TurnStands DEF RebuildTripSchedule, Rest, Dates
  <2>3. CASE Drives(legs) = {}
    BY <1>3, <2>1, <2>2, <2>3 DEF Rebuilt
  <2>4. CASE Drives(legs) # {}
    <3>1. /\ Drives(legs') = Drives(legs)
          /\ \A d \in Drives(legs) : legs'[d].start = legs[d].start /\ legs'[d].end = legs[d].end
          /\ \A k, l \in DOMAIN legs : legs'[k].sort < legs'[l].sort <=> Before(legs, tie, k, l)
      BY <1>1, <2>1, <2>2, <2>4, RebuiltIs
    <3>2. \A d, e \in Drives(legs) : Before(legs, tie, d, e) <=> Precedes(legs, tie, d, e)
      BY <1>1, <2>2, <2>4, BeforeOrders
    <3>3. Drives(legs) \subseteq DOMAIN legs
      BY DEF Drives
    <3>4. \A d, e \in Drives(legs) :
             legs[d].sort < legs[e].sort => legs'[d].sort < legs'[e].sort
      BY <3>1, <3>2, <3>3 DEF Precedes
    <3>5. \A l \in DOMAIN travelled : Ends(legs', l) = Ends(legs, l)
      BY <3>1 DEF BehindInv, Ends
    <3>6. turn'.targets = {}
      BY <2>2 DEF ShapeInv
    <3> QED
      BY <1>2, <2>2, <3>1, <3>4, <3>5, <3>6
  <2> QED
    BY <2>3, <2>4
<1>11. CASE PlanRepair
  <2>1. PICK tie \in Ties(legs) : turn'.targets = RepairTargets(legs, tie, anchor)
    BY <1>11, PlanIs
  <2>2. IsTrip(legs) /\ Breaks(tie, legs) /\ legs' = legs /\ anchor' = anchor
        /\ travelled' = travelled
    BY <1>11, StateIs, TieBreaks, PlanIs DEF PlanRepair, Rest
  <2>3. \A t \in turn'.targets :
          t.leg \in DOMAIN legs /\ Index(legs, tie, t.leg) > AnchorIndex(legs, tie, anchor)
    BY <2>1, <2>2, TargetsAre
  <2>4. ASSUME anchor \in Drives(legs), NEW l \in DOMAIN travelled, NEW t \in turn'.targets
        PROVE  t.leg # l
    <3>1. l \in DOMAIN legs /\ anchor \in DOMAIN legs /\ legs[l].sort < legs[anchor].sort
      BY <2>4 DEF BehindInv, Drives
    <3>2. Index(legs, tie, l) < Index(legs, tie, anchor)
      BY <2>2, <3>1, IndexCounts DEF Precedes
    <3>3. Index(legs, tie, l) \in Int /\ Index(legs, tie, anchor) \in Int
      BY <2>2, <3>1, IndexCounts
    <3> QED
      BY <2>3, <3>1, <3>2, <3>3 DEF AnchorIndex
  <2> QED
    BY <2>2, <2>4 DEF BehindInv, Ends
<1>12. CASE RepairLeg
  <2>1. PICK t \in turn.targets :
          /\ turn'.targets = turn.targets \ {t}
          /\ DOMAIN legs' = DOMAIN legs
          /\ \A k \in DOMAIN legs \ {t.leg} : legs'[k] = legs[k]
          /\ legs'[t.leg].kind = legs[t.leg].kind /\ legs'[t.leg].sort = legs[t.leg].sort
    BY <1>12, RepairIs
  <2>2. anchor' = anchor /\ travelled' = travelled
    BY <1>12, RepairIs
  <2>3. Drives(legs') = Drives(legs) /\ Drives(legs) \subseteq DOMAIN legs
    BY <2>1 DEF Drives
  <2>4. \A k \in DOMAIN legs : legs'[k].sort = legs[k].sort
    BY <2>1
  <2>5. ASSUME anchor \in Drives(legs), NEW l \in DOMAIN travelled
        PROVE  Ends(legs', l) = Ends(legs, l)
    <3>1. l \in DOMAIN legs /\ t.leg # l
      BY <2>3, <2>5 DEF BehindInv
    <3> QED
      BY <2>1, <3>1 DEF Ends
  <2> QED
    BY <1>2, <2>1, <2>2, <2>3, <2>4, <2>5
<1>13. \A batch \in Batches : StartTurn(batch) =>
          legs' = legs /\ anchor' = anchor /\ travelled' = travelled /\ turn'.pc # "repair"
  BY TurnStands DEF StartTurn, Dates
<1>14. Skip \/ EditThrows \/ RenameTrip \/ RenameTripThrows \/ ReportThrows =>
          legs' = legs /\ anchor' = anchor /\ travelled' = travelled /\ turn'.pc # "repair"
  BY EditsAdvance DEF Advanced, Skip, EditThrows, RenameTrip, RenameTripThrows, ReportThrows, Dates
<1>15. RebuildThrows \/ RepairThrows \/ SyncTripEndDate \/ SyncThrows \/ Killed =>
          legs' = legs /\ anchor' = anchor /\ travelled' = travelled /\ turn'.pc # "repair"
  BY TurnStands DEF RebuildThrows, RepairThrows, SyncTripEndDate, SyncThrows, Killed, Rest, Dates
<1> QED
  BY <1>3, <1>4, <1>5, <1>6, <1>7, <1>8, <1>9, <1>10, <1>11, <1>12, <1>13, <1>14, <1>15, <1>16
     DEF Next

-----------------------------------------------------------------------------
(* Trips in order, and chained *)

LEMMA InOrderIs ==
    ASSUME NEW f, IsTrip(f), InOrder(f)
    PROVE  AllDiffer(f)
<1> DEFINE n == Cardinality(DOMAIN f)
           numbers == 0 .. (n - 1)
           sorts == [l \in DOMAIN f |-> f[l].sort]
<1>1. IsFiniteSet(DOMAIN f) /\ n \in Nat
  BY FS_CardinalityType DEF IsTrip
<1>2. {f[l].sort : l \in DOMAIN f} = numbers
  BY DEF InOrder
<1>3. sorts \in Surjection(DOMAIN f, numbers)
  BY <1>2 DEF Surjection
<1>4. Cardinality(numbers) = n
  <2>1. CASE n = 0
    <3>1. numbers = {}
      BY <2>1
    <3> QED
      BY <2>1, <3>1, FS_EmptySet
  <2>2. CASE n # 0
    BY <1>1, <2>2, FS_Interval
  <2> QED
    BY <2>1, <2>2
<1> HIDE DEF n, numbers, sorts
<1>5. sorts \in Injection(DOMAIN f, numbers)
  BY <1>1, <1>3, <1>4, FS_Surjection DEF n
<1> QED
  BY <1>5 DEF Injection, IsInjective, sorts, AllDiffer

\* Writing starts, routes and warnings of drives leaves a trip in order.
LEMMA InOrderKept ==
    ASSUME NEW f, IsTrip(f), InOrder(f), NEW g, IsTrip(g), DOMAIN g = DOMAIN f,
           \A l \in DOMAIN f : /\ g[l].sort = f[l].sort /\ g[l].kind = f[l].kind
                               /\ g[l].end = f[l].end,
           \A r \in Rests(f) : g[r].start = f[r].start
    PROVE  /\ InOrder(g)
           /\ Drives(g) = Drives(f)
           /\ \A l \in DOMAIN f : Previous(g, BySort(g), l) = Previous(f, BySort(f), l)
           /\ \A at : Ahead(g, at) = Ahead(f, at)
<1>1. AllDiffer(f)
  BY InOrderIs
<1>2. \A l \in DOMAIN f : /\ Index(f, BySort(f), l) = Index(g, BySort(g), l)
                          /\ Previous(f, BySort(f), l) = Previous(g, BySort(g), l)
  <2>1. \A l \in DOMAIN f : g[l].sort = f[l].sort
    OBVIOUS
  <2>2. ASSUME NEW tie, NEW tie2
        PROVE  \A l \in DOMAIN f : Index(f, tie, l) = Index(g, tie2, l)
    BY <1>1, <2>1, SameSorts
  <2>3. ASSUME NEW tie, NEW tie2
        PROVE  \A l \in DOMAIN f : Previous(f, tie, l) = Previous(g, tie2, l)
    BY <1>1, <2>1, SameSorts
  <2> QED
    BY <2>2, <2>3
<1>3. Drives(g) = Drives(f) /\ Rests(g) = Rests(f) /\ Rests(f) \subseteq DOMAIN f
  BY DEF Drives, Rests
<1>4. {g[l].sort : l \in DOMAIN g} = {f[l].sort : l \in DOMAIN f}
  OBVIOUS
<1>5. ASSUME NEW r \in Rests(g)
      PROVE  \E p \in Previous(g, BySort(g), r) : Ends(g, r) = <<g[p].end, g[p].end>>
  <2>1. PICK p \in Previous(f, BySort(f), r) : Ends(f, r) = <<f[p].end, f[p].end>>
    BY <1>3, <1>5 DEF InOrder
  <2>2. Breaks(BySort(f), f)
    BY <1>1, NoTies
  <2>3. p \in DOMAIN f
    BY <1>3, <1>5, <2>1, <2>2, PreviousIs
  <2>4. p \in Previous(g, BySort(g), r) /\ Ends(g, r) = Ends(f, r) /\ g[p].end = f[p].end
    BY <1>2, <1>3, <1>5, <2>1, <2>3 DEF Ends
  <2> QED
    BY <2>1, <2>4
<1>6. InOrder(g)
  BY <1>4, <1>5 DEF InOrder
<1>7. \A at : AnchorIndex(g, BySort(g), at) = AnchorIndex(f, BySort(f), at)
  BY <1>2 DEF AnchorIndex
<1>8. \A at : Ahead(g, at) = Ahead(f, at)
  BY <1>2, <1>7 DEF Ahead
<1> QED
  BY <1>2, <1>3, <1>6, <1>8

\* A rebuild leaves the trip in order.
LEMMA RebuiltInOrder ==
    ASSUME NEW f, IsTrip(f), NEW tie, Breaks(tie, f), Drives(f) # {}, NEW g, g = Rebuilt(f, tie)
    PROVE  InOrder(g)
<1>1. /\ DOMAIN g = DOMAIN f /\ Rests(g) = Rests(f)
      /\ \A r \in Rests(f) :
            LET spot == f[NearestDriveStop(f, tie, r)].end
            IN  g[r].start = spot /\ g[r].end = spot
      /\ {g[l].sort : l \in DOMAIN f} = 0 .. (Cardinality(DOMAIN f) - 1)
  BY RebuiltIs
<1>2. ASSUME NEW r \in Rests(g)
      PROVE  \E p \in Previous(g, BySort(g), r) : Ends(g, r) = <<g[p].end, g[p].end>>
  <2>1. r \in Rests(f)
    BY <1>1
  <2>2. \E p \in Previous(g, BySort(g), r) : g[p].end = f[NearestDriveStop(f, tie, r)].end
    BY <2>1, RestsAreBehind
  <2> QED
    BY <1>1, <2>1, <2>2 DEF Ends
<1> QED
  BY <1>1, <1>2 DEF InOrder

\* There is at most one leg right before another.
LEMMA OnePrevious ==
    ASSUME NEW f, NEW tie, NEW l, NEW p \in Previous(f, tie, l), NEW q \in Previous(f, tie, l)
    PROVE  p = q
  BY DEF Previous

\* A leg that starts where the one before it ends is chained.
LEMMA ChainedWhereItStarts ==
    ASSUME NEW f, IsTrip(f), AllDiffer(f), NEW l \in DOMAIN f,
           \A p \in Previous(f, BySort(f), l) : f[l].start = f[p].end
    PROVE  ChainedAt(f, l)
<1> SUFFICES ASSUME NEW p \in Previous(f, BySort(f), l), f[p].end # None
             PROVE  /\ f[l].start # None
                    /\ Km(f[p].end, f[l].start) <= DEFAULT_CONTINUITY_EPSILON_KM
  BY DEF ChainedAt
<1>1. f[l].start = f[p].end
  OBVIOUS
<1>2. p \in DOMAIN f
  BY NoTies, PreviousIs
<1>3. f[p].end \in Int
  BY <1>2, PlaceAssumption DEF IsTrip, Legs, Spots
<1>4. Km(f[p].end, f[p].end) = 0
  BY <1>3, KmIsADistance
<1> QED
  BY <1>1, <1>4 DEF DEFAULT_CONTINUITY_EPSILON_KM

\* The rest days of a trip in order are chained.
LEMMA RestsAreChained ==
    ASSUME NEW f, IsTrip(f), InOrder(f), NEW r \in Rests(f)
    PROVE  ChainedAt(f, r)
<1>1. AllDiffer(f)
  BY InOrderIs
<1>2. PICK p \in Previous(f, BySort(f), r) : Ends(f, r) = <<f[p].end, f[p].end>>
  BY DEF InOrder
<1>3. f[r].start = f[p].end
  BY <1>2 DEF Ends
<1>4. \A q \in Previous(f, BySort(f), r) : f[r].start = f[q].end
  BY <1>2, <1>3, OnePrevious
<1>5. r \in DOMAIN f
  BY DEF Rests
<1> QED
  BY <1>1, <1>4, <1>5, ChainedWhereItStarts

\* The plan of a repair covers every leg ahead that is not chained.
LEMMA PlanCovers ==
    ASSUME NEW f, IsTrip(f), InOrder(f), NEW tie, NEW at, NEW targets,
           targets = RepairTargets(f, tie, at)
    PROVE  WillBeChained(f, at, targets)
<1>1. AllDiffer(f)
  BY InOrderIs
<1>2. /\ Breaks(tie, f) /\ Breaks(BySort(f), f)
      /\ \A l \in DOMAIN f : /\ Index(f, tie, l) = Index(f, BySort(f), l)
                              /\ Previous(f, tie, l) = Previous(f, BySort(f), l)
  BY <1>1, NoTies
<1>3. AnchorIndex(f, tie, at) = AnchorIndex(f, BySort(f), at)
  BY <1>2 DEF AnchorIndex
<1>4. \A t \in targets : t.fix => \A p \in Previous(f, BySort(f), t.leg) : t.origin = f[p].end
  <2>1. \A t \in targets : /\ t.leg \in DOMAIN f
                           /\ t.fix => \A p \in Previous(f, tie, t.leg) : t.origin = f[p].end
    BY <1>2, TargetsAre
  <2> QED
    BY <1>2, <2>1
<1>5. ASSUME NEW l \in Ahead(f, at)
      PROVE  ChainedAt(f, l) \/ \E t \in targets : t.fix /\ t.leg = l
  <2>1. l \in DOMAIN f /\ Index(f, tie, l) > AnchorIndex(f, tie, at)
    BY <1>2, <1>3, <1>5 DEF Ahead
  <2>2. CASE l \in Rests(f)
    BY <2>2, RestsAreChained
  <2>3. CASE l \in Drives(f)
    <3>1. ASSUME ~\E t \in targets : t.fix /\ t.leg = l,
                 NEW p \in Previous(f, BySort(f), l), f[p].end # None
          PROVE  /\ f[l].start # None
                 /\ Km(f[p].end, f[l].start) <= DEFAULT_CONTINUITY_EPSILON_KM
      <4>1. p \in Previous(f, tie, l)
        BY <1>2, <2>1, <3>1
      <4> QED
        BY <1>2, <2>1, <2>3, <3>1, <4>1, TargetsCover
    <3> QED
      BY <3>1 DEF ChainedAt
  <2> QED
    BY <2>1, <2>2, <2>3, Kinds
<1> QED
  BY <1>4, <1>5 DEF WillBeChained

\* One step of the repair leaves one leg less to move.
LEMMA RepairChains ==
    ASSUME NEW f, IsTrip(f), InOrder(f), NEW g, IsTrip(g), DOMAIN g = DOMAIN f,
           NEW at, NEW targets, WillBeChained(f, at, targets), NEW t \in targets,
           \A u \in targets : u.leg \in DOMAIN f, t.fix => t.leg \in Drives(f),
           \A k \in DOMAIN f \ {t.leg} : g[k] = f[k],
           g[t.leg].kind = f[t.leg].kind, g[t.leg].sort = f[t.leg].sort,
           g[t.leg].end = f[t.leg].end, g[t.leg].start = t.origin,
           ~t.fix => g[t.leg].start = f[t.leg].start
    PROVE  InOrder(g) /\ WillBeChained(g, at, targets \ {t})
<1>1. \A l \in DOMAIN f : /\ g[l].sort = f[l].sort /\ g[l].kind = f[l].kind
                          /\ g[l].end = f[l].end
  OBVIOUS
<1>2. \A r \in Rests(f) : g[r].start = f[r].start
  BY Kinds DEF Rests
<1>3. /\ InOrder(g)
      /\ \A l \in DOMAIN f : Previous(g, BySort(g), l) = Previous(f, BySort(f), l)
      /\ Ahead(g, at) = Ahead(f, at)
  BY <1>1, <1>2, InOrderKept
<1>4. AllDiffer(f) /\ AllDiffer(g)
  BY <1>3, InOrderIs
<1>5. \A l \in DOMAIN f : \A p \in Previous(f, BySort(f), l) : p \in DOMAIN f
  BY <1>4, NoTies, PreviousIs
<1>6. \A u \in targets \ {t} : u.fix =>
        \A p \in Previous(g, BySort(g), u.leg) : u.origin = g[p].end
  BY <1>1, <1>3, <1>5 DEF WillBeChained
<1>7. ASSUME NEW l \in Ahead(f, at)
      PROVE  ChainedAt(g, l) \/ \E u \in targets \ {t} : u.fix /\ u.leg = l
  <2>1. l \in DOMAIN f
    BY DEF Ahead
  <2>2. CASE t.fix /\ t.leg = l
    <3>1. \A p \in Previous(g, BySort(g), l) : g[l].start = g[p].end
      BY <1>1, <1>3, <1>5, <2>1, <2>2 DEF WillBeChained
    <3> QED
      BY <1>4, <2>1, <3>1, ChainedWhereItStarts
  <2>3. CASE ~(t.fix /\ t.leg = l) /\ ChainedAt(f, l)
    <3>1. g[l].start = f[l].start
      BY <2>1, <2>3
    <3> QED
      BY <1>1, <1>3, <1>5, <2>1, <2>3, <3>1 DEF ChainedAt
  <2>4. CASE ~(t.fix /\ t.leg = l) /\ ~ChainedAt(f, l)
    <3>1. \E u \in targets : u.fix /\ u.leg = l
      BY <2>4 DEF WillBeChained
    <3> QED
      BY <2>4, <3>1
  <2> QED
    BY <2>2, <2>3, <2>4
<1> QED
  BY <1>3, <1>6, <1>7 DEF WillBeChained

-----------------------------------------------------------------------------
(* What a settled trip is *)

LEMMA SettledKept ==
    ASSUME TypeOK, ShapeInv, TargetInv, SettledInv, Next, TypeOK', ShapeInv'
    PROVE  SettledInv'
<1>1. IsTrip(legs) /\ IsTrip(legs') /\ anchor \in LegIds \cup {None}
  <2>1. LegIds \subseteq Nat
    BY DEF LegIds
  <2> QED
    BY <2>1, StateIs DEF TypeOK, ShapeInv, IsTrip
<1>2. ASSUME ~Undisturbed', turn'.pc \notin {"plan", "repair", "sync"} \/ ~turn'.whole
      PROVE  SettledInv'
  BY <1>2 DEF SettledInv
<1>3. ASSUME legs' = legs, anchor' = anchor, anchorDay' = anchorDay, startDay' = startDay,
             endDay' = endDay, Undisturbed' => Undisturbed,
             turn'.pc \notin {"plan", "repair", "sync"}
      PROVE  SettledInv'
  BY <1>3 DEF SettledInv
<1>4. ASSUME NEW batch \in Batches, StartTurn(batch)
      PROVE  SettledInv'
  <2>1. /\ legs' = legs /\ anchor' = anchor /\ anchorDay' = anchorDay /\ startDay' = startDay
        /\ endDay' = endDay /\ troubled' = troubled
    BY <1>4 DEF StartTurn, Dates
  <2>2. turn.pc = "idle" /\ turn'.pc = "dispatch"
    BY <1>4, TurnStands
  <2> QED
    BY <1>3, <2>1, <2>2 DEF Undisturbed
<1>5. CASE Skip \/ EditThrows
  <2>1. /\ legs' = legs /\ anchor' = anchor /\ anchorDay' = anchorDay /\ startDay' = startDay
        /\ endDay' = endDay /\ troubled' = troubled
    BY <1>5 DEF Skip, EditThrows, Dates
  <2>2. turn.pc = "dispatch" /\ Advanced(FALSE)
    BY <1>5, EditsAdvance
  <2> QED
    BY <1>3, <2>1, <2>2 DEF Undisturbed, Advanced
<1>6. CASE DeleteLeg \/ UpdateLeg \/ AddLeg \/ RenameTrip \/ PinTrip
  <2>1. Advanced(TRUE)
    BY <1>6, EditsAdvance
  <2> QED
    BY <1>2, <2>1 DEF Undisturbed, Advanced
<1>7. CASE UpdateLegThrows \/ AddLegThrows \/ RenameTripThrows \/ PinTripThrows \/ ReportThrows
  <2>1. Advanced(FALSE) /\ troubled'
    BY <1>7, EditsAdvance
  <2> QED
    BY <1>2, <2>1 DEF Undisturbed, Advanced
<1>14. CASE ReportPosition \/ RerouteLeg
  <2>1. turn'.pc \in {"reroute", "pin"}
    BY <1>14, ReportIs, RerouteIs DEF Stepped
  <2> QED
    BY <1>2, <2>1 DEF Undisturbed
<1>8. CASE RebuildTripSchedule
  <2>1. turn'.pc = "plan"
    BY <1>8, TurnStands
  <2>2. PICK tie \in Ties(legs) : legs' = Rebuilt(legs, tie)
    BY <1>8 DEF RebuildTripSchedule
  <2>3. Breaks(tie, legs)
    BY <1>1, TieBreaks
  <2>4. Drives(legs') # {} => InOrder(legs')
    <3>1. CASE Drives(legs) = {}
      BY <2>2, <3>1 DEF Rebuilt
    <3>2. CASE Drives(legs) # {}
      BY <1>1, <2>2, <2>3, <3>2, RebuiltInOrder
    <3> QED
      BY <3>1, <3>2
  <2>5. EndsApart(legs') => Rebuilt(legs', BySort(legs')) = legs'
    <3> SUFFICES ASSUME EndsApart(legs') PROVE Rebuilt(legs', BySort(legs')) = legs'
      OBVIOUS
    <3>1. \A d \in Drives(legs') :
             /\ legs'[d].end # None
             /\ \A e \in Drives(legs') \ {d} : legs'[e].end # legs'[d].end
      BY DEF EndsApart
    <3> QED
      BY <1>1, <2>2, <2>3, <3>1, RebuiltAgain
  <2>6. ~Undisturbed'
    BY <2>1 DEF Undisturbed
  <2> QED
    BY <2>1, <2>4, <2>5, <2>6 DEF SettledInv
<1>9. CASE RebuildThrows \/ RepairThrows
  <2>1. turn'.pc \in {"plan", "sync"} /\ ~turn'.whole
    BY <1>9, TurnStands
  <2> QED
    BY <1>2, <2>1 DEF Undisturbed
<1>10. CASE PlanRepair
  <2>1. turn.pc = "plan" /\ legs' = legs /\ anchor' = anchor /\ (turn'.whole <=> turn.whole)
    BY <1>10, PlanIs
  <2>2. PICK tie \in Ties(legs) :
          /\ turn'.targets = RepairTargets(legs, tie, anchor)
          /\ turn'.pc = IF RepairTargets(legs, tie, anchor) = {} THEN "sync" ELSE "repair"
    BY <1>10, PlanIs
  <2>3. ASSUME turn'.whole, Drives(legs) # {}
        PROVE  InOrder(legs) /\ WillBeChained(legs, anchor, turn'.targets)
    <3>1. InOrder(legs)
      BY <2>1, <2>3 DEF SettledInv
    <3> QED
      BY <1>1, <2>2, <3>1, PlanCovers
  <2>4. WillBeChained(legs, anchor, {}) => Chained(legs, anchor)
    BY DEF WillBeChained, Chained
  <2>5. turn'.pc \in {"sync", "repair"} /\ (turn'.pc = "sync" => turn'.targets = {})
    BY <2>2
  <2>6. ~Undisturbed'
    BY <2>5 DEF Undisturbed
  <2> QED
    BY <2>1, <2>3, <2>4, <2>5, <2>6 DEF SettledInv
<1>11. CASE RepairLeg
  <2>1. turn.pc = "repair" /\ anchor' = anchor /\ (turn'.whole <=> turn.whole)
    BY <1>11, RepairIs
  <2>2. PICK t \in turn.targets :
          /\ turn'.targets = turn.targets \ {t}
          /\ turn'.pc \in {"repair", "sync"}
          /\ turn'.pc = "sync" => turn.targets = {t}
          /\ DOMAIN legs' = DOMAIN legs /\ t.leg \in DOMAIN legs
          /\ \A k \in DOMAIN legs \ {t.leg} : legs'[k] = legs[k]
          /\ legs'[t.leg].kind = legs[t.leg].kind /\ legs'[t.leg].sort = legs[t.leg].sort
          /\ legs'[t.leg].start = t.origin /\ legs'[t.leg].end = legs[t.leg].end
          /\ ~t.fix => legs'[t.leg].start = legs[t.leg].start
    BY <1>11, RepairIs
  <2>3. Drives(legs') = Drives(legs)
    BY <2>2 DEF Drives
  <2>4. \A u \in turn.targets : u.leg \in DOMAIN legs /\ (u.fix => u.leg \in Drives(legs))
    BY DEF TargetInv
  <2>5. ASSUME turn'.whole, Drives(legs') # {}
        PROVE  InOrder(legs') /\ WillBeChained(legs', anchor, turn'.targets)
    <3>1. InOrder(legs) /\ WillBeChained(legs, anchor, turn.targets)
      BY <2>1, <2>3, <2>5 DEF SettledInv
    <3>2. InOrder(legs') /\ WillBeChained(legs', anchor, turn.targets \ {t})
      BY <1>1, <2>2, <2>4, <3>1, RepairChains
    <3> QED
      BY <2>2, <3>2
  <2>6. WillBeChained(legs', anchor, {}) => Chained(legs', anchor)
    BY DEF WillBeChained, Chained
  <2>7. turn'.pc = "sync" => turn'.targets = {}
    BY <2>2
  <2>8. ~Undisturbed' /\ turn'.pc # "plan"
    BY <2>2 DEF Undisturbed
  <2> QED
    BY <2>1, <2>5, <2>6, <2>7, <2>8 DEF SettledInv
<1>12. CASE SyncTripEndDate
  <2>1. turn'.pc = "idle" /\ turn.pc = "sync"
    BY <1>12, TurnStands DEF SyncTripEndDate, At
  <2>2. /\ legs' = legs /\ anchor' = anchor /\ anchorDay' = anchorDay /\ startDay' = startDay
        /\ troubled' = ~turn.whole
    BY <1>12 DEF SyncTripEndDate
  <2>3. EndIsLastDay(legs', anchor', anchorDay', startDay', endDay')
    BY <1>12, <2>2 DEF SyncTripEndDate, EndIsLastDay
  <2>4. Undisturbed' /\ Drives(legs) # {} => InOrder(legs) /\ Chained(legs, anchor)
    BY <2>1, <2>2 DEF Undisturbed, SettledInv
  <2> QED
    BY <2>1, <2>2, <2>3, <2>4 DEF SettledInv
<1>13. CASE SyncThrows \/ Killed
  <2>1. turn'.pc = "idle" /\ troubled'
    BY <1>13, TurnStands DEF SyncThrows, Killed
  <2> QED
    BY <1>2, <2>1 DEF Undisturbed
<1> QED
  BY <1>4, <1>5, <1>6, <1>7, <1>8, <1>9, <1>10, <1>11, <1>12, <1>13, <1>14 DEF Next

-----------------------------------------------------------------------------
(* The gate *)

\* The next delete of a batch is dispatched: it is held back, or it goes through.
LEMMA GateGoesOn ==
    ASSUME TypeOK, ShapeInv, GateInv, turn.pc = "dispatch", turn.plain, OnlyDeletes(turn.batch),
           NEW b \in BOOLEAN, b, NEW a \in BOOLEAN,
           turn' = AfterEdit([turn EXCEPT !.plain = b], a),
           \/ Edit.leg \in turn.blocked /\ legs' = legs
           \/ Edit.leg \notin turn.blocked /\ legs' = Without(legs, Edit.leg)
    PROVE  GateInv'
<1>1. turn.batch \in Batches /\ turn.at \in 1..Len(turn.batch) /\ Len(turn.batch) \in Nat
      /\ turn \in TurnRecords
  BY StateIs, BatchAssumption
<1>2. PICK f, tie, n : GateSaw(f, tie, n, turn, legs)
  BY DEF GateInv
<1>3. /\ turn'.batch = turn.batch /\ turn'.gaps = turn.gaps /\ turn'.blocked = turn.blocked
      /\ turn'.pc = "dispatch" => turn.at < Len(turn.batch) /\ turn'.at = turn.at + 1
      /\ turn'.pc # "dispatch" => turn.at = Len(turn.batch)
  <2> DEFINE rec == [turn EXCEPT !.plain = b]
             more == turn.at < Len(turn.batch)
             at2 == IF more THEN turn.at + 1 ELSE turn.at
             applied2 == turn.applied \/ a
             pc2 == CASE more -> "dispatch"
                      [] ~more /\ (turn.applied \/ a) -> "rebuild"
                      [] OTHER -> "idle"
  <2>1. turn' = [rec EXCEPT !.at = at2, !.applied = applied2, !.pc = pc2]
    BY <1>1 DEF AfterEdit, TurnRecords
  <2>2. /\ pc2 = "dispatch" => more
        /\ pc2 # "dispatch" => ~more
    <3>1. CASE more
      BY <3>1
    <3>2. CASE ~more /\ (turn.applied \/ a)
      BY <3>2
    <3>3. CASE ~more /\ ~(turn.applied \/ a)
      BY <3>3
    <3> QED
      BY <3>1, <3>2, <3>3
  <2>3. /\ more => at2 = turn.at + 1
        /\ ~more => turn.at = Len(turn.batch)
    BY <1>1
  <2> HIDE DEF at2, applied2, pc2
  <2>4. turn'.batch = turn.batch /\ turn'.gaps = turn.gaps /\ turn'.blocked = turn.blocked
        /\ turn'.pc = pc2 /\ turn'.at = at2
    BY <1>1, <2>1 DEF TurnRecords
  <2> QED
    BY <2>2, <2>3, <2>4
<1>4. Dispatched(turn') = Dispatched(turn) \cup {turn.at}
  BY <1>1, <1>3 DEF Dispatched
<1> DEFINE gone == {turn.batch[i].leg : i \in Dispatched(turn)} \ turn.blocked
           gone2 == {turn.batch[i].leg : i \in Dispatched(turn')} \ turn.blocked
<1>5. gone2 = IF Edit.leg \in turn.blocked THEN gone ELSE gone \cup {Edit.leg}
  BY <1>4 DEF Edit
<1> HIDE DEF gone2
<1>6. legs = Restrict(f, DOMAIN f \ gone)
  BY <1>2 DEF GateSaw
<1> HIDE DEF gone
<1>7. legs' = Restrict(f, DOMAIN f \ gone2)
  BY <1>5, <1>6 DEF Without, Restrict
<1>8. GateSaw(f, tie, n, turn', legs')
  BY <1>2, <1>3, <1>7 DEF GateSaw, gone2
<1> QED
  BY <1>1, <1>3, <1>8 DEF GateInv

\* A turn starts with what the gate has just seen.
LEMMA GateStarts ==
    ASSUME TypeOK, ShapeInv, NEW batch \in Batches, StartTurn(batch)
    PROVE  GateInv'
<1>1. PICK tie \in Ties(legs) :
        turn' = [NoTurn EXCEPT !.pc = "dispatch", !.batch = batch, !.at = 1,
                     !.blocked = FindGapCreatingDeletes(legs, tie, batch, born + 1),
                     !.gaps = GapKeys(legs, tie),
                     !.plain = (Ties(legs) = {tie})]
  BY DEF StartTurn
<1> DEFINE blocked == FindGapCreatingDeletes(legs, tie, batch, born + 1)
           gaps == GapKeys(legs, tie)
           plain == (Ties(legs) = {tie})
<1>2. plain => AllDiffer(legs)
  BY OneOrder
<1> HIDE DEF blocked, gaps, plain
<1>3. turn' = [NoTurn EXCEPT !.pc = "dispatch", !.batch = batch, !.at = 1,
                   !.blocked = blocked, !.gaps = gaps, !.plain = plain]
  BY <1>1 DEF blocked, gaps, plain
<1>4. turn'.pc = "dispatch" /\ turn'.batch = batch /\ turn'.at = 1 /\ turn'.blocked = blocked
      /\ turn'.gaps = gaps /\ turn'.plain = plain
  BY <1>3 DEF NoTurn
<1>5. legs' = legs /\ IsTrip(legs)
  BY StateIs DEF StartTurn
<1>6. legs = Restrict(legs, DOMAIN legs \ ({batch[i].leg : i \in Dispatched(turn')} \ blocked))
  <2>1. Dispatched(turn') = {}
    BY <1>4 DEF Dispatched
  <2> QED
    BY <1>5, <2>1 DEF Restrict, IsTrip
<1>7. plain => GateSaw(legs, tie, born + 1, turn', legs')
  BY <1>2, <1>4, <1>5, <1>6 DEF GateSaw, blocked, gaps
<1> QED
  BY <1>4, <1>7 DEF GateInv

\* Every step keeps what the gate expects.
LEMMA GateKept ==
    ASSUME TypeOK, ShapeInv, GateInv, Next
    PROVE  GateInv'
<1>1. turn \in TurnRecords /\ (Editing => turn.at \in 1..Len(turn.batch))
  BY StateIs DEF Editing
<1>2. Editing /\ OnlyDeletes(turn.batch) => Edit.op = "delete"
  BY <1>1 DEF OnlyDeletes, Edit
<1>3. \A q \in TurnRecords, a \in BOOLEAN :
        AfterEdit(q, a).batch = q.batch /\ AfterEdit(q, a).plain = q.plain
  BY DEF AfterEdit, TurnRecords
<1>4. CASE Skip
  <2> DEFINE b == turn.plain /\ Blocked
             n == IF Edit.op = "update" /\ Resolved # {} THEN Claimed ELSE turn.newLegs
  <2>1. turn.pc = "dispatch" /\ legs' = legs
        /\ turn' = AfterEdit([turn EXCEPT !.newLegs = n, !.plain = b], FALSE)
    BY <1>4 DEF Skip, At
  <2>2. b \in BOOLEAN /\ n \in Seq(LegIds)
    BY <1>1, ClaimedIs DEF TurnRecords, Blocked
  <2>3. b => turn.plain /\ Edit.leg \in turn.blocked /\ Edit.op = "delete"
    BY DEF Blocked
  <2>9. b => n = turn.newLegs
    BY <2>3
  <2> HIDE DEF b, n
  <2>5. /\ [turn EXCEPT !.newLegs = n, !.plain = b] \in TurnRecords
        /\ n = turn.newLegs =>
              [turn EXCEPT !.newLegs = n, !.plain = b] = [turn EXCEPT !.plain = b]
    BY <1>1, <2>2 DEF TurnRecords
  <2>4. b => turn' = AfterEdit([turn EXCEPT !.plain = b], FALSE)
    BY <2>1, <2>5, <2>9
  <2>6. turn'.batch = turn.batch /\ turn'.plain = b
    BY <1>1, <1>3, <2>1, <2>5 DEF TurnRecords
  <2>7. CASE b /\ OnlyDeletes(turn.batch)
    BY <2>1, <2>2, <2>3, <2>4, <2>7, GateGoesOn
  <2>8. CASE ~(b /\ OnlyDeletes(turn.batch))
    BY <2>6, <2>8 DEF GateInv
  <2> QED
    BY <2>7, <2>8
<1>5. CASE DeleteLeg
  <2>1. turn.pc = "dispatch" /\ Edit.op = "delete" /\ ~Blocked /\ turn' = AfterEdit(turn, TRUE)
    BY <1>5 DEF DeleteLeg, Dispatching, At
  <2>2. PICK l \in Resolved : legs' = Without(legs, l)
    BY <1>5 DEF DeleteLeg
  <2>3. l = Edit.leg /\ Edit.leg \notin turn.blocked
    BY <2>1 DEF Resolved, Blocked
  <2>4. turn'.batch = turn.batch /\ turn'.plain = turn.plain
    BY <1>1, <1>3, <2>1
  <2>5. CASE turn.plain /\ OnlyDeletes(turn.batch)
    <3>1. turn = [turn EXCEPT !.plain = TRUE]
      BY <1>1, <2>5 DEF TurnRecords
    <3>2. turn' = AfterEdit([turn EXCEPT !.plain = TRUE], TRUE)
      BY <2>1, <3>1
    <3> QED
      BY <2>1, <2>2, <2>3, <2>5, <3>2, GateGoesOn
  <2>6. CASE ~(turn.plain /\ OnlyDeletes(turn.batch))
    BY <2>4, <2>6 DEF GateInv
  <2> QED
    BY <2>5, <2>6
<1>6. CASE EditThrows
  <2>1. PICK q \in Unclaimed :
          turn' = AfterEdit([turn EXCEPT !.newLegs = q, !.plain = FALSE], FALSE)
    BY <1>6 DEF EditThrows
  <2>2. [turn EXCEPT !.newLegs = q, !.plain = FALSE] \in TurnRecords
    BY <1>1, ClaimedIs DEF TurnRecords
  <2>3. turn'.plain = FALSE
    BY <1>1, <1>3, <2>1, <2>2 DEF TurnRecords
  <2> QED
    BY <2>3 DEF GateInv
<1>7. CASE UpdateLeg \/ UpdateLegThrows \/ AddLeg \/ AddLegThrows \/ RenameTrip
           \/ RenameTripThrows \/ PinTrip \/ PinTripThrows \/ ReportThrows
  <2>1. Editing /\ Edit.op # "delete"
    <3>1. CASE PinTrip \/ PinTripThrows \/ ReportThrows
      BY <3>1 DEF PinTrip, PinTripThrows, ReportThrows, At, Editing, ShapeInv
    <3>2. CASE UpdateLeg \/ UpdateLegThrows \/ AddLeg \/ AddLegThrows \/ RenameTrip
               \/ RenameTripThrows
      BY <3>2 DEF UpdateLeg, UpdateLegThrows, AddLeg, AddLegThrows, RenameTrip, RenameTripThrows,
                  Dispatching, At, Editing
    <3> QED
      BY <1>7, <3>1, <3>2
  <2>2. turn'.batch = turn.batch
    <3>1. PICK q \in TurnRecords, a \in BOOLEAN : turn' = AfterEdit(q, a) /\ q.batch = turn.batch
      <4>1. turn.newLegs \in Seq(LegIds) /\ born + 1 \in LegIds
        BY StateIs DEF TurnRecords, LegIds
      <4>2. Append(turn.newLegs, born + 1) \in Seq(LegIds)
        BY <4>1
      <4>3. Claimed \in Seq(LegIds)
        BY ClaimedIs
      <4>4. /\ \A n \in Seq(LegIds) : [turn EXCEPT !.newLegs = n] \in TurnRecords
            /\ \A n \in Seq(LegIds) : [turn EXCEPT !.newLegs = n, !.plain = FALSE] \in TurnRecords
            /\ [turn EXCEPT !.plain = FALSE] \in TurnRecords
            /\ [turn EXCEPT !.next = None] \in TurnRecords
            /\ [turn EXCEPT !.next = None, !.plain = FALSE] \in TurnRecords
        BY <1>1 DEF TurnRecords
      <4>5. /\ \A n : [turn EXCEPT !.newLegs = n].batch = turn.batch
            /\ \A n : [turn EXCEPT !.newLegs = n, !.plain = FALSE].batch = turn.batch
            /\ [turn EXCEPT !.plain = FALSE].batch = turn.batch
            /\ [turn EXCEPT !.next = None].batch = turn.batch
            /\ [turn EXCEPT !.next = None, !.plain = FALSE].batch = turn.batch
        BY <1>1 DEF TurnRecords
      <4>6. CASE UpdateLeg
        BY <4>3, <4>4, <4>5, <4>6 DEF UpdateLeg
      <4>7. CASE UpdateLegThrows
        BY <4>3, <4>4, <4>5, <4>7 DEF UpdateLegThrows
      <4>8. CASE AddLeg
        BY <4>2, <4>4, <4>5, <4>8 DEF AddLeg
      <4>9. CASE AddLegThrows \/ RenameTripThrows
        BY <4>4, <4>5, <4>9 DEF AddLegThrows, RenameTripThrows
      <4>10. CASE RenameTrip
        BY <1>1, <4>10 DEF RenameTrip
      <4>11. CASE PinTrip
        BY <4>4, <4>5, <4>11 DEF PinTrip
      <4>12. CASE PinTripThrows \/ ReportThrows
        BY <4>4, <4>5, <4>12 DEF PinTripThrows, ReportThrows
      <4> QED
        BY <1>7, <4>6, <4>7, <4>8, <4>9, <4>10, <4>11, <4>12
    <3> QED
      BY <1>3, <3>1
  <2> QED
    BY <1>2, <2>1, <2>2 DEF GateInv
<1>12. CASE ReportPosition \/ RerouteLeg
  <2>1. turn'.pc \in {"reroute", "pin"}
    BY <1>12, ReportIs, RerouteIs DEF Stepped
  <2> QED
    BY <2>1 DEF GateInv
<1>8. CASE \E batch \in Batches : StartTurn(batch)
  BY <1>8, GateStarts
<1>9. CASE RebuildTripSchedule \/ RebuildThrows \/ RepairThrows \/ SyncTripEndDate \/ SyncThrows
           \/ Killed
  BY <1>9, TurnStands DEF GateInv
<1>10. CASE PlanRepair
  <2>1. turn'.pc \in {"sync", "repair"}
    BY <1>1, <1>10 DEF PlanRepair, TurnRecords
  <2> QED
    BY <2>1 DEF GateInv
<1>11. CASE RepairLeg
  <2>1. turn'.pc \in {"sync", "repair"}
    BY <1>1, <1>11 DEF RepairLeg, TurnRecords, At
  <2> QED
    BY <2>1 DEF GateInv
<1> QED
  BY <1>4, <1>5, <1>6, <1>7, <1>8, <1>9, <1>10, <1>11, <1>12 DEF Next

\* At the rebuild the whole batch has passed the gate.
LEMMA GateShows ==
    ASSUME TypeOK, ShapeInv, GateInv
    PROVE  DeletesLeaveNoNewGap
<1> DEFINE refused == turn.blocked \cap DeletesOf(turn.batch)
<1> SUFFICES ASSUME turn.pc = "rebuild", turn.plain, OnlyDeletes(turn.batch),
                    Cardinality(refused) <= 1 \/ refused = DeletesOf(turn.batch),
                    NEW tie2 \in Ties(legs)
             PROVE  GapKeys(legs, tie2) \subseteq turn.gaps
  BY DEF DeletesLeaveNoNewGap, OnlyDeletes, At
<1>1. PICK f, tie, n : GateSaw(f, tie, n, turn, legs)
  BY DEF GateInv
<1>2. turn.batch \in Seq(Edits) /\ turn.batch # <<>>
  BY BatchAssumption DEF GateInv
<1>3. Dispatched(turn) = DOMAIN turn.batch
  BY <1>2 DEF Dispatched
<1>4. {turn.batch[i].leg : i \in Dispatched(turn)} = DeletesOf(turn.batch)
  BY <1>2, <1>3 DEF DeletesOf, Range, OnlyDeletes
<1>5. legs = Left(f, turn.batch, turn.blocked)
  BY <1>1, <1>4 DEF GateSaw, Left
<1>6. GapKeys(Left(f, turn.batch, turn.blocked), tie2) \subseteq GapKeys(f, tie)
  BY <1>1, <1>2, GateHolds DEF GateSaw, OnlyDeletes
<1> QED
  BY <1>1, <1>5, <1>6 DEF GateSaw

-----------------------------------------------------------------------------
(* The invariant *)

\* The reads of a trip have some order.
LEMMA TieExists ==
    ASSUME NEW f
    PROVE  Ties(f) # {}
<1> DEFINE tie == [l \in Tied(f) |-> l]
<1>1. tie \in [Tied(f) -> Tied(f)] /\ IsInjective(tie)
  BY DEF IsInjective
<1> QED
  BY <1>1 DEF Ties

LEMMA Initially ==
    ASSUME Init
    PROVE  IInv
<1>1. /\ legs \in Trips /\ anchor = None /\ anchorDay = 0 /\ startDay = 0
      /\ endDay = Cardinality(DOMAIN legs) - 1 /\ born = Max({0} \cup DOMAIN legs)
      /\ turn = NoTurn /\ turns = 0 /\ mishaps = 0 /\ troubled = FALSE /\ strayed = {}
      /\ travelled = <<>>
  BY DEF Init
<1>2. /\ DOMAIN legs \subseteq LegIds /\ IsFiniteSet(DOMAIN legs)
      /\ legs \in [DOMAIN legs -> Legs]
      /\ \A l \in Drives(legs) : legs[l].route \in {None, <<legs[l].start, legs[l].end>>}
  BY <1>1, TripAssumption
<1>3. LegIds \subseteq Nat
  BY DEF LegIds
<1>4. born \in Nat /\ \A l \in DOMAIN legs : l <= born
  <2> DEFINE ids == {0} \cup DOMAIN legs
  <2>1. ids \in SUBSET Int /\ IsFiniteSet(ids) /\ ids # {} /\ ids \subseteq Nat
    BY <1>2, <1>3, FS_AddElement
  <2>2. Max(ids) \in ids /\ \A x \in ids : x <= Max(ids)
    BY <2>1, MaxIsGreatest
  <2> QED
    BY <1>1, <2>1, <2>2
<1>5. /\ turn \in TurnRecords /\ turn.pc = "idle" /\ turn.targets = {} /\ turn.whole
  BY <1>1, NoTurnIs
<1>6. DOMAIN travelled = {}
  BY <1>1
<1>7. Cardinality(DOMAIN legs) \in Nat
  BY <1>2, FS_CardinalityType
<1>8. TypeOK
  <2>1. travelled \in [DOMAIN travelled -> Spots \X Spots] /\ DOMAIN travelled \subseteq LegIds
    BY <1>1, <1>6
  <2>2. anchor \in LegIds \cup {None} /\ {anchorDay, startDay, endDay} \subseteq Int
    BY <1>1, <1>7
  <2>3. turns \in Nat /\ mishaps \in Nat /\ troubled \in BOOLEAN /\ strayed \subseteq DOMAIN legs
    BY <1>1
  <2> QED
    BY <1>2, <1>4, <1>5, <2>1, <2>2, <2>3 DEF TypeOK
<1>9. ShapeInv /\ TargetInv
  BY <1>1, <1>2, <1>5 DEF ShapeInv, TargetInv, Editing
<1>10. RouteIsOfItsLeg
  BY <1>2 DEF RouteIsOfItsLeg, Ends
<1>11. BehindInv
  BY <1>6 DEF BehindInv
<1>12. SettledInv
  <2>1. None \notin DOMAIN legs
    BY <1>2, <1>3, PlaceAssumption
  <2>2. EndIsLastDay(legs, anchor, anchorDay, startDay, endDay)
    <3>1. \A tie : LastDay(legs, tie, anchor, anchorDay, startDay) = 0 + Cardinality(DOMAIN legs) - 1
      BY <1>1, <2>1 DEF LastDay
    <3>2. PICK tie \in Ties(legs) : TRUE
      BY TieExists
    <3> QED
      BY <1>1, <1>7, <3>1, <3>2 DEF EndIsLastDay
  <2>3. Drives(legs) # {} => InOrder(legs) /\ Chained(legs, anchor)
    BY <1>1, SettledTripAssumption DEF Chained
  <2> QED
    BY <1>5, <2>2, <2>3 DEF SettledInv
<1> QED
  BY <1>5, <1>8, <1>9, <1>10, <1>11, <1>12 DEF IInv, GateInv

LEMMA IInvKept ==
    ASSUME IInv, [Next]_vars
    PROVE  IInv'
<1>1. CASE Next
  <2>1. TypeOK' /\ ShapeInv'
    BY <1>1, TypesKept DEF IInv
  <2>2. TargetInv' /\ RouteIsOfItsLeg' /\ BehindInv' /\ SettledInv'
    BY <1>1, <2>1, TargetsKept, RoutesKept, BehindKept, SettledKept DEF IInv
  <2>3. GateInv'
    BY <1>1, GateKept DEF IInv
  <2> QED
    BY <2>1, <2>2, <2>3 DEF IInv
<1>2. CASE UNCHANGED vars
  <2>1. /\ legs' = legs /\ anchor' = anchor /\ anchorDay' = anchorDay /\ startDay' = startDay
        /\ endDay' = endDay /\ born' = born /\ turn' = turn /\ turns' = turns
        /\ mishaps' = mishaps /\ troubled' = troubled /\ strayed' = strayed
        /\ travelled' = travelled
    BY <1>2 DEF vars
  <2>2. TypeOK' /\ ShapeInv' /\ TargetInv'
    BY <2>1 DEF IInv, TypeOK, ShapeInv, TargetInv, Editing, Edit
  <2>3. RouteIsOfItsLeg' /\ BehindInv'
    BY <2>1 DEF IInv, RouteIsOfItsLeg, BehindInv, Ends
  <2>4. SettledInv'
    BY <2>1 DEF IInv, SettledInv, Undisturbed
  <2>5. GateInv'
    BY <2>1 DEF IInv, GateInv
  <2> QED
    BY <2>2, <2>3, <2>4, <2>5 DEF IInv
<1> QED
  BY <1>1, <1>2

LEMMA Inductive == Spec => []IInv
  BY Initially, IInvKept, PTL DEF Spec

-----------------------------------------------------------------------------
(* The theorems *)

\* Whatever Penny queues and whatever fails, the legs, the dates and the turn's record stay
\* well formed: every leg has a place in the order, spots for ends and a route of known
\* places or none (trips.ts, legs.ts: what the turn's statements write).
THEOREM TypesHold == Spec => []TypeOK
<1>1. IInv => TypeOK
  BY DEF IInv
<1> QED
  BY <1>1, Inductive, PTL

\* A drive's stored route is the one between its endpoints, whatever threw or was killed,
\* unless a report moved its start and no route from there has been stored since (trips.ts,
\* applyTripProgress, rerouteLeg and resolveContinuityRoute).
THEOREM RoutesBelong == Spec => []RouteIsOfItsLeg
<1>1. IInv => RouteIsOfItsLeg
  BY DEF IInv
<1> QED
  BY <1>1, Inductive, PTL

\* No rebuild, no repair and no edit of another leg changes a drive behind the driver
\* (trips.ts, computeStartFixes: we leave the behind-you legs alone).
THEOREM BehindStays == Spec => []BehindYouUntouched
<1>1. IInv => BehindYouUntouched
  BY DEF IInv, BehindInv, BehindYouUntouched
<1> QED
  BY <1>1, Inductive, PTL

\* After a turn in which nothing threw, the legs are one day after the other and every rest
\* day is spent where the day before it ends (trips.ts, rebuildTripSchedule).
THEOREM SettledInOrder == Spec => []DaysInOrder
<1>1. IInv => DaysInOrder
  BY DEF IInv, SettledInv, DaysInOrder, Settled, Undisturbed, At
<1> QED
  BY <1>1, Inductive, PTL

\* After such a turn the plan never jumps from the driver's current leg on (trips.ts,
\* repairLegContinuity).
THEOREM SettledChained == Spec => []NeverJumps
<1>1. IInv => NeverJumps
  BY DEF IInv, SettledInv, NeverJumps, Settled, Undisturbed, At, Chained
<1> QED
  BY <1>1, Inductive, PTL

\* A rebuild of a schedule just rebuilt writes nothing (trips.ts, rebuildTripSchedule: a
\* no-op when the trip is already correct).
THEOREM RebuildIsIdempotent == Spec => []RebuildSettles
<1>1. IInv => RebuildSettles
  BY DEF IInv, SettledInv, RebuildSettles, At
<1> QED
  BY <1>1, Inductive, PTL

\* Of a batch of deletes the gate lets nothing pass that leaves a new gap, unless it held
\* back several and not all (contiguityGate.ts, findGapCreatingDeletes).
THEOREM GateLeavesNoGap == Spec => []DeletesLeaveNoNewGap
<1>1. IInv => DeletesLeaveNoNewGap
  BY GateShows DEF IInv
<1> QED
  BY <1>1, Inductive, PTL

\* The last of the days the legs fall on.
LEMMA LastDayIs ==
    ASSUME TypeOK, ShapeInv, DOMAIN legs # {}, NEW tie \in Ties(legs)
    PROVE  LastDay(legs, tie, anchor, anchorDay, startDay) = Max({Date(tie, l) : l \in DOMAIN legs})
<1> DEFINE n == Cardinality(DOMAIN legs)
           first == IF anchor \in DOMAIN legs THEN anchorDay - Index(legs, tie, anchor)
                    ELSE startDay
           date == [l \in DOMAIN legs |-> Date(tie, l)]
           dates == {Date(tie, l) : l \in DOMAIN legs}
<1>1. IsTrip(legs) /\ Breaks(tie, legs) /\ anchorDay \in Int /\ startDay \in Int
  BY StateIs, TieBreaks
<1>2. n \in Nat
  BY <1>1, FS_CardinalityType DEF IsTrip
<1>3. /\ \A l \in DOMAIN legs : Index(legs, tie, l) \in 0 .. (n - 1)
      /\ {Index(legs, tie, l) : l \in DOMAIN legs} = 0 .. (n - 1)
  BY <1>1, IndexCounts
<1>4. first \in Int
  BY <1>1, <1>3
<1>5. \A l \in DOMAIN legs : Date(tie, l) = first + Index(legs, tie, l)
  BY <1>1, <1>3 DEF Date
<1>6. LastDay(legs, tie, anchor, anchorDay, startDay) = first + n - 1
  BY DEF LastDay
<1> HIDE DEF n, first
<1>7. \A l \in DOMAIN legs : Date(tie, l) \in Int /\ Date(tie, l) <= first + n - 1
  BY <1>2, <1>3, <1>4, <1>5
<1>8. first + n - 1 \in dates
  <2>1. n # 0
    BY <1>3
  <2>2. PICK l \in DOMAIN legs : Index(legs, tie, l) = n - 1
    BY <1>2, <1>3, <2>1
  <2> QED
    BY <1>2, <1>4, <1>5, <2>2
<1>9. dates \in SUBSET Int /\ dates # {}
  BY <1>7, <1>8
<1>10. IsFiniteSet(dates)
  <2>1. dates = {date[l] : l \in DOMAIN legs}
    OBVIOUS
  <2>2. IsFiniteSet(DOMAIN legs)
    BY <1>1 DEF IsTrip
  <2> HIDE DEF date, dates
  <2>3. IsFiniteSet({date[l] : l \in DOMAIN legs})
    BY <2>2, FiniteImage, Zenon
  <2> QED
    BY <2>1, <2>3
<1>11. Max(dates) \in dates /\ \A x \in dates : x <= Max(dates)
  BY <1>9, <1>10, MaxIsGreatest
<1>12. \A x \in dates : x <= first + n - 1
  BY <1>7
<1> HIDE DEF dates
<1>13. Max(dates) = first + n - 1
  <2> DEFINE last == Max(dates)
  <2>1. last \in dates /\ \A x \in dates : x <= last
    BY <1>11
  <2> HIDE DEF last
  <2>2. last \in Int /\ first + n - 1 \in Int /\ last <= first + n - 1 /\ first + n - 1 <= last
    BY <1>2, <1>4, <1>8, <1>9, <1>12, <2>1
  <2>3. last = first + n - 1
    BY <2>2
  <2> QED
    BY <2>3 DEF last
<1> QED
  BY <1>6, <1>13 DEF dates

\* After a turn in which nothing threw, the stored end date is the day of the last leg, as
\* the itinerary dates them (trips.ts, syncTripEndDateFromLegs).
THEOREM EndDateHolds == Spec => []EndDateIsLastDay
<1>1. ASSUME IInv PROVE EndDateIsLastDay
  <2> SUFFICES ASSUME Settled, DOMAIN legs # {}
               PROVE  \E tie \in Ties(legs) : endDay = Max({Date(tie, l) : l \in DOMAIN legs})
    BY DEF EndDateIsLastDay
  <2>1. EndIsLastDay(legs, anchor, anchorDay, startDay, endDay)
    BY <1>1 DEF IInv, SettledInv, Settled, Undisturbed, At
  <2>2. PICK tie \in Ties(legs) : endDay = LastDay(legs, tie, anchor, anchorDay, startDay)
    BY <2>1 DEF EndIsLastDay
  <2>3. endDay = Max({Date(tie, l) : l \in DOMAIN legs})
    BY <1>1, <2>2, LastDayIs DEF IInv
  <2> QED
    BY <2>3
<1> QED
  BY <1>1, Inductive, PTL

\* A rebuild loses no leg, never swaps two drives, and leaves a rest day where it is while
\* some drive ends there (scheduleRebuild.ts, materializeSchedule).
THEOREM RebuildKeeps == Spec => RebuildKeepsTheRoute
<1> DEFINE Keeps == /\ DOMAIN legs' = DOMAIN legs
                    /\ \A d, e \in Drives(legs) :
                          legs[d].sort < legs[e].sort => legs'[d].sort < legs'[e].sort
                    /\ \A d \in Drives(legs), r \in Rests(legs) :
                          legs[r].start # None /\ legs[r].start = legs[d].end =>
                              legs'[r].start = legs[r].start
<1>1. ASSUME IInv, Next, turn.pc = "rebuild", turn'.pc = "plan"
      PROVE  Keeps
  <2>1. TypeOK /\ ShapeInv
    BY <1>1 DEF IInv
  <2>2. RebuildTripSchedule \/ RebuildThrows \/ Killed
    BY <1>1 DEF Next, StartTurn, Skip, EditThrows, DeleteLeg, UpdateLeg, UpdateLegThrows, AddLeg,
                AddLegThrows, RenameTrip, RenameTripThrows, ReportPosition, RerouteLeg, PinTrip,
                PinTripThrows, ReportThrows, PlanRepair, RepairLeg, RepairThrows,
                SyncTripEndDate, SyncThrows, Dispatching, At
  <2>3. CASE RebuildThrows \/ Killed
    <3>1. legs' = legs
      BY <2>3 DEF RebuildThrows, Killed
    <3> QED
      BY <3>1
  <2>4. CASE RebuildTripSchedule
    <3>1. PICK tie \in Ties(legs) : legs' = Rebuilt(legs, tie)
      BY <2>4 DEF RebuildTripSchedule
    <3>2. IsTrip(legs) /\ Breaks(tie, legs)
      BY <2>1, StateIs, TieBreaks
    <3>3. CASE Drives(legs) = {}
      BY <3>1, <3>3 DEF Rebuilt
    <3>4. CASE Drives(legs) # {}
      <4>1. /\ DOMAIN legs' = DOMAIN legs
            /\ \A r \in Rests(legs) : legs'[r].start = legs[NearestDriveStop(legs, tie, r)].end
            /\ \A k, l \in DOMAIN legs :
                  legs'[k].sort < legs'[l].sort <=> Before(legs, tie, k, l)
        BY <3>1, <3>2, <3>4, RebuiltIs
      <4>2. \A d, e \in Drives(legs) : Before(legs, tie, d, e) <=> Precedes(legs, tie, d, e)
        BY <3>2, <3>4, BeforeOrders
      <4>3. Drives(legs) \subseteq DOMAIN legs /\ Rests(legs) \subseteq DOMAIN legs
        BY DEF Drives, Rests
      <4>4. \A d, e \in Drives(legs) :
               legs[d].sort < legs[e].sort => legs'[d].sort < legs'[e].sort
        BY <4>1, <4>2, <4>3 DEF Precedes
      <4>5. ASSUME NEW d \in Drives(legs), NEW r \in Rests(legs),
                   legs[r].start # None, legs[r].start = legs[d].end
            PROVE  legs'[r].start = legs[r].start
        <5>1. SpotOf(legs, r) = legs[r].start
          BY <4>5 DEF SpotOf
        <5>2. legs[NearestDriveStop(legs, tie, r)].end = SpotOf(legs, r)
          BY <3>2, <3>4, <4>3, <4>5, <5>1, StopIsADrive
        <5> QED
          BY <4>1, <5>1, <5>2
      <4> QED
        BY <4>1, <4>4, <4>5
    <3> QED
      BY <3>3, <3>4
  <2> QED
    BY <2>2, <2>3, <2>4
<1>2. ASSUME IInv, [Next]_vars
      PROVE  [turn.pc = "rebuild" /\ turn'.pc = "plan" => Keeps]_vars
  BY <1>1, <1>2
<1> QED
  BY <1>2, Inductive, PTL DEF Spec, RebuildKeepsTheRoute
=============================================================================
