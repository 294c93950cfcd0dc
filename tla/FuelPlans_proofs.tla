-------------------------- MODULE FuelPlans_proofs --------------------------
(***************************************************************************)
(* Proofs about lazy fuel planning, for any trip, any number of days and   *)
(* requests, and any number of changes: a day is searched once per         *)
(* request, a computing day is being planned, picks are kept, every field  *)
(* keeps its type, no undisturbed plan is stored over unplanned days, a    *)
(* plan has the fewest stops that reach the next day's fuel, and the days  *)
(* planned since the last change are those of the reference, whose ready   *)
(* days are drivable and whose warnings are honest.                        *)
(*                                                                         *)
(* The first half does not look into the arithmetic of a plan: what a      *)
(* request has burned, placed and reserved may be anything.  So the shape  *)
(* of the state is stated without types: which fields a request has, and   *)
(* which functions are over the legs.  The types come next, from the tank  *)
(* walk up; then the days a request puts before its own, and that one      *)
(* which meets nobody stands on planned days (SteadyInv); then the         *)
(* placement of stops.  Last comes the reference: that its recursions have *)
(* a solution, that firm days leave the tank as it has it, that a request  *)
(* standing on firm days plans its day, and that every step keeps this.    *)
(***************************************************************************)
EXTENDS FuelPlanProperties, FiniteOrders, SequenceTheorems

IsSeq(s) == \E S : s \in Seq(S)

Fields == {"pc", "target", "todo", "seen", "leg", "range", "anchor", "burn", "reserve", "at",
           "picked", "keep", "victims", "outcome", "known", "bill", "pure", "calm", "alone",
           "grounded"}

\* A request has all fields of one, whatever they hold.
ReqShape(q) ==
    /\ q = [f \in Fields |-> q[f]]
    /\ IsSeq(q.todo)
    /\ q.known = [l \in Legs |-> q.known[l]]
    /\ q.bill \in [Legs -> Nat]

\* What LazyInv says of one request.
ReqOK(q) ==
    /\ ReqShape(q)
    /\ q.pc \in Holding \cup {"load", "compute"} => q.todo # <<>>
    /\ \A s \in q.victims : s.state = "option"
    /\ \A l \in Legs : q.bill[l] = IF q.known[l] = {} THEN 0 ELSE 1
    /\ q.outcome # "computing"
    /\ q.pc # "idle" => q.target \in Legs

FuelInv ==
    /\ req = [r \in Requests |-> req[r]]
    /\ status = [l \in Legs |-> status[l]]
    /\ stops = [l \in Legs |-> stops[l]]
    /\ \A r \in Requests : ReqOK(req[r])
    /\ MarkIsHeld

LEMMA FuelInvLazy == FuelInv => LazyInv
  BY DEF FuelInv, LazyInv, HasADay, VictimsAreOptions, BillIsMemo, OutcomeIsKnown, ReqOK

\* A function stays one over the same set when one of its values is replaced.
LEMMA OneValue ==
    ASSUME NEW S, NEW f, f = [k \in S |-> f[k]], NEW l, NEW v
    PROVE  LET g == [f EXCEPT ![l] = v]
           IN  /\ g = [k \in S |-> g[k]]
               /\ \A k \in S : g[k] = IF k = l THEN v ELSE f[k]
  OBVIOUS

\* A counter goes up.
LEMMA OneMore ==
    ASSUME NEW S, NEW f \in [S -> Nat], NEW l
    PROVE  LET g == [f EXCEPT ![l] = @ + 1]
           IN  /\ g \in [S -> Nat]
               /\ \A k \in S : g[k] = IF k = l THEN f[k] + 1 ELSE f[k]
<1>1. CASE l \in S
  BY <1>1
<1>2. CASE l \notin S
  <2>1. [f EXCEPT ![l] = @ + 1] = f
    BY <1>2
  <2> QED
    BY <1>2, <2>1
<1> QED
  BY <1>1, <1>2

-----------------------------------------------------------------------------
(* Requests *)

LEMMA IdleOK == ReqOK(Idle) /\ Idle.pc = "idle" /\ Idle.victims = {}
<1>1. IsSeq(<<>>)
  BY DEF IsSeq
<1>2. /\ Idle.pc = "idle" /\ Idle.outcome = "none" /\ Idle.victims = {} /\ Idle.todo = <<>>
      /\ Idle.known = [l \in Legs |-> {}] /\ Idle.bill = [l \in Legs |-> 0]
  BY DEF Idle
<1>3. Idle = [f \in Fields |-> Idle[f]]
  BY DEF Idle, Fields
<1>4. "idle" \notin Holding \cup {"load", "compute"}
  BY DEF Holding
<1> QED
  BY <1>1, <1>2, <1>3, <1>4 DEF ReqOK, ReqShape

\* Fields that the invariant does not speak of may be anything.
LEMMA ForgetOK ==
    ASSUME NEW q, ReqOK(q)
    PROVE  /\ ReqOK(Forget(q))
           /\ Forget(q).pc = q.pc /\ Forget(q).todo = q.todo /\ Forget(q).victims = q.victims
  BY DEF ReqOK, ReqShape, Fields, Forget

\* A request may go on to any step while it has a day to plan.
LEMMA GoOK ==
    ASSUME NEW q, ReqOK(q), NEW pc, q.todo # <<>>, q.target \in Legs
    PROVE  LET p == [q EXCEPT !.pc = pc]
           IN  ReqOK(p) /\ p.pc = pc /\ p.todo = q.todo /\ p.victims = q.victims
  BY DEF ReqOK, ReqShape, Fields

LEMMA SearchingOK ==
    ASSUME NEW r \in Requests, ReqOK(req[r]), NEW l
    PROVE  LET p == Searching(r, l)
           IN  /\ ReqOK(p) /\ p.pc = req[r].pc /\ p.todo = req[r].todo
               /\ p.victims = req[r].victims
<1> DEFINE q == req[r]
           p == [q EXCEPT !.known[l] = {route[l].stations}, !.bill[l] = @ + 1]
<1>1. CASE Known(r, l)
  BY <1>1 DEF Searching
<1>2. CASE ~Known(r, l)
  <2>1. q = [f \in Fields |-> q[f]] /\ q.known = [k \in Legs |-> q.known[k]] /\ q.bill \in [Legs -> Nat]
    BY DEF ReqOK, ReqShape
  <2>2. /\ p = [f \in Fields |-> p[f]]
        /\ p.known = [q.known EXCEPT ![l] = {route[l].stations}]
        /\ p.bill = [q.bill EXCEPT ![l] = @ + 1]
        /\ p.pc = q.pc /\ p.todo = q.todo /\ p.victims = q.victims /\ p.outcome = q.outcome
        /\ p.target = q.target
    BY <2>1 DEF Fields
  <2> DEFINE known == q.known
             bill == q.bill
  <2>3. known = [k \in Legs |-> known[k]] /\ bill \in [Legs -> Nat]
    BY <2>1
  <2>4. \A k \in Legs : bill[k] = IF known[k] = {} THEN 0 ELSE 1
    BY DEF ReqOK
  <2>5. known[l] = {}
    BY <1>2 DEF Known
  <2> DEFINE known2 == [known EXCEPT ![l] = {route[l].stations}]
             bill2 == [bill EXCEPT ![l] = @ + 1]
  <2>6. p.known = known2 /\ p.bill = bill2
    BY <2>2
  <2> HIDE DEF known, bill, p
  <2>7. /\ known2 = [k \in Legs |-> known2[k]]
        /\ \A k \in Legs : known2[k] = IF k = l THEN {route[l].stations} ELSE known[k]
    BY <2>3, OneValue
  <2>8. /\ bill2 \in [Legs -> Nat]
        /\ \A k \in Legs : bill2[k] = IF k = l THEN bill[k] + 1 ELSE bill[k]
    BY <2>3, OneMore
  <2>12. \A k \in Legs : bill[k] = IF known[k] = {} THEN 0 ELSE 1
    BY <2>4 DEF bill, known
  <2>13. known[l] = {}
    BY <2>5 DEF known
  <2> HIDE DEF known2, bill2
  <2>11. ASSUME NEW k \in Legs PROVE bill2[k] = IF known2[k] = {} THEN 0 ELSE 1
    <3>1. CASE k = l
      <4>1. bill[k] = 0
        BY <2>12, <2>13, <3>1
      <4>2. bill2[k] = 1 /\ known2[k] = {route[l].stations}
        BY <2>7, <2>8, <3>1, <4>1
      <4> QED
        BY <4>2
    <3>2. CASE k # l
      <4>1. bill2[k] = bill[k] /\ known2[k] = known[k]
        BY <2>7, <2>8, <3>2
      <4> QED
        BY <2>12, <4>1
    <3> QED
      BY <3>1, <3>2
  <2> HIDE DEF known2, bill2
  <2>9. ReqOK(p)
    BY <2>2, <2>6, <2>7, <2>8, <2>11 DEF ReqOK, ReqShape
  <2>10. Searching(r, l) = p
    BY <1>2 DEF Searching, p
  <2> QED
    BY <2>2, <2>9, <2>10
<1> QED
  BY <1>1, <1>2

LEMMA InOrderIs ==
    ASSUME NEW S, IsFiniteSet(S)
    PROVE  /\ IsSeq(InOrder(S))
           /\ S # {} => InOrder(S) # <<>>
<1>1. Cardinality(S) \in Nat
  BY FS_CardinalityType
<1> DEFINE T == {CHOOSE l \in S : Cardinality({k \in S : k < l}) = i - 1 : i \in 1..Cardinality(S)}
<1>2. InOrder(S) \in [1..Cardinality(S) -> T]
  BY DEF InOrder
<1>3. InOrder(S) \in Seq(T)
  BY <1>1, <1>2, SeqDef
<1>4. S # {} => Cardinality(S) # 0
  BY FS_EmptySet
<1>5. Len(InOrder(S)) = Cardinality(S)
  BY <1>1, <1>2, <1>3, LenProperties
<1> QED
  BY <1>3, <1>4, <1>5 DEF IsSeq

\* The next day of a cascade.
LEMMA TailIs ==
    ASSUME NEW s, IsSeq(s), s # <<>>, Len(s) # 1
    PROVE  IsSeq(Tail(s)) /\ Tail(s) # <<>>
<1>1. PICK S : s \in Seq(S)
  BY DEF IsSeq
<1>2. Len(s) \in Nat
  BY <1>1, EmptySeq, LenProperties
<1>5. Len(s) - 1 # 0
  BY <1>2
<1>3. Tail(s) \in Seq(S) /\ Len(Tail(s)) = Len(s) - 1
  BY <1>1, HeadTailProperties
<1>4. ASSUME Tail(s) = <<>> PROVE FALSE
  <2>1. Len(Tail(s)) = 0
    BY <1>4, EmptySeq
  <2> QED
    BY <1>3, <1>5, <2>1
<1> QED
  BY <1>3, <1>4 DEF IsSeq

-----------------------------------------------------------------------------
(* Steps *)

\* The parts of the invariant about the tables and the requests' shape.
Functions == /\ req = [r \in Requests |-> req[r]]
             /\ status = [l \in Legs |-> status[l]]
             /\ stops = [l \in Legs |-> stops[l]]

\* A request that holds a day goes on holding it.
Keeps(q, p) == q.pc \in Holding => p.pc \in Holding /\ p.todo = q.todo

\* A step of one request that writes nothing to the row of a leg.
LEMMA RequestStep ==
    ASSUME FuelInv, NEW r \in Requests, NEW p, Put(r, p), ReqOK(p), Keeps(req[r], p),
           UNCHANGED <<status, abandoned>>, stops' = [l \in Legs |-> stops'[l]]
    PROVE  FuelInv'
<1>1. /\ req' = [s \in Requests |-> req'[s]]
      /\ \A s \in Requests : req'[s] = IF s = r THEN p ELSE req[s]
  BY OneValue DEF FuelInv, Put
<1>2. \A s \in Requests : ReqOK(req[s])'
  BY <1>1 DEF FuelInv
<1>3. \A s \in Requests, l \in Legs : Holds(s, l) => Holds(s, l)'
  BY <1>1 DEF Holds, Now, Keeps
<1>4. MarkIsHeld'
  BY <1>3 DEF FuelInv, MarkIsHeld
<1> QED
  BY <1>1, <1>2, <1>4 DEF FuelInv

\* A step that writes another status than computing to the row of leg k.
LEMMA RowStep ==
    ASSUME FuelInv, NEW k, NEW w, w # "computing", SetFuelStatus(k, w),
           req' = [s \in Requests |-> req'[s]], \A s \in Requests : ReqOK(req[s])',
           stops' = [l \in Legs |-> stops'[l]],
           \A s \in Requests, l \in Legs : Holds(s, l) => l = k \/ Holds(s, l)'
    PROVE  FuelInv'
<1>1. /\ status' = [l \in Legs |-> status'[l]]
      /\ \A l \in Legs : status'[l] = IF l = k THEN w ELSE status[l]
  BY OneValue DEF FuelInv, SetFuelStatus
<1>2. MarkIsHeld'
  BY <1>1 DEF FuelInv, MarkIsHeld, SetFuelStatus
<1> QED
  BY <1>1, <1>2 DEF FuelInv

\* The same, of a request that is then done with the leg.
LEMMA LastStep ==
    ASSUME FuelInv, NEW r \in Requests, NEW k, NEW w, w # "computing", SetFuelStatus(k, w),
           NEW p, Put(r, p), ReqOK(p), req[r].pc \in Holding => Now(r) = k,
           UNCHANGED stops
    PROVE  FuelInv'
<1>1. /\ req' = [s \in Requests |-> req'[s]]
      /\ \A s \in Requests : req'[s] = IF s = r THEN p ELSE req[s]
  BY OneValue DEF FuelInv, Put
<1>2. \A s \in Requests : ReqOK(req[s])'
  BY <1>1 DEF FuelInv
<1>3. \A s \in Requests, l \in Legs : Holds(s, l) => l = k \/ Holds(s, l)'
  BY <1>1 DEF Holds, Now
<1>4. stops' = [l \in Legs |-> stops'[l]]
  BY DEF FuelInv
<1> QED
  BY <1>1, <1>2, <1>3, <1>4, RowStep

\* A step of one request that writes to no table.
LEMMA QuietStep ==
    ASSUME FuelInv, NEW r \in Requests, NEW p, Put(r, p), ReqOK(p), Keeps(req[r], p),
           UNCHANGED <<Row, stops>>
    PROVE  FuelInv'
<1>1. stops' = [l \in Legs |-> stops'[l]]
  BY DEF FuelInv
<1> QED
  BY <1>1, RequestStep DEF Row

\* A step that no request takes.
LEMMA OtherStep ==
    ASSUME FuelInv, UNCHANGED <<status, abandoned, req>>, stops' = [l \in Legs |-> stops'[l]]
    PROVE  FuelInv'
<1>1. \A s \in Requests : ReqOK(req[s])'
  BY DEF FuelInv
<1>2. MarkIsHeld'
  BY DEF FuelInv, MarkIsHeld, Holds, Now
<1> QED
  BY <1>1, <1>2 DEF FuelInv

\* The requests under way are only marked: something they read is no longer so.
Marked ==
    /\ req' = [s \in Requests |-> req'[s]]
    /\ \A s \in Requests :
           \E pure, calm : req'[s] = [req[s] EXCEPT !.pure = pure, !.calm = calm]

LEMMA MarkStep ==
    ASSUME FuelInv, Marked, UNCHANGED <<status, abandoned>>, stops' = [l \in Legs |-> stops'[l]]
    PROVE  FuelInv'
<1>1. ASSUME NEW s \in Requests
      PROVE  ReqOK(req'[s]) /\ req'[s].pc = req[s].pc /\ req'[s].todo = req[s].todo
  <2>1. PICK pure, calm : req'[s] = [req[s] EXCEPT !.pure = pure, !.calm = calm]
    BY DEF Marked
  <2> DEFINE q == req[s]
             p == req'[s]
  <2>2. ReqOK(q) /\ p = [q EXCEPT !.pure = pure, !.calm = calm]
    BY <2>1 DEF FuelInv
  <2> HIDE DEF p, q
  <2>3. ReqOK(p) /\ p.pc = q.pc /\ p.todo = q.todo
    BY ONLY <2>2 DEF ReqOK, ReqShape, Fields
  <2> QED
    BY <2>3 DEF p, q
<1>2. \A s \in Requests : ReqOK(req[s])'
  BY <1>1
<1>3. \A s \in Requests, l \in Legs : Holds(s, l) => Holds(s, l)'
  BY <1>1 DEF Holds, Now
<1>4. MarkIsHeld'
  BY <1>3 DEF FuelInv, MarkIsHeld
<1> QED
  BY <1>2, <1>4 DEF FuelInv, Marked

\* A change of the trip marks them all.
LEMMA AlterStep ==
    ASSUME FuelInv, NEW kind, NEW S, Alter(kind, S), stops' = [l \in Legs |-> stops'[l]]
    PROVE  FuelInv'
<1>1. /\ req' = [s \in Requests |-> [req[s] EXCEPT !.pure = FALSE, !.calm = FALSE]]
      /\ UNCHANGED <<status, abandoned>>
  BY DEF Alter, Row
<1>2. Marked
  BY <1>1 DEF Marked
<1> QED
  BY <1>1, <1>2, MarkStep

\* What a pick marks is only what is out of date.
LEMMA SelectIs ==
    ASSUME NEW l, NEW s, SelectStop(l, s)
    PROVE  \E planned \in BOOLEAN :
              /\ req' = [r \in Requests |-> [req[r] EXCEPT !.pure = @ /\ planned]]
              /\ upToDate' = [k \in Legs |-> IF planned THEN upToDate[k] ELSE {}]
<1>1. ("stops" \in upToDate[l]) \in BOOLEAN
  OBVIOUS
<1> QED
  BY <1>1 DEF SelectStop

LEMMA SelectStep ==
    ASSUME FuelInv, NEW l, NEW s, SelectStop(l, s)
    PROVE  FuelInv'
<1>1. PICK planned \in BOOLEAN :
         req' = [r \in Requests |-> [req[r] EXCEPT !.pure = @ /\ planned]]
  BY SelectIs
<1>2. ASSUME NEW q, q = [f \in Fields |-> q[f]]
      PROVE  [q EXCEPT !.pure = @ /\ planned]
                = [q EXCEPT !.pure = q.pure /\ planned, !.calm = q.calm]
  BY <1>2 DEF Fields
<1>3. \A r \in Requests : req[r] = [f \in Fields |-> req[r][f]]
  BY DEF FuelInv, ReqOK, ReqShape
<1>4. Marked
  <2>1. req' = [r \in Requests |-> req'[r]]
    BY <1>1
  <2>2. ASSUME NEW r \in Requests
        PROVE  \E pure, calm : req'[r] = [req[r] EXCEPT !.pure = pure, !.calm = calm]
    <3>1. PICK q : q = req[r]
      OBVIOUS
    <3>2. req'[r] = [q EXCEPT !.pure = @ /\ planned] /\ q = [f \in Fields |-> q[f]]
      BY <1>1, <1>3, <3>1
    <3>3. req'[r] = [q EXCEPT !.pure = q.pure /\ planned, !.calm = q.calm]
      BY ONLY <1>2, <3>2
    <3> QED
      BY <3>1, <3>3
  <2> QED
    BY <2>1, <2>2 DEF Marked
<1>5. UNCHANGED <<status, abandoned>> /\ stops' = [k \in Legs |-> stops'[k]]
  <2>1. stops' = [stops EXCEPT ![l] = (@ \ {s}) \cup {[s EXCEPT !.state = "selected"]}]
    BY DEF SelectStop
  <2> QED
    BY <2>1, OneValue DEF SelectStop, Row, FuelInv
<1> QED
  BY <1>4, <1>5, MarkStep

LEMMA OpenStep ==
    ASSUME FuelInv, NEW r \in Requests, NEW l \in Legs, BeginOpen(r, l)
    PROVE  FuelInv'
<1> DEFINE calm == editor.todo = <<>> /\ \A s \in Requests : At(s, "idle") \/ req[s].calm
           alone == IF InSight(l) /\ \A s \in Requests : At(s, "idle") THEN opens' ELSE 0
           p == [Idle EXCEPT !.pc = "lookup", !.target = l, !.pure = editor.todo = <<>>,
                             !.calm = calm, !.alone = alone]
<1>1. ReqOK(p)
  <2>1. "lookup" \notin Holding \cup {"load", "compute"}
    BY DEF Holding
  <2> QED
    BY <2>1, IdleOK DEF ReqOK, ReqShape, Fields
<1>2. Keeps(req[r], p)
  BY DEF Keeps, BeginOpen, At, Holding
<1> QED
  BY <1>1, <1>2, QuietStep DEF BeginOpen

LEMMA LookupStep ==
    ASSUME FuelInv, NEW r \in Requests, ReadStatuses(r) \/ DecideCascade(r)
    PROVE  FuelInv'
<1> DEFINE q == req[r]
           l == q.target
<1>1. ReqOK(q) /\ q.pc \in {"lookup", "refuels"} /\ l \in Legs
  BY DEF FuelInv, ReadStatuses, DecideCascade, At, ReqOK
<1>2. \A p : Keeps(q, p)
  BY <1>1 DEF Keeps, Holding
<1>3. ASSUME NEW pc, NEW seen, NEW todo, IsSeq(todo),
             pc \in Holding \cup {"load", "compute"} => todo # <<>>
      PROVE  /\ ReqOK([q EXCEPT !.pc = pc, !.todo = todo])
             /\ ReqOK([q EXCEPT !.pc = pc, !.seen = seen, !.todo = todo])
  BY <1>1, <1>3 DEF ReqOK, ReqShape, Fields
<1>4. ASSUME NEW pc, NEW seen, pc \notin Holding \cup {"load", "compute"}
      PROVE  ReqOK([q EXCEPT !.pc = pc, !.seen = seen])
  BY <1>1, <1>4 DEF ReqOK, ReqShape, Fields
<1>5. "refuels" \notin Holding \cup {"load", "compute"} /\ "failTarget" \notin Holding \cup {"load", "compute"}
  BY DEF Holding
<1>6. CASE ReadStatuses(r)
  <2>1. IsSeq(<<l>>) /\ <<l>> # <<>>
    <3>1. <<l>> \in Seq({l})
      OBVIOUS
    <3> QED
      BY <3>1 DEF IsSeq
  <2>2. PICK p : Put(r, p) /\ ReqOK(p)
    BY <1>3, <1>4, <1>5, <1>6, <2>1 DEF ReadStatuses
  <2> QED
    BY <1>2, <1>6, <2>2, QuietStep DEF ReadStatuses
<1>7. CASE DecideCascade(r)
  <2> DEFINE plan == LegsNeedingSourcingBefore(1..(l - 1), q.seen)
             S == plan.toSource \cup {l}
  <2>1. IsFiniteSet(S)
    <3>1. l - 1 \in Int
      BY <1>1, DaysAssumption DEF Legs
    <3>2. IsFiniteSet(1..(l - 1))
      BY <3>1, FS_Interval
    <3>3. plan.toSource \subseteq 1..(l - 1)
      BY DEF LegsNeedingSourcingBefore, DrivesSince
    <3>4. IsFiniteSet(plan.toSource)
      BY <3>2, <3>3, FS_Subset
    <3> QED
      BY <3>4, FS_AddElement
  <2>2. IsSeq(InOrder(S)) /\ InOrder(S) # <<>>
    BY <2>1, InOrderIs
  <2>3. \/ Put(r, [q EXCEPT !.pc = "failTarget", !.seen = Idle.seen])
        \/ Put(r, [q EXCEPT !.pc = "load", !.seen = Idle.seen, !.todo = InOrder(S)])
    BY <1>7 DEF DecideCascade
  <2> HIDE DEF S, q
  <2>4. PICK p : Put(r, p) /\ ReqOK(p)
    BY <1>3, <1>4, <1>5, <2>2, <2>3
  <2> QED
    BY <1>2, <1>7, <2>4, QuietStep DEF DecideCascade, q
<1> QED
  BY <1>6, <1>7

\* A planning request: it has a day, and one of the steps that hold it.
LEMMA AtWork ==
    ASSUME FuelInv, NEW r \in Requests, req[r].pc \in Holding \cup {"load", "compute"}
    PROVE  ReqOK(req[r]) /\ req[r].todo # <<>> /\ req[r].target \in Legs
<1>1. "idle" \notin Holding \cup {"load", "compute"}
  BY DEF Holding
<1> QED
  BY <1>1 DEF FuelInv, ReqOK

LEMMA LoadStep ==
    ASSUME FuelInv, NEW r \in Requests, LoadLeg(r)
    PROVE  FuelInv'
<1> DEFINE q == req[r]
           begin == [q EXCEPT !.grounded = FALSE, !.picked = {}, !.keep = {}]
           none == [begin EXCEPT !.pc = "settle", !.outcome = "none"]
           near == [begin EXCEPT !.pc = "clear", !.outcome = "ready"]
           far == [begin EXCEPT !.pc = "compute", !.leg = route[Now(r)]]
<1>1. ReqOK(q) /\ q.todo # <<>> /\ q.target \in Legs /\ q.pc = "load"
  BY AtWork DEF LoadLeg, At
<1>2. ReqOK(begin) /\ begin.todo = q.todo /\ begin.target = q.target
  BY <1>1 DEF ReqOK, ReqShape, Fields
<1> HIDE DEF begin
<1>3. ReqOK(none) /\ ReqOK(near) /\ ReqOK(far)
  BY <1>1, <1>2 DEF ReqOK, ReqShape, Fields
<1>4. \A p : Keeps(q, p)
  BY <1>1 DEF Keeps, Holding
<1>5. Put(r, none) \/ Put(r, near) \/ Put(r, far)
  BY DEF LoadLeg, begin
<1>6. UNCHANGED <<Row, stops>>
  BY DEF LoadLeg
<1> HIDE DEF none, near, far
<1> QED
  BY <1>3, <1>4, <1>5, <1>6, QuietStep

LEMMA ComputeStep ==
    ASSUME FuelInv, NEW r \in Requests, MarkComputing(r)
    PROVE  FuelInv'
<1> DEFINE q == req[r]
           p == [q EXCEPT !.pc = "vehicle"]
           k == Now(r)
<1>1. ReqOK(q) /\ q.todo # <<>> /\ q.target \in Legs /\ q.pc = "compute"
  BY AtWork DEF MarkComputing, At
<1>2. ReqOK(p) /\ p.pc = "vehicle" /\ p.todo = q.todo
  BY <1>1, GoOK
<1>3. /\ req' = [s \in Requests |-> req'[s]]
      /\ \A s \in Requests : req'[s] = IF s = r THEN p ELSE req[s]
  BY OneValue DEF FuelInv, MarkComputing, Go, Put
<1>4. /\ status' = [l \in Legs |-> status'[l]]
      /\ \A l \in Legs : status'[l] = IF l = Head(q.todo) THEN "computing" ELSE status[l]
      /\ abandoned' = abandoned \ {Head(q.todo)}
      /\ stops' = stops
  BY OneValue DEF FuelInv, MarkComputing, SetFuelStatus, Now
<1> HIDE DEF q, p
<1>5. \A s \in Requests : ReqOK(req[s])'
  BY <1>2, <1>3 DEF FuelInv
<1>6. \A s \in Requests, l \in Legs : Holds(s, l) => Holds(s, l)'
  BY <1>1, <1>3 DEF Holds, Now, Holding, q
<1>7. ASSUME NEW l \in Legs, l = Head(q.todo) PROVE Holds(r, l)'
  BY <1>1, <1>2, <1>3, <1>7 DEF Holds, Now, Holding
<1>8. MarkIsHeld'
  BY <1>4, <1>6, <1>7 DEF FuelInv, MarkIsHeld
<1> QED
  BY <1>3, <1>4, <1>5, <1>8 DEF FuelInv

\* From the vehicle to the search, and a plan that ends in an error.
LEMMA SourceStep ==
    ASSUME FuelInv, NEW r \in Requests,
           \/ ReadTank(r) \/ ReadDefaultVehicle(r) \/ WalkBack(r)
           \/ LookAhead(r) \/ SearchLeg(r) \/ SearchThrows(r)
    PROVE  FuelInv'
<1> DEFINE q == req[r]
<1>1. q.pc \in {"vehicle", "walk", "ahead", "search", "clear", "settle"}
  BY DEF ReadTank, ReadDefaultVehicle, WalkBack, LookAhead, SearchLeg, SearchThrows, InTry, At
<1>2. ReqOK(q) /\ q.todo # <<>> /\ q.target \in Legs
  BY <1>1, AtWork DEF Holding
<1>3. \A p : p.pc \in Holding /\ p.todo = q.todo => Keeps(q, p)
  BY DEF Keeps
<1>4. UNCHANGED <<Row, stops>>
  BY DEF ReadTank, ReadDefaultVehicle, WalkBack, LookAhead, SearchLeg, SearchThrows
<1>5. SUFFICES \E p : Put(r, p) /\ ReqOK(p) /\ p.pc \in Holding /\ p.todo = q.todo
  BY <1>3, <1>4, QuietStep
<1>6. ASSUME NEW x, ReqOK(x), x.todo = q.todo, x.target \in Legs
      PROVE  /\ LET p == [Forget(x) EXCEPT !.pc = "fail"]
                IN  ReqOK(p) /\ p.pc \in Holding /\ p.todo = q.todo
             /\ \A b : LET p == [Forget(x) EXCEPT !.pc = "fail", !.pure = b]
                       IN  ReqOK(p) /\ p.pc \in Holding /\ p.todo = q.todo
             /\ \A lg : LET p == [Forget(x) EXCEPT !.pc = "clear", !.outcome = "ready", !.leg = lg]
                        IN  ReqOK(p) /\ p.pc \in Holding /\ p.todo = q.todo
             /\ LET p == [x EXCEPT !.pc = "place"]
                IN  ReqOK(p) /\ p.pc \in Holding /\ p.todo = q.todo
             /\ \A n : LET p == [x EXCEPT !.pc = "search", !.reserve = n]
                       IN  ReqOK(p) /\ p.pc \in Holding /\ p.todo = q.todo
  <2>1. ReqOK(Forget(x)) /\ Forget(x).todo = q.todo /\ Forget(x).target = x.target
    BY <1>6, ForgetOK DEF Forget, ReqOK, ReqShape, Fields
  <2> DEFINE y == Forget(x)
  <2> HIDE DEF y, q
  <2>2. ReqOK(y) /\ y.todo # <<>> /\ y.todo = q.todo /\ y.target \in Legs
    BY <1>2, <1>6, <2>1 DEF y
  <2>3. "fail" \in Holding /\ "clear" \in Holding /\ "place" \in Holding /\ "search" \in Holding
    BY DEF Holding
  <2>4. LET p == [y EXCEPT !.pc = "fail"]
        IN  ReqOK(p) /\ p.pc \in Holding /\ p.todo = q.todo
    BY <2>2, <2>3 DEF ReqOK, ReqShape, Fields
  <2>5. ASSUME NEW lg
        PROVE  LET p == [y EXCEPT !.pc = "clear", !.outcome = "ready", !.leg = lg]
               IN  ReqOK(p) /\ p.pc \in Holding /\ p.todo = q.todo
    BY <2>2, <2>3 DEF ReqOK, ReqShape, Fields
  <2>8. ASSUME NEW b
        PROVE  LET p == [y EXCEPT !.pc = "fail", !.pure = b]
               IN  ReqOK(p) /\ p.pc \in Holding /\ p.todo = q.todo
    BY <2>2, <2>3 DEF ReqOK, ReqShape, Fields
  <2>6. LET p == [x EXCEPT !.pc = "place"]
        IN  ReqOK(p) /\ p.pc \in Holding /\ p.todo = q.todo
    BY <1>2, <1>6, <2>3 DEF ReqOK, ReqShape, Fields
  <2>7. ASSUME NEW n
        PROVE  LET p == [x EXCEPT !.pc = "search", !.reserve = n]
               IN  ReqOK(p) /\ p.pc \in Holding /\ p.todo = q.todo
    BY <1>2, <1>6, <2>3 DEF ReqOK, ReqShape, Fields
  <2> QED
    BY <2>4, <2>5, <2>6, <2>7, <2>8 DEF y
<1>12. CASE ReadDefaultVehicle(r)
  <2>1. ASSUME NEW km, NEW b
        PROVE  LET p == [q EXCEPT !.pc = "walk", !.range = km, !.anchor = declared, !.pure = b]
               IN  ReqOK(p) /\ p.pc \in Holding /\ p.todo = q.todo
    BY <1>2 DEF ReqOK, ReqShape, Fields, Holding
  <2>2. PICK km : \/ Put(r, [Forget(q) EXCEPT !.pc = "fail", !.pure = FALSE])
                  \/ Put(r, [q EXCEPT !.pc = "walk", !.range = km, !.anchor = declared, !.pure = FALSE])
    BY <1>12, Zenon DEF ReadDefaultVehicle
  <2> DEFINE x == [Forget(q) EXCEPT !.pc = "fail", !.pure = FALSE]
             y == [q EXCEPT !.pc = "walk", !.range = km, !.anchor = declared, !.pure = FALSE]
  <2>3. ReqOK(x) /\ x.pc \in Holding /\ x.todo = q.todo
    BY <1>2, <1>6
  <2>4. ReqOK(y) /\ y.pc \in Holding /\ y.todo = q.todo
    BY <2>1
  <2>5. Put(r, x) \/ Put(r, y)
    BY <2>2
  <2> HIDE DEF x, y, q
  <2> QED
    BY <2>3, <2>4, <2>5
<1>7. CASE ReadTank(r)
  <2>1. LET p == [q EXCEPT !.pc = "walk", !.range = range, !.anchor = declared]
        IN  ReqOK(p) /\ p.pc \in Holding /\ p.todo = q.todo
    BY <1>2 DEF ReqOK, ReqShape, Fields, Holding
  <2> QED
    BY <1>2, <1>6, <1>7, <2>1 DEF ReadTank
<1>8. CASE WalkBack(r)
  <2>1. ASSUME NEW b, NEW g
        PROVE  LET p == [q EXCEPT !.pc = "ahead", !.burn = b, !.grounded = g]
               IN  ReqOK(p) /\ p.pc \in Holding /\ p.todo = q.todo
    BY <1>2 DEF ReqOK, ReqShape, Fields, Holding
  <2>2. PICK b, g : Put(r, [q EXCEPT !.pc = "ahead", !.burn = b, !.grounded = g])
    BY <1>8 DEF WalkBack
  <2> QED
    BY <2>1, <2>2
<1>9. CASE LookAhead(r)
  <2> DEFINE look == DayToLookAt(r)
             rec == IF look = {} THEN q ELSE Searching(r, Min(look))
  <2>1. ReqOK(rec) /\ rec.todo = q.todo
    BY <1>2, SearchingOK
  <2>2. rec.target \in Legs
    <3>1. rec.pc # "idle"
      BY <1>1, <1>2, SearchingOK
    <3> QED
      BY <2>1, <3>1 DEF ReqOK
  <2>3. \/ Put(r, [Forget(rec) EXCEPT !.pc = "clear", !.outcome = "ready", !.leg = rec.leg])
        \/ \E n : Put(r, [rec EXCEPT !.pc = "search", !.reserve = n])
    BY <1>9 DEF LookAhead
  <2> HIDE DEF rec, q
  <2>4. CASE Put(r, [Forget(rec) EXCEPT !.pc = "clear", !.outcome = "ready", !.leg = rec.leg])
    <3>1. LET p == [Forget(rec) EXCEPT !.pc = "clear", !.outcome = "ready", !.leg = rec.leg]
          IN  ReqOK(p) /\ p.pc \in Holding /\ p.todo = q.todo
      BY <1>6, <2>1, <2>2
    <3> QED
      BY <2>4, <3>1
  <2>5. CASE \E n : Put(r, [rec EXCEPT !.pc = "search", !.reserve = n])
    <3>1. PICK n : Put(r, [rec EXCEPT !.pc = "search", !.reserve = n])
      BY <2>5
    <3>2. LET p == [rec EXCEPT !.pc = "search", !.reserve = n]
          IN  ReqOK(p) /\ p.pc \in Holding /\ p.todo = q.todo
      BY <1>6, <2>1, <2>2
    <3> QED
      BY <3>1, <3>2
  <2> QED
    BY <2>3, <2>4, <2>5
<1>10. CASE SearchLeg(r)
  <2> DEFINE rec == Searching(r, Now(r))
  <2>1. ReqOK(rec) /\ rec.todo = q.todo /\ rec.pc # "idle"
    BY <1>1, <1>2, SearchingOK
  <2>2. rec.target \in Legs
    BY <2>1 DEF ReqOK
  <2>3. Put(r, [rec EXCEPT !.pc = "place"])
    BY <1>10 DEF SearchLeg
  <2> HIDE DEF rec, q
  <2> QED
    BY <1>6, <2>1, <2>2, <2>3
<1>11. CASE SearchThrows(r)
  BY <1>2, <1>6, <1>11 DEF SearchThrows
<1> QED
  BY <1>7, <1>8, <1>9, <1>10, <1>11, <1>12

LEMMA PlaceStep ==
    ASSUME FuelInv, NEW r \in Requests, Place(r)
    PROVE  FuelInv'
<1> DEFINE q == req[r]
<1>1. q.pc = "place"
  BY DEF Place, TankStateInvalid, PlanComplete, PlaceStop, PlanGap, Round, At
<1>2. ReqOK(q) /\ q.todo # <<>> /\ q.target \in Legs
  BY <1>1, AtWork DEF Holding
<1>3. \A p : p.pc \in Holding /\ p.todo = q.todo => Keeps(q, p)
  BY DEF Keeps
<1>4. UNCHANGED <<Row, stops>>
  BY DEF Place, TankStateInvalid, PlanComplete, PlaceStop, PlanGap
<1>5. SUFFICES \E p : Put(r, p) /\ ReqOK(p) /\ p.pc \in Holding /\ p.todo = q.todo
  BY <1>3, <1>4, QuietStep
<1>6. {"fail", "begin", "clear"} \subseteq Holding
  BY DEF Holding
<1>7. ReqOK(Forget(q)) /\ Forget(q).todo = q.todo /\ Forget(q).target = q.target
  BY <1>2, ForgetOK DEF Forget, ReqOK, ReqShape, Fields
<1>8. CASE TankStateInvalid(r)
  <2> DEFINE p == [Forget(q) EXCEPT !.pc = "fail"]
  <2>1. ReqOK(p) /\ p.pc = "fail" /\ p.todo = q.todo
    BY <1>2, <1>7, GoOK
  <2> QED
    BY <1>6, <1>8, <2>1 DEF TankStateInvalid
<1>9. CASE PlanComplete(r)
  <2> DEFINE p == [q EXCEPT !.pc = "begin", !.outcome = "ready"]
  <2>1. ReqOK(p) /\ p.pc = "begin" /\ p.todo = q.todo
    BY <1>2 DEF ReqOK, ReqShape, Fields
  <2> QED
    BY <1>6, <1>9, <2>1 DEF PlanComplete
<1>10. CASE PlaceStop(r)
  <2>1. ASSUME NEW s, NEW t
        PROVE  LET p == [q EXCEPT !.at = s, !.picked = t]
               IN  ReqOK(p) /\ p.pc = "place" /\ p.todo = q.todo
    BY <1>1, <1>2 DEF ReqOK, ReqShape, Fields
  <2>2. PICK s, t : Put(r, [q EXCEPT !.at = s, !.picked = t])
    BY <1>10 DEF PlaceStop
  <2> DEFINE p == [q EXCEPT !.at = s, !.picked = t]
  <2>3. ReqOK(p) /\ p.pc = "place" /\ p.todo = q.todo
    BY <2>1
  <2>4. "place" \in Holding
    BY DEF Holding
  <2> HIDE DEF p
  <2>5. Put(r, p)
    BY <2>2 DEF p
  <2> QED
    BY <2>3, <2>4, <2>5
<1>11. CASE PlanGap(r)
  <2> DEFINE x == Forget(q)
             failed == [x EXCEPT !.pc = "fail", !.picked = {}]
             warned == [x EXCEPT !.pc = "clear", !.picked = {}, !.outcome = "no_stations_found"]
  <2> HIDE DEF x
  <2>1. ReqOK(x) /\ x.todo = q.todo /\ x.todo # <<>> /\ x.target \in Legs
    BY <1>2, <1>7 DEF x
  <2>2. /\ ReqOK(failed) /\ failed.pc = "fail" /\ failed.todo = x.todo
        /\ ReqOK(warned) /\ warned.pc = "clear" /\ warned.todo = x.todo
    BY <2>1 DEF ReqOK, ReqShape, Fields
  <2>3. Put(r, failed) \/ Put(r, warned)
    BY <1>11 DEF PlanGap, x
  <2> QED
    BY <1>6, <2>1, <2>2, <2>3
<1> QED
  BY <1>8, <1>9, <1>10, <1>11 DEF Place

\* The transaction that replaces a leg's stops, and the clearing of a leg without any.
LEMMA StoreStep ==
    ASSUME FuelInv, NEW r \in Requests,
           BeginStore(r) \/ DeleteOptions(r) \/ CommitStore(r) \/ ClearStops(r)
    PROVE  FuelInv'
<1> DEFINE q == req[r]
<1>1. q.pc \in {"begin", "delete", "commit", "clear"}
  BY DEF BeginStore, DeleteOptions, CommitStore, ClearStops, At
<1>2. ReqOK(q) /\ q.todo # <<>> /\ q.target \in Legs
  BY <1>1, AtWork DEF Holding
<1>3. UNCHANGED <<status, abandoned>>
  BY DEF BeginStore, DeleteOptions, CommitStore, ClearStops, Row
<1>4. stops' = [l \in Legs |-> stops'[l]]
  <2>1. stops' = stops \/ \E l, v : stops' = [stops EXCEPT ![l] = v]
    BY DEF BeginStore, DeleteOptions, CommitStore, ClearStops, ClearOptions
  <2> QED
    BY <2>1, OneValue DEF FuelInv
<1>5. SUFFICES \E p : Put(r, p) /\ ReqOK(p) /\ p.pc \in Holding /\ p.todo = q.todo
  <2>1. \A p : p.pc \in Holding /\ p.todo = q.todo => Keeps(q, p)
    BY DEF Keeps
  <2> QED
    BY <1>3, <1>4, <2>1, RequestStep
<1>6. {"delete", "commit", "settle"} \subseteq Holding
  BY DEF Holding
<1>7. CASE BeginStore(r)
  <2> DEFINE x == Forget(q)
  <2>1. ReqOK(x) /\ x.todo = q.todo /\ x.todo # <<>> /\ x.target \in Legs
    BY <1>2, ForgetOK DEF Forget, ReqOK, ReqShape, Fields
  <2>2. PICK keep : Put(r, [x EXCEPT !.pc = "delete", !.keep = keep])
    BY <1>7 DEF BeginStore
  <2> HIDE DEF x
  <2> DEFINE p == [x EXCEPT !.pc = "delete", !.keep = keep]
  <2>3. ReqOK(p) /\ p.pc = "delete" /\ p.todo = x.todo
    BY <2>1 DEF ReqOK, ReqShape, Fields
  <2> QED
    BY <1>6, <2>1, <2>2, <2>3
<1>8. CASE DeleteOptions(r)
  <2> DEFINE gone == OptionStops(Now(r))
             p == [q EXCEPT !.pc = "commit", !.victims = gone]
  <2>1. \A s \in gone : s.state = "option"
    BY DEF OptionStops
  <2>2. Put(r, p)
    BY <1>8 DEF DeleteOptions
  <2> HIDE DEF gone
  <2>3. ReqOK(p) /\ p.pc = "commit" /\ p.todo = q.todo
    BY <1>2, <2>1 DEF ReqOK, ReqShape, Fields
  <2> QED
    BY <1>6, <2>2, <2>3
<1>9. CASE CommitStore(r)
  <2> DEFINE p == [q EXCEPT !.pc = "settle", !.victims = {}]
  <2>1. ReqOK(p) /\ p.pc = "settle" /\ p.todo = q.todo
    BY <1>2 DEF ReqOK, ReqShape, Fields
  <2> QED
    BY <1>6, <1>9, <2>1 DEF CommitStore
<1>10. CASE ClearStops(r)
  <2> DEFINE p == [q EXCEPT !.pc = "settle"]
  <2>1. ReqOK(p) /\ p.pc = "settle" /\ p.todo = q.todo
    BY <1>2, GoOK
  <2> QED
    BY <1>6, <1>10, <2>1 DEF ClearStops, Go
<1> QED
  BY <1>7, <1>8, <1>9, <1>10

\* What a request writes last of a leg: how it ended, or that it failed.
LEMMA EndStep ==
    ASSUME FuelInv, NEW r \in Requests, FailTarget(r) \/ Settle(r) \/ FailLeg(r)
    PROVE  FuelInv'
<1> DEFINE q == req[r]
<1>1. UNCHANGED stops
  BY DEF FailTarget, Settle, FailLeg
<1>2. CASE FailTarget(r)
  <2>1. q.pc \notin Holding /\ SetFuelStatus(q.target, "failed") /\ Put(r, Idle)
    BY <1>2 DEF FailTarget, At, Holding
  <2> QED
    BY <1>1, <2>1, IdleOK, LastStep
<1>3. CASE Settle(r)
  <2>1. ReqOK(q) /\ q.todo # <<>> /\ q.target \in Legs
    BY <1>3, AtWork DEF Settle, At, Holding
  <2>2. SetFuelStatus(Now(r), q.outcome) /\ q.outcome # "computing"
    BY <1>3, <2>1 DEF Settle, ReqOK
  <2> DEFINE next == [q EXCEPT !.pc = "load", !.todo = Tail(@), !.leg = None]
  <2>3. Len(q.todo) # 1 => ReqOK(next)
    <3>1. Len(q.todo) # 1 => IsSeq(Tail(q.todo)) /\ Tail(q.todo) # <<>>
      BY <2>1, TailIs DEF ReqOK, ReqShape
    <3> QED
      BY <2>1, <3>1 DEF ReqOK, ReqShape, Fields
  <2>4. \/ Put(r, Idle)
        \/ Len(q.todo) # 1 /\ Put(r, next)
    BY <1>3 DEF Settle
  <2> HIDE DEF next
  <2> QED
    BY <1>1, <2>2, <2>3, <2>4, IdleOK, LastStep
<1>4. CASE FailLeg(r)
  <2>1. ReqOK(q) /\ q.todo # <<>> /\ q.target \in Legs
    BY <1>4, AtWork DEF FailLeg, At, Holding
  <2> DEFINE next == [q EXCEPT !.pc = "failTarget"]
  <2>2. ReqOK(next)
    BY <2>1, GoOK
  <2>3. SetFuelStatus(Now(r), "failed") /\ (Put(r, Idle) \/ Put(r, next))
    BY <1>4 DEF FailLeg, Go
  <2> HIDE DEF next
  <2> QED
    BY <1>1, <2>2, <2>3, IdleOK, LastStep
<1> QED
  BY <1>2, <1>3, <1>4

LEMMA KillStep ==
    ASSUME FuelInv, NEW r \in Requests, Killed(r)
    PROVE  FuelInv'
<1>1. /\ req' = [s \in Requests |-> req'[s]]
      /\ \A s \in Requests : req'[s] = IF s = r THEN Idle ELSE req[s]
  BY OneValue DEF FuelInv, Killed, Put
<1>2. \A s \in Requests : ReqOK(req[s])'
  BY <1>1, IdleOK DEF FuelInv
<1>3. \A s \in Requests, l \in Legs : s # r /\ Holds(s, l) => Holds(s, l)'
  BY <1>1 DEF Holds, Now
<1>4. \A l \in Legs : Holds(r, l) \/ l \in abandoned => l \in abandoned'
  BY DEF Killed, Holds
<1>5. status' = status /\ stops' = stops
  BY DEF Killed
<1>6. MarkIsHeld'
  BY <1>3, <1>4, <1>5 DEF FuelInv, MarkIsHeld
<1> QED
  BY <1>1, <1>2, <1>5, <1>6 DEF FuelInv

\* What the driver and a turn do beside the requests.
LEMMA TripStep ==
    ASSUME FuelInv, DriverOrTurn
    PROVE  FuelInv'
<1>1. stops' = stops => stops' = [l \in Legs |-> stops'[l]]
  BY DEF FuelInv
<1>2. \A k, v : stops' = [stops EXCEPT ![k] = v] => stops' = [l \in Legs |-> stops'[l]]
  BY OneValue DEF FuelInv
<1>3. CASE \E r \in Requests, l \in Legs : OpenDay(r, l) \/ ForceDay(r, l)
  BY <1>3, OpenStep DEF OpenDay, ForceDay
<1>4. CASE \E l \in Legs : CacheExpires(l)
  BY <1>1, <1>4, OtherStep DEF CacheExpires
<1>5. CASE \E l \in Legs, rt \in NewRoutes : RerouteLeg(l, rt)
  BY <1>1, <1>5, AlterStep DEF RerouteLeg
<1>6. CASE \E km \in Ranges : AssignVehicle(km) \/ EditVehicle(km)
  BY <1>1, <1>6, AlterStep DEF AssignVehicle, EditVehicle
<1>7. CASE \E l \in Legs, km \in Declarable : DeclareFuelState(l, km)
  BY <1>1, <1>7, AlterStep DEF DeclareFuelState
<1>12. CASE \E l \in Legs : AddOrDropStop(l)
  BY <1>1, <1>12, AlterStep DEF AddOrDropStop
<1>8. ASSUME NEW l \in Legs, NEW s \in stops[l], DismissStop(l, s) PROVE FuelInv'
  BY <1>2, <1>8, AlterStep DEF DismissStop
<1>9. ASSUME NEW l \in Legs, NEW s \in stops[l], SelectStop(l, s) PROVE FuelInv'
  BY <1>9, SelectStep
<1>10. CASE InvalidateStops
  BY <1>2, <1>10, OtherStep DEF InvalidateStops, ClearOptions, Row
<1>11. CASE InvalidateStatus
  <2>1. \A r \in Requests : ReqOK(req[r])'
    BY <1>11 DEF FuelInv, InvalidateStatus
  <2>2. \A r \in Requests, l \in Legs : Holds(r, l) => Holds(r, l)'
    BY <1>11 DEF InvalidateStatus, Holds, Now
  <2>3. req' = [r \in Requests |-> req'[r]]
    BY <1>11 DEF FuelInv, InvalidateStatus
  <2>4. SetFuelStatus(Head(editor.todo), "none") /\ stops' = stops
    BY <1>11 DEF InvalidateStatus
  <2> QED
    BY <1>1, <2>1, <2>2, <2>3, <2>4, RowStep
<1> QED
  BY <1>3, <1>4, <1>5, <1>6, <1>7, <1>8, <1>9, <1>10, <1>11, <1>12 DEF DriverOrTurn

LEMMA FuelStep == FuelInv /\ [Next]_vars => FuelInv'
<1> SUFFICES ASSUME FuelInv, [Next]_vars PROVE FuelInv'
  OBVIOUS
<1>1. CASE \E r \in Requests : Place(r)
  BY <1>1, PlaceStep
<1>2. ASSUME NEW r \in Requests, Work(r) PROVE FuelInv'
  BY <1>2, LookupStep, LoadStep, ComputeStep, SourceStep, StoreStep, EndStep, KillStep DEF Work
<1>3. CASE DriverOrTurn
  BY <1>3, TripStep
<1>4. CASE UNCHANGED vars
  <2>1. stops' = [l \in Legs |-> stops'[l]]
    BY <1>4 DEF vars, FuelInv
  <2> QED
    BY <1>4, <2>1, OtherStep DEF vars
<1> QED
  BY <1>1, <1>2, <1>3, <1>4 DEF Next

-----------------------------------------------------------------------------
(* The theorems *)

LEMMA FuelInit == Init => FuelInv
<1> SUFFICES ASSUME Init PROVE FuelInv
  OBVIOUS
<1>1. /\ req = [r \in Requests |-> req[r]] /\ status = [l \in Legs |-> status[l]]
      /\ stops = [l \in Legs |-> stops[l]]
  BY DEF Init
<1>2. \A r \in Requests : ReqOK(req[r])
  BY IdleOK DEF Init
<1>3. MarkIsHeld
  BY DEF Init, MarkIsHeld
<1> QED
  BY <1>1, <1>2, <1>3 DEF FuelInv

\* The invariant behind the three below: whoever marked a day as computing still holds it,
\* what is about to be deleted was the planner's, and the bill agrees with the memo.
THEOREM FuelInvariant == Spec => []LazyInv
<1>1. Spec => []FuelInv
  BY FuelInit, FuelStep, PTL DEF Spec
<1> QED
  BY <1>1, FuelInvLazy, PTL

\* One request pays for the stations of a day at most once, although it may need them as
\* the next day's look-ahead and again as the day itself (fuel.ts, the memo of legStations).
THEOREM SearchedOnce == Spec => []OneSearchPerLeg
<1>1. LazyInv => OneSearchPerLeg
  <2> SUFFICES ASSUME LazyInv, NEW r \in Requests, NEW l \in Legs PROVE req[r].bill[l] <= 1
    BY DEF OneSearchPerLeg
  <2>1. req[r].bill[l] = 0 \/ req[r].bill[l] = 1
    BY DEF LazyInv, BillIsMemo
  <2> QED
    BY <2>1
<1> QED
  BY <1>1, FuelInvariant, PTL

\* A day is computing only while a request plans it, or after one that did was killed: no
\* failure of a search, a vehicle or another day leaves the mark behind (fuel.ts, failLeg).
THEOREM ComputingHeld == Spec => []ComputingIsHeld
<1>1. LazyInv => ComputingIsHeld
  BY DEF LazyInv, MarkIsHeld, Holds, ComputingIsHeld
<1> QED
  BY <1>1, FuelInvariant, PTL

\* A stop the driver picked is never removed by a plan, late or not, by an invalidation, or
\* by two transactions that replace the stops of one day at once (fuel.ts).
THEOREM PicksKept == Spec => PicksAreKept
<1> DEFINE Kept == \A l \in Legs : \A s \in stops[l] :
                      s.state = "selected" =>
                          s \in stops'[l] \/ [s EXCEPT !.state = "dismissed"] \in stops'[l]
<1>1. FuelInv /\ [Next]_vars => Kept
  <2> SUFFICES ASSUME FuelInv, [Next]_vars, NEW l \in Legs, NEW s \in stops[l],
                      s.state = "selected"
               PROVE  s \in stops'[l] \/ [s EXCEPT !.state = "dismissed"] \in stops'[l]
    OBVIOUS
  <2>1. \A k, v : stops' = [stops EXCEPT ![k] = v] => stops'[l] = IF l = k THEN v ELSE stops[l]
    BY OneValue DEF FuelInv
  <2>2. CASE stops' = stops
    BY <2>2
  <2>3. ASSUME NEW k, ClearOptions(k) PROVE s \in stops'[l]
    BY <2>1, <2>3 DEF ClearOptions, OptionStops
  <2>4. ASSUME NEW r \in Requests, CommitStore(r) PROVE s \in stops'[l]
    <3>1. s \notin req[r].victims
      BY DEF FuelInv, ReqOK
    <3> QED
      BY <2>1, <2>4, <3>1 DEF CommitStore
  <2>5. ASSUME NEW k \in Legs, NEW t \in stops[k], SelectStop(k, t) PROVE s \in stops'[l]
    BY <2>1, <2>5 DEF SelectStop
  <2>6. ASSUME NEW k \in Legs, NEW t \in stops[k], DismissStop(k, t)
        PROVE  s \in stops'[l] \/ [s EXCEPT !.state = "dismissed"] \in stops'[l]
    BY <2>1, <2>6 DEF DismissStop
  <2>7. CASE \E r \in Requests : Place(r)
    BY <2>2, <2>7 DEF Place, TankStateInvalid, PlanComplete, PlaceStop, PlanGap
  <2>8. ASSUME NEW r \in Requests, Work(r) PROVE s \in stops'[l]
    BY <2>2, <2>3, <2>4, <2>8
       DEF Work, ReadStatuses, DecideCascade, FailTarget, LoadLeg, MarkComputing, ReadTank,
           ReadDefaultVehicle, WalkBack, LookAhead, SearchLeg, SearchThrows, BeginStore, DeleteOptions, ClearStops,
           Settle, FailLeg, Killed
  <2>9. CASE DriverOrTurn
    BY <2>2, <2>3, <2>5, <2>6, <2>9
       DEF DriverOrTurn, OpenDay, ForceDay, BeginOpen, CacheExpires, RerouteLeg, AssignVehicle,
           EditVehicle, DeclareFuelState, AddOrDropStop, InvalidateStops, InvalidateStatus
  <2>10. CASE UNCHANGED vars
    BY <2>2, <2>10 DEF vars
  <2> QED
    BY <2>7, <2>8, <2>9, <2>10 DEF Next
<1>2. Spec => [][Kept]_vars
  <2>1. FuelInv /\ [Next]_vars => [Kept]_vars
    BY <1>1
  <2> QED
    BY <2>1, FuelInit, FuelStep, PTL DEF Spec
<1> QED
  BY <1>2 DEF PicksAreKept

-----------------------------------------------------------------------------
(* The tank walk *)

LEMMA BurnAfterType ==
    ASSUME NEW leg \in LegHistory, NEW before \in Nat
    PROVE  BurnAfter(leg, before) \in Nat
<1>1. leg.km \in Nat /\ leg.lastFuel \in Int /\ leg.declared \in Int /\ leg.warned \in BOOLEAN
  BY DEF LegHistory
<1>2. \A n \in Int : AtLeastZero(n) \in Nat
  BY DEF AtLeastZero
<1>3. CASE leg.lastFuel >= 0
  BY <1>1, <1>2, <1>3 DEF BurnAfter
<1>4. CASE leg.lastFuel < 0 /\ leg.warned
  BY <1>1, <1>4 DEF BurnAfter
<1>5. CASE leg.lastFuel < 0 /\ ~leg.warned /\ leg.declared >= 0
  BY <1>1, <1>5 DEF BurnAfter
<1>6. CASE leg.lastFuel < 0 /\ ~leg.warned /\ leg.declared < 0
  BY <1>1, <1>6 DEF BurnAfter
<1> QED
  BY <1>1, <1>3, <1>4, <1>5, <1>6

\* What is burned at the end of each of the first m legs of a history.
IsWalk(f, history, m) ==
    /\ f \in [0 .. m -> Nat]
    /\ f[0] = 0
    /\ \A i \in 1 .. m : f[i] = BurnAfter(history[i], f[i - 1])

\* One leg further.
LEMMA WalkGoesOn ==
    ASSUME NEW history \in Seq(LegHistory), NEW m \in 1 .. Len(history),
           NEW f, IsWalk(f, history, m - 1)
    PROVE  \E g : IsWalk(g, history, m)
<1>1. Len(history) \in Nat /\ history[m] \in LegHistory /\ m \in Nat /\ m - 1 \in Nat
  BY LenProperties, ElementOfSeq
<1> DEFINE b == BurnAfter(history[m], f[m - 1])
           g == [i \in 0 .. m |-> IF i = m THEN b ELSE f[i]]
<1>2. f \in [0 .. (m - 1) -> Nat] /\ f[0] = 0
  BY DEF IsWalk
<1>3. f[m - 1] \in Nat
  BY <1>1, <1>2
<1>4. b \in Nat
  BY <1>1, <1>3, BurnAfterType
<1> HIDE DEF b
<1>5. g \in [0 .. m -> Nat]
  BY <1>1, <1>2, <1>4
<1>6. g[0] = 0
  BY <1>1, <1>2
<1>7. ASSUME NEW i \in 1 .. m PROVE g[i] = BurnAfter(history[i], g[i - 1])
  <2>1. i - 1 \in 0 .. m /\ i - 1 # m
    BY <1>1
  <2>2. g[i - 1] = f[i - 1]
    BY <2>1
  <2>3. CASE i = m
    BY <2>2, <2>3 DEF b
  <2>4. CASE i # m
    <3>1. i \in 1 .. (m - 1)
      BY <1>1, <2>4
    <3>2. f[i] = BurnAfter(history[i], f[i - 1])
      BY <3>1 DEF IsWalk
    <3>3. g[i] = f[i]
      BY <1>1, <2>4
    <3> QED
      BY <2>2, <3>2, <3>3
  <2> QED
    BY <2>3, <2>4
<1> HIDE DEF g
<1> QED
  BY <1>5, <1>6, <1>7 DEF IsWalk

\* The walk is defined however long the history is.
LEMMA WalkExists ==
    ASSUME NEW history \in Seq(LegHistory)
    PROVE  \E f : IsWalk(f, history, Len(history))
<1> DEFINE Bad == {m \in 0 .. Len(history) : ~ \E f : IsWalk(f, history, m)}
<1>1. Len(history) \in Nat
  BY LenProperties
<1>2. SUFFICES ASSUME Bad # {} PROVE FALSE
  BY <1>1
<1>3. Bad \in SUBSET Nat
  OBVIOUS
<1>4. \A m \in Bad : m \in 0 .. Len(history) /\ ~ \E f : IsWalk(f, history, m)
  OBVIOUS
<1>5. \A m \in 0 .. Len(history) : m \notin Bad => \E f : IsWalk(f, history, m)
  OBVIOUS
<1> HIDE DEF Bad
<1>6. PICK m \in Bad : \A n \in Bad : m <= n
  BY <1>2, <1>3, LeastNatural
<1>7. m # 0
  <2> DEFINE z == [i \in 0 .. 0 |-> 0]
  <2>1. z \in [0 .. 0 -> Nat] /\ z[0] = 0
    OBVIOUS
  <2> HIDE DEF z
  <2>2. IsWalk(z, history, 0)
    BY <2>1 DEF IsWalk
  <2> QED
    BY <1>4, <2>2
<1>8. m \in 1 .. Len(history) /\ m - 1 \in 0 .. Len(history)
  BY <1>1, <1>4, <1>7
<1>9. m - 1 \notin Bad
  BY <1>6, <1>8
<1>10. PICK f : IsWalk(f, history, m - 1)
  BY <1>5, <1>8, <1>9
<1> QED
  BY <1>4, <1>8, <1>10, WalkGoesOn

\* What the code burns is the end of the walk.
LEMMA KmBurnedIsAWalk ==
    ASSUME NEW history \in Seq(LegHistory)
    PROVE  \E f : /\ IsWalk(f, history, Len(history))
                  /\ KmBurnedSinceLastRefuel(history) = f[Len(history)]
<1> DEFINE n == Len(history)
           rec(f) == [i \in 0 .. n |-> IF i = 0 THEN 0 ELSE BurnAfter(history[i], f[i - 1])]
           burn == CHOOSE f : f = rec(f)
<1>1. n \in Nat
  BY LenProperties
<1>2. PICK f : IsWalk(f, history, n)
  BY WalkExists
<1>3. f = rec(f)
  BY <1>1, <1>2 DEF IsWalk
<1>4. burn = rec(burn)
  BY <1>3, Zenon
<1>5. KmBurnedSinceLastRefuel(history) = burn[n]
  BY DEF KmBurnedSinceLastRefuel
<1> HIDE DEF burn
<1>6. /\ burn = [i \in 0 .. n |-> burn[i]]
      /\ burn[0] = 0
      /\ \A i \in 1 .. n : burn[i] = BurnAfter(history[i], burn[i - 1])
  BY <1>1, <1>4
<1>7. \A i \in 0 .. n : burn[i] \in Nat
  <2> DEFINE Bad == {i \in 0 .. n : burn[i] \notin Nat}
  <2>1. SUFFICES ASSUME Bad # {} PROVE FALSE
    OBVIOUS
  <2>2. Bad \in SUBSET Nat /\ \A i \in 0 .. n : i \in Bad <=> burn[i] \notin Nat
    BY <1>1
  <2>6. Bad \subseteq 0 .. n
    OBVIOUS
  <2> HIDE DEF Bad
  <2>3. PICK i \in Bad : \A j \in Bad : i <= j
    BY <2>1, <2>2, LeastNatural
  <2>4. i \in 1 .. n /\ i - 1 \in 0 .. n /\ i - 1 \notin Bad
    BY <1>1, <1>6, <2>2, <2>3, <2>6
  <2>5. burn[i - 1] \in Nat /\ history[i] \in LegHistory
    BY <2>2, <2>4, ElementOfSeq
  <2> QED
    BY <1>6, <2>2, <2>3, <2>4, <2>5, BurnAfterType
<1>8. IsWalk(burn, history, n)
  BY <1>6, <1>7 DEF IsWalk
<1> QED
  BY <1>5, <1>8

LEMMA KmBurnedType ==
    ASSUME NEW history \in Seq(LegHistory)
    PROVE  KmBurnedSinceLastRefuel(history) \in Nat
<1>1. PICK f : /\ IsWalk(f, history, Len(history))
               /\ KmBurnedSinceLastRefuel(history) = f[Len(history)]
  BY KmBurnedIsAWalk
<1>2. Len(history) \in Nat
  BY LenProperties
<1> QED
  BY <1>1, <1>2 DEF IsWalk

-----------------------------------------------------------------------------
(* The anchor, and the stations *)

\* The anchor is the last of the earlier days that counts as a refuel, or the start.
LEMMA AnchorIsLast ==
    ASSUME NEW n \in Nat, NEW seen, NEW refuelled, NEW declaredLeg
    PROVE  LET a == SourcingAnchor(1 .. n, seen, refuelled, declaredLeg)
               marked == {l \in 1 .. n : \/ l \in refuelled \/ seen[l] = "no_stations_found"
                                         \/ l = declaredLeg}
           IN  /\ a \in {0} \cup marked /\ a \in 0 .. n
               /\ \A l \in marked : l <= a
<1> DEFINE marked == {l \in 1 .. n : \/ l \in refuelled \/ seen[l] = "no_stations_found"
                                     \/ l = declaredLeg}
           S == {0} \cup marked
<1>1. S \in SUBSET Int /\ S # {} /\ S \subseteq 0 .. n
  OBVIOUS
<1>2. IsFiniteSet(S)
  <2>1. IsFiniteSet(0 .. n)
    BY FS_Interval
  <2> QED
    BY <1>1, <2>1, FS_Subset
<1>3. SourcingAnchor(1 .. n, seen, refuelled, declaredLeg) = Max(S)
  BY DEF SourcingAnchor
<1> HIDE DEF marked
<1>4. Max(S) \in S /\ \A x \in S : x <= Max(S)
  <2> HIDE DEF S
  <2> QED
    BY <1>1, <1>2, MaxIsGreatest
<1> QED
  BY <1>1, <1>3, <1>4 DEF marked

LEMMA FuelNeededType ==
    ASSUME NEW km \in Nat, NEW stations \in SUBSET Nat, NEW tank \in Nat
    PROVE  FuelNeededAtLegStart(km, stations, tank) \in Nat
<1> DEFINE S == {km, tank} \cup {s \in stations : 0 < s /\ s < km}
<1>1. S \in SUBSET Nat /\ S # {}
  OBVIOUS
<1>2. FuelNeededAtLegStart(km, stations, tank) = Min(S)
  BY DEF FuelNeededAtLegStart
<1> HIDE DEF S
<1> QED
  BY <1>1, <1>2, MinIsLeast

LEMMA OnLegIs ==
    ASSUME NEW km \in Nat, NEW stations \in SUBSET Nat
    PROVE  OnLeg(km, stations) \subseteq 1 .. km /\ OnLeg(km, stations) \subseteq stations
<1>1. ASSUME NEW s \in OnLeg(km, stations) PROVE s \in 1 .. km /\ s \in stations
  <2>1. s \in stations /\ 0 < s /\ s <= km
    BY <1>1 DEF OnLeg
  <2>2. s \in Nat
    BY <2>1
  <2> QED
    BY <2>1, <2>2
<1> QED
  BY <1>1

\* The farthest station in reach is one of the stations in reach.
LEMMA FarthestIsSafe ==
    ASSUME NEW km \in Nat, NEW stations \in SUBSET Nat, NEW tank, NEW burn, NEW at,
           SafeStations(km, stations, tank, burn, at) # {}
    PROVE  LET safe == SafeStations(km, stations, tank, burn, at)
           IN  /\ Choose(safe) \in safe /\ Choose(safe) \in stations
               /\ \A s \in safe : s <= Choose(safe)
<1> DEFINE S == SafeStations(km, stations, tank, burn, at)
           on == OnLeg(km, stations)
<1>2. on \subseteq 1 .. km /\ on \subseteq stations
  BY OnLegIs
<1>1. S \subseteq on
  <2> HIDE DEF on
  <2>1. S = {s \in on : at < s /\ s - at <= Reach(tank, burn, at)}
    BY DEF SafeStations, on
  <2> QED
    BY <2>1
<1>3. IsFiniteSet(1 .. km)
  <2>1. 1 \in Int /\ km \in Int
    OBVIOUS
  <2> QED
    BY <2>1, FS_Interval
<1> HIDE DEF S
<1>4. IsFiniteSet(S) /\ S \in SUBSET Int
  <2> HIDE DEF on
  <2>1. S \in SUBSET (1 .. km)
    BY <1>1, <1>2
  <2>2. 1 .. km \in SUBSET Int
    OBVIOUS
  <2>3. IsFiniteSet(S)
    BY <2>1, <1>3, FS_Subset
  <2> QED
    BY <2>1, <2>2, <2>3
<1>5. Max(S) \in S /\ \A s \in S : s <= Max(S)
  <2>1. S # {}
    BY DEF S
  <2> QED
    BY <2>1, <1>4, MaxIsGreatest
<1>6. Choose(S) = Max(S)
  BY DEF Choose
<1> QED
  BY <1>1, <1>2, <1>5, <1>6 DEF S

-----------------------------------------------------------------------------
(* Types *)

\* The steps at which a request has the row of its day in hand.
HasLeg == {"compute", "vehicle", "walk", "ahead", "search", "place"}

ReqTyped(q) ==
    /\ q \in Reqs
    /\ IsFiniteSet(q.picked) /\ IsFiniteSet(q.victims)
    /\ q.pc \in HasLeg => q.leg \in RouteRecords

TypesInv ==
    /\ TypeOK
    /\ \A l \in Legs : IsFiniteSet(stops[l])
    /\ \A r \in Requests : ReqTyped(req[r])

LEMMA RouteTypes ==
    ASSUME NEW rt \in RouteRecords
    PROVE  /\ rt.type \in {"drive", "rest"} /\ rt.ends \in {"missing", "same", "apart"}
           /\ rt.km \in Nat /\ rt.stations \in SUBSET Nat
  BY DEF RouteRecords

LEMMA IdleTyped == ReqTyped(Idle)
<1>1. /\ IsFiniteSet({})
      /\ <<>> \in Seq(Legs)
  BY FS_EmptySet
<1>2. Idle \in Reqs
  BY <1>1 DEF Idle, Reqs, Steps, Statuses
<1>3. Idle.picked = {} /\ Idle.victims = {} /\ Idle.pc \notin HasLeg
  BY DEF Idle, HasLeg
<1> QED
  BY <1>1, <1>2, <1>3 DEF ReqTyped

LEMMA ForgetTyped ==
    ASSUME NEW q, ReqTyped(q), q.pc \notin HasLeg
    PROVE  ReqTyped(Forget(q))
<1>1. /\ Forget(q) \in Reqs
      /\ Forget(q).picked = q.picked /\ Forget(q).victims = q.victims /\ Forget(q).pc = q.pc
  BY DEF Forget, ReqTyped, Reqs
<1> QED
  BY <1>1 DEF ReqTyped

LEMMA GoTyped ==
    ASSUME NEW q, ReqTyped(q), NEW pc \in Steps, pc \in HasLeg => q.leg \in RouteRecords
    PROVE  LET p == [q EXCEPT !.pc = pc] IN ReqTyped(p) /\ p.pc = pc
<1> DEFINE p == [q EXCEPT !.pc = pc]
<1>1. p \in Reqs /\ p.picked = q.picked /\ p.victims = q.victims /\ p.pc = pc /\ p.leg = q.leg
  BY DEF ReqTyped, Reqs
<1> QED
  BY <1>1 DEF ReqTyped

\* The first of the days to plan is a day.
LEMMA FirstIsADay ==
    ASSUME NEW q, ReqTyped(q), q.todo # <<>>
    PROVE  Head(q.todo) \in Legs /\ Tail(q.todo) \in Seq(Legs)
<1>1. q.todo \in Seq(Legs)
  BY DEF ReqTyped, Reqs
<1> QED
  BY <1>1, HeadTailProperties

LEMMA InOrderType ==
    ASSUME NEW S \in SUBSET Legs
    PROVE  InOrder(S) \in Seq(Legs)
<1>1. IsFiniteSet(Legs) /\ Legs \in SUBSET Int
  BY DaysAssumption, FS_Interval DEF Legs
<1>2. IsFiniteSet(S) /\ S \in SUBSET Int
  BY <1>1, FS_Subset
<1>3. Cardinality(S) \in Nat
  BY <1>2, FS_CardinalityType
<1>4. \A i \in 1 .. Cardinality(S) :
         (CHOOSE l \in S : Cardinality({k \in S : k < l}) = i - 1) \in Legs
  BY <1>2, EachHasItsPlace
<1>5. InOrder(S) \in [1 .. Cardinality(S) -> Legs]
  BY <1>4 DEF InOrder
<1> QED
  BY <1>3, <1>5, SeqDef

LEMMA NewBatchType ==
    ASSUME TypesInv, NEW l \in Legs
    PROVE  NewBatch(l) \in Nat
<1> DEFINE held == {req[r].victims : r \in Requests}
           rows == stops[l] \cup UNION held
           used == {s.batch : s \in rows}
<1>1. IsFiniteSet(held)
  <2> DEFINE f == [r \in Requests |-> req[r].victims]
  <2>1. held = {f[r] : r \in Requests} /\ f = [r \in Requests |-> f[r]]
    OBVIOUS
  <2> HIDE DEF f, held
  <2> QED
    BY <2>1, RequestAssumption, ValuesAreFinite
<1>2. IsFiniteSet(UNION held)
  <2>1. \A v \in held : IsFiniteSet(v)
    BY DEF TypesInv, ReqTyped
  <2> QED
    BY <1>1, <2>1, FS_UNION
<1>3. IsFiniteSet(rows)
  BY <1>2, FS_Union DEF TypesInv
<1>4. \A s \in rows : s.batch \in Nat
  <2>1. stops[l] \subseteq Stops /\ \A v \in held : v \subseteq Stops
    BY DEF TypesInv, TypeOK, ReqTyped, Reqs
  <2> QED
    BY <2>1 DEF Stops
<1> HIDE DEF rows
<1>5. IsFiniteSet(used) /\ used \in SUBSET Nat
  <2> DEFINE f == [s \in rows |-> s.batch]
  <2>1. /\ used = {f[s] : s \in rows} /\ used \in SUBSET Nat
        /\ f = [s \in rows |-> f[s]]
    BY <1>4
  <2> HIDE DEF f, used
  <2> QED
    BY <2>1, <1>3, ValuesAreFinite
<1>6. NewBatch(l) = Min(0 .. Cardinality(used) \ used)
  BY DEF NewBatch, rows
<1> HIDE DEF used
<1> QED
  BY <1>5, <1>6, SomeNumberIsFree

-----------------------------------------------------------------------------
(* What a request reads *)

LEMMA RefuelsType ==
    ASSUME TypesInv, NEW l \in Legs
    PROVE  Refuels(l) \in SUBSET Nat /\ IsFiniteSet(Refuels(l))
<1> DEFINE rows == {x \in stops[l] : x.state # "dismissed"}
<1>1. IsFiniteSet(rows) /\ rows \subseteq Stops
  BY FS_Subset DEF TypesInv, TypeOK
<1>2. \A s \in rows : s.km \in Nat
  BY <1>1 DEF Stops
<1> HIDE DEF rows
<1> DEFINE kms == {s.km : s \in rows}
<1>3. IsFiniteSet(kms) /\ kms \in SUBSET Nat
  <2> DEFINE f == [s \in rows |-> s.km]
  <2>1. /\ kms = {f[s] : s \in rows} /\ kms \in SUBSET Nat
        /\ f = [s \in rows |-> f[s]]
    BY <1>2
  <2> HIDE DEF f, kms
  <2> QED
    BY <2>1, <1>1, ValuesAreFinite
<1> QED
  BY <1>3 DEF Refuels, rows

LEMMA HistoryType ==
    ASSUME TypesInv, NEW l \in Legs, NEW rng \in Nat, NEW anchor \in Declarations \cup {None}
    PROVE  History(l, rng, anchor) \in LegHistory
<1> DEFINE S == {-1} \cup Refuels(l)
<1>1. S \in SUBSET Int /\ IsFiniteSet(S) /\ S # {}
  <2>1. Refuels(l) \in SUBSET Nat /\ IsFiniteSet(Refuels(l))
    BY RefuelsType
  <2>2. IsFiniteSet({-1} \cup Refuels(l))
    BY <2>1, FS_AddElement
  <2> QED
    BY <2>1, <2>2
<1> HIDE DEF S
<1>2. Max(S) \in Int
  BY <1>1, MaxIsGreatest
<1>3. route[l].km \in Nat
  BY RouteAssumption, RouteTypes DEF TypesInv, TypeOK
<1>4. anchor # None => anchor.km \in Nat
  BY DEF Declarations
<1>5. anchor # None => DeclaredBurn(rng, anchor) \in Int
  BY <1>4 DEF DeclaredBurn, AtLeastZero
<1>6. (status[l] = "no_stations_found") \in BOOLEAN
  OBVIOUS
<1>7. History(l, rng, anchor) =
        [km |-> route[l].km, lastFuel |-> Max(S),
         declared |-> IF anchor # None /\ anchor.leg = l THEN DeclaredBurn(rng, anchor) ELSE -1,
         warned |-> status[l] = "no_stations_found"]
  BY DEF History, S
<1> QED
  BY <1>2, <1>3, <1>5, <1>6, <1>7 DEF LegHistory

LEMMA BurnType ==
    ASSUME TypesInv, NEW l \in Legs, NEW rng \in Nat, NEW anchor \in Declarations \cup {None}
    PROVE  BurnAtStart(l, rng, anchor) \in Nat
<1>1. CASE anchor # None /\ anchor.leg = l
  <2>1. anchor.km \in Nat
    BY <1>1 DEF Declarations
  <2> QED
    BY <1>1, <2>1 DEF BurnAtStart, DeclaredBurn, AtLeastZero
<1>2. CASE ~(anchor # None /\ anchor.leg = l)
  <2> DEFINE h == [k \in 1 .. (l - 1) |-> History(k, rng, anchor)]
  <2>1. l - 1 \in Nat /\ 1 .. (l - 1) \subseteq Legs
    BY DaysAssumption DEF Legs
  <2>2. h \in [1 .. (l - 1) -> LegHistory]
    BY <2>1, HistoryType
  <2> HIDE DEF h
  <2>3. h \in Seq(LegHistory)
    BY <2>1, <2>2, SeqDef
  <2>4. KmBurnedSinceLastRefuel(h) \in Nat
    BY <2>3, KmBurnedType
  <2> QED
    BY <1>2, <2>4 DEF BurnAtStart, h
<1> QED
  BY <1>1, <1>2

LEMMA LookType ==
    ASSUME TypesInv, NEW r \in Requests
    PROVE  /\ DayToLookAt(r) \subseteq Legs
           /\ DayToLookAt(r) # {} => Min(DayToLookAt(r)) \in Legs
<1> DEFINE later == {k \in Drives : k > Now(r) /\ route[k].km > 0}
<1>1. later \subseteq Legs /\ Legs \in SUBSET Nat
  BY DaysAssumption DEF Drives, Legs
<1>2. DayToLookAt(r) = {} \/ (later # {} /\ DayToLookAt(r) = {Min(later)})
  BY Zenon DEF DayToLookAt
<1> HIDE DEF later
<1>3. DayToLookAt(r) \subseteq Legs
  BY <1>1, <1>2, MinIsLeast
<1>4. DayToLookAt(r) # {} => Min(DayToLookAt(r)) \in DayToLookAt(r)
  BY <1>1, <1>3, MinIsLeast
<1> QED
  BY <1>3, <1>4

\* The memo of a request remembers sets of stations.
LEMMA SearchingTyped ==
    ASSUME TypesInv, NEW r \in Requests, NEW l \in Legs
    PROVE  LET p == Searching(r, l)
           IN  /\ ReqTyped(p) /\ p.pc = req[r].pc /\ p.leg = req[r].leg
               /\ p.range = req[r].range /\ p.burn = req[r].burn
               /\ StationsFound(p, l) \in SUBSET Nat
<1> DEFINE q == req[r]
           p == [q EXCEPT !.known[l] = {route[l].stations}, !.bill[l] = @ + 1]
<1>0. q \in Reqs /\ ReqTyped(q)
  BY DEF TypesInv, ReqTyped
<1>1. route[l].stations \in SUBSET Nat
  BY RouteAssumption, RouteTypes DEF TypesInv, TypeOK
<1>2. q.known \in [Legs -> SUBSET (SUBSET Nat)] /\ q.bill \in [Legs -> Nat]
  BY <1>0 DEF Reqs
<1>3. p \in Reqs
  <2> DEFINE known == [q.known EXCEPT ![l] = {route[l].stations}]
             bill == [q.bill EXCEPT ![l] = @ + 1]
  <2>1. known \in [Legs -> SUBSET (SUBSET Nat)]
    BY <1>1, <1>2
  <2>2. bill \in [Legs -> Nat]
    BY <1>2
  <2>3. p = [q EXCEPT !.known = known, !.bill = bill]
    BY <1>0 DEF Reqs
  <2> HIDE DEF known, bill, p
  <2> QED
    BY <1>0, <2>1, <2>2, <2>3 DEF Reqs
<1>4. /\ p.pc = q.pc /\ p.leg = q.leg /\ p.picked = q.picked /\ p.victims = q.victims
      /\ p.range = q.range /\ p.burn = q.burn
  BY <1>0 DEF Reqs
<1> HIDE DEF p
<1>5. ReqTyped(p)
  BY <1>0, <1>3, <1>4 DEF ReqTyped
<1>6. Searching(r, l) \in {q, p}
  BY DEF Searching, p
<1>7. \A x \in Reqs : StationsFound(x, l) \in SUBSET Nat
  BY DEF StationsFound, Reqs
<1> QED
  BY <1>0, <1>3, <1>4, <1>5, <1>6, <1>7

-----------------------------------------------------------------------------
(* Each step keeps the types *)

\* Everything but the requests.
Tables ==
    /\ route \in [Legs -> Routes] /\ range \in Ranges /\ declared \in Declarations \cup {None}
    /\ unplaced \subseteq Legs
    /\ status \in [Legs -> Statuses] /\ cached \subseteq Legs
    /\ stops \in [Legs -> SUBSET Stops] /\ \A l \in Legs : IsFiniteSet(stops[l])
    /\ editor \in [todo : Seq(Legs), cleared : BOOLEAN]
    /\ upsets \in Nat /\ opens \in Nat /\ abandoned \subseteq Legs
    /\ upToDate \in [Legs -> SUBSET {"stops", "status"}]

AllTyped == req \in [Requests -> Reqs] /\ \A r \in Requests : ReqTyped(req[r])

LEMMA TypesAreBoth == TypesInv <=> Tables /\ AllTyped
  BY DEF TypesInv, TypeOK, Tables, AllTyped

LEMMA BothAfter == TypesInv' <=> Tables' /\ AllTyped'
  BY DEF TypesInv, TypeOK, Tables, AllTyped

LEMMA PutTypes ==
    ASSUME TypesInv, NEW r \in Requests, NEW p, Put(r, p), ReqTyped(p)
    PROVE  AllTyped'
<1>1. req' = [req EXCEPT ![r] = p] /\ p \in Reqs /\ AllTyped
  BY TypesAreBoth DEF Put, ReqTyped
<1> QED
  BY <1>1 DEF AllTyped

LEMMA SameTables ==
    ASSUME TypesInv, UNCHANGED <<Trip, Row, stops, Bounds, upToDate>>
    PROVE  Tables'
<1>1. Tables
  BY TypesAreBoth
<1> QED
  BY <1>1 DEF Tables, Trip, Row, Bounds

\* A step of a request that writes to no table.
LEMMA PutOnly ==
    ASSUME TypesInv, NEW r \in Requests, NEW p, Put(r, p), ReqTyped(p),
           UNCHANGED <<Trip, Row, stops, Bounds, upToDate>>
    PROVE  TypesInv'
<1> QED
  BY PutTypes, SameTables, BothAfter

LEMMA RowTypes ==
    ASSUME TypesInv, NEW l \in Legs, NEW w \in Statuses, SetFuelStatus(l, w)
    PROVE  (status \in [Legs -> Statuses] /\ cached \subseteq Legs /\ abandoned \subseteq Legs)'
<1>1. status' \in [Legs -> Statuses] /\ abandoned' \subseteq Legs
  BY DEF TypesInv, TypeOK, SetFuelStatus
<1>2. cached' \subseteq Legs
  <2>1. cached \subseteq Legs /\ cached' = Stamped(l, w)
    BY DEF TypesInv, TypeOK, SetFuelStatus
  <2>2. Stamped(l, w) \in {cached, cached \cup {l}, cached \ {l}}
    <3>1. w \in Searched \/ w = "none" \/ (w \notin Searched /\ w # "none")
      OBVIOUS
    <3>2. w \in Searched => w # "none"
      BY DEF Searched
    <3> QED
      BY <3>1, <3>2, Zenon DEF Stamped
  <2> QED
    BY <2>1, <2>2
<1> QED
  BY <1>1, <1>2

LEMMA NoteTypes ==
    ASSUME TypesInv, NEW l, NEW part \in {"stops", "status"}, NEW current, Note(l, part, current)
    PROVE  (upToDate \in [Legs -> SUBSET {"stops", "status"}])'
<1>1. upToDate \in [Legs -> SUBSET {"stops", "status"}]
  BY DEF TypesInv, TypeOK
<1> QED
  BY <1>1 DEF Note

LEMMA UpsetTypes ==
    ASSUME TypesInv, NEW kind, Upset(kind)
    PROVE  upsets' \in Nat
  BY DEF TypesInv, TypeOK, Upset

\* A request at work on a day holds a day.
LEMMA NowIsADay ==
    ASSUME TypesInv, FuelInv, NEW r \in Requests, req[r].pc \in Holding \cup {"load", "compute"}
    PROVE  /\ ReqTyped(req[r]) /\ req[r].todo # <<>>
           /\ Now(r) \in Legs /\ Tail(req[r].todo) \in Seq(Legs)
<1>1. ReqTyped(req[r]) /\ req[r].todo # <<>>
  BY AtWork DEF TypesInv
<1> QED
  BY <1>1, FirstIsADay DEF Now

LEMMA OpenTypes ==
    ASSUME TypesInv, NEW r \in Requests, NEW l \in Legs, OpenDay(r, l) \/ ForceDay(r, l)
    PROVE  TypesInv'
<1> DEFINE calm == editor.todo = <<>> /\ \A s \in Requests : At(s, "idle") \/ req[s].calm
           alone == IF InSight(l) /\ \A s \in Requests : At(s, "idle") THEN opens' ELSE 0
           p == [Idle EXCEPT !.pc = "lookup", !.target = l, !.pure = editor.todo = <<>>,
                             !.calm = calm, !.alone = alone]
<1>0. opens' \in Nat
  BY DEF TypesInv, TypeOK, OpenDay, ForceDay, BeginOpen
<1>1. ReqTyped(p)
  <2>1. /\ p \in Reqs /\ p.pc = "lookup" /\ p.picked = {} /\ p.victims = {}
    <3>1. Idle \in Reqs /\ Idle.picked = {} /\ Idle.victims = {}
      BY IdleTyped DEF ReqTyped, Idle
    <3>2. alone \in Nat
      BY <1>0
    <3>3. calm \in BOOLEAN
      OBVIOUS
    <3> HIDE DEF calm, alone
    <3> QED
      BY <3>1, <3>2, <3>3 DEF Reqs, Steps
  <2>2. "lookup" \notin HasLeg /\ IsFiniteSet({})
    BY FS_EmptySet DEF HasLeg
  <2> QED
    BY <2>1, <2>2 DEF ReqTyped
<1>2. AllTyped'
  BY <1>1, PutTypes DEF OpenDay, ForceDay, BeginOpen
<1>3. upsets' \in Nat /\ opens' \in Nat
  BY UpsetTypes DEF TypesInv, TypeOK, OpenDay, ForceDay, BeginOpen
<1>4. Tables'
  BY <1>3, TypesAreBoth DEF Tables, OpenDay, ForceDay, BeginOpen, Trip, Row
<1> QED
  BY <1>2, <1>4, BothAfter

LEMMA LookupTypes ==
    ASSUME TypesInv, FuelInv, NEW r \in Requests, ReadStatuses(r) \/ DecideCascade(r)
    PROVE  TypesInv'
<1> DEFINE q == req[r]
           l == q.target
<1>1. ReqTyped(q) /\ q.pc \in {"lookup", "refuels"} /\ l \in Legs
  BY DEF TypesInv, FuelInv, ReadStatuses, DecideCascade, At, ReqOK
<1>2. UNCHANGED <<Trip, Row, stops, Bounds, upToDate>>
  BY DEF ReadStatuses, DecideCascade
<1>3. ASSUME NEW pc \in {"load", "refuels", "failTarget"}, NEW seen \in [Legs -> Statuses],
             NEW todo \in Seq(Legs)
      PROVE  /\ ReqTyped([q EXCEPT !.pc = pc, !.todo = todo])
             /\ ReqTyped([q EXCEPT !.pc = pc, !.seen = seen])
             /\ ReqTyped([q EXCEPT !.pc = pc, !.seen = seen, !.todo = todo])
  <2>1. pc \in Steps /\ pc \notin HasLeg
    BY <1>3 DEF Steps, HasLeg
  <2>2. \A p \in Reqs : p.picked = q.picked /\ p.victims = q.victims /\ p.pc = pc => ReqTyped(p)
    BY <1>1, <2>1 DEF ReqTyped
  <2>3. q \in Reqs
    BY <1>1 DEF ReqTyped
  <2> HIDE DEF q
  <2>4. LET p == [q EXCEPT !.pc = pc, !.todo = todo]
        IN  p \in Reqs /\ p.picked = q.picked /\ p.victims = q.victims /\ p.pc = pc
    BY <1>3, <2>1, <2>3 DEF Reqs
  <2>5. LET p == [q EXCEPT !.pc = pc, !.seen = seen]
        IN  p \in Reqs /\ p.picked = q.picked /\ p.victims = q.victims /\ p.pc = pc
    BY <1>3, <2>1, <2>3 DEF Reqs
  <2>6. LET p == [q EXCEPT !.pc = pc, !.seen = seen, !.todo = todo]
        IN  p \in Reqs /\ p.picked = q.picked /\ p.victims = q.victims /\ p.pc = pc
    BY <1>3, <2>1, <2>3 DEF Reqs
  <2> QED
    BY <2>2, <2>4, <2>5, <2>6
<1>4. SUFFICES \E p : Put(r, p) /\ ReqTyped(p)
  BY <1>2, PutOnly
<1>5. Idle.seen \in [Legs -> Statuses]
  BY IdleTyped DEF ReqTyped, Reqs
<1>6. CASE ReadStatuses(r)
  <2> DEFINE seen == [k \in Legs |-> IF k < l THEN status[k] ELSE "none"]
  <2>1. seen \in [Legs -> Statuses] /\ <<l>> \in Seq(Legs)
    BY <1>1 DEF TypesInv, TypeOK, Statuses
  <2>2. Put(r, [q EXCEPT !.pc = "load", !.todo = <<l>>]) \/ Put(r, [q EXCEPT !.pc = "refuels", !.seen = seen])
    BY <1>6 DEF ReadStatuses
  <2> HIDE DEF seen, q
  <2> QED
    BY <1>3, <2>1, <2>2
<1>7. CASE DecideCascade(r)
  <2> DEFINE plan == LegsNeedingSourcingBefore(1..(l - 1), q.seen)
             S == plan.toSource \cup {l}
  <2>1. S \in SUBSET Legs
    <3>1. 1..(l - 1) \subseteq Legs
      BY <1>1, DaysAssumption DEF Legs
    <3>2. plan.toSource \subseteq 1..(l - 1)
      BY DEF LegsNeedingSourcingBefore, DrivesSince
    <3> QED
      BY <1>1, <3>1, <3>2
  <2>2. InOrder(S) \in Seq(Legs)
    BY <2>1, InOrderType
  <2>3. \/ Put(r, [q EXCEPT !.pc = "failTarget", !.seen = Idle.seen])
        \/ Put(r, [q EXCEPT !.pc = "load", !.seen = Idle.seen, !.todo = InOrder(S)])
    BY <1>7 DEF DecideCascade
  <2> HIDE DEF S, q
  <2> QED
    BY <1>3, <1>5, <2>2, <2>3
<1> QED
  BY <1>6, <1>7

\* A request's record with another outcome, its arithmetic forgotten or not.
LEMMA TurnsTo ==
    ASSUME NEW q, ReqTyped(q), NEW pc \in Steps \ HasLeg, NEW outcome \in Statuses
    PROVE  /\ ReqTyped([q EXCEPT !.pc = pc, !.outcome = outcome])
           /\ ReqTyped([q EXCEPT !.pc = pc, !.picked = {}])
           /\ ReqTyped([q EXCEPT !.pc = pc, !.picked = {}, !.outcome = outcome])
<1>1. q \in Reqs /\ IsFiniteSet({}) /\ IsFiniteSet(q.picked) /\ IsFiniteSet(q.victims)
  BY FS_EmptySet DEF ReqTyped
<1>2. \A p \in Reqs : p.picked \in {q.picked, {}} /\ p.victims = q.victims /\ p.pc = pc => ReqTyped(p)
  BY <1>1 DEF ReqTyped
<1>3. /\ [q EXCEPT !.pc = pc, !.outcome = outcome] \in Reqs
      /\ [q EXCEPT !.pc = pc, !.picked = {}] \in Reqs
      /\ [q EXCEPT !.pc = pc, !.picked = {}, !.outcome = outcome] \in Reqs
  BY <1>1 DEF Reqs
<1>4. /\ [q EXCEPT !.pc = pc, !.outcome = outcome].picked = q.picked
      /\ [q EXCEPT !.pc = pc, !.outcome = outcome].victims = q.victims
      /\ [q EXCEPT !.pc = pc, !.outcome = outcome].pc = pc
      /\ [q EXCEPT !.pc = pc, !.picked = {}].picked = {}
      /\ [q EXCEPT !.pc = pc, !.picked = {}].victims = q.victims
      /\ [q EXCEPT !.pc = pc, !.picked = {}].pc = pc
      /\ [q EXCEPT !.pc = pc, !.picked = {}, !.outcome = outcome].picked = {}
      /\ [q EXCEPT !.pc = pc, !.picked = {}, !.outcome = outcome].victims = q.victims
      /\ [q EXCEPT !.pc = pc, !.picked = {}, !.outcome = outcome].pc = pc
  BY <1>1 DEF Reqs
<1> QED
  BY <1>2, <1>3, <1>4

\* To forget the arithmetic and go on.
LEMMA ForgetsAndGoes ==
    ASSUME NEW q, ReqTyped(q), NEW pc \in Steps \ HasLeg, NEW outcome \in Statuses
    PROVE  /\ ReqTyped([Forget(q) EXCEPT !.pc = pc])
           /\ ReqTyped([Forget(q) EXCEPT !.pc = pc, !.outcome = outcome])
           /\ ReqTyped([Forget(q) EXCEPT !.pc = pc, !.picked = {}])
           /\ ReqTyped([Forget(q) EXCEPT !.pc = pc, !.picked = {}, !.outcome = outcome])
<1> DEFINE away == [q EXCEPT !.pc = pc]
           x == Forget(away)
<1>1. ReqTyped(away) /\ away.pc \notin HasLeg
  BY GoTyped
<1>2. ReqTyped(x)
  BY <1>1, ForgetTyped
<1>3. /\ [Forget(q) EXCEPT !.pc = pc] = [x EXCEPT !.pc = pc]
      /\ [Forget(q) EXCEPT !.pc = pc, !.outcome = outcome] = [x EXCEPT !.pc = pc, !.outcome = outcome]
      /\ [Forget(q) EXCEPT !.pc = pc, !.picked = {}] = [x EXCEPT !.pc = pc, !.picked = {}]
      /\ [Forget(q) EXCEPT !.pc = pc, !.picked = {}, !.outcome = outcome]
            = [x EXCEPT !.pc = pc, !.picked = {}, !.outcome = outcome]
  BY DEF Forget, ReqTyped, Reqs
<1> HIDE DEF x, away
<1> QED
  BY <1>2, <1>3, TurnsTo, GoTyped

LEMMA LoadTypes ==
    ASSUME TypesInv, FuelInv, NEW r \in Requests, LoadLeg(r)
    PROVE  TypesInv'
<1> DEFINE q == req[r]
           rt == route[Now(r)]
           begin == [q EXCEPT !.grounded = FALSE, !.picked = {}, !.keep = {}]
           far == [begin EXCEPT !.pc = "compute", !.leg = rt]
<1>1. ReqTyped(q) /\ q.pc = "load" /\ Now(r) \in Legs
  BY NowIsADay DEF LoadLeg, At
<1>2. rt \in RouteRecords
  BY <1>1, RouteAssumption DEF TypesInv, TypeOK
<1> HIDE DEF q, rt
<1>3. q \in Reqs /\ IsFiniteSet({}) /\ IsFiniteSet(q.victims)
  BY <1>1, FS_EmptySet DEF ReqTyped
<1>4. /\ begin \in Reqs /\ begin.picked = {} /\ begin.victims = q.victims /\ begin.pc = q.pc
  BY <1>3 DEF Reqs
<1>5. ReqTyped(begin)
  <2>1. q.pc \notin HasLeg
    BY <1>1 DEF HasLeg
  <2> QED
    BY <1>3, <1>4, <2>1 DEF ReqTyped
<1> HIDE DEF begin
<1>6. ReqTyped(far)
  <2>1. far \in Reqs /\ far.picked = {} /\ far.victims = q.victims /\ far.leg = rt
    BY <1>2, <1>4 DEF Reqs, Steps
  <2> QED
    BY <1>2, <1>3, <2>1 DEF ReqTyped
<1>7. /\ ReqTyped([begin EXCEPT !.pc = "settle", !.outcome = "none"])
      /\ ReqTyped([begin EXCEPT !.pc = "clear", !.outcome = "ready"])
  <2>1. {"settle", "clear"} \subseteq Steps \ HasLeg /\ {"none", "ready"} \subseteq Statuses
    BY DEF Steps, HasLeg, Statuses
  <2> QED
    BY <1>5, <2>1, TurnsTo
<1>8. \/ Put(r, [begin EXCEPT !.pc = "settle", !.outcome = "none"])
      \/ Put(r, [begin EXCEPT !.pc = "clear", !.outcome = "ready"])
      \/ Put(r, far)
  BY DEF LoadLeg, q, rt, begin
<1>9. UNCHANGED <<Trip, Row, stops, Bounds, upToDate>>
  BY DEF LoadLeg
<1> HIDE DEF far
<1> QED
  BY <1>6, <1>7, <1>8, <1>9, PutOnly

LEMMA ComputeTypes ==
    ASSUME TypesInv, FuelInv, NEW r \in Requests,
           MarkComputing(r) \/ ReadTank(r) \/ ReadDefaultVehicle(r) \/ WalkBack(r)
    PROVE  TypesInv'
<1> DEFINE q == req[r]
<1>1. q.pc \in {"compute", "vehicle", "walk"}
  BY DEF MarkComputing, ReadTank, ReadDefaultVehicle, WalkBack, At
<1>2. ReqTyped(q) /\ Now(r) \in Legs /\ q.leg \in RouteRecords /\ q \in Reqs
  BY <1>1, NowIsADay DEF Holding, HasLeg, ReqTyped
<1>3. CASE MarkComputing(r)
  <2>1. Put(r, [q EXCEPT !.pc = "vehicle"])
    BY <1>3 DEF MarkComputing, Go
  <2>2. ReqTyped([q EXCEPT !.pc = "vehicle"])
    BY <1>2, GoTyped DEF Steps
  <2>3. AllTyped'
    BY <2>1, <2>2, PutTypes
  <2>4. (status \in [Legs -> Statuses] /\ cached \subseteq Legs /\ abandoned \subseteq Legs)'
    BY <1>2, <1>3, RowTypes DEF MarkComputing, Statuses
  <2>5. (upToDate \in [Legs -> SUBSET {"stops", "status"}])'
    BY <1>3, NoteTypes DEF MarkComputing
  <2>6. Tables'
    BY <1>3, <2>4, <2>5, TypesAreBoth DEF Tables, MarkComputing, Trip, Bounds
  <2> QED
    BY <2>3, <2>6, BothAfter
<1>4. CASE ReadTank(r)
  <2> DEFINE p == [q EXCEPT !.pc = "walk", !.range = range, !.anchor = declared]
  <2>1. Put(r, [Forget(q) EXCEPT !.pc = "fail"]) \/ Put(r, p)
    BY <1>4 DEF ReadTank
  <2>2. range \in Nat /\ declared \in Declarations \cup {None}
    BY TankAssumption DEF TypesInv, TypeOK
  <2>3. ReqTyped(p)
    <3>1. p \in Reqs /\ p.picked = q.picked /\ p.victims = q.victims /\ p.leg = q.leg
      BY <1>2, <2>2 DEF Reqs, Steps
    <3> QED
      BY <1>2, <3>1 DEF ReqTyped
  <2>4. ReqTyped([Forget(q) EXCEPT !.pc = "fail"])
    <3>1. "fail" \in Steps \ HasLeg /\ "none" \in Statuses
      BY DEF Steps, HasLeg, Statuses
    <3> QED
      BY <1>2, <3>1, ForgetsAndGoes
  <2>5. UNCHANGED <<Trip, Row, stops, Bounds, upToDate>>
    BY <1>4 DEF ReadTank
  <2> HIDE DEF p, q
  <2> QED
    BY <2>1, <2>3, <2>4, <2>5, PutOnly
<1>5. CASE WalkBack(r)
  <2> DEFINE b == BurnAtStart(Now(r), q.range, q.anchor)
             g == q.alone = opens \/ \A k \in 1..(Now(r) - 1) : Firm(k)
             p == [q EXCEPT !.pc = "ahead", !.burn = b, !.grounded = g]
  <2>1. q.range \in Nat /\ q.anchor \in Declarations \cup {None}
    BY <1>2 DEF Reqs
  <2>2. b \in Nat
    BY <1>2, <2>1, BurnType
  <2>6. g \in BOOLEAN
    OBVIOUS
  <2>3. Put(r, p)
    BY <1>5 DEF WalkBack
  <2> HIDE DEF b, g
  <2>4. ReqTyped(p)
    <3>1. p \in Reqs /\ p.picked = q.picked /\ p.victims = q.victims /\ p.leg = q.leg
      BY <1>2, <2>2, <2>6 DEF Reqs, Steps
    <3> QED
      BY <1>2, <3>1 DEF ReqTyped
  <2>5. UNCHANGED <<Trip, Row, stops, Bounds, upToDate>>
    BY <1>5 DEF WalkBack
  <2> HIDE DEF p
  <2> QED
    BY <2>3, <2>4, <2>5, PutOnly
<1>6. CASE ReadDefaultVehicle(r)
  <2>0. PICK km \in Ranges :
            \/ Put(r, [Forget(q) EXCEPT !.pc = "fail", !.pure = FALSE])
            \/ Put(r, [q EXCEPT !.pc = "walk", !.range = km, !.anchor = declared, !.pure = FALSE])
    BY <1>6, Zenon DEF ReadDefaultVehicle
  <2> DEFINE p == [q EXCEPT !.pc = "walk", !.range = km, !.anchor = declared, !.pure = FALSE]
             x == [Forget(q) EXCEPT !.pc = "fail"]
             y == [Forget(q) EXCEPT !.pc = "fail", !.pure = FALSE]
  <2>2. km \in Nat /\ declared \in Declarations \cup {None}
    BY TankAssumption DEF TypesInv, TypeOK
  <2>3. ReqTyped(p)
    <3>1. p \in Reqs /\ p.picked = q.picked /\ p.victims = q.victims /\ p.leg = q.leg
      BY <1>2, <2>2 DEF Reqs, Steps
    <3> QED
      BY <1>2, <3>1 DEF ReqTyped
  <2>4. ReqTyped(x)
    <3>1. "fail" \in Steps \ HasLeg /\ "none" \in Statuses
      BY DEF Steps, HasLeg, Statuses
    <3> QED
      BY <1>2, <3>1, ForgetsAndGoes
  <2>5. y = [x EXCEPT !.pure = FALSE]
    BY <1>2 DEF Forget, Reqs
  <2>6. ReqTyped(y)
    <3> HIDE DEF x, y
    <3>1. y \in Reqs /\ y.picked = x.picked /\ y.victims = x.victims /\ y.leg = x.leg /\ y.pc = x.pc
      BY <2>4, <2>5 DEF ReqTyped, Reqs
    <3> QED
      BY <2>4, <3>1 DEF ReqTyped
  <2>7. AllTyped'
    BY <2>0, <2>3, <2>6, PutTypes
  <2>8. upsets' \in Nat
    BY <1>6, UpsetTypes DEF ReadDefaultVehicle
  <2>9. Tables'
    BY <1>6, <2>8, TypesAreBoth DEF Tables, ReadDefaultVehicle, Trip, Row
  <2> QED
    BY <2>7, <2>9, BothAfter
<1> QED
  BY <1>3, <1>4, <1>5, <1>6

LEMMA SourceTypes ==
    ASSUME TypesInv, FuelInv, NEW r \in Requests, LookAhead(r) \/ SearchLeg(r) \/ SearchThrows(r)
    PROVE  TypesInv'
<1> DEFINE q == req[r]
<1>1. q.pc \in {"ahead", "search", "clear", "settle"}
  BY DEF LookAhead, SearchLeg, SearchThrows, InTry, At
<1>2. /\ ReqTyped(q) /\ Now(r) \in Legs /\ q \in Reqs
      /\ q.pc \in {"ahead", "search"} => q.leg \in RouteRecords
  BY <1>1, NowIsADay DEF Holding, HasLeg, ReqTyped
<1>3. /\ {"clear", "fail"} \subseteq Steps \ HasLeg /\ {"ready", "none"} \subseteq Statuses
      /\ {"search", "place"} \subseteq Steps
  BY DEF Steps, HasLeg, Statuses
<1>4. CASE LookAhead(r)
  <2> DEFINE look == DayToLookAt(r)
             rec == IF look = {} THEN req[r] ELSE Searching(r, Min(look))
             reserve ==
                IF look = {} THEN 0
                ELSE LET k == Min(look)
                     IN  FuelNeededAtLegStart(route[k].km, StationsFound(rec, k), rec.range)
  <2>1. ReqTyped(rec) /\ rec.leg = q.leg
    <3>1. CASE look = {}
      BY <1>2, <3>1
    <3>2. CASE look # {}
      <4>1. Min(look) \in Legs
        BY <3>2, LookType
      <4> QED
        BY <3>2, <4>1, SearchingTyped
    <3> QED
      BY <3>1, <3>2
  <2>2. reserve \in Nat
    <3>1. CASE look = {}
      BY <3>1
    <3>2. CASE look # {}
      <4> DEFINE k == Min(look)
      <4>1. k \in Legs
        BY <3>2, LookType
      <4>2. StationsFound(rec, k) \in SUBSET Nat
        BY <3>2, <4>1, SearchingTyped
      <4>3. route[k].km \in Nat
        BY <4>1, RouteAssumption, RouteTypes DEF TypesInv, TypeOK
      <4>4. rec.range \in Nat
        BY <2>1 DEF ReqTyped, Reqs
      <4>5. reserve = FuelNeededAtLegStart(route[k].km, StationsFound(rec, k), rec.range)
        BY <3>2
      <4> HIDE DEF k, rec, look
      <4> QED
        BY <4>2, <4>3, <4>4, <4>5, FuelNeededType
    <3> QED
      BY <3>1, <3>2
  <2>3. \/ Put(r, [Forget(rec) EXCEPT !.pc = "clear", !.outcome = "ready", !.leg = rec.leg])
        \/ Put(r, [rec EXCEPT !.pc = "search", !.reserve = reserve])
    BY <1>4, Zenon DEF LookAhead
  <2>4. UNCHANGED <<Trip, Row, stops, Bounds, upToDate>>
    BY <1>4 DEF LookAhead
  <2>7. q.leg \in RouteRecords
    BY <1>2, <1>4 DEF LookAhead, At
  <2> HIDE DEF rec, reserve, look
  <2>5. ReqTyped([Forget(rec) EXCEPT !.pc = "clear", !.outcome = "ready", !.leg = rec.leg])
    <3> DEFINE x == [Forget(rec) EXCEPT !.pc = "clear", !.outcome = "ready"]
               y == [Forget(rec) EXCEPT !.pc = "clear", !.outcome = "ready", !.leg = rec.leg]
    <3>1. ReqTyped(x)
      BY <1>3, <2>1, ForgetsAndGoes
    <3>2. y = [x EXCEPT !.leg = rec.leg] /\ x.pc = "clear"
      BY <2>1 DEF Forget, ReqTyped, Reqs
    <3> HIDE DEF x, y
    <3>3. y \in Reqs /\ y.picked = x.picked /\ y.victims = x.victims /\ y.pc = "clear"
      BY <2>1, <2>7, <3>1, <3>2 DEF ReqTyped, Reqs
    <3>4. "clear" \notin HasLeg
      BY DEF HasLeg
    <3>5. ReqTyped(y)
      BY <3>1, <3>3, <3>4 DEF ReqTyped
    <3> QED
      BY <3>5 DEF y
  <2>6. ReqTyped([rec EXCEPT !.pc = "search", !.reserve = reserve])
    <3> DEFINE p == [rec EXCEPT !.pc = "search", !.reserve = reserve]
    <3>1. p \in Reqs /\ p.picked = rec.picked /\ p.victims = rec.victims /\ p.leg = rec.leg
      BY <1>3, <2>1, <2>2 DEF ReqTyped, Reqs
    <3> QED
      BY <1>2, <2>1, <2>7, <3>1 DEF ReqTyped
  <2> QED
    BY <2>3, <2>4, <2>5, <2>6, PutOnly
<1>5. CASE SearchLeg(r)
  <2> DEFINE rec == Searching(r, Now(r))
  <2>1. ReqTyped(rec) /\ rec.leg = q.leg
    BY <1>2, SearchingTyped
  <2>2. Put(r, [rec EXCEPT !.pc = "place"]) /\ UNCHANGED <<Trip, Row, stops, Bounds, upToDate>>
    BY <1>5 DEF SearchLeg
  <2>4. q.leg \in RouteRecords
    BY <1>2, <1>5 DEF SearchLeg, At
  <2> HIDE DEF rec
  <2>3. ReqTyped([rec EXCEPT !.pc = "place"])
    BY <1>3, <2>1, <2>4, GoTyped
  <2> QED
    BY <2>2, <2>3, PutOnly
<1>6. CASE SearchThrows(r)
  <2>1. Put(r, [Forget(q) EXCEPT !.pc = "fail"])
    BY <1>6 DEF SearchThrows
  <2>2. ReqTyped([Forget(q) EXCEPT !.pc = "fail"])
    BY <1>2, <1>3, ForgetsAndGoes
  <2>3. AllTyped'
    BY <2>1, <2>2, PutTypes
  <2>4. upsets' \in Nat
    BY <1>6, UpsetTypes DEF SearchThrows
  <2>5. Tables'
    BY <1>6, <2>4, TypesAreBoth DEF Tables, SearchThrows, Trip, Row
  <2> QED
    BY <2>3, <2>5, BothAfter
<1> QED
  BY <1>4, <1>5, <1>6

LEMMA PlaceTypes ==
    ASSUME TypesInv, FuelInv, NEW r \in Requests, Place(r)
    PROVE  TypesInv'
<1> DEFINE q == req[r]
<1>1. q.pc = "place"
  BY DEF Place, TankStateInvalid, PlanComplete, PlaceStop, PlanGap, Round, At
<1>2. ReqTyped(q) /\ Now(r) \in Legs /\ q.leg \in RouteRecords /\ q \in Reqs
  BY <1>1, NowIsADay DEF Holding, HasLeg, ReqTyped
<1>3. /\ {"begin", "fail", "clear"} \subseteq Steps \ HasLeg
      /\ {"ready", "none", "no_stations_found"} \subseteq Statuses
  BY DEF Steps, HasLeg, Statuses
<1>4. UNCHANGED <<Trip, Row, stops, Bounds, upToDate>>
  BY DEF Place, TankStateInvalid, PlanComplete, PlaceStop, PlanGap
<1>5. SUFFICES \E p : Put(r, p) /\ ReqTyped(p)
  BY <1>4, PutOnly
<1>6. CASE TankStateInvalid(r)
  <2>1. Put(r, [Forget(q) EXCEPT !.pc = "fail"])
    BY <1>6 DEF TankStateInvalid
  <2>2. ReqTyped([Forget(q) EXCEPT !.pc = "fail"])
    BY <1>2, <1>3, ForgetsAndGoes
  <2> QED
    BY <2>1, <2>2
<1>7. CASE PlanComplete(r)
  <2>1. Put(r, [q EXCEPT !.pc = "begin", !.outcome = "ready"])
    BY <1>7 DEF PlanComplete
  <2>2. ReqTyped([q EXCEPT !.pc = "begin", !.outcome = "ready"])
    BY <1>2, <1>3, TurnsTo
  <2> QED
    BY <2>1, <2>2
<1>8. CASE PlaceStop(r)
  <2> DEFINE i == PlanInput(r)
             pick == Choose(Safe(i))
             p == [q EXCEPT !.at = pick, !.picked = @ \cup {pick}]
  <2>1. i.km \in Nat /\ i.stations \in SUBSET Nat
    <3>1. q.leg.km \in Nat
      BY <1>2, RouteTypes
    <3>2. StationsFound(q, Now(r)) \in SUBSET Nat
      BY <1>2 DEF StationsFound, Reqs
    <3> QED
      BY <3>1, <3>2 DEF PlanInput
  <2>2. Safe(i) # {} /\ Put(r, p)
    BY <1>8 DEF PlaceStop
  <2>3. pick \in Nat
    <3> HIDE DEF i
    <3>1. pick \in i.stations
      BY <2>1, <2>2, FarthestIsSafe DEF Safe
    <3> QED
      BY <2>1, <3>1
  <2> HIDE DEF pick
  <2>4. IsFiniteSet(q.picked \cup {pick})
    BY <1>2, FS_AddElement DEF ReqTyped
  <2>5. p \in Reqs /\ p.picked = q.picked \cup {pick} /\ p.victims = q.victims /\ p.leg = q.leg
    BY <1>2, <2>3 DEF Reqs
  <2>6. ReqTyped(p)
    BY <1>2, <2>4, <2>5 DEF ReqTyped
  <2> QED
    BY <2>2, <2>6
<1>9. CASE PlanGap(r)
  <2>1. \/ Put(r, [Forget(q) EXCEPT !.pc = "fail", !.picked = {}])
        \/ Put(r, [Forget(q) EXCEPT !.pc = "clear", !.picked = {}, !.outcome = "no_stations_found"])
    BY <1>9 DEF PlanGap
  <2>2. /\ ReqTyped([Forget(q) EXCEPT !.pc = "fail", !.picked = {}])
        /\ ReqTyped([Forget(q) EXCEPT !.pc = "clear", !.picked = {}, !.outcome = "no_stations_found"])
    BY <1>2, <1>3, ForgetsAndGoes
  <2> QED
    BY <2>1, <2>2
<1> QED
  BY <1>6, <1>7, <1>8, <1>9 DEF Place

\* What is stored on a leg is stops, and finitely many.
LEMMA StoredTypes ==
    ASSUME TypesInv, NEW l \in Legs, NEW v, stops' = [stops EXCEPT ![l] = v],
           v \in SUBSET Stops, IsFiniteSet(v)
    PROVE  (stops \in [Legs -> SUBSET Stops] /\ \A k \in Legs : IsFiniteSet(stops[k]))'
<1>1. stops \in [Legs -> SUBSET Stops] /\ \A k \in Legs : IsFiniteSet(stops[k])
  BY DEF TypesInv, TypeOK
<1> QED
  BY <1>1

LEMMA LegStops ==
    ASSUME TypesInv, NEW l \in Legs
    PROVE  /\ stops[l] \in SUBSET Stops /\ IsFiniteSet(stops[l])
           /\ \A v \in SUBSET stops[l] : v \in SUBSET Stops /\ IsFiniteSet(v)
<1>1. stops[l] \in SUBSET Stops /\ IsFiniteSet(stops[l])
  BY DEF TypesInv, TypeOK
<1> QED
  BY <1>1, FS_Subset

\* The rows of a plan.
LEMMA NewRowsType ==
    ASSUME TypesInv, NEW r \in Requests, Now(r) \in Legs
    PROVE  NewRows(r) \in SUBSET Stops /\ IsFiniteSet(NewRows(r))
<1> DEFINE kms == Chosen(req[r].picked) \ req[r].keep
           b == NewBatch(Now(r))
           f == [s \in kms |-> [km |-> s, state |-> "option", batch |-> b]]
<1>1. kms \subseteq req[r].picked /\ req[r].picked \in SUBSET Nat /\ IsFiniteSet(req[r].picked)
  BY DEF Chosen, TypesInv, ReqTyped, Reqs
<1>2. b \in Nat
  BY NewBatchType
<1> HIDE DEF kms, b
<1>3. IsFiniteSet(kms) /\ \A s \in kms : s \in Nat
  BY <1>1, FS_Subset
<1>4. \A s \in kms : f[s] = [km |-> s, state |-> "option", batch |-> b]
  OBVIOUS
<1>5. \A s \in kms : f[s] \in Stops
  BY <1>2, <1>3, <1>4 DEF Stops
<1>6. NewRows(r) = {f[s] : s \in kms} /\ f = [s \in kms |-> f[s]]
  BY DEF NewRows, kms, b
<1> HIDE DEF f
<1>7. IsFiniteSet({f[s] : s \in kms})
  BY <1>3, <1>6, ValuesAreFinite
<1> QED
  BY <1>5, <1>6, <1>7

LEMMA StoreTypes ==
    ASSUME TypesInv, FuelInv, NEW r \in Requests,
           BeginStore(r) \/ DeleteOptions(r) \/ CommitStore(r) \/ ClearStops(r)
    PROVE  TypesInv'
<1> DEFINE q == req[r]
           l == Now(r)
<1>1. q.pc \in {"begin", "delete", "commit", "clear"}
  BY DEF BeginStore, DeleteOptions, CommitStore, ClearStops, At
<1>2. ReqTyped(q) /\ l \in Legs /\ q \in Reqs
  BY <1>1, NowIsADay DEF Holding, ReqTyped
<1>3. stops[l] \in SUBSET Stops /\ IsFiniteSet(stops[l])
  BY <1>2, LegStops
<1>4. {"delete", "commit", "settle"} \subseteq Steps \ HasLeg
  BY DEF Steps, HasLeg
<1>5. CASE BeginStore(r)
  <2> DEFINE keep == {s.km : s \in {x \in stops[l] : x.state = "selected"}}
             x == [Forget(q) EXCEPT !.pc = "delete"]
             p == [x EXCEPT !.keep = keep]
  <2>1. keep \in SUBSET Nat
    BY <1>3 DEF Stops
  <2>2. ReqTyped(x) /\ x.pc = "delete"
    <3>1. "none" \in Statuses
      BY DEF Statuses
    <3>2. x.pc = "delete"
      BY <1>2 DEF Forget, Reqs
    <3> QED
      BY <1>2, <1>4, <3>1, <3>2, ForgetsAndGoes
  <2>3. Put(r, [Forget(q) EXCEPT !.pc = "delete", !.keep = keep])
    BY <1>5 DEF BeginStore
  <2>4. [Forget(q) EXCEPT !.pc = "delete", !.keep = keep] = p
    BY <1>2 DEF Forget, Reqs
  <2> HIDE DEF x, keep
  <2>5. ReqTyped(p)
    <3>1. p \in Reqs /\ p.picked = x.picked /\ p.victims = x.victims /\ p.pc = "delete"
      BY <2>1, <2>2 DEF ReqTyped, Reqs
    <3> QED
      BY <1>4, <2>2, <3>1 DEF ReqTyped
  <2>6. UNCHANGED <<Trip, Row, stops, Bounds, upToDate>>
    BY <1>5 DEF BeginStore
  <2> QED
    BY <2>3, <2>4, <2>5, <2>6, PutOnly
<1>6. CASE DeleteOptions(r)
  <2> DEFINE gone == OptionStops(l)
             p == [q EXCEPT !.pc = "commit", !.victims = gone]
  <2>1. gone \in SUBSET Stops /\ IsFiniteSet(gone)
    <3>1. gone \in SUBSET stops[l]
      BY DEF OptionStops
    <3> QED
      BY <1>2, <3>1, LegStops
  <2>2. Put(r, p) /\ UNCHANGED <<Trip, Row, stops, Bounds, upToDate>>
    BY <1>6 DEF DeleteOptions
  <2> HIDE DEF gone
  <2>3. ReqTyped(p)
    <3>1. p \in Reqs /\ p.picked = q.picked /\ p.victims = gone /\ p.pc = "commit"
      BY <1>2, <1>4, <2>1 DEF Reqs
    <3> QED
      BY <1>2, <1>4, <2>1, <3>1 DEF ReqTyped
  <2> QED
    BY <2>2, <2>3, PutOnly
<1>7. CASE CommitStore(r)
  <2> DEFINE v == (stops[l] \ q.victims) \cup NewRows(r)
             p == [q EXCEPT !.pc = "settle", !.victims = {}]
  <2>1. NewRows(r) \in SUBSET Stops /\ IsFiniteSet(NewRows(r))
    BY <1>2, NewRowsType
  <2>2. v \in SUBSET Stops /\ IsFiniteSet(v)
    <3> DEFINE rest == stops[l] \ q.victims
               new == NewRows(r)
    <3>1. rest \in SUBSET Stops /\ IsFiniteSet(rest)
      <4>1. rest \in SUBSET stops[l]
        OBVIOUS
      <4> QED
        BY <1>2, <4>1, LegStops
    <3> HIDE DEF rest, new
    <3>2. new \in SUBSET Stops /\ IsFiniteSet(new)
      BY <2>1 DEF new
    <3>3. rest \cup new \in SUBSET Stops /\ IsFiniteSet(rest \cup new)
      BY <3>1, <3>2, FS_Union
    <3> QED
      BY <3>3 DEF rest, new
  <2>3. stops' = [stops EXCEPT ![l] = v] /\ Put(r, p)
    BY <1>7 DEF CommitStore
  <2> HIDE DEF v
  <2>4. (stops \in [Legs -> SUBSET Stops] /\ \A k \in Legs : IsFiniteSet(stops[k]))'
    <3> HIDE DEF l
    <3> QED
      BY <1>2, <2>2, <2>3, StoredTypes DEF l
  <2>5. ReqTyped(p)
    <3>1. IsFiniteSet({})
      BY FS_EmptySet
    <3>2. p \in Reqs /\ p.picked = q.picked /\ p.victims = {} /\ p.pc = "settle"
      BY <1>2, <1>4 DEF Reqs
    <3> QED
      BY <1>2, <1>4, <3>1, <3>2 DEF ReqTyped
  <2>6. AllTyped'
    <3> HIDE DEF p
    <3> QED
      BY <2>3, <2>5, PutTypes
  <2>7. (upToDate \in [Legs -> SUBSET {"stops", "status"}])'
    BY <1>7, NoteTypes DEF CommitStore
  <2>8. Tables'
    BY <1>7, <2>4, <2>7, TypesAreBoth DEF Tables, CommitStore, Trip, Row, Bounds
  <2> QED
    BY <2>6, <2>8, BothAfter
<1>8. CASE ClearStops(r)
  <2> DEFINE v == stops[l] \ OptionStops(l)
  <2>1. v \in SUBSET Stops /\ IsFiniteSet(v)
    BY <1>2, LegStops
  <2>2. stops' = [stops EXCEPT ![l] = v]
    BY <1>8 DEF ClearStops, ClearOptions
  <2>3. Put(r, [q EXCEPT !.pc = "settle"])
    BY <1>8 DEF ClearStops, Go
  <2> HIDE DEF v
  <2>4. (stops \in [Legs -> SUBSET Stops] /\ \A k \in Legs : IsFiniteSet(stops[k]))'
    BY <1>2, <2>1, <2>2, StoredTypes
  <2>5. ReqTyped([q EXCEPT !.pc = "settle"])
    BY <1>2, <1>4, GoTyped
  <2>6. AllTyped'
    BY <2>3, <2>5, PutTypes
  <2>7. (upToDate \in [Legs -> SUBSET {"stops", "status"}])'
    BY <1>8, NoteTypes DEF ClearStops
  <2>8. Tables'
    BY <1>8, <2>4, <2>7, TypesAreBoth DEF Tables, ClearStops, Trip, Row, Bounds
  <2> QED
    BY <2>6, <2>8, BothAfter
<1> QED
  BY <1>5, <1>6, <1>7, <1>8

LEMMA EndTypes ==
    ASSUME TypesInv, FuelInv, NEW r \in Requests, FailTarget(r) \/ Settle(r) \/ FailLeg(r)
    PROVE  TypesInv'
<1> DEFINE q == req[r]
<1>1. {"failTarget", "load"} \subseteq Steps \ HasLeg /\ "failed" \in Statuses
  BY DEF Steps, HasLeg, Statuses
<1>2. SUFFICES /\ \E l \in Legs, w \in Statuses :
                     SetFuelStatus(l, w) /\ \E c : Note(l, "status", c)
               /\ \E p : Put(r, p) /\ ReqTyped(p)
  <2>1. PICK l \in Legs, w \in Statuses : SetFuelStatus(l, w) /\ \E c : Note(l, "status", c)
    OBVIOUS
  <2>9. PICK p : Put(r, p) /\ ReqTyped(p)
    OBVIOUS
  <2>2. (status \in [Legs -> Statuses] /\ cached \subseteq Legs /\ abandoned \subseteq Legs)'
    BY <2>1, RowTypes
  <2>3. (upToDate \in [Legs -> SUBSET {"stops", "status"}])'
    BY <2>1, NoteTypes
  <2>4. AllTyped'
    BY <2>9, PutTypes
  <2>5. UNCHANGED <<Trip, stops, Bounds>>
    BY DEF FailTarget, Settle, FailLeg
  <2>6. Tables'
    BY <2>2, <2>3, <2>5, TypesAreBoth DEF Tables, Trip, Bounds
  <2> QED
    BY <2>4, <2>6, BothAfter
<1>3. CASE FailTarget(r)
  <2>1. q.target \in Legs
    BY <1>3 DEF FuelInv, FailTarget, At, ReqOK
  <2>2. SetFuelStatus(q.target, "failed") /\ Put(r, Idle) /\ Note(q.target, "status", FALSE)
    BY <1>3 DEF FailTarget
  <2> QED
    BY <1>1, <2>1, <2>2, IdleTyped
<1>4. CASE Settle(r)
  <2> DEFINE next == [q EXCEPT !.pc = "load", !.todo = Tail(@), !.leg = None]
             c == Current(r) /\ q.outcome \in Searched
  <2>1. ReqTyped(q) /\ q \in Reqs /\ Now(r) \in Legs /\ Tail(q.todo) \in Seq(Legs)
    BY <1>4, NowIsADay DEF Settle, At, Holding, ReqTyped
  <2>2. ReqTyped(next)
    <3>1. next \in Reqs /\ next.picked = q.picked /\ next.victims = q.victims /\ next.pc = "load"
      BY <1>1, <2>1 DEF Reqs
    <3> QED
      BY <1>1, <2>1, <3>1 DEF ReqTyped
  <2>3. q.outcome \in Statuses
    BY <2>1 DEF Reqs
  <2>4. /\ SetFuelStatus(Now(r), q.outcome) /\ Note(Now(r), "status", c)
        /\ Put(r, Idle) \/ Put(r, next)
    BY <1>4 DEF Settle
  <2> HIDE DEF next, c, q
  <2> QED
    BY <2>1, <2>2, <2>3, <2>4, IdleTyped
<1>5. CASE FailLeg(r)
  <2>1. ReqTyped(q) /\ Now(r) \in Legs
    BY <1>5, NowIsADay DEF FailLeg, At, Holding
  <2>2. ReqTyped([q EXCEPT !.pc = "failTarget"])
    BY <1>1, <2>1, GoTyped
  <2>3. /\ SetFuelStatus(Now(r), "failed") /\ Note(Now(r), "status", FALSE)
        /\ Put(r, Idle) \/ Put(r, [q EXCEPT !.pc = "failTarget"])
    BY <1>5 DEF FailLeg, Go
  <2> HIDE DEF q
  <2> QED
    BY <1>1, <2>1, <2>2, <2>3, IdleTyped
<1> QED
  BY <1>3, <1>4, <1>5

LEMMA KillTypes ==
    ASSUME TypesInv, NEW r \in Requests, Killed(r)
    PROVE  TypesInv'
<1>1. AllTyped'
  BY IdleTyped, PutTypes DEF Killed
<1>2. upsets' \in Nat
  BY UpsetTypes DEF Killed
<1>3. abandoned' \subseteq Legs
  BY DEF TypesInv, TypeOK, Killed
<1>4. Tables'
  BY <1>2, <1>3, TypesAreBoth DEF Tables, Killed, Trip
<1> QED
  BY <1>1, <1>4, BothAfter

\* A change of the trip, with what it changes typed.
LEMMA AlterTypes ==
    ASSUME TypesInv, NEW kind, NEW S \in SUBSET Legs, Alter(kind, S),
           (/\ route \in [Legs -> Routes] /\ range \in Ranges
            /\ declared \in Declarations \cup {None} /\ unplaced \subseteq Legs
            /\ stops \in [Legs -> SUBSET Stops] /\ \A l \in Legs : IsFiniteSet(stops[l]))'
    PROVE  TypesInv'
<1>1. AllTyped'
  <2> DEFINE after(q) == [q EXCEPT !.pure = FALSE, !.calm = FALSE]
  <2>1. ASSUME NEW q, ReqTyped(q) PROVE ReqTyped(after(q)) /\ after(q) \in Reqs
    <3>1. /\ after(q) \in Reqs /\ after(q).picked = q.picked /\ after(q).victims = q.victims
          /\ after(q).pc = q.pc /\ after(q).leg = q.leg
      BY <2>1 DEF ReqTyped, Reqs
    <3> QED
      BY <2>1, <3>1 DEF ReqTyped
  <2>2. req' = [r \in Requests |-> after(req[r])]
    BY DEF Alter
  <2> HIDE DEF after
  <2> QED
    BY <2>1, <2>2 DEF TypesInv, AllTyped
<1>2. upsets' \in Nat
  BY UpsetTypes DEF Alter
<1>3. editor' \in [todo : Seq(Legs), cleared : BOOLEAN]
  <2>1. InOrder(S) \in Seq(Legs)
    BY InOrderType
  <2> QED
    BY <2>1 DEF TypesInv, TypeOK, Alter
<1>4. (upToDate \in [Legs -> SUBSET {"stops", "status"}])'
  BY DEF Alter
<1>5. Tables'
  BY <1>2, <1>3, <1>4, TypesAreBoth DEF Tables, Alter, Row
<1> QED
  BY <1>1, <1>5, BothAfter

LEMMA TripTypes ==
    ASSUME TypesInv, FuelInv, DriverOrTurn
    PROVE  TypesInv'
<1>0. Tables /\ AllTyped
  BY TypesAreBoth
<1>1. CASE \E r \in Requests, l \in Legs : OpenDay(r, l) \/ ForceDay(r, l)
  BY <1>1, OpenTypes
<1>2. CASE \E l \in Legs : CacheExpires(l)
  <2>1. upsets' \in Nat
    BY <1>2, UpsetTypes DEF CacheExpires
  <2>2. Tables'
    BY <1>0, <1>2, <2>1 DEF Tables, CacheExpires, Trip
  <2>3. AllTyped'
    BY <1>0, <1>2 DEF AllTyped, CacheExpires
  <2> QED
    BY <2>2, <2>3, BothAfter
<1>3. ASSUME NEW l \in Legs, NEW rt \in NewRoutes, RerouteLeg(l, rt) PROVE TypesInv'
  <2>1. route' \in [Legs -> Routes]
    BY <1>0, <1>3, RouteAssumption DEF Tables, RerouteLeg
  <2> QED
    BY <1>0, <1>3, <2>1, AlterTypes DEF Tables, RerouteLeg
<1>4. ASSUME NEW km \in Ranges, AssignVehicle(km) \/ EditVehicle(km) PROVE TypesInv'
  <2>1. Alter("assign", Legs) \/ Alter("vehicle", {})
    BY <1>4 DEF AssignVehicle, EditVehicle
  <2>2. (/\ route \in [Legs -> Routes] /\ range \in Ranges
         /\ declared \in Declarations \cup {None} /\ unplaced \subseteq Legs
         /\ stops \in [Legs -> SUBSET Stops] /\ \A l \in Legs : IsFiniteSet(stops[l]))'
    BY <1>0, <1>4 DEF Tables, AssignVehicle, EditVehicle
  <2>3. Legs \in SUBSET Legs /\ {} \in SUBSET Legs
    OBVIOUS
  <2> QED
    BY <2>1, <2>2, <2>3, AlterTypes
<1>5. ASSUME NEW l \in Legs, NEW km \in Declarable, DeclareFuelState(l, km) PROVE TypesInv'
  <2>1. declared' \in Declarations
    BY <1>5, TankAssumption DEF DeclareFuelState, Declarations
  <2>2. {k \in Drives : k >= l} \in SUBSET Legs
    BY DEF Drives
  <2> QED
    BY <1>0, <1>5, <2>1, <2>2, AlterTypes DEF Tables, DeclareFuelState
<1>8. ASSUME NEW l \in Legs, AddOrDropStop(l) PROVE TypesInv'
  <2>1. unplaced' \subseteq Legs
    BY <1>0, <1>8 DEF Tables, AddOrDropStop
  <2> QED
    BY <1>0, <1>8, <2>1, AlterTypes DEF Tables, AddOrDropStop
<1>6. ASSUME NEW l \in Legs, NEW s \in stops[l], DismissStop(l, s) \/ SelectStop(l, s)
      PROVE  TypesInv'
  <2>1. PICK state \in {"selected", "dismissed"} :
           stops' = [stops EXCEPT ![l] = (@ \ {s}) \cup {[s EXCEPT !.state = state]}]
    BY <1>6 DEF DismissStop, SelectStop
  <2> DEFINE v == (stops[l] \ {s}) \cup {[s EXCEPT !.state = state]}
  <2>2. s \in Stops /\ [s EXCEPT !.state = state] \in Stops
    BY <1>0 DEF Tables, Stops
  <2>3. v \in SUBSET Stops /\ IsFiniteSet(v)
    <3> DEFINE rest == stops[l] \ {s}
               new == [s EXCEPT !.state = state]
    <3>1. rest \in SUBSET Stops /\ IsFiniteSet(rest)
      <4>1. rest \in SUBSET stops[l]
        OBVIOUS
      <4> QED
        BY <4>1, LegStops
    <3>2. new \in Stops
      BY <2>2
    <3> HIDE DEF rest, new
    <3>3. rest \cup {new} \in SUBSET Stops /\ IsFiniteSet(rest \cup {new})
      BY <3>1, <3>2, FS_AddElement
    <3> QED
      BY <3>3 DEF rest, new
  <2>4. stops' = [stops EXCEPT ![l] = v]
    BY <2>1
  <2> HIDE DEF v
  <2>5. (stops \in [Legs -> SUBSET Stops] /\ \A k \in Legs : IsFiniteSet(stops[k]))'
    BY <2>3, <2>4, StoredTypes
  <2>6. CASE DismissStop(l, s)
    BY <1>0, <2>5, <2>6, AlterTypes DEF Tables, DismissStop, Trip
  <2>7. CASE SelectStop(l, s)
    <3>1. upsets' \in Nat
      BY <2>7, UpsetTypes DEF SelectStop
    <3>2. PICK planned \in BOOLEAN :
             /\ req' = [r \in Requests |-> [req[r] EXCEPT !.pure = @ /\ planned]]
             /\ upToDate' = [k \in Legs |-> IF planned THEN upToDate[k] ELSE {}]
      BY <2>7, SelectIs
    <3>3. (upToDate \in [Legs -> SUBSET {"stops", "status"}])'
      BY <1>0, <3>2 DEF Tables
    <3>4. Tables'
      BY <1>0, <2>5, <2>7, <3>1, <3>3 DEF Tables, SelectStop, Trip, Row
    <3>5. ASSUME NEW q, ReqTyped(q)
          PROVE  LET p == [q EXCEPT !.pure = @ /\ planned] IN ReqTyped(p) /\ p \in Reqs
      <4> DEFINE p == [q EXCEPT !.pure = @ /\ planned]
      <4>1. /\ p \in Reqs /\ p.picked = q.picked /\ p.victims = q.victims
            /\ p.pc = q.pc /\ p.leg = q.leg
        BY <3>5 DEF ReqTyped, Reqs
      <4> QED
        BY <3>5, <4>1 DEF ReqTyped
    <3>6. AllTyped'
      BY <3>2, <3>5 DEF TypesInv, AllTyped
    <3> QED
      BY <3>4, <3>6, BothAfter
  <2> QED
    BY <1>6, <2>6, <2>7
<1>7. CASE InvalidateStops \/ InvalidateStatus
  <2> DEFINE l == Head(editor.todo)
  <2>1. /\ l \in Legs /\ Tail(editor.todo) \in Seq(Legs)
        /\ editor \in [todo : Seq(Legs), cleared : BOOLEAN]
    <3> DEFINE todo == editor.todo
    <3>1. todo \in Seq(Legs) /\ todo # <<>>
      BY <1>0, <1>7 DEF Tables, InvalidateStops, InvalidateStatus
    <3> HIDE DEF todo
    <3>2. Head(todo) \in Legs /\ Tail(todo) \in Seq(Legs)
      BY <3>1, HeadTailProperties
    <3> QED
      BY <1>0, <3>2 DEF todo, Tables
  <2>2. AllTyped'
    BY <1>0, <1>7 DEF AllTyped, InvalidateStops, InvalidateStatus
  <2>3. CASE InvalidateStops
    <3> DEFINE v == stops[l] \ OptionStops(l)
    <3>1. v \in SUBSET Stops /\ IsFiniteSet(v)
      BY <2>1, LegStops
    <3>2. stops' = [stops EXCEPT ![l] = v]
      BY <2>3 DEF InvalidateStops, ClearOptions
    <3> HIDE DEF v
    <3>3. (stops \in [Legs -> SUBSET Stops] /\ \A k \in Legs : IsFiniteSet(stops[k]))'
      <4> HIDE DEF l
      <4> QED
        BY <2>1, <3>1, <3>2, StoredTypes
    <3>4. editor' \in [todo : Seq(Legs), cleared : BOOLEAN]
      BY <2>1, <2>3 DEF InvalidateStops
    <3>5. (upToDate \in [Legs -> SUBSET {"stops", "status"}])'
      BY <2>3, NoteTypes DEF InvalidateStops
    <3>6. Tables'
      BY <1>0, <2>3, <3>3, <3>4, <3>5 DEF Tables, InvalidateStops, Trip, Row
    <3> QED
      BY <2>2, <3>6, BothAfter
  <2>4. CASE InvalidateStatus
    <3>1. editor' \in [todo : Seq(Legs), cleared : BOOLEAN]
      BY <2>1, <2>4 DEF InvalidateStatus
    <3>2. (status \in [Legs -> Statuses] /\ cached \subseteq Legs /\ abandoned \subseteq Legs)'
      BY <2>1, <2>4, RowTypes DEF InvalidateStatus, Statuses
    <3>3. (upToDate \in [Legs -> SUBSET {"stops", "status"}])'
      BY <2>4, NoteTypes DEF InvalidateStatus
    <3>4. Tables'
      BY <1>0, <2>4, <3>1, <3>2, <3>3 DEF Tables, InvalidateStatus, Trip
    <3> QED
      BY <2>2, <3>4, BothAfter
  <2> QED
    BY <1>7, <2>3, <2>4
<1> QED
  BY <1>1, <1>2, <1>3, <1>4, <1>5, <1>6, <1>7, <1>8 DEF DriverOrTurn

LEMMA TypesStep == TypesInv /\ FuelInv /\ [Next]_vars => TypesInv'
<1> SUFFICES ASSUME TypesInv, FuelInv, [Next]_vars PROVE TypesInv'
  OBVIOUS
<1>1. CASE \E r \in Requests : Place(r)
  BY <1>1, PlaceTypes
<1>2. ASSUME NEW r \in Requests, Work(r) PROVE TypesInv'
  BY <1>2, LookupTypes, LoadTypes, ComputeTypes, SourceTypes, StoreTypes, EndTypes, KillTypes
     DEF Work
<1>3. CASE DriverOrTurn
  BY <1>3, TripTypes
<1>4. CASE UNCHANGED vars
  <2>1. Tables'
    BY <1>4, TypesAreBoth DEF Tables, vars
  <2>2. AllTyped'
    BY <1>4, TypesAreBoth DEF AllTyped, vars
  <2> QED
    BY <2>1, <2>2, BothAfter
<1> QED
  BY <1>1, <1>2, <1>3, <1>4 DEF Next

LEMMA TypesInit == Init => TypesInv
<1> SUFFICES ASSUME Init PROVE TypesInv
  OBVIOUS
<1>1. AllTyped
  BY IdleTyped DEF Init, AllTyped, ReqTyped
<1>2. <<>> \in Seq(Legs) /\ IsFiniteSet({})
  BY FS_EmptySet
<1>3. Tables
  BY <1>2, RouteAssumption DEF Init, Tables, Statuses
<1> QED
  BY <1>1, <1>3, TypesAreBoth

\* Whatever is opened, changed, lost or killed, every field keeps its type: in particular a
\* walk over the days burns whole kilometres and a stop gets a number no other row has.
THEOREM FuelTypes == Spec => []TypeOK
<1>1. Init => TypesInv /\ FuelInv
  BY TypesInit, FuelInit
<1>2. TypesInv /\ FuelInv /\ [Next]_vars => (TypesInv /\ FuelInv)'
  BY TypesStep, FuelStep
<1>3. TypesInv => TypeOK
  BY DEF TypesInv
<1> QED
  BY <1>1, <1>2, <1>3, PTL DEF Spec

-----------------------------------------------------------------------------
(* The days of a cascade, in order *)

LEMMA InOrderSorts ==
    ASSUME NEW S \in SUBSET Legs
    PROVE  LET todo == InOrder(S)
           IN  /\ Len(todo) = Cardinality(S) /\ Cardinality(S) \in Nat
               /\ \A i \in 1 .. Len(todo) : todo[i] \in S
               /\ \A i, j \in 1 .. Len(todo) : i < j => todo[i] < todo[j]
               /\ \A l \in S : \E i \in 1 .. Len(todo) : todo[i] = l
<1> DEFINE n == Cardinality(S)
           c(x) == Cardinality({k \in S : k < x})
           todo == InOrder(S)
<1>1. IsFiniteSet(S) /\ S \in SUBSET Int
  <2>1. IsFiniteSet(Legs) /\ Legs \in SUBSET Int
    BY DaysAssumption, FS_Interval DEF Legs
  <2> QED
    BY <2>1, FS_Subset
<1>2. n \in Nat
  BY <1>1, FS_CardinalityType
<1>3. todo = [i \in 1 .. n |-> CHOOSE l \in S : c(l) = i - 1]
  BY DEF InOrder
<1>4. Len(todo) = n
  <2>1. todo \in Seq(Legs)
    BY InOrderType
  <2>2. DOMAIN todo = 1 .. n
    BY <1>3
  <2> HIDE DEF todo
  <2>3. Len(todo) \in Nat /\ DOMAIN todo = 1 .. Len(todo)
    BY <2>1, LenProperties
  <2> QED
    BY <1>2, <2>2, <2>3
<1>5. /\ \A x, y \in S : x < y => c(x) < c(y)
      /\ \A x \in S : c(x) \in 0 .. (n - 1)
  BY <1>1, LesserHasFewer
<1>6. \A i \in 1 .. n : \E x \in S : c(x) = i - 1
  BY <1>1, EachHasItsPlace
<1> HIDE DEF c, todo
<1>7. \A i \in 1 .. n : todo[i] \in S /\ c(todo[i]) = i - 1
  BY <1>3, <1>6
<1> HIDE DEF n
<1>8. ASSUME NEW i \in 1 .. n, NEW j \in 1 .. n, i < j PROVE todo[i] < todo[j]
  <2> DEFINE x == todo[i]
             y == todo[j]
  <2>1. x \in S /\ y \in S /\ c(x) = i - 1 /\ c(y) = j - 1
    BY <1>7
  <2>2. x \in Int /\ y \in Int
    BY <1>1, <2>1
  <2> HIDE DEF x, y
  <2>3. ~(y < x) /\ x # y
    BY <1>2, <1>5, <1>8, <2>1
  <2>4. x < y
    BY <2>2, <2>3
  <2> QED
    BY <2>4 DEF x, y
<1>9. ASSUME NEW l \in S PROVE \E i \in 1 .. n : todo[i] = l
  <2>1. c(l) \in 0 .. (n - 1)
    BY <1>5
  <2> DEFINE i == c(l) + 1
  <2>2. i \in 1 .. n /\ i - 1 = c(l)
    BY <1>2, <2>1
  <2>3. todo[i] \in S /\ c(todo[i]) = c(l)
    BY <1>7, <2>2
  <2> DEFINE x == todo[i]
  <2>4. x \in S /\ c(x) = c(l) /\ x \in Int /\ l \in Int
    BY <1>1, <2>3
  <2> HIDE DEF x, i
  <2>5. ~(x < l) /\ ~(l < x)
    BY <1>5, <2>1, <2>4
  <2>6. x = l
    BY <2>4, <2>5
  <2> QED
    BY <2>2, <2>6 DEF x
<1> QED
  BY <1>2, <1>4, <1>7, <1>8, <1>9 DEF n, todo

-----------------------------------------------------------------------------
(* What covers the unplanned days *)

\* A row written that leaves its own day planned: whatever was covered is, since the days
\* behind the row's own mark are covered without it.
LEMMA CoverKept ==
    ASSUME TypesInv, NEW x \in Legs, Covered(x), ~Unplanned(x)',
           UNCHANGED <<route, declared, unplaced>>,
           \A k \in Legs : k # x => status'[k] = status[k] /\ Refuels(k)' = Refuels(k)
    PROVE  /\ \A k \in Legs : Unplanned(k)' => Unplanned(k)
           /\ \A m \in Legs : Covered(m) => Covered(m)'
<1>1. \A k \in Legs : Unplanned(k)' => Unplanned(k)
  BY DEF Unplanned, Drives
<1>2. \A j \in Legs : Stopper(j) /\ j # x => Stopper(j)'
  BY DEF Stopper, TakenForRefuel
<1>3. ASSUME NEW m \in Legs, Covered(m), NEW k \in 1..(m - 1), Unplanned(k)'
      PROVE  \E j \in k..(m - 1) : Stopper(j)'
  <2>0. Days \in Nat /\ m \in 1..Days /\ x \in 1..Days
    BY DaysAssumption DEF Legs
  <2>1. k \in Legs /\ k # x /\ Unplanned(k) /\ k \in Int
    BY <1>1, <1>3, <2>0 DEF Legs
  <2>2. PICK j \in k..(m - 1) : Stopper(j)
    BY <1>3, <2>1 DEF Covered
  <2>3. j \in Legs
    BY <2>0, <2>1, <2>2 DEF Legs
  <2>4. CASE j # x
    BY <1>2, <2>2, <2>3, <2>4
  <2>5. CASE j = x
    <3>1. k \in 1..(x - 1)
      BY <2>0, <2>1, <2>2, <2>5
    <3>2. PICK i \in k..(x - 1) : Stopper(i)
      BY <2>1, <3>1 DEF Covered
    <3>3. i \in Legs /\ i # x /\ i \in k..(m - 1)
      BY <2>0, <2>1, <2>2, <2>5, <3>2 DEF Legs
    <3> QED
      BY <1>2, <3>2, <3>3
  <2> QED
    BY <2>4, <2>5
<1> QED
  BY <1>1, <1>3 DEF Covered

\* More stoppers and no more unplanned days.
LEMMA CoverGrows ==
    ASSUME TypesInv, \A k \in Legs : Unplanned(k)' => Unplanned(k),
           \A j \in Legs : Stopper(j) => Stopper(j)'
    PROVE  \A m \in Legs : Covered(m) => Covered(m)'
<1> SUFFICES ASSUME NEW m \in Legs, Covered(m), NEW k \in 1..(m - 1), Unplanned(k)'
             PROVE  \E j \in k..(m - 1) : Stopper(j)'
  BY DEF Covered
<1>1. Days \in Nat /\ m \in 1..Days /\ k \in Legs
  BY DaysAssumption DEF Legs
<1>2. PICK j \in k..(m - 1) : Stopper(j)
  BY <1>1 DEF Covered
<1>3. j \in Legs
  BY <1>1, <1>2 DEF Legs
<1> QED
  BY <1>2, <1>3

\* The requests that a step leaves alone keep their plans.
CoverStays ==
    /\ UNCHANGED route
    /\ \A k \in Legs : Unplanned(k)' => Unplanned(k)
    /\ \A m \in Legs : Covered(m) => Covered(m)'

LEMMA TodoType ==
    ASSUME NEW q, ReqTyped(q), ReqOK(q), q.pc \in Planning
    PROVE  /\ q.todo \in Seq(Legs) /\ Len(q.todo) \in Nat /\ Len(q.todo) >= 1
           /\ Head(q.todo) = q.todo[1] /\ Head(q.todo) \in Legs /\ q.target \in Legs
           /\ \A i \in 1..Len(q.todo) : q.todo[i] \in Legs
<1>1. q.todo # <<>> /\ q.target \in Legs
  <2>1. q.pc # "idle"
    BY DEF Planning, Holding
  <2> QED
    BY <2>1 DEF ReqOK, Planning
<1>2. q.todo \in Seq(Legs)
  BY DEF ReqTyped, Reqs
<1> DEFINE t == q.todo
<1>3. t \in Seq(Legs) /\ t # <<>>
  BY <1>1, <1>2
<1> HIDE DEF t
<1>4. Len(t) \in Nat /\ Len(t) # 0 /\ Head(t) = t[1] /\ Head(t) \in Legs
  BY <1>3, HeadTailProperties, EmptySeq, LenProperties
<1>5. \A i \in 1..Len(t) : t[i] \in Legs
  BY <1>3, ElementOfSeq
<1> QED
  BY <1>1, <1>2, <1>4, <1>5 DEF t

\* The same plan, with whatever else the request holds.
LEMMA PlansStay ==
    ASSUME NEW q, ReqTyped(q), ReqOK(q), q.pc \in Planning, PlansInOrder(q), CoverStays,
           NEW p, p.todo = q.todo, p.target = q.target
    PROVE  PlansInOrder(p)'
<1>1. Head(q.todo) \in Legs /\ q.target \in Legs
  BY TodoType
<1>2. Ascending(p)' /\ p.todo[Len(p.todo)] = p.target
  BY DEF PlansInOrder, Ascending
<1>3. Covered(Head(p.todo))'
  BY <1>1 DEF PlansInOrder, CoverStays
<1>4. ASSUME NEW k \in Head(p.todo)..(p.target - 1), Unplanned(k)'
      PROVE  \E i \in 1..Len(p.todo) : p.todo[i] = k
  <2>1. k \in Legs
    BY <1>1, DaysAssumption DEF Legs
  <2>2. Unplanned(k)
    BY <1>4, <2>1 DEF CoverStays
  <2> QED
    BY <1>4, <2>2 DEF PlansInOrder
<1> QED
  BY <1>2, <1>3, <1>4 DEF PlansInOrder

LEMMA SeenStays ==
    ASSUME NEW q, q.target \in Legs, SeenIsCovered(q), CoverStays
    PROVE  SeenIsCovered(q)'
<1>1. ASSUME NEW k \in 1..(q.target - 1) PROVE k \in Legs /\ k + 1 \in Legs
  BY <1>1, DaysAssumption DEF Legs
<1> QED
  BY <1>1 DEF SeenIsCovered, CoverStays

LEMMA CalmPlanStays ==
    ASSUME NEW q, ReqTyped(q), ReqOK(q), CalmPlan(q), CoverStays
    PROVE  CalmPlan(q)'
<1> SUFFICES ASSUME q.calm PROVE CalmPlan(q)'
  BY DEF CalmPlan
<1>1. q.pc = "refuels" => SeenIsCovered(q)'
  <2> SUFFICES ASSUME q.pc = "refuels" PROVE SeenIsCovered(q)'
    OBVIOUS
  <2>1. q.target \in Legs
    BY DEF ReqOK
  <2> QED
    BY <2>1, SeenStays DEF CalmPlan
<1>2. q.pc \in Planning => PlansInOrder(q)'
  BY PlansStay DEF CalmPlan
<1>3. q.pc \in Holding => Head(q.todo) \in Legs
  BY TodoType DEF Planning
<1>4. q.pc \in Holding => ~Unplanned(Head(q.todo))'
  BY <1>3 DEF CalmPlan, CoverStays
<1>5. q.pc = "settle" /\ q.outcome = "none" => (route[Head(q.todo)].ends # "apart")'
  BY DEF CalmPlan, CoverStays
<1> QED
  BY <1>1, <1>2, <1>4, <1>5 DEF CalmPlan

\* A step of one request.
LEMMA CalmStep ==
    ASSUME TypesInv, FuelInv, CalmInv, NEW r \in Requests, NEW p, Put(r, p),
           req[r].pc # "idle", p = Idle \/ (p.pc # "idle" /\ p.calm = req[r].calm), UNCHANGED editor,
           req[r].calm => CoverStays /\ CalmPlan(p)'
    PROVE  CalmInv'
<1>1. \A s \in Requests : req'[s] = IF s = r THEN p ELSE req[s]
  BY OneValue DEF FuelInv, Put
<1>2. ~Idle.calm /\ Idle.pc = "idle"
  BY DEF Idle
<1>3. CalmTogether'
  <2>1. (\E s \in Requests : req'[s].calm) => \E s \in Requests : req[s].calm
    BY <1>1, <1>2
  <2>2. ASSUME \E s \in Requests : req'[s].calm, NEW s \in Requests
        PROVE  req'[s].pc = "idle" \/ req'[s].calm
    BY <1>1, <1>2, <2>1, <2>2 DEF CalmInv, CalmTogether, At
  <2> QED
    BY <2>1, <2>2 DEF CalmInv, CalmTogether, At
<1>4. ASSUME NEW s \in Requests PROVE CalmPlan(req[s])'
  <2>1. CASE ~req[r].calm
    <3>1. ~req'[s].calm
      BY <1>1, <1>2, <2>1 DEF CalmInv, CalmTogether, At
    <3> QED
      BY <3>1 DEF CalmPlan
  <2>2. CASE req[r].calm /\ s = r
    <3>1. CalmPlan(p)' /\ req'[s] = p
      BY <1>1, <2>2
    <3> QED
      BY <3>1 DEF CalmPlan, SeenIsCovered, PlansInOrder, Ascending
  <2>3. CASE req[r].calm /\ s # r
    <3> DEFINE q == req[s]
    <3>1. PICK u : u = req[s]
      OBVIOUS
    <3>2. ReqTyped(u) /\ ReqOK(u) /\ CalmPlan(u) /\ CoverStays
      BY <2>3, <3>1 DEF TypesInv, FuelInv, CalmInv, CalmPlans
    <3>3. CalmPlan(u)'
      BY <3>2, CalmPlanStays
    <3>4. req'[s] = u
      BY <1>1, <2>3, <3>1
    <3> QED
      BY <3>3, <3>4 DEF CalmPlan, SeenIsCovered, PlansInOrder, Ascending
  <2> QED
    BY <2>1, <2>2, <2>3
<1> QED
  BY <1>3, <1>4 DEF CalmInv, CalmPlans

\* A step that writes to no table leaves everything covered.
LEMMA NothingWritten ==
    ASSUME UNCHANGED <<route, declared, unplaced, status, stops>>
    PROVE  /\ CoverStays
           /\ \A k : Unplanned(k)' <=> Unplanned(k)
           /\ \A m : Covered(m) => Covered(m)'
<1>1. \A k : (Unplanned(k)' <=> Unplanned(k)) /\ (Stopper(k)' <=> Stopper(k))
  BY DEF Unplanned, Drives, Stopper, TakenForRefuel, Refuels
<1>2. \A m : Covered(m) => Covered(m)'
  BY <1>1 DEF Covered
<1> QED
  BY <1>1, <1>2 DEF CoverStays

-----------------------------------------------------------------------------
(* Steps of a request that plans *)

\* A request that goes on with the day it plans.
LEMMA PlanGoesOn ==
    ASSUME TypesInv, FuelInv, CalmInv, NEW r \in Requests, NEW p, Put(r, p),
           req[r].pc \in Planning, p.pc \in Planning, p.todo = req[r].todo,
           p.target = req[r].target, p.calm = req[r].calm, UNCHANGED <<route, editor>>,
           req[r].calm =>
               /\ CoverStays
               /\ p.pc \in Holding => ~Unplanned(Head(p.todo))'
               /\ p.pc \in Storing => p.outcome # "none"
               /\ p.pc = "settle" /\ p.outcome = "none" => route[Head(p.todo)].ends # "apart"
    PROVE  CalmInv'
<1>1. PICK u : u = req[r]
  OBVIOUS
<1>2. ReqTyped(u) /\ ReqOK(u) /\ CalmPlan(u)
  BY <1>1 DEF TypesInv, FuelInv, CalmInv, CalmPlans
<1>3. "idle" \notin Planning /\ "refuels" \notin Planning
  BY DEF Planning, Holding
<1>4. ASSUME req[r].calm PROVE CoverStays /\ CalmPlan(p)'
  <2>1. CoverStays /\ PlansInOrder(u)
    BY <1>1, <1>2, <1>4 DEF CalmPlan
  <2>2. PlansInOrder(p)'
    BY <1>1, <1>2, <2>1, PlansStay
  <2>3. route' = route
    OBVIOUS
  <2> QED
    BY <1>3, <1>4, <2>1, <2>2, <2>3 DEF CalmPlan
<1> QED
  BY <1>1, <1>3, <1>4, CalmStep

\* One that writes to no table and does not come to settling the day.
LEMMA QuietPlan ==
    ASSUME TypesInv, FuelInv, CalmInv, NEW r \in Requests, NEW p, Put(r, p),
           req[r].pc \in Holding, p.pc \in Holding \ {"settle"}, p.todo = req[r].todo,
           p.target = req[r].target, p.calm = req[r].calm,
           UNCHANGED <<route, declared, unplaced, status, stops, editor>>,
           p.pc \in Storing => p.outcome # "none" \/ (req[r].pc \in Storing /\ p.outcome = req[r].outcome)
    PROVE  CalmInv'
<1>1. CoverStays /\ (Unplanned(Head(p.todo))' <=> Unplanned(Head(p.todo)))
  BY NothingWritten
<1>2. req[r].calm => /\ ~Unplanned(Head(p.todo))
                     /\ req[r].pc \in Storing => req[r].outcome # "none"
  BY DEF CalmInv, CalmPlans, CalmPlan
<1>3. req[r].pc \in Planning /\ p.pc \in Planning
  BY DEF Planning
<1> QED
  BY <1>1, <1>2, <1>3, PlanGoesOn

\* One that writes to the row or the stops of its day, which is planned then.
LEMMA WritesItsDay ==
    ASSUME TypesInv, FuelInv, CalmInv, NEW r \in Requests, req[r].pc \in Planning, req[r].calm,
           NEW x, x = Now(r), UNCHANGED <<route, declared, unplaced>>, ~Unplanned(x)',
           \A k \in Legs : k # x => status'[k] = status[k] /\ Refuels(k)' = Refuels(k)
    PROVE  CoverStays
<1>1. ReqTyped(req[r]) /\ ReqOK(req[r]) /\ PlansInOrder(req[r])
  BY DEF TypesInv, FuelInv, CalmInv, CalmPlans, CalmPlan
<1>2. x \in Legs /\ Covered(x)
  BY <1>1, TodoType DEF PlansInOrder, Now
<1> QED
  BY <1>2, CoverKept DEF CoverStays

LEMMA LoadCalm ==
    ASSUME TypesInv, FuelInv, CalmInv, NEW r \in Requests, LoadLeg(r)
    PROVE  CalmInv'
<1> DEFINE q == req[r]
           rt == route[Now(r)]
           begin == [q EXCEPT !.grounded = FALSE, !.picked = {}, !.keep = {}]
           none == [begin EXCEPT !.pc = "settle", !.outcome = "none"]
           near == [begin EXCEPT !.pc = "clear", !.outcome = "ready"]
           far == [begin EXCEPT !.pc = "compute", !.leg = rt]
           Same(p) == p.todo = q.todo /\ p.target = q.target /\ p.calm = q.calm
<1>1. q \in Reqs /\ q.pc = "load"
  BY DEF TypesInv, ReqTyped, LoadLeg, At
<1>2. /\ Same(none) /\ none.pc = "settle" /\ none.outcome = "none"
      /\ Same(near) /\ near.pc = "clear" /\ near.outcome = "ready"
      /\ Same(far) /\ far.pc = "compute"
  BY <1>1 DEF Reqs
<1>3. \/ rt.ends = "missing" /\ Put(r, none)
      \/ rt.ends = "same" /\ Put(r, near)
      \/ Put(r, far)
  BY DEF LoadLeg
<1> HIDE DEF none, near, far
<1>4. PICK p : /\ Put(r, p) /\ Same(p) /\ p.pc \in {"settle", "clear", "compute"}
               /\ p.pc = "settle" => rt.ends = "missing"
               /\ p.pc = "clear" => rt.ends = "same" /\ p.outcome = "ready"
  BY <1>2, <1>3
<1>5. /\ CoverStays
      /\ Unplanned(Head(p.todo))' <=> Unplanned(Head(p.todo))
      /\ UNCHANGED <<route, editor>>
  BY NothingWritten DEF LoadLeg, Trip, Row, Bounds
<1>6. rt = route[Head(p.todo)]
  BY <1>4 DEF Now
<1>7. p.pc \in Holding => ~Unplanned(Head(p.todo))
  BY <1>4, <1>6 DEF Holding, Unplanned
<1>8. q.pc \in Planning /\ p.pc \in Planning
  BY <1>1, <1>4 DEF Planning, Holding
<1> QED
  BY <1>4, <1>5, <1>6, <1>7, <1>8, PlanGoesOn DEF Storing

LEMMA ComputeCalm ==
    ASSUME TypesInv, FuelInv, CalmInv, NEW r \in Requests, MarkComputing(r)
    PROVE  CalmInv'
<1> DEFINE q == req[r]
<1>1. q \in Reqs /\ q.pc = "compute" /\ q.pc \in Planning
  BY DEF TypesInv, ReqTyped, MarkComputing, At, Planning
<1> DEFINE marked == [q EXCEPT !.pc = "vehicle"]
<1>10. /\ marked.todo = q.todo /\ marked.target = q.target /\ marked.calm = q.calm
       /\ marked.pc = "vehicle"
  BY <1>1 DEF Reqs
<1>11. Put(r, marked)
  BY DEF MarkComputing, Go
<1> HIDE DEF marked
<1>2. PICK p : /\ Put(r, p) /\ p.todo = q.todo /\ p.target = q.target /\ p.calm = q.calm
               /\ p.pc = "vehicle"
  BY <1>10, <1>11
<1>3. PICK x : x = Now(r)
  OBVIOUS
<1>4. /\ \A k \in Legs : k # x => status'[k] = status[k] /\ Refuels(k)' = Refuels(k)
      /\ UNCHANGED <<route, declared, unplaced, editor>>
  BY <1>3 DEF MarkComputing, SetFuelStatus, Refuels, Trip, Bounds
<1>5. ~Unplanned(x)'
  <2>1. x \in Legs
    BY <1>1, <1>3, NowIsADay DEF Planning
  <2>2. status'[x] = "computing"
    BY <1>3, <2>1 DEF TypesInv, TypeOK, MarkComputing, SetFuelStatus
  <2> QED
    BY <2>2 DEF Unplanned
<1>6. q.calm => CoverStays
  BY <1>1, <1>3, <1>4, <1>5, WritesItsDay
<1>7. x = Head(p.todo)
  BY <1>2, <1>3 DEF Now
<1>8. ~Unplanned(Head(p.todo))'
  BY <1>5, <1>7
<1>9. p.pc \in Planning /\ p.pc \notin Storing /\ p.pc # "settle"
  BY <1>2 DEF Planning, Holding, Storing
<1> QED
  BY <1>1, <1>2, <1>4, <1>6, <1>8, <1>9, PlanGoesOn

\* To forget the arithmetic leaves the plan as it is.
LEMMA ForgetIs ==
    ASSUME NEW q \in Reqs
    PROVE  /\ Forget(q) \in Reqs /\ Forget(q).todo = q.todo /\ Forget(q).target = q.target
           /\ Forget(q).calm = q.calm /\ Forget(q).outcome = q.outcome /\ Forget(q).pc = q.pc
  BY DEF Forget, Reqs

LEMMA SearchingIs ==
    ASSUME TypesInv, NEW r \in Requests, NEW l
    PROVE  LET p == Searching(r, l)
           IN  /\ p.todo = req[r].todo /\ p.target = req[r].target
               /\ p.calm = req[r].calm /\ p.outcome = req[r].outcome /\ p.pc = req[r].pc
  BY DEF Searching, TypesInv, ReqTyped, Reqs

LEMMA SourceCalm ==
    ASSUME TypesInv, FuelInv, CalmInv, NEW r \in Requests,
           \/ ReadTank(r) \/ ReadDefaultVehicle(r) \/ WalkBack(r)
           \/ LookAhead(r) \/ SearchLeg(r) \/ SearchThrows(r)
    PROVE  CalmInv'
<1> DEFINE q == req[r]
           Same(p) == p.todo = q.todo /\ p.target = q.target /\ p.calm = q.calm
           Goes(p) == /\ Same(p) /\ p.pc \in {"walk", "ahead", "search", "place", "fail", "clear"}
                      /\ p.pc = "clear" => p.outcome = "ready"
<1>1. q \in Reqs /\ q.pc \in Holding
  BY DEF TypesInv, ReqTyped, ReadTank, ReadDefaultVehicle, WalkBack, LookAhead, SearchLeg,
         SearchThrows, InTry, At, Holding
<1>2. UNCHANGED <<route, declared, unplaced, status, stops, editor>>
  BY DEF ReadTank, ReadDefaultVehicle, WalkBack, LookAhead, SearchLeg, SearchThrows, Trip,
         Row, Bounds
<1>3. ASSUME NEW p, Put(r, p), Goes(p) PROVE CalmInv'
  <2>1. p.pc \in Holding \ {"settle"} /\ (p.pc \in Storing => p.outcome # "none")
    BY <1>3 DEF Holding, Storing
  <2>2. Put(r, p) /\ p.todo = req[r].todo /\ p.target = req[r].target /\ p.calm = req[r].calm
    BY <1>3
  <2>3. req[r].pc \in Holding
    BY <1>1
  <2> HIDE DEF q
  <2> QED
    BY <1>2, <2>1, <2>2, <2>3, QuietPlan
<1>4. ASSUME NEW x \in Reqs, Same(x)
      PROVE  Goes([Forget(x) EXCEPT !.pc = "fail"])
  BY <1>4, ForgetIs DEF Reqs
<1>5. CASE ReadTank(r)
  <2>1. Goes([q EXCEPT !.pc = "walk", !.range = range, !.anchor = declared])
    BY <1>1 DEF Reqs
  <2>2. Goes([Forget(q) EXCEPT !.pc = "fail"])
    BY <1>1, <1>4
  <2>3. \/ Put(r, [q EXCEPT !.pc = "walk", !.range = range, !.anchor = declared])
        \/ Put(r, [Forget(q) EXCEPT !.pc = "fail"])
    BY <1>5 DEF ReadTank
  <2> HIDE DEF Goes
  <2> QED
    BY <1>3, <2>1, <2>2, <2>3
<1>6. CASE WalkBack(r)
  <2> DEFINE p == [q EXCEPT !.pc = "ahead", !.burn = BurnAtStart(Now(r), q.range, q.anchor),
                            !.grounded = \/ q.alone = opens
                                         \/ \A k \in 1..(Now(r) - 1) : Firm(k)]
  <2>1. Goes(p)
    BY <1>1 DEF Reqs
  <2>2. Put(r, p)
    BY <1>6 DEF WalkBack
  <2> HIDE DEF Goes, p
  <2> QED
    BY <1>3, <2>1, <2>2
<1>7. CASE LookAhead(r)
  <2> DEFINE look == DayToLookAt(r)
             rec == IF look = {} THEN q ELSE Searching(r, Min(look))
             reserve == IF look = {} THEN 0
                        ELSE LET k == Min(look)
                             IN  FuelNeededAtLegStart(route[k].km, StationsFound(rec, k), rec.range)
             done == [Forget(rec) EXCEPT !.pc = "clear", !.outcome = "ready", !.leg = rec.leg]
             on == [rec EXCEPT !.pc = "search", !.reserve = reserve]
  <2>1. Put(r, done) \/ Put(r, on)
    BY <1>7 DEF LookAhead
  <2>2. Same(rec)
    BY SearchingIs
  <2>3. rec = [f \in Fields |-> rec[f]]
    <3>1. ReqOK(rec)
      BY SearchingOK DEF FuelInv
    <3> HIDE DEF rec
    <3> QED
      BY <3>1 DEF ReqOK, ReqShape
  <2> HIDE DEF rec, reserve
  <2>4. Goes(done) /\ Goes(on)
    BY <2>2, <2>3 DEF Forget, Fields
  <2> HIDE DEF Goes, done, on
  <2> QED
    BY <1>3, <2>1, <2>4
<1>8. CASE SearchLeg(r)
  <2> DEFINE x == Searching(r, Now(r))
             p == [x EXCEPT !.pc = "place"]
  <2>1. Put(r, p)
    BY <1>8 DEF SearchLeg
  <2>2. Same(x) /\ ReqOK(x)
    BY SearchingIs, SearchingOK DEF FuelInv
  <2> HIDE DEF x
  <2>3. Goes(p)
    BY <2>2 DEF ReqOK, ReqShape, Fields
  <2> HIDE DEF Goes, p
  <2> QED
    BY <1>3, <2>1, <2>3
<1>9. CASE SearchThrows(r)
  <2>1. Goes([Forget(q) EXCEPT !.pc = "fail"])
    BY <1>1, <1>4
  <2>2. Put(r, [Forget(q) EXCEPT !.pc = "fail"])
    BY <1>9 DEF SearchThrows
  <2> HIDE DEF Goes
  <2> QED
    BY <1>3, <2>1, <2>2
<1>10. CASE ReadDefaultVehicle(r)
  <2> DEFINE x == [Forget(q) EXCEPT !.pc = "fail", !.pure = FALSE]
             y(km) == [q EXCEPT !.pc = "walk", !.range = km, !.anchor = declared, !.pure = FALSE]
  <2>1. \A km : Goes(y(km))
    BY <1>1 DEF Reqs
  <2>2. Goes(x)
    BY <1>1, ForgetIs DEF Reqs
  <2>3. PICK km : Put(r, x) \/ Put(r, y(km))
    BY <1>10, Zenon DEF ReadDefaultVehicle
  <2> HIDE DEF Goes, x, y
  <2> QED
    BY <1>3, <2>1, <2>2, <2>3
<1> QED
  BY <1>5, <1>6, <1>7, <1>8, <1>9, <1>10

LEMMA PlaceCalm ==
    ASSUME TypesInv, FuelInv, CalmInv, NEW r \in Requests, Place(r)
    PROVE  CalmInv'
<1> DEFINE q == req[r]
           Same(p) == p.todo = q.todo /\ p.target = q.target /\ p.calm = q.calm
           Goes(p) == /\ Same(p) /\ p.pc \in {"place", "fail", "begin", "clear"}
                      /\ p.pc \in Storing => p.outcome # "none"
<1>1. q \in Reqs /\ q.pc = "place" /\ q.pc \in Holding
  BY DEF TypesInv, ReqTyped, Place, TankStateInvalid, PlanComplete, PlaceStop, PlanGap, Round, At, Holding
<1>2. UNCHANGED <<route, declared, unplaced, status, stops, editor>>
  BY DEF Place, TankStateInvalid, PlanComplete, PlaceStop, PlanGap, Trip, Row, Bounds
<1>3. ASSUME NEW p, Put(r, p), Goes(p) PROVE CalmInv'
  <2>1. p.pc \in Holding \ {"settle"} /\ (p.pc \in Storing => p.outcome # "none")
    BY <1>3 DEF Holding
  <2>2. Put(r, p) /\ p.todo = req[r].todo /\ p.target = req[r].target /\ p.calm = req[r].calm
    BY <1>3
  <2>3. req[r].pc \in Holding
    BY <1>1
  <2> HIDE DEF q
  <2> QED
    BY <1>2, <2>1, <2>2, <2>3, QuietPlan
<1>4. Forget(q) \in Reqs /\ Same(Forget(q))
  BY <1>1, ForgetIs
<1>5. /\ Goes([Forget(q) EXCEPT !.pc = "fail"])
      /\ Goes([Forget(q) EXCEPT !.pc = "fail", !.picked = {}])
      /\ Goes([Forget(q) EXCEPT !.pc = "clear", !.picked = {}, !.outcome = "no_stations_found"])
  BY <1>4 DEF Reqs, Storing
<1>6. Goes([q EXCEPT !.pc = "begin", !.outcome = "ready"])
  BY <1>1 DEF Reqs
<1>7. \A pick : Goes([q EXCEPT !.at = pick, !.picked = @ \cup {pick}])
  BY <1>1 DEF Reqs, Storing
<1>8. \/ Put(r, [Forget(q) EXCEPT !.pc = "fail"])
      \/ Put(r, [Forget(q) EXCEPT !.pc = "fail", !.picked = {}])
      \/ Put(r, [Forget(q) EXCEPT !.pc = "clear", !.picked = {}, !.outcome = "no_stations_found"])
      \/ Put(r, [q EXCEPT !.pc = "begin", !.outcome = "ready"])
      \/ \E pick : Put(r, [q EXCEPT !.at = pick, !.picked = @ \cup {pick}])
  BY DEF Place, TankStateInvalid, PlanComplete, PlaceStop, PlanGap
<1> HIDE DEF Goes, q
<1> QED
  BY <1>3, <1>5, <1>6, <1>7, <1>8

LEMMA StoreCalm ==
    ASSUME TypesInv, FuelInv, CalmInv, NEW r \in Requests,
           BeginStore(r) \/ DeleteOptions(r) \/ CommitStore(r) \/ ClearStops(r)
    PROVE  CalmInv'
<1> DEFINE q == req[r]
           Same(p) == p.todo = q.todo /\ p.target = q.target /\ p.calm = q.calm /\ p.outcome = q.outcome
<1>1. q \in Reqs /\ q.pc \in Storing /\ q.pc \in Holding
  BY DEF TypesInv, ReqTyped, BeginStore, DeleteOptions, CommitStore, ClearStops, At, Holding, Storing
<1>2. CASE BeginStore(r) \/ DeleteOptions(r)
  <2>1. Forget(q) \in Reqs /\ Same(Forget(q))
    BY <1>1, ForgetIs
  <2>2. /\ \A kept : Same([Forget(q) EXCEPT !.pc = "delete", !.keep = kept])
        /\ \A kept : [Forget(q) EXCEPT !.pc = "delete", !.keep = kept].pc = "delete"
        /\ \A rows : Same([q EXCEPT !.pc = "commit", !.victims = rows])
        /\ \A rows : [q EXCEPT !.pc = "commit", !.victims = rows].pc = "commit"
    BY <1>1, <2>1 DEF Reqs
  <2>3. \/ \E kept : Put(r, [Forget(q) EXCEPT !.pc = "delete", !.keep = kept])
        \/ \E rows : Put(r, [q EXCEPT !.pc = "commit", !.victims = rows])
    BY <1>2 DEF BeginStore, DeleteOptions
  <2> HIDE DEF Same, q
  <2>4. PICK p : Put(r, p) /\ Same(p) /\ p.pc \in {"delete", "commit"}
    BY <2>2, <2>3
  <2> USE DEF Same, q
  <2>5. p.pc \in Holding \ {"settle"}
    BY <2>4 DEF Holding
  <2>6. UNCHANGED <<route, declared, unplaced, status, stops, editor>>
    BY <1>2 DEF BeginStore, DeleteOptions, Trip, Row, Bounds
  <2> QED
    BY <1>1, <2>4, <2>5, <2>6, QuietPlan
<1>3. CASE CommitStore(r) \/ ClearStops(r)
  <2>1. /\ \A rows : Same([q EXCEPT !.pc = "settle", !.victims = rows])
        /\ \A rows : [q EXCEPT !.pc = "settle", !.victims = rows].pc = "settle"
        /\ Same([q EXCEPT !.pc = "settle"]) /\ [q EXCEPT !.pc = "settle"].pc = "settle"
    BY <1>1 DEF Reqs
  <2>2. Put(r, [q EXCEPT !.pc = "settle", !.victims = {}]) \/ Put(r, [q EXCEPT !.pc = "settle"])
    BY <1>3 DEF CommitStore, ClearStops, Go
  <2> HIDE DEF Same, q
  <2>3. PICK p : Put(r, p) /\ Same(p) /\ p.pc = "settle"
    BY <2>1, <2>2
  <2> USE DEF Same, q
  <2>4. PICK x : x = Now(r)
    OBVIOUS
  <2>5. UNCHANGED <<route, declared, unplaced, status, editor>>
    BY <1>3 DEF CommitStore, ClearStops, Trip, Row, Bounds
  <2>6. \A k \in Legs : k # x => stops'[k] = stops[k]
    BY <1>3, <2>4 DEF CommitStore, ClearStops, ClearOptions, TypesInv, TypeOK
  <2>7. \A k \in Legs : k # x => status'[k] = status[k] /\ Refuels(k)' = Refuels(k)
    BY <2>5, <2>6 DEF Refuels
  <2>8. Unplanned(x)' <=> Unplanned(x)
    BY <2>5 DEF Unplanned, Drives
  <2>9. q.calm => ~Unplanned(x) /\ q.outcome # "none"
    BY <1>1, <2>4 DEF CalmInv, CalmPlans, CalmPlan, Now
  <2>10. q.pc \in Planning /\ p.pc \in Planning
    BY <1>1, <2>3 DEF Planning, Holding
  <2>11. q.calm => CoverStays
    BY <2>4, <2>5, <2>7, <2>8, <2>9, <2>10, WritesItsDay
  <2>12. q.calm => ~Unplanned(Head(p.todo))'
    <3>1. x = Head(p.todo)
      BY <2>3, <2>4 DEF Now
    <3> QED
      BY <2>8, <2>9, <3>1
  <2>13. UNCHANGED <<route, editor>>
    BY <2>5
  <2> QED
    BY <2>3, <2>9, <2>10, <2>11, <2>12, <2>13, PlanGoesOn
<1> QED
  BY <1>2, <1>3

-----------------------------------------------------------------------------
(* The next day of a cascade, and the end of a request *)

\* The day in hand is planned, so everything before the next one is covered.
LEMMA NextDayInOrder ==
    ASSUME NEW q, ReqTyped(q), ReqOK(q), q.pc \in Planning, PlansInOrder(q), CoverStays, TypesInv,
           NEW x, x = Head(q.todo), ~Unplanned(x)', Len(q.todo) # 1,
           NEW p, p.todo = Tail(q.todo), p.target = q.target
    PROVE  PlansInOrder(p)'
<1> DEFINE t == q.todo
           s == Tail(t)
           m == q.target
<1>1. /\ t \in Seq(Legs) /\ Len(t) \in Nat /\ Len(t) >= 1 /\ x = t[1] /\ x \in Legs /\ m \in Legs
      /\ \A i \in 1..Len(t) : t[i] \in Legs
  BY TodoType
<1>2. /\ \A i, j \in 1..Len(t) : i < j => t[i] < t[j]
      /\ t[Len(t)] = m
      /\ \A k \in x..(m - 1) : Unplanned(k) => \E i \in 1..Len(t) : t[i] = k
      /\ Covered(x)
  BY DEF PlansInOrder, Ascending
<1>3. /\ s \in Seq(Legs) /\ Len(s) = Len(t) - 1 /\ \A i \in 1..Len(s) : s[i] = t[i + 1]
  <2>1. t # <<>>
    <3>1. Len(<<>>) = 0
      BY EmptySeq
    <3> HIDE DEF t
    <3> QED
      BY <1>1, <3>1
  <2> HIDE DEF t
  <2> QED
    BY <1>1, <2>1, HeadTailProperties
<1>4. Len(t) >= 2
  <2> DEFINE n == Len(t)
  <2>1. n \in Nat /\ n >= 1 /\ n # 1
    BY <1>1
  <2> HIDE DEF n
  <2>2. n >= 2
    BY <2>1
  <2> QED
    BY <2>2 DEF n
<1> HIDE DEF t, s
<1>5. Len(s) \in Nat /\ Len(s) >= 1 /\ \A i \in 1..Len(s) : i + 1 \in 1..Len(t)
  BY <1>1, <1>3, <1>4
<1>6. Head(s) = s[1] /\ s[1] = t[2]
  <2>1. s # <<>>
    <3>1. Len(<<>>) = 0
      BY EmptySeq
    <3> QED
      BY <1>5, <3>1
  <2>2. 1 \in 1..Len(s)
    BY <1>5
  <2> QED
    BY <1>3, <2>1, <2>2, HeadTailProperties
<1> DEFINE y == t[2]
<1>7. y \in Legs /\ x < y /\ y <= m
  <2>1. 2 \in 1..Len(t) /\ 1 \in 1..Len(t) /\ Len(t) \in 1..Len(t) /\ (2 < Len(t) \/ 2 = Len(t))
    <3> DEFINE n == Len(t)
    <3>1. n \in Nat /\ n >= 2
      BY <1>1, <1>4
    <3> HIDE DEF n
    <3>2. 2 \in 1..n /\ 1 \in 1..n /\ n \in 1..n /\ (2 < n \/ 2 = n)
      BY <3>1
    <3> QED
      BY <3>2 DEF n
  <2>2. t[2] \in Legs /\ t[1] < t[2] /\ (t[2] < t[Len(t)] \/ t[2] = t[Len(t)])
    BY <1>1, <1>2, <2>1
  <2>3. t[2] \in Int /\ m \in Int
    BY <1>1, <2>2, DaysAssumption DEF Legs
  <2> QED
    BY <1>1, <1>2, <2>2, <2>3
<1>8. \A i, j \in 1..Len(s) : i < j => s[i] < s[j]
  <2> SUFFICES ASSUME NEW i \in 1..Len(s), NEW j \in 1..Len(s), i < j PROVE s[i] < s[j]
    OBVIOUS
  <2>1. i + 1 \in 1..Len(t) /\ j + 1 \in 1..Len(t) /\ i + 1 < j + 1
    BY <1>5
  <2> QED
    BY <1>2, <1>3, <2>1
<1>9. s[Len(s)] = m
  <2>1. Len(s) \in 1..Len(s) /\ Len(s) + 1 = Len(t)
    BY <1>1, <1>3, <1>5
  <2> QED
    BY <1>2, <1>3, <2>1
\* An unplanned day from the day in hand on is one of the days to come.
<1>10. ASSUME NEW k \in x..(m - 1), Unplanned(k)'
       PROVE  \E i \in 1..Len(s) : s[i] = k
  <2>1. k \in Legs /\ Unplanned(k)
    <3>1. k \in Legs
      BY <1>1, DaysAssumption DEF Legs
    <3> QED
      BY <1>10, <3>1 DEF CoverStays
  <2>2. PICK i \in 1..Len(t) : t[i] = k
    BY <1>2, <2>1
  <2>3. i # 1
    BY <1>1, <1>10, <2>2
  <2>4. i - 1 \in 1..Len(s) /\ (i - 1) + 1 = i
    BY <1>1, <1>3, <2>3
  <2>5. s[i - 1] = k
    BY <1>3, <2>2, <2>4
  <2> QED
    BY <2>4, <2>5
<1> HIDE DEF y
<1>11. Covered(y)'
  <2> SUFFICES ASSUME NEW k \in 1..(y - 1), Unplanned(k)' PROVE \E j \in k..(y - 1) : Stopper(j)'
    BY DEF Covered
  <2>0. Days \in Nat /\ x \in 1..Days /\ y \in 1..Days /\ m \in 1..Days
    BY <1>1, <1>7, DaysAssumption DEF Legs
  <2>1. CASE k < x
    <3>1. Covered(x)'
      BY <1>1, <1>2 DEF CoverStays
    <3>2. k \in 1..(x - 1)
      BY <2>0, <2>1
    <3>3. PICK j \in k..(x - 1) : Stopper(j)'
      BY <3>1, <3>2 DEF Covered
    <3>4. j \in k..(y - 1)
      BY <1>7, <2>0, <3>3
    <3> QED
      BY <3>3, <3>4
  <2>2. CASE ~(k < x)
    <3>1. k \in x..(m - 1)
      BY <1>7, <2>0, <2>2
    <3>2. PICK i \in 1..Len(s) : s[i] = k
      BY <1>10, <3>1
    <3>3. i = 1 \/ 1 < i
      BY <1>5
    <3>4. 1 \in 1..Len(s)
      BY <1>5
    <3>5. s[i] = y \/ y < s[i]
      BY <1>6, <1>8, <3>3, <3>4 DEF y
    <3> QED
      BY <2>0, <3>2, <3>5
  <2> QED
    BY <2>1, <2>2
<1>12. ASSUME NEW k \in y..(m - 1), Unplanned(k)' PROVE \E i \in 1..Len(s) : s[i] = k
  <2>1. k \in x..(m - 1)
    BY <1>1, <1>7, DaysAssumption DEF Legs
  <2> QED
    BY <1>10, <1>12, <2>1
<1>13. p.todo = s /\ p.target = m /\ Head(p.todo) = y
  BY <1>6 DEF s, t, y
<1> HIDE DEF m
<1> QED
  BY <1>8, <1>9, <1>11, <1>12, <1>13 DEF PlansInOrder, Ascending

\* A failure written to a day keeps what is covered.
LEMMA FailedCovers ==
    ASSUME TypesInv, NEW x \in Legs, SetFuelStatus(x, "failed"), UNCHANGED <<route, declared, unplaced, stops>>
    PROVE  CoverStays
<1>1. status' = [status EXCEPT ![x] = "failed"] /\ status \in [Legs -> Statuses]
  BY DEF SetFuelStatus, TypesInv, TypeOK
<1>2. \A k \in Legs : Unplanned(k)' => Unplanned(k)
  BY <1>1 DEF Unplanned, Drives
<1>3. \A j \in Legs : Stopper(j) => Stopper(j)'
  BY <1>1 DEF Stopper, TakenForRefuel, Refuels
<1> QED
  BY <1>2, <1>3, CoverGrows DEF CoverStays

LEMMA FailCalm ==
    ASSUME TypesInv, FuelInv, CalmInv, NEW r \in Requests, FailTarget(r) \/ FailLeg(r)
    PROVE  CalmInv'
<1> DEFINE q == req[r]
           p == [q EXCEPT !.pc = "failTarget"]
<1>1. q \in Reqs /\ q.pc \in {"failTarget", "fail"} /\ q.pc # "idle"
  BY DEF TypesInv, ReqTyped, FailTarget, FailLeg, At
<1>2. p.pc = "failTarget" /\ p.calm = q.calm
  BY <1>1 DEF Reqs
<1>3. Put(r, Idle) \/ Put(r, p)
  BY DEF FailTarget, FailLeg, Go
<1>4. PICK x : x \in Legs /\ SetFuelStatus(x, "failed")
  <2>1. CASE FailTarget(r)
    <3>1. q.target \in Legs
      BY <1>1 DEF FuelInv, ReqOK
    <3> QED
      BY <2>1, <3>1 DEF FailTarget
  <2>2. CASE FailLeg(r)
    <3>1. Now(r) \in Legs
      BY <2>2, NowIsADay DEF FailLeg, At, Holding
    <3> QED
      BY <2>2, <3>1 DEF FailLeg
  <2> QED
    BY <2>1, <2>2
<1>5. UNCHANGED <<route, declared, unplaced, stops, editor>>
  BY DEF FailTarget, FailLeg, Trip, Bounds
<1>6. CoverStays
  BY <1>4, <1>5, FailedCovers
<1> HIDE DEF p
<1>7. PICK u : Put(r, u) /\ (u = Idle \/ (u.pc = "failTarget" /\ u.calm = q.calm))
  BY <1>2, <1>3
<1>8. CalmPlan(u)'
  <2>1. ~Idle.calm
    BY DEF Idle
  <2> QED
    BY <1>7, <2>1 DEF CalmPlan, Planning, Holding, Storing
<1> QED
  BY <1>1, <1>5, <1>6, <1>7, <1>8, CalmStep

LEMMA SettleCalm ==
    ASSUME TypesInv, FuelInv, CalmInv, NEW r \in Requests, Settle(r)
    PROVE  CalmInv'
<1> DEFINE q == req[r]
           p == [q EXCEPT !.pc = "load", !.todo = Tail(@), !.leg = None]
<1>1. q \in Reqs /\ q.pc = "settle" /\ q.pc \in Planning /\ q.pc \in Holding
  BY DEF TypesInv, ReqTyped, Settle, At, Planning, Holding
<1>2. p.pc = "load" /\ p.calm = q.calm /\ p.todo = Tail(q.todo) /\ p.target = q.target
  BY <1>1 DEF Reqs
<1>3. Put(r, Idle) \/ (Len(q.todo) # 1 /\ Put(r, p))
  BY DEF Settle
<1>4. PICK x : x = Now(r)
  OBVIOUS
<1>5. x \in Legs
  BY <1>1, <1>4, NowIsADay DEF Planning
<1>6. UNCHANGED <<route, declared, unplaced, stops, editor>>
  BY DEF Settle, Trip, Bounds
<1>7. status' = [status EXCEPT ![x] = q.outcome] /\ status \in [Legs -> Statuses]
  BY <1>4 DEF Settle, SetFuelStatus, TypesInv, TypeOK
<1>8. \A k \in Legs : k # x => status'[k] = status[k] /\ Refuels(k)' = Refuels(k)
  BY <1>6, <1>7 DEF Refuels
\* A calm plan settles no day that it leaves unplanned.
<1>9. q.calm => ~Unplanned(x)'
  <2>1. q.calm => (q.outcome = "none" => route[x].ends # "apart")
    BY <1>1, <1>4 DEF CalmInv, CalmPlans, CalmPlan, Now
  <2>2. status'[x] = q.outcome
    BY <1>5, <1>7
  <2> QED
    BY <1>6, <2>1, <2>2 DEF Unplanned
<1>10. UNCHANGED <<route, declared, unplaced>>
  BY <1>6
<1>11. q.calm => CoverStays
  BY <1>1, <1>4, <1>8, <1>9, <1>10, WritesItsDay
<1> HIDE DEF p
<1>12. PICK u : /\ Put(r, u)
                /\ u = Idle \/ (/\ u.pc = "load" /\ u.calm = q.calm /\ u.todo = Tail(q.todo)
                                /\ u.target = q.target /\ Len(q.todo) # 1)
  BY <1>2, <1>3
<1>13. q.calm => CalmPlan(u)'
  <2>1. CASE u = Idle
    <3>1. ~Idle.calm
      BY DEF Idle
    <3> QED
      BY <2>1, <3>1 DEF CalmPlan
  <2>2. CASE u # Idle /\ q.calm
    <3>1. PICK v : v = req[r]
      OBVIOUS
    <3>2. ReqTyped(v) /\ ReqOK(v) /\ v.pc \in Planning /\ PlansInOrder(v)
      BY <1>1, <2>2, <3>1 DEF TypesInv, FuelInv, CalmInv, CalmPlans, CalmPlan
    <3>3. x = Head(v.todo) /\ Len(v.todo) # 1 /\ u.todo = Tail(v.todo) /\ u.target = v.target
      BY <1>4, <1>12, <2>2, <3>1 DEF Now
    <3>4. PlansInOrder(u)'
      BY <1>9, <1>11, <2>2, <3>2, <3>3, NextDayInOrder
    <3>5. u.pc \notin Holding /\ u.pc \notin Storing /\ u.pc \notin {"refuels", "settle"}
      BY <1>12, <2>2 DEF Holding, Storing
    <3> QED
      BY <3>4, <3>5 DEF CalmPlan
  <2> QED
    BY <2>1, <2>2
<1>14. u = Idle \/ (u.pc # "idle" /\ u.calm = req[r].calm)
  BY <1>12
<1>15. req[r].pc # "idle" /\ UNCHANGED editor
  BY <1>1, <1>6
<1>16. Put(r, u) /\ (req[r].calm => CoverStays /\ CalmPlan(u)')
  BY <1>11, <1>12, <1>13
<1> QED
  BY <1>14, <1>15, <1>16, CalmStep

LEMMA KillCalm ==
    ASSUME TypesInv, FuelInv, CalmInv, NEW r \in Requests, Killed(r)
    PROVE  CalmInv'
<1>1. Put(r, Idle) /\ req[r].pc # "idle" /\ UNCHANGED <<route, declared, unplaced, status, stops, editor>>
  BY DEF Killed, At, Trip
<1>2. CoverStays
  BY <1>1, NothingWritten
<1>3. PICK u : u = Idle
  OBVIOUS
<1>4. CalmPlan(u)'
  <2>1. ~u.calm
    BY <1>3 DEF Idle
  <2> QED
    BY <2>1 DEF CalmPlan
<1> QED
  BY <1>1, <1>2, <1>3, <1>4, CalmStep

LEMMA OpenCalm ==
    ASSUME TypesInv, FuelInv, CalmInv, NEW r \in Requests, NEW l \in Legs,
           OpenDay(r, l) \/ ForceDay(r, l)
    PROVE  CalmInv'
<1> DEFINE calm == editor.todo = <<>> /\ \A s \in Requests : At(s, "idle") \/ req[s].calm
           alone == IF InSight(l) /\ \A s \in Requests : At(s, "idle") THEN opens' ELSE 0
           p == [Idle EXCEPT !.pc = "lookup", !.target = l, !.pure = editor.todo = <<>>,
                             !.calm = calm, !.alone = alone]
<1>1. Put(r, p) /\ UNCHANGED <<route, declared, unplaced, status, stops, editor>> /\ req[r].pc = "idle"
  BY DEF OpenDay, ForceDay, BeginOpen, At, Trip, Row
<1>2. p.pc = "lookup" /\ p.calm = calm
  BY DEF Idle
<1> HIDE DEF p, calm
<1>3. \A s \in Requests : req'[s] = IF s = r THEN p ELSE req[s]
  BY <1>1, OneValue DEF FuelInv, Put
<1>4. CoverStays
  BY <1>1, NothingWritten
<1>5. CalmTogether'
  <2>1. ASSUME NEW t \in Requests, req'[t].calm PROVE calm
    <3>1. CASE t = r
      BY <1>2, <1>3, <2>1, <3>1
    <3>2. CASE t # r
      BY <1>3, <2>1, <3>2 DEF CalmInv, CalmTogether, calm
    <3> QED
      BY <3>1, <3>2
  <2>2. ASSUME calm, NEW s \in Requests PROVE req'[s].pc = "idle" \/ req'[s].calm
    BY <1>2, <1>3, <2>2 DEF calm, At
  <2>3. calm => editor'.todo = <<>>
    BY <1>1 DEF calm
  <2> QED
    BY <2>1, <2>2, <2>3 DEF CalmTogether, At
<1>6. ASSUME NEW s \in Requests PROVE CalmPlan(req[s])'
  <2>1. CASE s = r
    <3>1. req'[s].pc = "lookup"
      BY <1>2, <1>3, <2>1
    <3> QED
      BY <3>1 DEF CalmPlan, Planning, Holding, Storing
  <2>2. CASE s # r
    <3>1. PICK u : u = req[s]
      OBVIOUS
    <3>2. ReqTyped(u) /\ ReqOK(u) /\ CalmPlan(u)
      BY <3>1 DEF TypesInv, FuelInv, CalmInv, CalmPlans
    <3>3. CalmPlan(u)'
      BY <1>4, <3>2, CalmPlanStays
    <3>4. req'[s] = u
      BY <1>3, <2>2, <3>1
    <3> QED
      BY <3>3, <3>4 DEF CalmPlan, SeenIsCovered, PlansInOrder, Ascending
  <2> QED
    BY <2>1, <2>2
<1> QED
  BY <1>5, <1>6 DEF CalmInv, CalmPlans

\* What a calm plan is about.
SamePlan(p, q) ==
    /\ p.pc = q.pc /\ p.todo = q.todo /\ p.target = q.target
    /\ p.seen = q.seen /\ p.outcome = q.outcome /\ p.calm = q.calm

\* A step that no request takes and that leaves covered what is.
LEMMA OtherCalm ==
    ASSUME TypesInv, FuelInv, CalmInv, UNCHANGED editor, CoverStays,
           \A s \in Requests : SamePlan(req'[s], req[s])
    PROVE  CalmInv'
<1>1. CalmTogether'
  BY DEF CalmInv, CalmTogether, At, SamePlan
<1>2. ASSUME NEW s \in Requests PROVE CalmPlan(req[s])'
  <2>1. PICK u : u = req[s]
    OBVIOUS
  <2>2. ReqTyped(u) /\ ReqOK(u) /\ CalmPlan(u)
    BY <2>1 DEF TypesInv, FuelInv, CalmInv, CalmPlans
  <2>3. CalmPlan(u)'
    BY <2>2, CalmPlanStays
  <2>4. SamePlan(req'[s], u)
    BY <2>1
  <2> QED
    BY <2>3, <2>4 DEF CalmPlan, SeenIsCovered, PlansInOrder, Ascending, SamePlan
<1> QED
  BY <1>1, <1>2 DEF CalmInv, CalmPlans

LEMMA SamePlans ==
    ASSUME UNCHANGED req
    PROVE  \A s \in Requests : SamePlan(req'[s], req[s])
  BY DEF SamePlan

\* Where nobody is calm there is nothing to keep.
LEMMA NobodyCalm ==
    ASSUME \A s \in Requests : ~req'[s].calm
    PROVE  CalmInv'
  BY DEF CalmInv, CalmTogether, CalmPlans, CalmPlan

LEMMA TripCalm ==
    ASSUME TypesInv, FuelInv, CalmInv, DriverOrTurn
    PROVE  CalmInv'
<1>1. ASSUME NEW kind, NEW S, Alter(kind, S) PROVE CalmInv'
  <2>1. \A s \in Requests : ~req'[s].calm
    <3>1. \A s \in Requests : req[s] \in Reqs
      BY DEF TypesInv, ReqTyped
    <3> QED
      BY <1>1, <3>1 DEF Alter, Reqs
  <2> QED
    BY <2>1, NobodyCalm
<1>2. CASE \E r \in Requests, l \in Legs : OpenDay(r, l) \/ ForceDay(r, l)
  BY <1>2, OpenCalm
<1>3. CASE \E l \in Legs : CacheExpires(l)
  <2>1. UNCHANGED <<route, declared, unplaced, status, stops, req, editor>>
    BY <1>3 DEF CacheExpires, Trip
  <2> QED
    BY <2>1, NothingWritten, OtherCalm, SamePlans
<1>4. CASE \E l \in Legs, rt \in NewRoutes : RerouteLeg(l, rt)
  BY <1>1, <1>4 DEF RerouteLeg
<1>5. CASE \E km \in Ranges : AssignVehicle(km) \/ EditVehicle(km)
  BY <1>1, <1>5 DEF AssignVehicle, EditVehicle
<1>6. CASE \E l \in Legs, km \in Declarable : DeclareFuelState(l, km)
  BY <1>1, <1>6 DEF DeclareFuelState
<1>10. CASE \E l \in Legs : AddOrDropStop(l)
  BY <1>1, <1>10 DEF AddOrDropStop
<1>7. CASE \E l \in Legs : \E s \in stops[l] : DismissStop(l, s)
  BY <1>1, <1>7 DEF DismissStop
<1>8. CASE \E l \in Legs : \E s \in stops[l] : SelectStop(l, s)
  <2>0. PICK l \in Legs : \E s \in stops[l] : SelectStop(l, s)
    BY <1>8
  <2>1. PICK s \in stops[l] : SelectStop(l, s)
    BY <2>0
  <2>2. UNCHANGED <<route, declared, unplaced, status, editor>>
    BY <2>1 DEF SelectStop, Trip, Row
  <2>3. \A k \in Legs : Unplanned(k)' => Unplanned(k)
    BY <2>2 DEF Unplanned, Drives
  <2>4. \A k \in Legs : Refuels(k) # {} => Refuels(k)' # {}
    <3> SUFFICES ASSUME NEW k \in Legs, NEW x \in stops[k], x.state # "dismissed"
                 PROVE  \E y \in stops'[k] : y.state # "dismissed"
      BY DEF Refuels
    <3>1. stops' = [stops EXCEPT ![l] = (@ \ {s}) \cup {[s EXCEPT !.state = "selected"]}]
      BY <2>1 DEF SelectStop
    <3>2. s \in Stops /\ stops \in [Legs -> SUBSET Stops]
      BY <2>1 DEF TypesInv, TypeOK
    <3>3. CASE k = l /\ x = s
      <4> DEFINE y == [s EXCEPT !.state = "selected"]
      <4>1. y \in stops'[k] /\ y.state = "selected"
        BY <3>1, <3>2, <3>3 DEF Stops
      <4> QED
        BY <4>1
    <3>4. CASE ~(k = l /\ x = s)
      <4>1. x \in stops'[k]
        BY <3>1, <3>2, <3>4
      <4> QED
        BY <4>1
    <3> QED
      BY <3>3, <3>4
  <2>5. \A j \in Legs : Stopper(j) => Stopper(j)'
    BY <2>2, <2>4 DEF Stopper, TakenForRefuel
  <2>6. CoverStays
    BY <2>2, <2>3, <2>5, CoverGrows DEF CoverStays
  <2>7. \A r \in Requests : SamePlan(req'[r], req[r])
    <3>1. PICK planned \in BOOLEAN :
             req' = [r \in Requests |-> [req[r] EXCEPT !.pure = @ /\ planned]]
      BY <2>1, SelectIs
    <3>2. \A q \in Reqs : SamePlan([q EXCEPT !.pure = @ /\ planned], q)
      BY DEF SamePlan, Reqs
    <3> QED
      BY <3>1, <3>2 DEF TypesInv, ReqTyped
  <2> QED
    BY <2>2, <2>6, <2>7, OtherCalm
<1>9. CASE InvalidateStops \/ InvalidateStatus
  <2>1. editor.todo # <<>> /\ req' = req
    BY <1>9 DEF InvalidateStops, InvalidateStatus
  <2>2. \A s \in Requests : ~req'[s].calm
    BY <2>1 DEF CalmInv, CalmTogether
  <2> QED
    BY <2>2, NobodyCalm
<1> QED
  BY <1>2, <1>3, <1>4, <1>5, <1>6, <1>7, <1>8, <1>9, <1>10 DEF DriverOrTurn

-----------------------------------------------------------------------------
(* The days a request puts before its own *)

LEMMA ReadCalm ==
    ASSUME TypesInv, FuelInv, CalmInv, NEW r \in Requests, ReadStatuses(r)
    PROVE  CalmInv'
<1> DEFINE q == req[r]
           l == q.target
           seen == [k \in Legs |-> IF k < l THEN status[k] ELSE "none"]
           one == [q EXCEPT !.pc = "load", !.todo = <<l>>]
           more == [q EXCEPT !.pc = "refuels", !.seen = seen]
<1>1. q \in Reqs /\ q.pc = "lookup" /\ l \in Legs
  BY DEF TypesInv, ReqTyped, FuelInv, ReqOK, ReadStatuses, At
<1>2. /\ one.pc = "load" /\ one.todo = <<l>> /\ one.target = l /\ one.calm = q.calm
      /\ more.pc = "refuels" /\ more.seen = seen /\ more.target = l /\ more.calm = q.calm
  BY <1>1 DEF Reqs
<1>3. (l = 1 /\ Put(r, one)) \/ Put(r, more)
  BY DEF ReadStatuses
<1> HIDE DEF one, more
<1>4. UNCHANGED <<route, declared, unplaced, status, stops, editor>>
  BY DEF ReadStatuses, Trip, Row, Bounds
<1>5. CoverStays
  BY <1>4, NothingWritten
<1>6. CASE l = 1 /\ Put(r, one)
  <2>1. PICK p : p = one
    OBVIOUS
  <2>2. p.todo = <<1>> /\ p.target = 1
    BY <1>2, <1>6, <2>1
  <2>3. PlansInOrder(p)'
    BY <2>2 DEF PlansInOrder, Ascending, Covered
  <2>4. p.pc = "load" /\ p.calm = q.calm
    BY <1>2, <2>1
  <2>5. CalmPlan(p)'
    BY <2>3, <2>4 DEF CalmPlan, Planning, Holding, Storing
  <2> QED
    BY <1>1, <1>4, <1>5, <1>6, <2>1, <2>4, <2>5, CalmStep
<1>7. CASE Put(r, more)
  <2>1. PICK p : p = more
    OBVIOUS
  <2>2. PICK m \in Legs : m = l
    BY <1>1
  <2>3. p.target = m /\ \A k \in Legs : k < m => p.seen[k] = status[k]
    BY <1>2, <2>1, <2>2
  <2>4. \A k \in 1..(m - 1) : k \in Legs /\ k < m
    BY <2>2, DaysAssumption DEF Legs
  <2>5. ASSUME NEW k \in 1..(m - 1), Unplanned(k)' PROVE p.seen[k] = "none"
    BY <1>4, <2>3, <2>4, <2>5 DEF Unplanned
  <2>6. ASSUME NEW a \in 1..(m - 1), p.seen[a] = "no_stations_found" PROVE Covered(a + 1)'
    <3>1. status'[a] = "no_stations_found"
      BY <1>4, <2>3, <2>4, <2>6
    <3>2. Stopper(a)'
      BY <3>1 DEF Stopper
    <3>3. \A k \in 1..((a + 1) - 1) : a \in k..((a + 1) - 1)
      BY <2>2, <2>4, DaysAssumption DEF Legs
    <3> QED
      BY <3>2, <3>3 DEF Covered
  <2>7. SeenIsCovered(p)'
    BY <2>3, <2>5, <2>6 DEF SeenIsCovered
  <2>8. p.pc = "refuels" /\ p.calm = q.calm
    BY <1>2, <2>1
  <2>9. CalmPlan(p)'
    BY <2>7, <2>8 DEF CalmPlan, Planning, Holding, Storing
  <2> QED
    BY <1>1, <1>4, <1>5, <1>7, <2>1, <2>8, <2>9, CalmStep
<1> QED
  BY <1>3, <1>6, <1>7

\* The days since the anchor, in order, with the day itself: what is unplanned before the
\* first of them is behind the anchor.
LEMMA CascadeInOrder ==
    ASSUME TypesInv, NEW q, q.target \in Legs, SeenIsCovered(q),
           NEW p, p.target = q.target,
           p.todo = InOrder(LegsNeedingSourcingBefore(1..(q.target - 1), q.seen).toSource
                            \cup {q.target})
    PROVE  PlansInOrder(p)
<1>a. PICK l \in Legs : l = q.target
  OBVIOUS
<1>b. PICK seen : seen = q.seen
  OBVIOUS
<1>c. PICK todo : todo = p.todo
  OBVIOUS
<1>d. todo = InOrder(LegsNeedingSourcingBefore(1..(l - 1), seen).toSource \cup {l})
  BY <1>a, <1>b, <1>c
<1>e. /\ \A k \in 1..(l - 1) : Unplanned(k) => seen[k] = "none"
      /\ \A m \in 1..(l - 1) : seen[m] = "no_stations_found" => Covered(m + 1)
  BY <1>a, <1>b DEF SeenIsCovered
<1> DEFINE n == l - 1
           d == IF declared = None THEN 0 ELSE declared.leg
           refuelled == {k \in 1..n : HasFuelStop(k)}
           a == SourcingAnchor(1..n, seen, refuelled, d)
           toSource == DrivesSince(a, 1..n, Drives, seen, Unsourced)
           S == toSource \cup {l}
<1>1. n \in Nat /\ l \in Int /\ l \in 1..Days /\ Days \in Nat /\ n + 1 = l
  BY DaysAssumption DEF Legs
<1>2. /\ a \in 0..n
      /\ a # 0 => a \in 1..n /\ (HasFuelStop(a) \/ seen[a] = "no_stations_found" \/ a = d)
  <2> HIDE DEF refuelled, d, n
  <2>1. /\ a \in 0..n
        /\ a \in {0} \cup {k \in 1..n : \/ k \in refuelled \/ seen[k] = "no_stations_found" \/ k = d}
    BY <1>1, AnchorIsLast
  <2> HIDE DEF a
  <2> QED
    BY <2>1 DEF refuelled
<1>3. todo = InOrder(S)
  BY <1>d DEF LegsNeedingSourcingBefore
<1> HIDE DEF a
<1>4. /\ S \in SUBSET Legs
      /\ \A x \in S : a < x /\ x <= l
      /\ \A k \in 1..n : k > a /\ Unplanned(k) => k \in S
  <2>1. ASSUME NEW x \in S PROVE x \in Legs /\ a < x /\ x <= l
    BY <1>1, <1>2 DEF DrivesSince, Legs
  <2>2. ASSUME NEW k \in 1..n, k > a, Unplanned(k) PROVE k \in S
    BY <1>e, <2>2 DEF Unplanned, DrivesSince, Unsourced
  <2> QED
    BY <2>1, <2>2
<1>5. l \in S
  OBVIOUS
<1> HIDE DEF S
<1>6. /\ Len(todo) = Cardinality(S) /\ Cardinality(S) \in Nat
      /\ \A i \in 1..Len(todo) : todo[i] \in S
      /\ \A i, j \in 1..Len(todo) : i < j => todo[i] < todo[j]
      /\ \A x \in S : \E i \in 1..Len(todo) : todo[i] = x
  <2> DEFINE o == InOrder(S)
  <2>1. /\ Len(o) = Cardinality(S) /\ Cardinality(S) \in Nat
        /\ \A i \in 1..Len(o) : o[i] \in S
        /\ \A i, j \in 1..Len(o) : i < j => o[i] < o[j]
        /\ \A x \in S : \E i \in 1..Len(o) : o[i] = x
    BY ONLY <1>4, InOrderSorts
  <2>2. todo = o
    BY <1>3
  <2> HIDE DEF o
  <2> QED
    BY ONLY <2>1, <2>2
<1>7. Len(todo) \in Nat /\ Len(todo) >= 1
  <2> DEFINE m == Len(todo)
  <2>1. m \in Nat /\ \E i \in 1..m : TRUE
    BY <1>5, <1>6
  <2> HIDE DEF m
  <2>2. m >= 1
    BY <2>1
  <2> QED
    BY <2>1, <2>2 DEF m
<1>8. Head(todo) = todo[1] /\ todo[1] \in S
  <2>1. todo \in Seq(Legs)
    BY <1>3, <1>4, InOrderType
  <2>2. todo # <<>>
    <3>1. Len(<<>>) = 0
      BY EmptySeq
    <3> QED
      BY <1>7, <3>1
  <2>3. 1 \in 1..Len(todo)
    BY <1>7
  <2>4. Head(todo) = todo[1]
    BY ONLY <2>1, <2>2, HeadTailProperties
  <2> QED
    BY <1>6, <2>3, <2>4
<1> DEFINE x == todo[1]
<1>9. x \in Legs /\ x \in Int /\ a < x /\ x <= l
  <2>1. \A y \in Legs : y \in Int
    BY DaysAssumption DEF Legs
  <2> QED
    BY <1>4, <1>8, <2>1
<1>10. \A i \in 1..Len(todo) : todo[i] \in Int /\ x <= todo[i]
  <2> SUFFICES ASSUME NEW i \in 1..Len(todo) PROVE todo[i] \in Int /\ x <= todo[i]
    OBVIOUS
  <2>1. todo[i] \in Int
    <3>1. \A y \in Legs : y \in Int
      BY DaysAssumption DEF Legs
    <3> QED
      BY <1>4, <1>6, <3>1
  <2>2. i = 1 \/ (1 < i /\ 1 \in 1..Len(todo))
    BY <1>7
  <2>3. todo[i] = x \/ x < todo[i]
    BY <1>6, <2>2
  <2> QED
    BY <1>9, <2>1, <2>3
<1>11. todo[Len(todo)] = l
  <2>1. PICK i \in 1..Len(todo) : todo[i] = l
    BY <1>5, <1>6
  <2>2. i = Len(todo) \/ (i < Len(todo) /\ Len(todo) \in 1..Len(todo))
    BY <1>7
  <2>3. CASE i < Len(todo) /\ Len(todo) \in 1..Len(todo)
    <3> DEFINE y == todo[Len(todo)]
    <3>1. l < y /\ y <= l /\ y \in Int
      BY <1>4, <1>6, <1>10, <2>1, <2>3
    <3> HIDE DEF y
    <3>2. FALSE
      BY <1>1, <3>1
    <3> QED
      BY <3>2
  <2> QED
    BY <2>1, <2>2, <2>3
<1> HIDE DEF x
<1>12. Covered(x)
  <2> SUFFICES ASSUME NEW k \in 1..(x - 1), Unplanned(k) PROVE \E j \in k..(x - 1) : Stopper(j)
    BY DEF Covered
  <2>1. k \in 1..n
    BY <1>1, <1>9
  <2>2. ~(k > a)
    <3> SUFFICES ASSUME k > a PROVE FALSE
      OBVIOUS
    <3>1. k \in S
      BY <1>4, <2>1
    <3>2. PICK i \in 1..Len(todo) : todo[i] = k
      BY <1>6, <3>1
    <3>3. x <= k
      BY <1>10, <3>2
    <3> QED
      BY <1>9, <3>3
  <2>3. a # 0 /\ a \in 1..n /\ a \in k..(x - 1)
    BY <1>1, <1>2, <1>9, <2>1, <2>2
  <2>4. CASE HasFuelStop(a)
    BY <2>3, <2>4 DEF Stopper, TakenForRefuel, HasFuelStop
  <2>5. CASE a = d
    BY <2>3, <2>5 DEF Stopper, TakenForRefuel
  <2>6. CASE seen[a] = "no_stations_found"
    <3>1. Covered(a + 1)
      BY <1>e, <2>3, <2>6
    <3>2. k \in 1..((a + 1) - 1)
      BY <1>2, <2>2, <2>3
    <3>3. PICK j \in k..((a + 1) - 1) : Stopper(j)
      BY <3>1, <3>2 DEF Covered
    <3>4. j \in k..(x - 1)
      BY <1>2, <1>9, <2>3, <3>3
    <3> QED
      BY <3>3, <3>4
  <2> QED
    BY <1>2, <2>3, <2>4, <2>5, <2>6
<1>13. ASSUME NEW k \in x..(l - 1), Unplanned(k) PROVE \E i \in 1..Len(todo) : todo[i] = k
  <2>1. k \in 1..n /\ k > a
    BY <1>1, <1>2, <1>9
  <2> QED
    BY <1>4, <1>6, <1>13, <2>1
<1> QED
  <2>1. p.todo = todo /\ p.target = l /\ Head(todo) = x
    BY <1>8, <1>a, <1>c DEF x
  <2> QED
    BY <1>6, <1>11, <1>12, <1>13, <2>1 DEF PlansInOrder, Ascending

LEMMA DecideCalm ==
    ASSUME TypesInv, FuelInv, CalmInv, NEW r \in Requests, DecideCascade(r)
    PROVE  CalmInv'
<1> DEFINE q == req[r]
           l == q.target
           S == LegsNeedingSourcingBefore(1..(l - 1), q.seen).toSource \cup {l}
           wait == [q EXCEPT !.pc = "failTarget", !.seen = Idle.seen]
           plan == [q EXCEPT !.pc = "load", !.seen = Idle.seen, !.todo = InOrder(S)]
<1>1. q \in Reqs /\ q.pc = "refuels" /\ l \in Legs
  BY DEF TypesInv, ReqTyped, FuelInv, ReqOK, DecideCascade, At
<1>2. /\ wait.pc = "failTarget" /\ wait.calm = q.calm
      /\ plan.pc = "load" /\ plan.todo = InOrder(S) /\ plan.target = l /\ plan.calm = q.calm
  BY <1>1 DEF Reqs
<1>3. Put(r, wait) \/ Put(r, plan)
  BY DEF DecideCascade
<1> HIDE DEF wait, plan
<1>4. UNCHANGED <<route, declared, unplaced, status, stops, editor>>
  BY DEF DecideCascade, Trip, Row, Bounds
<1>5. CoverStays /\ (\A k : Unplanned(k)' <=> Unplanned(k)) /\ \A m : Covered(m) => Covered(m)'
  BY <1>4, NothingWritten
<1>6. CASE Put(r, wait)
  <2>1. PICK p : p = wait
    OBVIOUS
  <2>2. p.pc = "failTarget" /\ p.calm = q.calm /\ Put(r, p)
    BY <1>2, <1>6, <2>1
  <2>3. CalmPlan(p)'
    BY <2>2 DEF CalmPlan, Planning, Holding, Storing
  <2> QED
    BY <1>1, <1>4, <1>5, <2>2, <2>3, CalmStep
<1>7. CASE Put(r, plan)
  <2>1. PICK p : p = plan
    OBVIOUS
  <2>2. p.pc = "load" /\ p.calm = q.calm /\ p.target = l /\ Put(r, p)
    BY <1>2, <1>7, <2>1
  <2>3. ASSUME q.calm PROVE PlansInOrder(p)'
    <3>1. PICK u : u = req[r]
      OBVIOUS
    <3>2. SeenIsCovered(u) /\ u.target \in Legs
      BY <1>1, <2>3, <3>1 DEF CalmInv, CalmPlans, CalmPlan
    <3>3. p.todo = InOrder(LegsNeedingSourcingBefore(1..(u.target - 1), u.seen).toSource \cup {u.target})
      BY <1>2, <2>1, <3>1
    <3>4. p.target = u.target
      BY <2>2, <3>1
    <3>5. PlansInOrder(p)
      BY <3>2, <3>3, <3>4, CascadeInOrder
    <3> QED
      BY <1>5, <3>5 DEF PlansInOrder, Ascending
  <2>4. q.calm => CalmPlan(p)'
    BY <2>2, <2>3 DEF CalmPlan, Holding, Storing
  <2> QED
    BY <1>1, <1>4, <1>5, <2>2, <2>4, CalmStep
<1> QED
  BY <1>3, <1>6, <1>7

-----------------------------------------------------------------------------
(* The theorem *)

LEMMA CalmStepOfNext == TypesInv /\ FuelInv /\ CalmInv /\ [Next]_vars => CalmInv'
<1> SUFFICES ASSUME TypesInv, FuelInv, CalmInv, [Next]_vars PROVE CalmInv'
  OBVIOUS
<1>1. CASE \E r \in Requests : Place(r)
  BY <1>1, PlaceCalm
<1>2. ASSUME NEW r \in Requests, Work(r) PROVE CalmInv'
  BY <1>2, ReadCalm, DecideCalm, LoadCalm, ComputeCalm, SourceCalm, StoreCalm, SettleCalm,
     FailCalm, KillCalm DEF Work
<1>3. CASE DriverOrTurn
  BY <1>3, TripCalm
<1>4. CASE UNCHANGED vars
  <2>1. UNCHANGED <<route, declared, unplaced, status, stops, req, editor>>
    BY <1>4 DEF vars
  <2> QED
    BY <2>1, NothingWritten, OtherCalm, SamePlans
<1> QED
  BY <1>1, <1>2, <1>3, <1>4 DEF Next

LEMMA CalmInit == Init => CalmInv
<1> SUFFICES ASSUME Init PROVE CalmInv
  OBVIOUS
<1>1. \A r \in Requests : ~req[r].calm
  BY DEF Init, Idle
<1> QED
  BY <1>1 DEF CalmInv, CalmTogether, CalmPlans, CalmPlan

\* What is unplanned before the day that is stored is covered: by a refuel, a warning or a
\* failure, or by what the cascade takes for a refuel.
LEMMA CalmIsPlanned == TypesInv /\ FuelInv /\ CalmInv => NeverOverUnplannedDays
<1> SUFFICES ASSUME TypesInv, FuelInv, CalmInv, NEW r \in Requests, Stored(r),
                    NEW k \in 1..(Now(r) - 1), Unplanned(k)
             PROVE  \/ RefuelledBetween(k, Now(r))
                    \/ \E j \in k..(Now(r) - 1) : TakenForRefuel(j)
  BY DEF NeverOverUnplannedDays
<1>1. PICK l : l = Now(r)
  OBVIOUS
<1>2. Covered(l)
  <2>1. req[r].pc \in Planning /\ req[r].calm
    BY DEF Stored, At, Planning, Holding
  <2> QED
    BY <1>1, <2>1 DEF CalmInv, CalmPlans, CalmPlan, PlansInOrder, Now
<1>3. PICK j \in k..(l - 1) : Stopper(j)
  BY <1>1, <1>2 DEF Covered
<1> QED
  BY <1>1, <1>3 DEF Stopper, RefuelledBetween

\* While nothing changes, no request stores a day's plan over an earlier day that nobody has
\* planned, unless the tank is filled or a plan failed between them, or one of the days
\* between is declared or has a stop without a distance, which the cascade takes for a refuel
\* (fuel.ts: source every earlier day this leg's tank state depends on).
THEOREM SourcedInOrder == Spec => []NeverOverUnplannedDays
<1>1. Init => TypesInv /\ FuelInv /\ CalmInv
  BY TypesInit, FuelInit, CalmInit
<1>2. TypesInv /\ FuelInv /\ CalmInv /\ [Next]_vars => (TypesInv /\ FuelInv /\ CalmInv)'
  BY TypesStep, FuelStep, CalmStepOfNext
<1> QED
  BY <1>1, <1>2, CalmIsPlanned, PTL DEF Spec

-----------------------------------------------------------------------------
(* A request that meets nobody *)

\* What SteadyPlan says of the request itself.
SteadyReq(q) ==
    /\ q.calm
    /\ q.pc \in {"lookup", "refuels"} => InSight(q.target)
    /\ q.pc = "refuels" => \A k \in 1..(q.target - 1) : q.seen[k] = status[k]
    /\ q.pc \in Planning => CascadeFills(q) /\ GetsFirm(q)

LEMMA SteadyIs ==
    ASSUME NEW r \in Requests
    PROVE  SteadyPlan(r) <=> SteadyReq(req[r]) /\ \A s \in Requests : s # r => At(s, "idle")
  BY DEF SteadyPlan, SteadyReq

\* Which days are planned depends on the days alone.
LEMMA SameDays ==
    ASSUME UNCHANGED <<route, declared, unplaced, status, stops, upToDate>>
    PROVE  /\ \A k : Firm(k)' <=> Firm(k)
           /\ \A l : InSight(l)' <=> InSight(l)
           /\ \A k : OptionStops(k)' = OptionStops(k)
<1>1. \A k : OptionStops(k)' = OptionStops(k) /\ Refuels(k)' = Refuels(k)
  BY DEF OptionStops, Refuels
<1>2. /\ Drives' = Drives
      /\ \A k : HasFuelStop(k)' <=> HasFuelStop(k)
  BY <1>1 DEF Drives, HasFuelStop
<1>3. \A k : Firm(k)' <=> Firm(k)
  BY <1>1, <1>2 DEF Firm, Whole, Bare
<1>4. \A k : (Blank(k)' <=> Blank(k)) /\ (EndsTheCascade(k)' <=> EndsTheCascade(k))
  BY <1>2 DEF Blank, EndsTheCascade
<1>5. \A l : InSight(l)' <=> InSight(l)
  BY <1>3, <1>4 DEF InSight
<1> QED
  BY <1>1, <1>3, <1>5

\* A step of one request: nobody else comes to stand on planned days.
LEMMA SteadyAfter ==
    ASSUME TypesInv, FuelInv, SteadyInv, NEW r \in Requests, NEW p, Put(r, p), UNCHANGED opens,
           req[r].pc # "idle", p = Idle \/ p.alone = req[r].alone, p.pure => req[r].pure,
           Steady(r) /\ SteadyReq(req[r]) /\ p.pc # "idle" /\ p.pure => SteadyReq(p)'
    PROVE  SteadyInv'
<1>1. \A s \in Requests : req'[s] = IF s = r THEN p ELSE req[s]
  BY OneValue DEF FuelInv, Put
<1>2. Idle.pc = "idle" /\ Idle.alone = 0 /\ opens \in Nat
  BY DEF Idle, TypesInv, TypeOK
<1> SUFFICES ASSUME NEW s \in Requests
             PROVE  req'[s].alone <= opens /\ (Steady(s)' => SteadyPlan(s)')
  BY DEF SteadyInv
<1>3. req[s].alone <= opens /\ req[r].alone <= opens
  BY DEF SteadyInv
<1>4. req'[s].alone <= opens
  BY <1>1, <1>2, <1>3
<1>5. ASSUME Steady(s)' PROVE SteadyPlan(s)'
  <2>1. req'[s].pc # "idle" /\ req'[s].pure /\ req'[s].alone = opens
    BY <1>5 DEF Steady, At
  <2>2. CASE s # r
    <3>1. Steady(s)
      BY <1>1, <2>1, <2>2 DEF Steady, At
    <3>2. SteadyPlan(s)
      BY <3>1 DEF SteadyInv
    <3> QED
      BY <2>2, <3>2 DEF SteadyPlan, At
  <2>3. CASE s = r
    <3>1. p.pc # "idle" /\ p.pure /\ p.alone = opens /\ p.alone = req[r].alone
      BY <1>1, <1>2, <2>1, <2>3
    <3>2. Steady(r)
      BY <3>1 DEF Steady, At
    <3>3. SteadyPlan(r)
      BY <3>2 DEF SteadyInv
    <3>4. SteadyReq(req[r]) /\ \A x \in Requests : x # r => req[x].pc = "idle"
      BY <3>3, SteadyIs DEF At
    <3>5. SteadyReq(p)'
      BY <3>1, <3>2, <3>4
    <3>6. req'[s] = p
      BY <1>1, <2>3
    <3>7. \A x \in Requests : x # s => req'[x].pc = "idle"
      BY <1>1, <2>3, <3>4
    <3> QED
      BY <3>5, <3>6, <3>7 DEF SteadyPlan, SteadyReq, CascadeFills, GetsFirm, At
  <2> QED
    BY <2>2, <2>3
<1> QED
  BY <1>4, <1>5

\* One that goes on with the day it plans and writes to that day alone.
LEMMA SteadyGoesOn ==
    ASSUME TypesInv, FuelInv, SteadyInv, NEW r \in Requests, NEW p, Put(r, p),
           UNCHANGED <<route, opens>>, req[r].pc \in Planning, p.pc \in Planning,
           p.todo = req[r].todo, p.target = req[r].target, p.calm = req[r].calm,
           p.alone = req[r].alone, p.pure => req[r].pure,
           \A k \in Legs : k # Head(req[r].todo) => (Firm(k)' <=> Firm(k)),
           Steady(r) /\ SteadyReq(req[r]) /\ Len(p.todo) > 1 =>
               /\ p.pc \in Walked => p.grounded
               /\ p.pc \in {"settle"} \cup Storing => p.outcome \in Searched
               /\ p.pc = "commit" => OptionStops(Head(p.todo))' \subseteq p.victims
               /\ p.pc = "settle" => "stops" \in upToDate'[Head(p.todo)]
    PROVE  SteadyInv'
<1>1. PICK q : q = req[r]
  OBVIOUS
<1>2. ReqTyped(q) /\ ReqOK(q) /\ q.pc \in Planning
  BY <1>1 DEF TypesInv, FuelInv
<1>3. /\ Len(q.todo) \in Nat /\ Len(q.todo) >= 1 /\ Head(q.todo) = q.todo[1] /\ q.target \in Legs
  BY <1>2, TodoType
<1>4. "idle" \notin Planning /\ "refuels" \notin Planning /\ "lookup" \notin Planning
  BY DEF Planning, Holding
<1>5. ASSUME Steady(r), SteadyReq(q) PROVE SteadyReq(p)'
  <2>1. GetsFirm(p)'
    BY <1>1, <1>5 DEF GetsFirm
  <2>2. CascadeFills(q) /\ q.calm
    BY <1>2, <1>5 DEF SteadyReq
  <2>3. ASSUME NEW k \in 1..(q.target - 1), ~ \E i \in 1..Len(q.todo) : q.todo[i] = k
        PROVE  Firm(k)'
    <3>1. Firm(k)
      BY <2>2, <2>3 DEF CascadeFills
    <3>2. k # Head(q.todo)
      <4>1. 1 \in 1..Len(q.todo)
        BY <1>3
      <4> QED
        BY <1>3, <2>3, <4>1
    <3>3. k \in Legs
      BY <1>3, DaysAssumption DEF Legs
    <3> QED
      BY <1>1, <3>1, <3>2, <3>3
  <2>4. CascadeFills(p)'
    BY <1>1, <2>2, <2>3 DEF CascadeFills
  <2> QED
    BY <1>1, <1>4, <2>1, <2>2, <2>4 DEF SteadyReq
<1> QED
  BY <1>1, <1>2, <1>4, <1>5, SteadyAfter

\* One that writes nothing.
LEMMA SteadyQuiet ==
    ASSUME TypesInv, FuelInv, SteadyInv, NEW r \in Requests, NEW p, Put(r, p),
           UNCHANGED <<route, declared, unplaced, status, stops, upToDate, opens>>,
           req[r].pc \in Planning, p.pc \in Planning,
           p.todo = req[r].todo, p.target = req[r].target, p.calm = req[r].calm,
           p.alone = req[r].alone, p.pure => req[r].pure,
           Steady(r) /\ SteadyReq(req[r]) /\ Len(p.todo) > 1 =>
               /\ p.pc \in Walked => p.grounded
               /\ p.pc \in {"settle"} \cup Storing => p.outcome \in Searched
               /\ p.pc = "commit" => OptionStops(Head(p.todo)) \subseteq p.victims
               /\ p.pc # "settle"
    PROVE  SteadyInv'
  BY SameDays, SteadyGoesOn

\* One that gives up.
LEMMA SteadyEnds ==
    ASSUME TypesInv, FuelInv, SteadyInv, NEW r \in Requests, NEW p, Put(r, p), UNCHANGED opens,
           req[r].pc # "idle",
           p = Idle \/ (/\ p.pc = "failTarget" /\ p.alone = req[r].alone /\ p.calm = req[r].calm
                        /\ p.pure => req[r].pure)
    PROVE  SteadyInv'
<1>1. Idle.pc = "idle" /\ ~Idle.pure
  BY DEF Idle
<1>2. "failTarget" \notin Planning
  BY DEF Planning, Holding
<1>3. SteadyReq(req[r]) => req[r].calm
  BY DEF SteadyReq
<1>4. SteadyReq(req[r]) /\ p.pc # "idle" => SteadyReq(p)'
  BY <1>1, <1>2, <1>3 DEF SteadyReq
<1> QED
  BY <1>1, <1>4, SteadyAfter

LEMMA ReadSteady ==
    ASSUME TypesInv, FuelInv, SteadyInv, NEW r \in Requests, ReadStatuses(r)
    PROVE  SteadyInv'
<1> DEFINE q == req[r]
           l == q.target
           seen == [k \in Legs |-> IF k < l THEN status[k] ELSE "none"]
           one == [q EXCEPT !.pc = "load", !.todo = <<l>>]
           more == [q EXCEPT !.pc = "refuels", !.seen = seen]
           Same(p) == p.target = l /\ p.calm = q.calm /\ p.alone = q.alone /\ p.pure = q.pure
<1>1. q \in Reqs /\ q.pc = "lookup" /\ l \in Legs
  BY DEF TypesInv, ReqTyped, FuelInv, ReqOK, ReadStatuses, At
<1>2. /\ one.pc = "load" /\ one.todo = <<l>> /\ Same(one)
      /\ more.pc = "refuels" /\ more.seen = seen /\ Same(more)
  BY <1>1 DEF Reqs
<1>3. (l = 1 /\ Put(r, one)) \/ Put(r, more)
  BY DEF ReadStatuses
<1> HIDE DEF one, more
<1>4. UNCHANGED <<route, declared, unplaced, status, stops, upToDate, opens>>
  BY DEF ReadStatuses, Trip, Row, Bounds
<1>5. CASE l = 1 /\ Put(r, one)
  <2>1. PICK p : p = one
    OBVIOUS
  <2>2. Put(r, p) /\ p.todo = <<1>> /\ p.target = 1 /\ p.pc = "load" /\ Same(p)
    BY <1>2, <1>5, <2>1
  <2>3. CascadeFills(p)' /\ GetsFirm(p)'
    BY <2>2 DEF CascadeFills, GetsFirm
  <2>4. SteadyReq(q) => SteadyReq(p)'
    BY <2>2, <2>3 DEF SteadyReq
  <2> QED
    BY <1>1, <1>4, <2>2, <2>4, SteadyAfter
<1>6. CASE Put(r, more)
  <2>1. PICK p : p = more
    OBVIOUS
  <2>2. PICK m \in Legs : m = l
    BY <1>1
  <2>3. Put(r, p) /\ p.pc = "refuels" /\ Same(p) /\ \A k \in Legs : k < m => p.seen[k] = status[k]
    BY <1>2, <1>6, <2>1, <2>2
  <2>4. \A k \in 1..(m - 1) : k \in Legs /\ k < m
    BY <2>2, DaysAssumption DEF Legs
  <2>5. \A k \in 1..(m - 1) : p.seen[k] = status'[k]
    BY <1>4, <2>3, <2>4
  <2>6. ASSUME SteadyReq(q) PROVE SteadyReq(p)'
    <3>1. InSight(m)'
      BY <1>1, <1>4, <2>2, <2>6, SameDays DEF SteadyReq
    <3>2. "refuels" \notin Planning /\ p.target = m
      BY <2>2, <2>3 DEF Planning, Holding
    <3> QED
      BY <2>3, <2>5, <2>6, <3>1, <3>2 DEF SteadyReq
  <2> QED
    BY <1>1, <1>4, <2>3, <2>6, SteadyAfter
<1> QED
  BY <1>3, <1>5, <1>6

\* The days of a cascade are those in sight, and each of them leads somewhere.
LEMMA CascadeFillsIn ==
    ASSUME TypesInv, NEW q, q.target \in Legs, InSight(q.target),
           \A k \in 1..(q.target - 1) : q.seen[k] = status[k],
           NEW p, p.target = q.target,
           p.todo = InOrder(LegsNeedingSourcingBefore(1..(q.target - 1), q.seen).toSource
                            \cup {q.target})
    PROVE  CascadeFills(p)
<1>a. PICK l \in Legs : l = q.target
  OBVIOUS
<1>b. PICK seen : seen = q.seen
  OBVIOUS
<1>c. PICK todo : todo = p.todo
  OBVIOUS
<1>d. todo = InOrder(LegsNeedingSourcingBefore(1..(l - 1), seen).toSource \cup {l})
  BY <1>a, <1>b, <1>c
<1> DEFINE n == l - 1
           d == IF declared = None THEN 0 ELSE declared.leg
           refuelled == {k \in 1..n : HasFuelStop(k)}
           a == SourcingAnchor(1..n, seen, refuelled, d)
           toSource == DrivesSince(a, 1..n, Drives, seen, Unsourced)
           S == toSource \cup {l}
<1>1. n \in Nat /\ l \in Int /\ l \in 1..Days /\ Days \in Nat /\ n + 1 = l
  BY DaysAssumption DEF Legs
<1>2. /\ a \in 0..n
      /\ a # 0 => a \in 1..n /\ (HasFuelStop(a) \/ seen[a] = "no_stations_found" \/ a = d)
  <2> HIDE DEF refuelled, d, n
  <2>1. /\ a \in 0..n
        /\ a \in {0} \cup {k \in 1..n : \/ k \in refuelled \/ seen[k] = "no_stations_found" \/ k = d}
    BY <1>1, AnchorIsLast
  <2> HIDE DEF a
  <2> QED
    BY <2>1 DEF refuelled
<1>3. todo = InOrder(S)
  BY <1>d DEF LegsNeedingSourcingBefore
<1>e. \A k \in 1..n : seen[k] = status[k]
  BY <1>a, <1>b
<1>f. \A k \in 1..n : Firm(k) \/ (Blank(k) /\ \A j \in k..n : ~EndsTheCascade(j))
  BY <1>a DEF InSight
<1>4. a # 0 => a \in 1..n /\ EndsTheCascade(a)
  <2> HIDE DEF a
  <2>1. ASSUME a # 0, a = d PROVE declared # None /\ declared.leg = a
    BY <2>1
  <2> QED
    BY <1>2, <1>e, <2>1 DEF EndsTheCascade
<1> HIDE DEF a
<1>5. ASSUME NEW k \in 1..n PROVE Firm(k) \/ k \in S
  <2> SUFFICES ASSUME ~Firm(k) PROVE k \in S
    OBVIOUS
  <2>1. Blank(k) /\ \A j \in k..n : ~EndsTheCascade(j)
    BY <1>f
  <2>2. k > a
    BY <1>1, <1>2, <1>4, <2>1
  <2>3. k \in Drives /\ seen[k] \in Unsourced
    BY <1>e, <2>1 DEF Blank
  <2> QED
    BY <2>2, <2>3 DEF DrivesSince
<1>6. ASSUME NEW k \in S, k # l PROVE route[k].ends = "apart"
  <2>1. k \in 1..n /\ k \in Drives /\ status[k] \in Unsourced
    BY <1>e, <1>6 DEF DrivesSince
  <2>2. ~Firm(k)
    BY <2>1 DEF Firm, Whole, Searched, Unsourced
  <2> QED
    BY <1>f, <2>1, <2>2 DEF Blank
<1>7. S \in SUBSET Legs /\ l \in S /\ \A x \in S : x <= l
  <2>1. ASSUME NEW x \in S PROVE x \in Legs /\ x <= l
    BY <1>1 DEF DrivesSince, Legs
  <2> QED
    BY <2>1
<1> HIDE DEF S
<1>8. /\ Len(todo) = Cardinality(S) /\ Cardinality(S) \in Nat
      /\ \A i \in 1..Len(todo) : todo[i] \in S
      /\ \A i, j \in 1..Len(todo) : i < j => todo[i] < todo[j]
      /\ \A x \in S : \E i \in 1..Len(todo) : todo[i] = x
  <2> DEFINE o == InOrder(S)
  <2>1. /\ Len(o) = Cardinality(S) /\ Cardinality(S) \in Nat
        /\ \A i \in 1..Len(o) : o[i] \in S
        /\ \A i, j \in 1..Len(o) : i < j => o[i] < o[j]
        /\ \A x \in S : \E i \in 1..Len(o) : o[i] = x
    BY ONLY <1>7, InOrderSorts
  <2>2. todo = o
    BY <1>3
  <2> HIDE DEF o
  <2> QED
    BY ONLY <2>1, <2>2
<1>9. \A x \in S : x \in Int
  BY <1>7, DaysAssumption DEF Legs
<1>10. ASSUME NEW i \in 1..(Len(todo) - 1) PROVE route[todo[i]].ends = "apart"
  <2>1. i \in 1..Len(todo) /\ Len(todo) \in 1..Len(todo) /\ i < Len(todo)
    BY <1>8
  <2> DEFINE y == todo[Len(todo)]
  <2>2. todo[i] \in S /\ todo[i] < y /\ y \in S
    BY <1>8, <2>1
  <2> HIDE DEF y
  <2>3. todo[i] # l
    BY <1>1, <1>7, <1>9, <2>2
  <2> QED
    BY <1>6, <2>2, <2>3
<1>11. ASSUME NEW k \in 1..(l - 1) PROVE Firm(k) \/ \E i \in 1..Len(todo) : todo[i] = k
  BY <1>5, <1>8
<1> QED
  BY <1>10, <1>11, <1>a, <1>c DEF CascadeFills

LEMMA DecideSteady ==
    ASSUME TypesInv, FuelInv, SteadyInv, NEW r \in Requests, DecideCascade(r)
    PROVE  SteadyInv'
<1> DEFINE q == req[r]
           l == q.target
           S == LegsNeedingSourcingBefore(1..(l - 1), q.seen).toSource \cup {l}
           wait == [q EXCEPT !.pc = "failTarget", !.seen = Idle.seen]
           plan == [q EXCEPT !.pc = "load", !.seen = Idle.seen, !.todo = InOrder(S)]
           Same(p) == p.target = l /\ p.calm = q.calm /\ p.alone = q.alone /\ p.pure = q.pure
<1>1. q \in Reqs /\ q.pc = "refuels" /\ l \in Legs
  BY DEF TypesInv, ReqTyped, FuelInv, ReqOK, DecideCascade, At
<1>2. /\ wait.pc = "failTarget" /\ Same(wait)
      /\ plan.pc = "load" /\ plan.todo = InOrder(S) /\ Same(plan)
  BY <1>1 DEF Reqs
<1>3. Put(r, wait) \/ Put(r, plan)
  BY DEF DecideCascade
<1> HIDE DEF wait, plan
<1>4. UNCHANGED <<route, declared, unplaced, status, stops, upToDate, opens>>
  BY DEF DecideCascade, Trip, Row, Bounds
<1>5. CASE Put(r, wait)
  <2>1. PICK p : p = wait
    OBVIOUS
  <2> QED
    BY <1>1, <1>2, <1>4, <1>5, <2>1, SteadyEnds
<1>6. CASE Put(r, plan)
  <2>1. PICK p : p = plan
    OBVIOUS
  <2>2. p.pc = "load" /\ Same(p) /\ Put(r, p)
    BY <1>2, <1>6, <2>1
  <2>3. ASSUME SteadyReq(q) PROVE SteadyReq(p)'
    <3>1. PICK u : u = req[r]
      OBVIOUS
    <3>2. /\ InSight(u.target) /\ u.target \in Legs /\ u.calm
          /\ \A k \in 1..(u.target - 1) : u.seen[k] = status[k]
      BY <1>1, <2>3, <3>1 DEF SteadyReq
    <3>3. p.todo = InOrder(LegsNeedingSourcingBefore(1..(u.target - 1), u.seen).toSource \cup {u.target})
      BY <1>2, <2>1, <3>1
    <3>4. p.target = u.target
      BY <2>2, <3>1
    <3>5. CascadeFills(p)
      BY <3>2, <3>3, <3>4, CascadeFillsIn
    <3>6. CascadeFills(p)'
      BY <1>4, <3>5, SameDays DEF CascadeFills
    <3>7. GetsFirm(p)'
      BY <2>2 DEF GetsFirm, Walked, Storing
    <3> QED
      BY <2>2, <3>1, <3>2, <3>6, <3>7 DEF SteadyReq
  <2> QED
    BY <1>1, <1>4, <2>2, <2>3, SteadyAfter
<1> QED
  BY <1>3, <1>5, <1>6

\* Only the last day of a cascade may have nowhere to go.
LEMMA LoadSteady ==
    ASSUME TypesInv, FuelInv, SteadyInv, NEW r \in Requests, LoadLeg(r)
    PROVE  SteadyInv'
<1> DEFINE q == req[r]
           rt == route[Now(r)]
           begin == [q EXCEPT !.grounded = FALSE, !.picked = {}, !.keep = {}]
           none == [begin EXCEPT !.pc = "settle", !.outcome = "none"]
           near == [begin EXCEPT !.pc = "clear", !.outcome = "ready"]
           far == [begin EXCEPT !.pc = "compute", !.leg = rt]
           Same(p) == /\ p.todo = q.todo /\ p.target = q.target /\ p.calm = q.calm
                      /\ p.alone = q.alone /\ p.pure = q.pure
<1>1. q \in Reqs /\ q.pc = "load" /\ q.pc \in Planning
  BY DEF TypesInv, ReqTyped, LoadLeg, At, Planning
<1>2. /\ Same(none) /\ none.pc = "settle" /\ Same(near) /\ near.pc = "clear"
      /\ Same(far) /\ far.pc = "compute"
  BY <1>1 DEF Reqs
<1>3. \/ rt.ends = "missing" /\ Put(r, none)
      \/ rt.ends = "same" /\ Put(r, near)
      \/ Put(r, far)
  BY DEF LoadLeg
<1> HIDE DEF none, near, far
<1>4. PICK p : /\ Put(r, p) /\ Same(p) /\ p.pc \in {"settle", "clear", "compute"}
               /\ p.pc # "compute" => rt.ends # "apart"
  BY <1>2, <1>3
<1>5. UNCHANGED <<route, declared, unplaced, status, stops, upToDate, opens>>
  BY DEF LoadLeg, Trip, Row, Bounds
<1>6. SteadyReq(q) /\ Len(q.todo) > 1 => rt.ends = "apart"
  <2>1. /\ Len(q.todo) \in Nat /\ Head(q.todo) = q.todo[1]
    <3>1. PICK u : u = req[r]
      OBVIOUS
    <3>2. ReqTyped(u) /\ ReqOK(u) /\ u.pc \in Planning
      BY <1>1, <3>1 DEF TypesInv, FuelInv
    <3> QED
      BY <3>1, <3>2, TodoType
  <2>2. SteadyReq(q) => CascadeFills(q)
    BY <1>1 DEF SteadyReq
  <2> QED
    BY <2>1, <2>2 DEF CascadeFills, Now
<1>7. p.pc \in Planning /\ (p.pc = "compute" => p.pc \notin Walked /\ p.pc \notin Storing)
  BY <1>4 DEF Planning, Holding, Walked, Storing
<1> QED
  BY <1>1, <1>4, <1>5, <1>6, <1>7, SteadyQuiet

\* What a request writes to its day changes no other.
LEMMA OtherDays ==
    ASSUME NEW x, UNCHANGED route,
           \A k \in Legs : k # x => /\ status'[k] = status[k] /\ stops'[k] = stops[k]
                                    /\ upToDate'[k] = upToDate[k]
    PROVE  \A k \in Legs : k # x => (Firm(k)' <=> Firm(k))
  BY DEF Firm, Whole, Bare, OptionStops, Drives

LEMMA ComputeSteady ==
    ASSUME TypesInv, FuelInv, SteadyInv, NEW r \in Requests, MarkComputing(r)
    PROVE  SteadyInv'
<1> DEFINE q == req[r]
           x == Head(q.todo)
           p == [q EXCEPT !.pc = "vehicle"]
<1>1. q \in Reqs /\ q.pc \in Planning
  BY DEF TypesInv, ReqTyped, MarkComputing, At, Planning
<1>2. /\ Put(r, p) /\ p.pc = "vehicle" /\ p.todo = q.todo /\ p.target = q.target
      /\ p.calm = q.calm /\ p.alone = q.alone /\ p.pure = q.pure
  BY <1>1 DEF MarkComputing, Go, Reqs
<1>3. p.pc \in Planning /\ p.pc \notin Walked /\ p.pc \notin Storing /\ p.pc # "settle" /\ p.pc # "commit"
  BY <1>2 DEF Planning, Holding, Walked, Storing
<1> HIDE DEF p
<1>4. \A k \in Legs : k # x => /\ status'[k] = status[k] /\ stops'[k] = stops[k]
                               /\ upToDate'[k] = upToDate[k]
  BY DEF MarkComputing, SetFuelStatus, Note, Now, TypesInv, TypeOK
<1>5. UNCHANGED <<route, opens>>
  BY DEF MarkComputing, Trip, Bounds
<1>6. \A k \in Legs : k # x => (Firm(k)' <=> Firm(k))
  BY <1>4, <1>5, OtherDays
<1>7. PICK u : u = p
  OBVIOUS
<1> QED
  BY <1>1, <1>2, <1>3, <1>5, <1>6, <1>7, SteadyGoesOn

LEMMA ForgetMore ==
    ASSUME NEW q \in Reqs
    PROVE  /\ Forget(q).pure = q.pure /\ Forget(q).grounded = q.grounded
           /\ Forget(q).alone = q.alone
  BY DEF Forget, Reqs

LEMMA SearchingMore ==
    ASSUME TypesInv, NEW r \in Requests, NEW l
    PROVE  LET p == Searching(r, l)
           IN  /\ p.pure = req[r].pure /\ p.grounded = req[r].grounded
               /\ p.alone = req[r].alone
  BY DEF Searching, TypesInv, ReqTyped, Reqs

LEMMA SourceSteady ==
    ASSUME TypesInv, FuelInv, SteadyInv, NEW r \in Requests,
           \/ ReadTank(r) \/ ReadDefaultVehicle(r) \/ WalkBack(r)
           \/ LookAhead(r) \/ SearchLeg(r) \/ SearchThrows(r)
    PROVE  SteadyInv'
<1> DEFINE q == req[r]
           Same(p) == /\ p.todo = q.todo /\ p.target = q.target /\ p.calm = q.calm
                      /\ p.alone = q.alone
           Goes(p) == /\ Same(p) /\ (p.pure => q.pure)
                      /\ p.pc \in {"walk", "fail", "ahead", "search", "place", "clear"}
                      /\ p.pc \in {"ahead", "search", "place", "clear"} =>
                             \/ q.pc \in {"ahead", "search"} /\ (q.grounded => p.grounded)
                             \/ q.pc = "walk" /\ (q.alone = opens => p.grounded)
                      /\ p.pc = "clear" => p.outcome = "ready"
<1>1. q \in Reqs /\ q.pc \in Planning
  BY DEF TypesInv, ReqTyped, ReadTank, ReadDefaultVehicle, WalkBack, LookAhead, SearchLeg,
         SearchThrows, InTry, At, Holding, Planning
<1>2. UNCHANGED <<route, declared, unplaced, status, stops, upToDate, opens>>
  BY DEF ReadTank, ReadDefaultVehicle, WalkBack, LookAhead, SearchLeg, SearchThrows, Trip,
         Row, Bounds
<1>3. ASSUME NEW p, Put(r, p), Goes(p) PROVE SteadyInv'
  <2>1. p.pc \in Planning /\ p.pc # "commit" /\ p.pc # "settle"
    BY <1>3 DEF Planning, Holding
  <2>2. p.pc \in {"settle"} \cup Storing => p.outcome \in Searched
    BY <1>3, <2>1 DEF Storing, Searched
  <2>3. Steady(r) => q.alone = opens
    BY DEF Steady
  <2>4. ASSUME Steady(r), SteadyReq(q), Len(p.todo) > 1, p.pc \in Walked PROVE p.grounded
    <3>1. p.pc \in {"ahead", "search", "place", "clear"}
      BY <1>3, <2>4 DEF Walked, Storing
    <3>2. q.pc \in {"ahead", "search"} => q.grounded
      BY <1>1, <1>3, <2>4 DEF SteadyReq, GetsFirm, Walked
    <3> QED
      BY <1>3, <2>3, <2>4, <3>1, <3>2
  <2>5. p.todo = req[r].todo /\ p.target = req[r].target /\ p.calm = req[r].calm
        /\ p.alone = req[r].alone /\ (p.pure => req[r].pure)
    BY <1>3
  <2>6. req[r].pc \in Planning
    BY <1>1
  <2> HIDE DEF q
  <2>7. Steady(r) /\ SteadyReq(req[r]) /\ Len(p.todo) > 1 /\ p.pc \in Walked => p.grounded
    BY <2>4 DEF q
  <2> QED
    BY <1>2, <1>3, <2>1, <2>2, <2>5, <2>6, <2>7, SteadyQuiet
<1>4. ASSUME NEW x \in Reqs, Same(x), x.pure => q.pure
      PROVE  Goes([Forget(x) EXCEPT !.pc = "fail"])
  BY <1>4, ForgetIs, ForgetMore DEF Reqs
<1>5. CASE ReadTank(r)
  <2>1. Goes([q EXCEPT !.pc = "walk", !.range = range, !.anchor = declared])
    BY <1>1 DEF Reqs
  <2>2. Goes([Forget(q) EXCEPT !.pc = "fail"])
    BY <1>1, <1>4
  <2>3. \/ Put(r, [q EXCEPT !.pc = "walk", !.range = range, !.anchor = declared])
        \/ Put(r, [Forget(q) EXCEPT !.pc = "fail"])
    BY <1>5 DEF ReadTank
  <2> HIDE DEF Goes
  <2> QED
    BY <1>3, <2>1, <2>2, <2>3
<1>6. CASE WalkBack(r)
  <2> DEFINE firm == q.alone = opens \/ \A k \in 1..(Now(r) - 1) : Firm(k)
             burn == BurnAtStart(Now(r), q.range, q.anchor)
             p == [q EXCEPT !.pc = "ahead", !.burn = burn, !.grounded = firm]
  <2>1. Put(r, p) /\ q.pc = "walk"
    BY <1>6 DEF WalkBack, At
  <2>2. q.alone = opens => firm
    OBVIOUS
  <2> HIDE DEF firm, burn
  <2>3. p.pc = "ahead" /\ Same(p) /\ p.pure = q.pure /\ p.grounded = firm
    BY <1>1 DEF Reqs
  <2> HIDE DEF p
  <2>4. Goes(p)
    BY <2>1, <2>2, <2>3
  <2> HIDE DEF Goes
  <2> QED
    BY <1>3, <2>1, <2>4
<1>7. CASE LookAhead(r)
  <2> DEFINE look == DayToLookAt(r)
             rec == IF look = {} THEN q ELSE Searching(r, Min(look))
             reserve == IF look = {} THEN 0
                        ELSE LET k == Min(look)
                             IN  FuelNeededAtLegStart(route[k].km, StationsFound(rec, k), rec.range)
             done == [Forget(rec) EXCEPT !.pc = "clear", !.outcome = "ready", !.leg = rec.leg]
             on == [rec EXCEPT !.pc = "search", !.reserve = reserve]
  <2>1. (Put(r, done) \/ Put(r, on)) /\ q.pc = "ahead"
    BY <1>7 DEF LookAhead, At
  <2>2. Same(rec) /\ rec.pure = q.pure /\ rec.grounded = q.grounded
    BY SearchingIs, SearchingMore
  <2>3. rec = [f \in Fields |-> rec[f]]
    <3>1. ReqOK(rec)
      BY SearchingOK DEF FuelInv
    <3> HIDE DEF rec
    <3> QED
      BY <3>1 DEF ReqOK, ReqShape
  <2> HIDE DEF rec, reserve
  <2>4. /\ Same(done) /\ done.pc = "clear" /\ done.pure = q.pure /\ done.grounded = q.grounded
        /\ done.outcome = "ready"
        /\ Same(on) /\ on.pc = "search" /\ on.pure = q.pure /\ on.grounded = q.grounded
    BY <2>2, <2>3 DEF Forget, Fields
  <2>6. /\ (done.pure => q.pure) /\ (q.grounded => done.grounded)
        /\ (on.pure => q.pure) /\ (q.grounded => on.grounded)
    BY <2>4
  <2> HIDE DEF done, on
  <2>5. Goes(done) /\ Goes(on)
    BY <2>1, <2>4, <2>6
  <2> HIDE DEF Goes
  <2> QED
    BY <1>3, <2>1, <2>5
<1>8. CASE SearchLeg(r)
  <2> DEFINE x == Searching(r, Now(r))
             p == [x EXCEPT !.pc = "place"]
  <2>1. Put(r, p) /\ q.pc = "search"
    BY <1>8 DEF SearchLeg, At
  <2>2. Same(x) /\ ReqOK(x) /\ x.pure = q.pure /\ x.grounded = q.grounded
    BY SearchingIs, SearchingOK, SearchingMore DEF FuelInv
  <2> HIDE DEF x
  <2>3. Same(p) /\ p.pc = "place" /\ p.pure = q.pure /\ p.grounded = q.grounded
    BY <2>2 DEF ReqOK, ReqShape, Fields
  <2>5. (p.pure => q.pure) /\ (q.grounded => p.grounded)
    BY <2>3
  <2> HIDE DEF p
  <2>4. Goes(p)
    BY <2>1, <2>3, <2>5
  <2> HIDE DEF Goes
  <2> QED
    BY <1>3, <2>1, <2>4
<1>9. CASE SearchThrows(r)
  <2>1. Goes([Forget(q) EXCEPT !.pc = "fail"])
    BY <1>1, <1>4
  <2>2. Put(r, [Forget(q) EXCEPT !.pc = "fail"])
    BY <1>9 DEF SearchThrows
  <2> HIDE DEF Goes
  <2> QED
    BY <1>3, <2>1, <2>2
<1>10. CASE ReadDefaultVehicle(r)
  <2> DEFINE x == [Forget(q) EXCEPT !.pc = "fail", !.pure = FALSE]
             y(km) == [q EXCEPT !.pc = "walk", !.range = km, !.anchor = declared, !.pure = FALSE]
  <2>1. \A km : Goes(y(km))
    BY <1>1 DEF Reqs
  <2>2. Goes(x)
    BY <1>1, ForgetIs, ForgetMore DEF Reqs
  <2>3. PICK km : Put(r, x) \/ Put(r, y(km))
    BY <1>10, Zenon DEF ReadDefaultVehicle
  <2> HIDE DEF Goes, x, y
  <2> QED
    BY <1>3, <2>1, <2>2, <2>3
<1> QED
  BY <1>5, <1>6, <1>7, <1>8, <1>9, <1>10

LEMMA PlaceSteady ==
    ASSUME TypesInv, FuelInv, SteadyInv, NEW r \in Requests, Place(r)
    PROVE  SteadyInv'
<1> DEFINE q == req[r]
           Same(p) == /\ p.todo = q.todo /\ p.target = q.target /\ p.calm = q.calm
                      /\ p.alone = q.alone /\ p.pure = q.pure /\ p.grounded = q.grounded
           Goes(p) == /\ Same(p) /\ p.pc \in {"place", "fail", "begin", "clear"}
                      /\ p.pc \in {"begin", "clear"} => p.outcome \in Searched
<1>1. q \in Reqs /\ q.pc = "place" /\ q.pc \in Planning
  BY DEF TypesInv, ReqTyped, Place, TankStateInvalid, PlanComplete, PlaceStop, PlanGap, Round,
         At, Holding, Planning
<1>2. UNCHANGED <<route, declared, unplaced, status, stops, upToDate, opens>>
  BY DEF Place, TankStateInvalid, PlanComplete, PlaceStop, PlanGap, Trip, Row, Bounds
<1>3. ASSUME NEW p, Put(r, p), Goes(p) PROVE SteadyInv'
  <2>1. p.pc \in Planning /\ p.pc # "commit" /\ p.pc # "settle"
    BY <1>3 DEF Planning, Holding
  <2>2. p.pc \in {"settle"} \cup Storing => p.outcome \in Searched
    BY <1>3, <2>1 DEF Storing
  <2>3. SteadyReq(q) /\ Len(q.todo) > 1 => q.grounded
    BY <1>1 DEF SteadyReq, GetsFirm, Walked
  <2>4. SteadyReq(req[r]) /\ Len(p.todo) > 1 => p.grounded
    BY <1>3, <2>3
  <2>5. p.todo = req[r].todo /\ p.target = req[r].target /\ p.calm = req[r].calm
        /\ p.alone = req[r].alone /\ (p.pure => req[r].pure) /\ req[r].pc \in Planning
    BY <1>1, <1>3
  <2> HIDE DEF q
  <2> QED
    BY <1>2, <1>3, <2>1, <2>2, <2>4, <2>5, SteadyQuiet
<1>4. Forget(q) \in Reqs /\ Same(Forget(q))
  BY <1>1, ForgetIs, ForgetMore
<1>5. /\ Goes([Forget(q) EXCEPT !.pc = "fail"])
      /\ Goes([Forget(q) EXCEPT !.pc = "fail", !.picked = {}])
      /\ Goes([Forget(q) EXCEPT !.pc = "clear", !.picked = {}, !.outcome = "no_stations_found"])
  BY <1>4 DEF Reqs, Searched
<1>6. Goes([q EXCEPT !.pc = "begin", !.outcome = "ready"])
  BY <1>1 DEF Reqs, Searched
<1>7. \A pick : Goes([q EXCEPT !.at = pick, !.picked = @ \cup {pick}])
  BY <1>1 DEF Reqs
<1>8. \/ Put(r, [Forget(q) EXCEPT !.pc = "fail"])
      \/ Put(r, [Forget(q) EXCEPT !.pc = "fail", !.picked = {}])
      \/ Put(r, [Forget(q) EXCEPT !.pc = "clear", !.picked = {}, !.outcome = "no_stations_found"])
      \/ Put(r, [q EXCEPT !.pc = "begin", !.outcome = "ready"])
      \/ \E pick : Put(r, [q EXCEPT !.at = pick, !.picked = @ \cup {pick}])
  BY DEF Place, TankStateInvalid, PlanComplete, PlaceStop, PlanGap
<1> HIDE DEF Goes, q
<1> QED
  BY <1>3, <1>5, <1>6, <1>7, <1>8

\* A plan that nobody disturbs deletes what it has seen, and its stops are up to date.
LEMMA StoreSteady ==
    ASSUME TypesInv, FuelInv, SteadyInv, NEW r \in Requests,
           BeginStore(r) \/ DeleteOptions(r) \/ CommitStore(r) \/ ClearStops(r)
    PROVE  SteadyInv'
<1> DEFINE q == req[r]
           x == Now(r)
           Same(p) == /\ p.todo = q.todo /\ p.target = q.target /\ p.calm = q.calm
                      /\ p.alone = q.alone /\ p.pure = q.pure /\ p.grounded = q.grounded
                      /\ p.outcome = q.outcome
<1>1. q \in Reqs /\ q.pc \in Storing /\ q.pc \in Planning
  BY DEF TypesInv, ReqTyped, BeginStore, DeleteOptions, CommitStore, ClearStops, At, Holding,
         Storing, Planning
<1>2. SteadyReq(q) /\ Len(q.todo) > 1 =>
          /\ q.grounded /\ q.outcome \in Searched
          /\ q.pc = "commit" => OptionStops(x) \subseteq q.victims
  BY <1>1 DEF SteadyReq, GetsFirm, Walked, Now
<1>3. CASE BeginStore(r) \/ DeleteOptions(r)
  <2>1. Forget(q) \in Reqs /\ Same(Forget(q))
    BY <1>1, ForgetIs, ForgetMore
  <2>2. /\ \A kept : Same([Forget(q) EXCEPT !.pc = "delete", !.keep = kept])
        /\ \A kept : [Forget(q) EXCEPT !.pc = "delete", !.keep = kept].pc = "delete"
        /\ Same([q EXCEPT !.pc = "commit", !.victims = OptionStops(x)])
        /\ [q EXCEPT !.pc = "commit", !.victims = OptionStops(x)].pc = "commit"
        /\ [q EXCEPT !.pc = "commit", !.victims = OptionStops(x)].victims = OptionStops(x)
    BY <1>1, <2>1 DEF Reqs
  <2>3. \/ \E kept : Put(r, [Forget(q) EXCEPT !.pc = "delete", !.keep = kept])
        \/ Put(r, [q EXCEPT !.pc = "commit", !.victims = OptionStops(x)])
    BY <1>3 DEF BeginStore, DeleteOptions
  <2>x. x = Head(q.todo)
    BY DEF Now
  <2> HIDE DEF Same, q, x
  <2>4. PICK p : /\ Put(r, p) /\ Same(p) /\ p.pc \in {"delete", "commit"}
                 /\ p.pc = "commit" => p.victims = OptionStops(x)
    BY <2>2, <2>3
  <2>5. p.pc \in Planning /\ p.pc # "settle"
    BY <2>4 DEF Planning, Holding
  <2>6. UNCHANGED <<route, declared, unplaced, status, stops, upToDate, opens>>
    BY <1>3 DEF BeginStore, DeleteOptions, Trip, Row, Bounds
  <2>7. /\ p.todo = req[r].todo /\ p.target = req[r].target /\ p.calm = req[r].calm
        /\ p.alone = req[r].alone /\ (p.pure => req[r].pure) /\ req[r].pc \in Planning
    BY <1>1, <2>4 DEF Same, q
  <2>8. SteadyReq(req[r]) /\ Len(p.todo) > 1 => p.grounded /\ p.outcome \in Searched
    BY <1>2, <2>4 DEF Same, q
  <2>9. p.pc = "commit" => OptionStops(Head(p.todo)) \subseteq p.victims
    BY <2>4, <2>x DEF Same
  <2> QED
    BY <2>4, <2>5, <2>6, <2>7, <2>8, <2>9, SteadyQuiet
<1>4. CASE CommitStore(r) \/ ClearStops(r)
  <2>1. /\ \A rows : Same([q EXCEPT !.pc = "settle", !.victims = rows])
        /\ \A rows : [q EXCEPT !.pc = "settle", !.victims = rows].pc = "settle"
        /\ Same([q EXCEPT !.pc = "settle"]) /\ [q EXCEPT !.pc = "settle"].pc = "settle"
    BY <1>1 DEF Reqs
  <2>2. Put(r, [q EXCEPT !.pc = "settle", !.victims = {}]) \/ Put(r, [q EXCEPT !.pc = "settle"])
    BY <1>4 DEF CommitStore, ClearStops, Go
  <2>x. x = Head(q.todo) /\ x \in Legs
    BY <1>1, NowIsADay DEF Now, Planning
  <2> HIDE DEF Same, q
  <2>3. PICK p : Put(r, p) /\ Same(p) /\ p.pc = "settle"
    BY <2>1, <2>2
  <2>4. \A k \in Legs : k # x => /\ status'[k] = status[k] /\ stops'[k] = stops[k]
                                 /\ upToDate'[k] = upToDate[k]
    BY <1>4 DEF CommitStore, ClearStops, ClearOptions, Row, Note, TypesInv, TypeOK
  <2>5. UNCHANGED <<route, opens>>
    BY <1>4 DEF CommitStore, ClearStops, Trip, Bounds
  <2>6. \A k \in Legs : k # x => (Firm(k)' <=> Firm(k))
    BY <2>4, <2>5, OtherDays
  <2>7. ASSUME Steady(r), SteadyReq(q), Len(q.todo) > 1 PROVE "stops" \in upToDate'[x]
    <3>1. Current(r)
      BY <1>2, <2>7 DEF Current, Steady, q
    <3>2. CommitStore(r) => Missed(r) = {}
      <4>1. CommitStore(r) => q.pc = "commit"
        BY DEF CommitStore, At, q
      <4> QED
        BY <1>2, <2>7, <4>1 DEF Missed, q
    <3>3. \E current \in BOOLEAN : Note(x, "stops", current) /\ current
      BY <1>4, <3>1, <3>2 DEF CommitStore, ClearStops
    <3> QED
      BY <2>x, <3>3 DEF Note, TypesInv, TypeOK
  <2>8. p.pc \in Planning /\ p.pc # "commit"
    BY <2>3 DEF Planning, Holding
  <2>9. /\ p.todo = req[r].todo /\ p.target = req[r].target /\ p.calm = req[r].calm
        /\ p.alone = req[r].alone /\ (p.pure => req[r].pure) /\ req[r].pc \in Planning
    BY <1>1, <2>3 DEF Same, q
  <2>10. Steady(r) /\ SteadyReq(req[r]) /\ Len(p.todo) > 1 =>
           p.grounded /\ p.outcome \in Searched /\ "stops" \in upToDate'[Head(p.todo)]
    BY <1>2, <2>3, <2>7, <2>x DEF Same, q
  <2>11. \A k \in Legs : k # Head(req[r].todo) => (Firm(k)' <=> Firm(k))
    BY <2>6, <2>x DEF q
  <2> QED
    BY <2>3, <2>5, <2>8, <2>9, <2>10, <2>11, SteadyGoesOn
<1> QED
  BY <1>3, <1>4

\* A day that is settled is one to stand on; the next one is under way.
LEMMA SettleSteady ==
    ASSUME TypesInv, FuelInv, SteadyInv, NEW r \in Requests, Settle(r)
    PROVE  SteadyInv'
<1> DEFINE p == [req[r] EXCEPT !.pc = "load", !.todo = Tail(@), !.leg = None]
<1>1. PICK q : q = req[r]
  OBVIOUS
<1>2. q \in Reqs /\ q.pc = "settle" /\ q.pc \in Planning /\ ReqTyped(q) /\ ReqOK(q)
  BY <1>1 DEF TypesInv, FuelInv, ReqTyped, Settle, At, Planning, Holding
<1>3. /\ p.pc = "load" /\ p.calm = q.calm /\ p.todo = Tail(q.todo) /\ p.target = q.target
      /\ p.alone = q.alone /\ p.pure = q.pure
  BY <1>1, <1>2 DEF Reqs
<1>4. IF Len(q.todo) = 1 THEN Put(r, Idle) ELSE Put(r, p)
  BY <1>1 DEF Settle
<1>5. PICK x : x = Head(q.todo)
  OBVIOUS
<1>6. /\ q.todo \in Seq(Legs) /\ Len(q.todo) \in Nat /\ Len(q.todo) >= 1 /\ x = q.todo[1]
      /\ x \in Legs /\ q.target \in Legs
  BY <1>2, <1>5, TodoType
<1>7. UNCHANGED <<route, stops, opens>>
  BY DEF Settle, Trip, Bounds
<1>8. SetFuelStatus(x, q.outcome) /\ Note(x, "status", Current(r) /\ q.outcome \in Searched)
  BY <1>1, <1>5 DEF Settle, Now
<1>9. /\ status' = [status EXCEPT ![x] = q.outcome] /\ status \in [Legs -> Statuses]
      /\ upToDate \in [Legs -> SUBSET {"stops", "status"}] /\ stops \in [Legs -> SUBSET Stops]
  BY <1>8 DEF SetFuelStatus, TypesInv, TypeOK
<1>10. \A k \in Legs : k # x => /\ status'[k] = status[k] /\ stops'[k] = stops[k]
                                /\ upToDate'[k] = upToDate[k]
  BY <1>7, <1>8, <1>9 DEF Note
<1>11. \A k \in Legs : k # x => (Firm(k)' <=> Firm(k))
  BY <1>7, <1>10, OtherDays
<1> HIDE DEF p
<1>12. CASE Len(q.todo) = 1
  BY <1>1, <1>2, <1>4, <1>7, <1>12, SteadyEnds
<1>13. CASE Len(q.todo) # 1
  <2>1. PICK u : u = p
    OBVIOUS
  <2>2. /\ Put(r, u) /\ u.pc = "load" /\ u.calm = q.calm /\ u.todo = Tail(q.todo)
        /\ u.target = q.target /\ u.alone = q.alone /\ u.pure = q.pure
    BY <1>3, <1>4, <1>13, <2>1
  <2>3. Len(q.todo) > 1
    <3> DEFINE n == Len(q.todo)
    <3>1. n \in Nat /\ n >= 1 /\ n # 1
      BY <1>6, <1>13
    <3> HIDE DEF n
    <3>2. n > 1
      BY <3>1
    <3> QED
      BY <3>2 DEF n
  <2>4. /\ Len(u.todo) = Len(q.todo) - 1
        /\ \A i \in 1..Len(u.todo) : u.todo[i] = q.todo[i + 1]
    <3>1. q.todo # <<>>
      <4>1. Len(<<>>) = 0
        BY EmptySeq
      <4> QED
        BY <2>3, <4>1
    <3> QED
      BY <1>6, <2>2, <3>1, HeadTailProperties
  <2>5. ASSUME Steady(r), SteadyReq(q) PROVE SteadyReq(u)'
    <3>1. /\ q.calm /\ CascadeFills(q) /\ q.grounded /\ q.outcome \in Searched
          /\ "stops" \in upToDate[x]
      BY <1>2, <1>5, <2>3, <2>5 DEF SteadyReq, GetsFirm, Walked
    <3>2. Current(r)
      BY <1>1, <2>5, <3>1 DEF Current, Steady
    <3>3. Firm(x)'
      <4>1. upToDate'[x] = {"stops", "status"}
        <5>1. upToDate'[x] = upToDate[x] \cup {"status"}
          BY <1>6, <1>8, <1>9, <3>1, <3>2 DEF Note
        <5>2. upToDate[x] \in SUBSET {"stops", "status"}
          BY <1>6, <1>9
        <5> QED
          BY <3>1, <5>1, <5>2
      <4>2. status'[x] \in Searched
        BY <1>6, <1>9, <3>1
      <4>3. route'[x].ends = "apart"
        <5>1. 1 \in 1..(Len(q.todo) - 1)
          BY <1>6, <2>3
        <5> QED
          BY <1>6, <1>7, <3>1, <5>1 DEF CascadeFills
      <4> QED
        BY <4>1, <4>2, <4>3 DEF Firm, Whole
    <3>4. ASSUME NEW k \in 1..(u.target - 1)
          PROVE  Firm(k)' \/ \E i \in 1..Len(u.todo) : u.todo[i] = k
      <4>1. k \in Legs
        BY <1>6, <2>2, DaysAssumption DEF Legs
      <4>2. CASE k = x
        BY <3>3, <4>2
      <4>3. CASE k # x /\ Firm(k)
        BY <1>11, <4>1, <4>3
      <4>4. CASE k # x /\ \E i \in 1..Len(q.todo) : q.todo[i] = k
        <5>1. PICK i \in 1..Len(q.todo) : q.todo[i] = k
          BY <4>4
        <5>2. i - 1 \in 1..Len(u.todo) /\ (i - 1) + 1 = i
          BY <1>6, <2>4, <4>4, <5>1
        <5> QED
          BY <2>4, <5>1, <5>2
      <4> QED
        BY <2>2, <3>1, <4>2, <4>3, <4>4 DEF CascadeFills
    <3>5. ASSUME NEW i \in 1..(Len(u.todo) - 1) PROVE route'[u.todo[i]].ends = "apart"
      <4>1. i \in 1..Len(u.todo) /\ i + 1 \in 1..(Len(q.todo) - 1)
        BY <1>6, <2>4
      <4> QED
        BY <1>7, <2>4, <3>1, <4>1 DEF CascadeFills
    <3>6. CascadeFills(u)'
      BY <3>4, <3>5 DEF CascadeFills
    <3>7. GetsFirm(u)'
      BY <2>2 DEF GetsFirm, Walked, Storing
    <3> QED
      BY <2>2, <3>1, <3>6, <3>7 DEF SteadyReq
  <2> QED
    BY <1>1, <1>2, <1>7, <2>2, <2>5, SteadyAfter
<1> QED
  BY <1>12, <1>13

LEMMA EndSteady ==
    ASSUME TypesInv, FuelInv, SteadyInv, NEW r \in Requests, FailTarget(r) \/ FailLeg(r) \/ Killed(r)
    PROVE  SteadyInv'
<1> DEFINE q == req[r]
           p == [q EXCEPT !.pc = "failTarget"]
<1>1. q \in Reqs /\ q.pc # "idle"
  BY DEF TypesInv, ReqTyped, FailTarget, FailLeg, Killed, At
<1>2. p.pc = "failTarget" /\ p.alone = q.alone /\ p.calm = q.calm /\ p.pure = q.pure
  BY <1>1 DEF Reqs
<1>3. Put(r, Idle) \/ Put(r, p)
  BY DEF FailTarget, FailLeg, Killed, Go
<1>4. UNCHANGED opens
  BY DEF FailTarget, FailLeg, Killed, Bounds
<1> HIDE DEF p
<1>5. PICK u : Put(r, u) /\ (u = Idle \/ (/\ u.pc = "failTarget" /\ u.alone = q.alone
                                          /\ u.calm = q.calm /\ u.pure = q.pure))
  BY <1>2, <1>3
<1> QED
  BY <1>1, <1>4, <1>5, SteadyEnds

\* Where no plan is pure there is nothing to keep.
LEMMA NobodySteady ==
    ASSUME SteadyInv, UNCHANGED opens, \A s \in Requests : req'[s].alone = req[s].alone,
           \A s \in Requests : ~req'[s].pure
    PROVE  SteadyInv'
  BY DEF SteadyInv, Steady

\* Whoever opens a day is not alone with those who opened theirs before.
LEMMA OpenSteady ==
    ASSUME TypesInv, FuelInv, SteadyInv, NEW r \in Requests, NEW l \in Legs,
           OpenDay(r, l) \/ ForceDay(r, l)
    PROVE  SteadyInv'
<1> DEFINE calm == editor.todo = <<>> /\ \A s \in Requests : At(s, "idle") \/ req[s].calm
           none == InSight(l) /\ \A s \in Requests : At(s, "idle")
           alone == IF none THEN opens' ELSE 0
           pure == editor.todo = <<>>
           x == [Idle EXCEPT !.pc = "lookup", !.target = l, !.pure = pure,
                             !.calm = calm, !.alone = alone]
<1>1. /\ Put(r, x) /\ opens' = opens + 1
      /\ UNCHANGED <<route, declared, unplaced, status, stops, upToDate>>
  BY DEF OpenDay, ForceDay, BeginOpen, Trip, Row
<1>2. opens \in Nat
  BY DEF TypesInv, TypeOK
<1>3. pure \in BOOLEAN /\ calm \in BOOLEAN /\ none \in BOOLEAN
  OBVIOUS
<1>4. pure /\ none => calm
  OBVIOUS
<1>5. none => InSight(l)' /\ \A s \in Requests : req[s].pc = "idle"
  BY <1>1, SameDays DEF At
<1>6. (none => alone = opens + 1) /\ (~none => alone = 0)
  BY <1>1
<1> HIDE DEF pure, calm, none, alone
<1>7. x.pc = "lookup" /\ x.target = l /\ x.pure = pure /\ x.calm = calm /\ x.alone = alone
  BY DEF Idle
<1> HIDE DEF x
<1>8. PICK p : p = x
  OBVIOUS
<1>9. \A s \in Requests : req'[s] = IF s = r THEN p ELSE req[s]
  BY <1>1, <1>8, OneValue DEF FuelInv, Put
<1> SUFFICES ASSUME NEW s \in Requests
             PROVE  req'[s].alone <= opens' /\ (Steady(s)' => SteadyPlan(s)')
  BY DEF SteadyInv
<1>10. CASE s # r
  <2>1. req'[s].alone <= opens /\ req[s] = req'[s]
    BY <1>9, <1>10 DEF SteadyInv
  <2>2. req'[s].alone \in Nat
    BY <2>1 DEF TypesInv, ReqTyped, Reqs
  <2>3. req'[s].alone <= opens' /\ req'[s].alone # opens'
    BY <1>1, <1>2, <2>1, <2>2
  <2> QED
    BY <2>3 DEF Steady
<1>11. CASE s = r
  <2>1. req'[s] = p
    BY <1>9, <1>11
  <2>2. p.alone <= opens'
    BY <1>1, <1>2, <1>3, <1>6, <1>7, <1>8
  <2>3. ASSUME Steady(s)' PROVE SteadyPlan(s)'
    <3>1. p.pure /\ p.alone = opens + 1
      BY <1>1, <2>1, <2>3 DEF Steady
    <3>2. none /\ pure
      BY <1>2, <1>3, <1>6, <1>7, <1>8, <3>1
    <3>3. p.calm /\ p.pc = "lookup" /\ InSight(p.target)'
      BY <1>4, <1>5, <1>7, <1>8, <3>2
    <3>4. \A t \in Requests : t # s => req'[t].pc = "idle"
      BY <1>5, <1>9, <1>11, <3>2
    <3>5. "lookup" \notin Planning
      BY DEF Planning, Holding
    <3> QED
      BY <2>1, <3>3, <3>4, <3>5 DEF SteadyPlan, At
  <2> QED
    BY <2>1, <2>2, <2>3
<1> QED
  BY <1>10, <1>11

\* A pick of what an up-to-date plan has placed leaves planned days planned.
LEMMA SelectSteady ==
    ASSUME TypesInv, FuelInv, SteadyInv, NEW l \in Legs, NEW s \in stops[l], SelectStop(l, s)
    PROVE  SteadyInv'
<1>1. \A r \in Requests : req[r] \in Reqs
  BY DEF TypesInv, ReqTyped
<1>2. UNCHANGED <<route, declared, unplaced, status, opens>>
  BY DEF SelectStop, Trip, Row
<1>3. PICK planned \in BOOLEAN :
         /\ req' = [r \in Requests |-> [req[r] EXCEPT !.pure = @ /\ planned]]
         /\ upToDate' = [k \in Legs |-> IF planned THEN upToDate[k] ELSE {}]
  BY SelectIs
<1>4. CASE ~planned
  <2>1. \A r \in Requests : ~req'[r].pure /\ req'[r].alone = req[r].alone
    BY <1>1, <1>3, <1>4 DEF Reqs
  <2> QED
    BY <1>2, <2>1, NobodySteady
<1>5. CASE planned
  <2>1. \A r \in Requests : req'[r] = [req[r] EXCEPT !.pure = @ /\ TRUE]
    BY <1>3, <1>5
  <2>2. \A r \in Requests : req'[r] = req[r]
    <3>1. ASSUME NEW q \in Reqs PROVE [q EXCEPT !.pure = @ /\ TRUE] = q
      <4>1. q.pure \in BOOLEAN /\ [q EXCEPT !.pure = q.pure] = q
        BY DEF Reqs
      <4>2. (q.pure /\ TRUE) = q.pure
        BY <4>1
      <4> QED
        BY <4>1, <4>2
    <3> QED
      BY <1>1, <2>1, <3>1
  <2>3. \A k \in Legs : upToDate'[k] = upToDate[k]
    BY <1>3, <1>5
  <2> DEFINE new == [s EXCEPT !.state = "selected"]
             rows == (stops[l] \ {s}) \cup {new}
  <2>4. s.state = "option" /\ s \in Stops /\ new.state = "selected" /\ new.km = s.km
    BY DEF SelectStop, TypesInv, TypeOK, Stops
  <2>5. \A k \in Legs : stops'[k] = IF k = l THEN rows ELSE stops[k]
    BY DEF SelectStop, TypesInv, TypeOK
  <2> HIDE DEF new
  <2>6. \A k \in Legs : OptionStops(k)' \subseteq OptionStops(k)
    BY <2>4, <2>5 DEF OptionStops
  <2>7. \A k \in Legs : Refuels(k)' = Refuels(k)
    BY <2>4, <2>5 DEF Refuels
  <2> HIDE DEF rows
  <2>8. \A k \in Legs : Firm(k) => Firm(k)'
    BY <1>2, <2>3, <2>6 DEF Firm, Whole, Bare, Drives
  <2>9. \A k \in Legs : (Blank(k)' <=> Blank(k)) /\ (EndsTheCascade(k)' <=> EndsTheCascade(k))
    BY <1>2, <2>7 DEF Blank, EndsTheCascade, HasFuelStop, Drives
  <2>10. ASSUME NEW m \in Legs, InSight(m) PROVE InSight(m)'
    <3>1. \A k \in 1..(m - 1) : k \in Legs /\ \A j \in k..(m - 1) : j \in Legs
      BY DaysAssumption DEF Legs
    <3> QED
      BY <2>8, <2>9, <2>10, <3>1 DEF InSight
  <2> SUFFICES ASSUME NEW r \in Requests
               PROVE  req'[r].alone <= opens' /\ (Steady(r)' => SteadyPlan(r)')
    BY DEF SteadyInv
  <2>11. req'[r].alone <= opens'
    BY <1>2, <2>2 DEF SteadyInv
  <2>12. ASSUME Steady(r)' PROVE SteadyPlan(r)'
    <3>1. Steady(r)
      BY <1>2, <2>2, <2>12 DEF Steady, At
    <3>2. PICK q : q = req[r]
      OBVIOUS
    <3>3. SteadyReq(q) /\ \A x \in Requests : x # r => At(x, "idle")
      BY <3>1, <3>2, SteadyIs DEF SteadyInv
    <3>4. ReqTyped(q) /\ ReqOK(q) /\ q.pc # "idle"
      BY <3>1, <3>2 DEF TypesInv, FuelInv, Steady, At
    <3>5. q.target \in Legs
      BY <3>4 DEF ReqOK
    <3>6. q.pc \in {"lookup", "refuels"} => InSight(q.target)'
      BY <2>10, <3>3, <3>5 DEF SteadyReq
    <3>7. q.pc = "refuels" => \A k \in 1..(q.target - 1) : q.seen[k] = status'[k]
      BY <1>2, <3>3 DEF SteadyReq
    <3>8. ASSUME q.pc \in Planning PROVE CascadeFills(q)' /\ GetsFirm(q)'
      <4>1. Head(q.todo) \in Legs
        BY <3>4, <3>8, TodoType
      <4>2. CascadeFills(q) /\ GetsFirm(q)
        BY <3>3, <3>8 DEF SteadyReq
      <4>3. \A k \in 1..(q.target - 1) : k \in Legs
        BY <3>5, DaysAssumption DEF Legs
      <4>4. CascadeFills(q)'
        BY <1>2, <2>8, <4>2, <4>3 DEF CascadeFills
      <4>5. GetsFirm(q)'
        BY <2>3, <2>6, <4>1, <4>2 DEF GetsFirm
      <4> QED
        BY <4>4, <4>5
    <3>9. q.calm
      BY <3>3 DEF SteadyReq
    <3>10. req'[r] = q /\ \A x \in Requests : x # r => req'[x].pc = "idle"
      BY <2>2, <3>2, <3>3 DEF At
    <3> QED
      BY <3>6, <3>7, <3>8, <3>9, <3>10 DEF SteadyPlan, CascadeFills, GetsFirm, At
  <2> QED
    BY <2>11, <2>12
<1> QED
  BY <1>4, <1>5

\* A step that no request takes and that writes to no day.
LEMMA SteadyStays ==
    ASSUME TypesInv, SteadyInv,
           UNCHANGED <<route, declared, unplaced, status, stops, upToDate, req, opens>>
    PROVE  SteadyInv'
<1> SUFFICES ASSUME NEW r \in Requests
             PROVE  req'[r].alone <= opens' /\ (Steady(r)' => SteadyPlan(r)')
  BY DEF SteadyInv
<1>1. req[r].alone <= opens /\ (Steady(r) => SteadyPlan(r))
  BY DEF SteadyInv
<1>2. Steady(r)' => Steady(r)
  BY DEF Steady, At
<1>3. SteadyPlan(r) => SteadyPlan(r)'
  <2>1. PICK q : q = req[r]
    OBVIOUS
  <2>2. q = req'[r]
    BY <2>1
  <2>3. CascadeFills(q) => CascadeFills(q)'
    BY SameDays DEF CascadeFills
  <2>4. GetsFirm(q) => GetsFirm(q)'
    BY SameDays DEF GetsFirm
  <2> QED
    BY <2>1, <2>2, <2>3, <2>4, SameDays DEF SteadyPlan, CascadeFills, GetsFirm, At
<1> QED
  BY <1>1, <1>2, <1>3

LEMMA TripSteady ==
    ASSUME TypesInv, FuelInv, CalmInv, SteadyInv, DriverOrTurn
    PROVE  SteadyInv'
<1>1. ASSUME NEW kind, NEW S, Alter(kind, S) PROVE SteadyInv'
  <2>1. \A s \in Requests : ~req'[s].pure /\ req'[s].alone = req[s].alone
    <3>1. \A s \in Requests : req[s] \in Reqs
      BY DEF TypesInv, ReqTyped
    <3> QED
      BY <1>1, <3>1 DEF Alter, Reqs
  <2>2. UNCHANGED opens
    BY <1>1 DEF Alter
  <2> QED
    BY <2>1, <2>2, NobodySteady
<1>2. CASE \E r \in Requests, l \in Legs : OpenDay(r, l) \/ ForceDay(r, l)
  BY <1>2, OpenSteady
<1>3. CASE \E l \in Legs : CacheExpires(l)
  <2>1. UNCHANGED <<route, declared, unplaced, status, stops, upToDate, req, opens>>
    BY <1>3 DEF CacheExpires, Trip
  <2> QED
    BY <2>1, SteadyStays
<1>4. CASE \E l \in Legs, rt \in NewRoutes : RerouteLeg(l, rt)
  BY <1>1, <1>4 DEF RerouteLeg
<1>5. CASE \E km \in Ranges : AssignVehicle(km) \/ EditVehicle(km)
  BY <1>1, <1>5 DEF AssignVehicle, EditVehicle
<1>6. CASE \E l \in Legs, km \in Declarable : DeclareFuelState(l, km)
  BY <1>1, <1>6 DEF DeclareFuelState
<1>7. CASE \E l \in Legs : AddOrDropStop(l)
  BY <1>1, <1>7 DEF AddOrDropStop
<1>8. CASE \E l \in Legs : \E s \in stops[l] : DismissStop(l, s) \/ SelectStop(l, s)
  <2>1. PICK l \in Legs : \E s \in stops[l] : DismissStop(l, s) \/ SelectStop(l, s)
    BY <1>8
  <2> QED
    BY <1>1, <2>1, SelectSteady DEF DismissStop
\* Whoever is alone is calm, and then nothing is being invalidated.
<1>9. CASE InvalidateStops \/ InvalidateStatus
  <2>1. editor.todo # <<>> /\ UNCHANGED <<req, opens>>
    BY <1>9 DEF InvalidateStops, InvalidateStatus
  <2>2. \A s \in Requests : ~Steady(s)
    BY <2>1 DEF CalmInv, CalmTogether, SteadyInv, SteadyPlan
  <2>3. \A s \in Requests : ~Steady(s)'
    BY <2>1, <2>2 DEF Steady, At
  <2> QED
    BY <2>1, <2>3 DEF SteadyInv
<1> QED
  BY <1>2, <1>3, <1>4, <1>5, <1>6, <1>7, <1>8, <1>9 DEF DriverOrTurn

LEMMA SteadyStep == TypesInv /\ FuelInv /\ CalmInv /\ SteadyInv /\ [Next]_vars => SteadyInv'
<1> SUFFICES ASSUME TypesInv, FuelInv, CalmInv, SteadyInv, [Next]_vars PROVE SteadyInv'
  OBVIOUS
<1>1. CASE \E r \in Requests : Place(r)
  BY <1>1, PlaceSteady
<1>2. ASSUME NEW r \in Requests, Work(r) PROVE SteadyInv'
  BY <1>2, ReadSteady, DecideSteady, LoadSteady, ComputeSteady, SourceSteady, StoreSteady,
     SettleSteady, EndSteady DEF Work
<1>3. CASE DriverOrTurn
  BY <1>3, TripSteady
<1>4. CASE UNCHANGED vars
  <2>1. UNCHANGED <<route, declared, unplaced, status, stops, upToDate, req, opens>>
    BY <1>4 DEF vars
  <2> QED
    BY <2>1, SteadyStays
<1> QED
  BY <1>1, <1>2, <1>3, <1>4 DEF Next

LEMMA SteadyInit == Init => SteadyInv
<1> SUFFICES ASSUME Init PROVE SteadyInv
  OBVIOUS
<1>1. opens = 0 /\ \A r \in Requests : req[r] = Idle
  BY DEF Init
<1>2. Idle.alone = 0 /\ ~Idle.pure
  BY DEF Idle
<1> QED
  BY <1>1, <1>2 DEF SteadyInv, Steady

-----------------------------------------------------------------------------
(* Placing stops *)

\* Stations of a leg are finitely many.
LEMMA OnLegIsFinite ==
    ASSUME NEW km \in Nat, NEW stations \in SUBSET Nat, NEW A \in SUBSET OnLeg(km, stations)
    PROVE  IsFiniteSet(A) /\ A \in SUBSET (1 .. km)
<1>1. 1 \in Int /\ km \in Int
  OBVIOUS
<1>2. IsFiniteSet(1 .. km)
  BY <1>1, FS_Interval
<1>3. A \in SUBSET (1 .. km)
  BY OnLegIs
<1> QED
  BY <1>2, <1>3, FS_Subset

\* Whoever gets through has a station in reach of any place the end is out of reach of.
LEMMA StationAhead ==
    ASSUME NEW km \in Nat, NEW stations \in SUBSET Nat, NEW tank \in Nat, NEW burn \in Nat,
           NEW reserve \in Nat, NEW at \in Nat, NEW A \in SUBSET OnLeg(km, stations),
           Drivable(km, reserve, tank, burn, A), ~EndInReach(km, reserve, tank, burn, at)
    PROVE  \E s \in A : s \in SafeStations(km, stations, tank, burn, at)
<1> DEFINE passed == {0} \cup {s \in A : s <= at}
           p == Max(passed)
           ahead == {s \in A : s > p}
           next == Min({km + reserve} \cup ahead)
<1>1. IsFiniteSet(A) /\ A \in SUBSET (1 .. km)
  BY OnLegIsFinite
<1>2. \A s \in A : s \in Nat /\ 0 < s /\ s <= km
  BY <1>1
<1>3. p \in passed /\ \A s \in passed : s <= p
  <2>1. passed \in SUBSET Int /\ passed # {}
    BY <1>2
  <2>2. IsFiniteSet(passed)
    <3>1. IsFiniteSet({s \in A : s <= at})
      BY <1>1, FS_Subset
    <3> QED
      BY <3>1, FS_AddElement
  <2> HIDE DEF passed
  <2> QED
    BY <2>1, <2>2, MaxIsGreatest
<1>4. p \in Nat /\ p <= at /\ p \in {0} \cup A
  BY <1>2, <1>3
<1>5. \A s \in ahead : s > at
  <2> TAKE s \in ahead
  <2>1. s \in Nat /\ s \in A /\ s > p
    BY <1>2
  <2>2. s <= at => s <= p
    BY <1>3, <2>1
  <2> QED
    BY <1>4, <2>1, <2>2
<1>6. {s \in A : 0 < s /\ s <= km} = A
  BY <1>2
<1>7. next - p <= IF p = 0 THEN tank - burn ELSE tank
  <2> HIDE DEF p
  <2> QED
    BY <1>4, <1>6 DEF Drivable
<1>8. next \in {km + reserve} \cup ahead
  <2>1. {km + reserve} \cup ahead \in SUBSET Nat /\ {km + reserve} \cup ahead # {}
    BY <1>2
  <2> HIDE DEF ahead
  <2> QED
    BY <2>1, MinIsLeast
<1> HIDE DEF p, next
<1>9. next \in Nat
  BY <1>2, <1>8
<1>10. next - at <= Reach(tank, burn, at)
  BY <1>4, <1>7, <1>9 DEF Reach
<1>11. next # km + reserve
  BY <1>10 DEF EndInReach
<1>12. next \in A /\ at < next
  BY <1>5, <1>8, <1>11
<1>13. next \in SafeStations(km, stations, tank, burn, at)
  BY <1>10, <1>12 DEF SafeStations
<1> QED
  BY <1>12, <1>13

\* A chain of stops, each in reach of the one before and the end of the last, is driven.
LEMMA ChainIsDriven ==
    ASSUME NEW km \in Nat, NEW stations \in SUBSET Nat, NEW tank \in Nat, NEW burn \in Nat,
           NEW reserve \in Nat, NEW A \in SUBSET OnLeg(km, stations), NEW at \in {0} \cup A,
           \A s \in A : s <= at,
           \A p \in {0} \cup A :
               p < at => \E s \in A : p < s /\ s - p <= Reach(tank, burn, p),
           EndInReach(km, reserve, tank, burn, at)
    PROVE  Drivable(km, reserve, tank, burn, A)
<1>1. \A s \in A : s \in Nat /\ 0 < s /\ s <= km
  BY OnLegIsFinite
<1>2. {s \in A : 0 < s /\ s <= km} = A
  BY <1>1
<1>3. SUFFICES ASSUME NEW p \in {0} \cup A
               PROVE  Min({km + reserve} \cup {s \in A : s > p}) - p
                         <= IF p = 0 THEN tank - burn ELSE tank
  BY <1>2, Zenon DEF Drivable
<1> DEFINE stretch == {km + reserve} \cup {s \in A : s > p}
           next == Min(stretch)
<1>4. p \in Nat /\ at \in Nat /\ p <= at
  BY <1>1
<1>5. stretch \in SUBSET Nat /\ stretch # {}
  BY <1>1
<1>6. next \in Nat /\ \A s \in stretch : next <= s
  <2> HIDE DEF stretch
  <2> QED
    BY <1>5, MinIsLeast
<1>7. next - p <= Reach(tank, burn, p)
  <2>1. CASE p < at
    <3>1. PICK s \in A : p < s /\ s - p <= Reach(tank, burn, p)
      BY <2>1
    <3>2. s \in Nat /\ next <= s
      BY <1>1, <1>6, <3>1
    <3> HIDE DEF next
    <3> QED
      BY <1>4, <1>6, <3>1, <3>2 DEF Reach
  <2>2. CASE p = at
    <3>1. next <= km + reserve
      BY <1>6
    <3> HIDE DEF next
    <3> QED
      BY <1>4, <1>6, <2>2, <3>1 DEF Reach, EndInReach
  <2> QED
    BY <1>4, <2>1, <2>2
<1> HIDE DEF next
<1> QED
  BY <1>7 DEF Reach, next

\* What a request at work on a leg computes with.
LEMMA ArithmeticTypes ==
    ASSUME NEW q, ReqTyped(q), q.leg \in RouteRecords, Head(q.todo) \in Legs
    PROVE  /\ q.leg.km \in Nat /\ StationsFound(q, Head(q.todo)) \in SUBSET Nat
           /\ q.range \in Nat /\ q.burn \in Nat /\ q.reserve \in Nat /\ q.at \in Nat
<1>1. q \in Reqs
  BY DEF ReqTyped
<1>2. StationsFound(q, Head(q.todo)) \in SUBSET Nat
  BY <1>1 DEF StationsFound, Reqs
<1>3. q.leg.km \in Nat
  BY RouteTypes
<1> QED
  BY <1>1, <1>2, <1>3 DEF Reqs

\* A request that has placed nothing may start.
LEMMA GreedyStarts ==
    ASSUME NEW q, ReqTyped(q), q.leg \in RouteRecords, Head(q.todo) \in Legs,
           q.at = 0, q.picked = {}
    PROVE  GreedySoFar(q)
<1>1. Cardinality(q.picked) = 0
  BY FS_EmptySet
<1>2. ASSUME NEW at \in SUBSET StationsOf(q)
      PROVE  Cardinality(q.picked) <= Cardinality({s \in at : s <= q.at})
  <2>1. IsFiniteSet(at)
    BY ArithmeticTypes, OnLegIsFinite DEF StationsOf
  <2>2. IsFiniteSet({s \in at : s <= q.at})
    BY <2>1, FS_Subset
  <2> HIDE DEF GreedySoFar
  <2>3. Cardinality({s \in at : s <= q.at}) \in Nat
    BY <2>2, FS_CardinalityType
  <2> QED
    BY <1>1, <2>3
<1> QED
  BY <1>2 DEF GreedySoFar

\* The farthest station in reach is the next stop.
LEMMA GreedyGoesOn ==
    ASSUME NEW q, ReqTyped(q), q.leg \in RouteRecords, Head(q.todo) \in Legs, GreedySoFar(q),
           ~EndInReach(q.leg.km, q.reserve, q.range, q.burn, q.at),
           SafeStations(q.leg.km, StationsFound(q, Head(q.todo)), q.range, q.burn, q.at) # {},
           NEW p, ReqTyped(p), p.leg = q.leg, p.todo = q.todo, p.known = q.known,
           p.range = q.range, p.burn = q.burn, p.reserve = q.reserve,
           p.at = Choose(SafeStations(q.leg.km, StationsFound(q, Head(q.todo)),
                                      q.range, q.burn, q.at)),
           p.picked = q.picked \cup {p.at}
    PROVE  GreedySoFar(p)
<1> DEFINE km == q.leg.km
           found == StationsFound(q, Head(q.todo))
           safe == SafeStations(km, found, q.range, q.burn, q.at)
<1>1. /\ km \in Nat /\ found \in SUBSET Nat
      /\ q.range \in Nat /\ q.burn \in Nat /\ q.reserve \in Nat /\ q.at \in Nat
  BY ArithmeticTypes
<1>2. /\ StationsOf(p) = StationsOf(q) /\ StationsOf(q) = OnLeg(km, found)
      /\ \A at : DrivesOn(p, at) <=> DrivesOn(q, at)
  BY DEF StationsOf, StationsFound, DrivesOn
<1>3. p.at \in safe /\ \A s \in safe : s <= p.at
  <2> HIDE DEF km, found
  <2>1. safe # {} /\ p.at = Choose(safe)
    BY DEF km, found
  <2> QED
    BY <1>1, <2>1, FarthestIsSafe
<1>4. /\ p.at \in StationsOf(q) /\ p.at \in Nat /\ q.at < p.at
      /\ p.at - q.at <= Reach(q.range, q.burn, q.at)
  <2>1. StationsOf(q) \subseteq Nat
    <3> HIDE DEF km, found
    <3> QED
      BY <1>1, <1>2, OnLegIs
  <2> QED
    BY <1>2, <1>3, <2>1 DEF SafeStations
<1>5. \A s \in q.picked : s \in StationsOf(q) /\ s \in Nat /\ s <= q.at
  <2>1. StationsOf(q) \subseteq Nat
    <3> HIDE DEF km, found
    <3> QED
      BY <1>1, <1>2, OnLegIs
  <2> QED
    BY <2>1 DEF GreedySoFar
<1>6. ASSUME NEW x \in {0} \cup p.picked, x < p.at
      PROVE  \E s \in p.picked : x < s /\ s - x <= Reach(p.range, p.burn, x)
  <2>1. x \in {0} \cup q.picked
    BY <1>4, <1>6
  <2>2. CASE x < q.at
    BY <2>1, <2>2 DEF GreedySoFar
  <2>3. CASE x = q.at
    BY <1>4, <2>3
  <2>4. x <= q.at
    BY <1>1, <1>5, <2>1
  <2> QED
    BY <1>1, <1>5, <2>1, <2>2, <2>3, <2>4
<1>7. ASSUME NEW at \in SUBSET StationsOf(q), DrivesOn(q, at)
      PROVE  Cardinality(p.picked) <= Cardinality({s \in at : s <= p.at})
  <2> DEFINE before == {s \in at : s <= q.at}
             after == {s \in at : s <= p.at}
  <2>1. IsFiniteSet(at) /\ at \in SUBSET Nat
    <3>1. at \in SUBSET OnLeg(km, found)
      BY <1>2
    <3> HIDE DEF km, found
    <3>2. IsFiniteSet(at) /\ at \in SUBSET (1 .. km)
      BY <1>1, <3>1, OnLegIsFinite
    <3> QED
      BY <1>1, <3>2
  <2>2. PICK s \in at : s \in safe
    <3>1. at \in SUBSET OnLeg(km, found) /\ Drivable(km, q.reserve, q.range, q.burn, at)
      BY <1>2, <1>7 DEF DrivesOn
    <3>2. ~EndInReach(km, q.reserve, q.range, q.burn, q.at)
      OBVIOUS
    <3> HIDE DEF km, found
    <3> QED
      BY <1>1, <3>1, <3>2, StationAhead
  <2>3. s \in after /\ s \notin before
    <3>1. s <= p.at /\ q.at < s /\ s \in Nat
      BY <1>3, <2>1, <2>2 DEF SafeStations
    <3> QED
      BY <1>1, <3>1
  <2>4. before \in SUBSET after
    BY <1>1, <1>4, <2>1
  <2>5. IsFiniteSet(after) /\ IsFiniteSet(before)
    BY <2>1, FS_Subset
  <2> HIDE DEF before, after
  <2>6. Cardinality(before) <= Cardinality(after) /\ Cardinality(before) # Cardinality(after)
    BY <2>3, <2>4, <2>5, FS_Subset
  <2>7. Cardinality(q.picked) <= Cardinality(before)
    BY <1>7 DEF GreedySoFar, before
  <2>8. p.at \notin q.picked
    BY <1>1, <1>4, <1>5
  <2>9. Cardinality(p.picked) = Cardinality(q.picked) + 1
    <3>1. PICK placed : placed = q.picked
      OBVIOUS
    <3>2. IsFiniteSet(placed) /\ p.at \notin placed /\ p.picked = placed \cup {p.at}
      BY <2>8, <3>1 DEF ReqTyped
    <3>3. Cardinality(placed \cup {p.at}) = Cardinality(placed) + 1
      BY ONLY <3>2, FS_AddElement
    <3> QED
      BY <3>1, <3>2, <3>3
  <2>10. Cardinality(q.picked) \in Nat /\ Cardinality(before) \in Nat /\ Cardinality(after) \in Nat
    <3>1. IsFiniteSet(q.picked)
      BY DEF ReqTyped
    <3> QED
      BY <2>5, <3>1, FS_CardinalityType
  <2>11. Cardinality(q.picked) + 1 <= Cardinality(after)
    BY ONLY <2>6, <2>7, <2>10
  <2> QED
    BY <2>9, <2>11 DEF after
<1>8. p.picked \subseteq StationsOf(q) /\ p.at \in p.picked
  BY <1>4, <1>5
<1>9. \A s \in p.picked : s <= p.at
  BY <1>1, <1>4, <1>5
<1> QED
  BY <1>2, <1>6, <1>7, <1>8, <1>9 DEF GreedySoFar

-----------------------------------------------------------------------------
(* Each step keeps the plans under way greedy *)

LEMMA GreedyAfter ==
    ASSUME FuelInv, GreedyInv, NEW r \in Requests, NEW p, Put(r, p), GreedyPlan(p)
    PROVE  GreedyInv'
<1>1. req = [x \in Requests |-> req[x]] /\ req' = [req EXCEPT ![r] = p]
  BY DEF FuelInv, Put
<1>2. \A x \in Requests : req'[x] = IF x = r THEN p ELSE req[x]
  BY <1>1
<1>3. \A x \in Requests : GreedyPlan(req'[x])
  BY <1>2 DEF GreedyInv
<1> QED
  BY <1>3 DEF GreedyInv

\* A step outside the placement places nothing.
LEMMA NothingPlaced ==
    ASSUME FuelInv, GreedyInv, NEW r \in Requests, NEW p, Put(r, p),
           p.pc \notin {"place", "begin"}, p.at = 0, p.pc \in Early => p.picked = {}
    PROVE  GreedyInv'
<1>1. GreedyPlan(p)
  BY DEF GreedyPlan
<1> QED
  BY <1>1, GreedyAfter

\* The arithmetic forgotten, nothing is placed.
LEMMA ForgetPlaces ==
    ASSUME NEW q \in Reqs
    PROVE  /\ Forget(q) \in Reqs /\ Forget(q).at = 0 /\ Forget(q).picked = q.picked
           /\ Forget(q).pc = q.pc /\ Forget(q).todo = q.todo
  BY DEF Forget, Reqs

LEMMA SearchingPlaces ==
    ASSUME TypesInv, NEW r \in Requests, NEW l \in Legs
    PROVE  LET p == Searching(r, l)
           IN  /\ p \in Reqs /\ p.at = req[r].at /\ p.picked = req[r].picked
               /\ p.pc = req[r].pc /\ p.todo = req[r].todo
<1>1. Searching(r, l) \in Reqs
  BY SearchingTyped DEF ReqTyped
<1> QED
  BY <1>1 DEF Searching, TypesInv, ReqTyped, Reqs

LEMMA LoadGreedy ==
    ASSUME TypesInv, FuelInv, GreedyInv, NEW r \in Requests,
           ReadStatuses(r) \/ DecideCascade(r) \/ FailTarget(r) \/ LoadLeg(r)
    PROVE  GreedyInv'
<1> DEFINE q == req[r]
<1>1. q \in Reqs /\ q.pc \in {"lookup", "refuels", "failTarget", "load"} /\ q.at = 0
  BY DEF TypesInv, ReqTyped, ReadStatuses, DecideCascade, FailTarget, LoadLeg, At,
         GreedyInv, GreedyPlan
<1>2. Idle.at = 0 /\ Idle.pc = "idle"
  BY DEF Idle
<1>3. "idle" \notin Early /\ "load" \notin Early /\ "refuels" \notin Early
      /\ "failTarget" \notin Early /\ "settle" \notin Early /\ "clear" \notin Early
  BY DEF Early
<1>4. CASE ReadStatuses(r)
  <2> DEFINE l == q.target
             x == [q EXCEPT !.pc = "load", !.todo = <<l>>]
             y == [q EXCEPT !.pc = "refuels",
                     !.seen = [k \in Legs |-> IF k < l THEN status[k] ELSE "none"]]
  <2>1. Put(r, x) \/ Put(r, y)
    BY <1>4 DEF ReadStatuses
  <2>2. x.pc = "load" /\ x.at = 0 /\ y.pc = "refuels" /\ y.at = 0
    BY <1>1 DEF Reqs
  <2> HIDE DEF x, y
  <2> QED
    BY <1>3, <2>1, <2>2, NothingPlaced
<1>5. CASE DecideCascade(r)
  <2> DEFINE l == q.target
             plan == LegsNeedingSourcingBefore(1..(l - 1), q.seen)
             x == [q EXCEPT !.pc = "failTarget", !.seen = Idle.seen]
             y == [q EXCEPT !.pc = "load", !.seen = Idle.seen,
                            !.todo = InOrder(plan.toSource \cup {l})]
  <2>1. Put(r, x) \/ Put(r, y)
    BY <1>5 DEF DecideCascade
  <2>2. x.pc = "failTarget" /\ x.at = 0 /\ y.pc = "load" /\ y.at = 0
    BY <1>1 DEF Reqs
  <2> HIDE DEF x, y
  <2> QED
    BY <1>3, <2>1, <2>2, NothingPlaced
<1>6. CASE FailTarget(r)
  <2>1. Put(r, Idle)
    BY <1>6 DEF FailTarget
  <2> QED
    BY <1>2, <1>3, <2>1, NothingPlaced
<1>7. CASE LoadLeg(r)
  <2> DEFINE rt == route[Now(r)]
             begin == [q EXCEPT !.grounded = FALSE, !.picked = {}, !.keep = {}]
             x == [begin EXCEPT !.pc = "settle", !.outcome = "none"]
             y == [begin EXCEPT !.pc = "clear", !.outcome = "ready"]
             z == [begin EXCEPT !.pc = "compute", !.leg = rt]
  <2>1. Put(r, x) \/ Put(r, y) \/ Put(r, z)
    BY <1>7 DEF LoadLeg
  <2>2. /\ x.pc = "settle" /\ x.at = 0 /\ y.pc = "clear" /\ y.at = 0
        /\ z.pc = "compute" /\ z.at = 0 /\ z.picked = {}
    BY <1>1 DEF Reqs
  <2> HIDE DEF x, y, z
  <2> QED
    BY <1>3, <2>1, <2>2, NothingPlaced
<1> QED
  BY <1>4, <1>5, <1>6, <1>7

LEMMA SourceGreedy ==
    ASSUME TypesInv, FuelInv, GreedyInv, NEW r \in Requests,
           \/ MarkComputing(r) \/ ReadTank(r) \/ ReadDefaultVehicle(r) \/ WalkBack(r)
           \/ LookAhead(r) \/ SearchLeg(r) \/ SearchThrows(r)
    PROVE  GreedyInv'
<1> DEFINE q == req[r]
<1>1. q.pc \in Early \cup {"clear", "settle"} /\ (~SearchThrows(r) => q.pc \in Early)
  BY DEF MarkComputing, ReadTank, ReadDefaultVehicle, WalkBack, LookAhead, SearchLeg, SearchThrows,
         InTry, At, Early
<1>2. /\ ReqTyped(q) /\ Now(r) \in Legs /\ q \in Reqs
      /\ q.pc \in Early => q.leg \in RouteRecords
  BY <1>1, NowIsADay DEF Early, Holding, HasLeg, ReqTyped
<1>3. q.at = 0 /\ (q.pc \in Early => q.picked = {})
  BY <1>1 DEF Early, GreedyInv, GreedyPlan
<1>11. /\ MarkComputing(r) \/ ReadTank(r) \/ ReadDefaultVehicle(r) \/ WalkBack(r) => q.pc \in Early
       /\ LookAhead(r) \/ SearchLeg(r) => q.pc \in Early
  BY DEF MarkComputing, ReadTank, ReadDefaultVehicle, WalkBack, LookAhead, SearchLeg, At, Early
<1>4. "fail" \notin Early /\ "clear" \notin Early
  BY DEF Early
<1>5. CASE MarkComputing(r)
  <2>1. Put(r, [q EXCEPT !.pc = "vehicle"])
    BY <1>5 DEF MarkComputing, Go
  <2> DEFINE x == [q EXCEPT !.pc = "vehicle"]
  <2>2. x.pc = "vehicle" /\ x.at = 0 /\ x.picked = {}
    BY <1>2, <1>3, <1>5, <1>11 DEF Reqs
  <2> HIDE DEF x
  <2> QED
    BY <2>1, <2>2, NothingPlaced DEF x
<1>6. CASE ReadTank(r)
  <2> DEFINE x == [Forget(q) EXCEPT !.pc = "fail"]
             y == [q EXCEPT !.pc = "walk", !.range = range, !.anchor = declared]
  <2>1. Put(r, x) \/ Put(r, y)
    BY <1>6 DEF ReadTank
  <2>2. x.pc = "fail" /\ x.at = 0
    BY <1>2, ForgetPlaces DEF Reqs
  <2>3. y.pc = "walk" /\ y.at = 0 /\ y.picked = {}
    BY <1>2, <1>3, <1>6, <1>11 DEF Reqs
  <2> HIDE DEF x, y
  <2> QED
    BY <1>4, <2>1, <2>2, <2>3, NothingPlaced
<1>7. CASE WalkBack(r)
  <2> DEFINE x == [q EXCEPT !.pc = "ahead", !.burn = BurnAtStart(Now(r), q.range, q.anchor),
                            !.grounded = \/ q.alone = opens
                                         \/ \A k \in 1..(Now(r) - 1) : Firm(k)]
  <2>1. Put(r, x)
    BY <1>7 DEF WalkBack
  <2>2. x.pc = "ahead" /\ x.at = 0 /\ x.picked = {}
    BY <1>2, <1>3, <1>7, <1>11 DEF Reqs
  <2> HIDE DEF x
  <2> QED
    BY <2>1, <2>2, NothingPlaced
<1>8. CASE LookAhead(r)
  <2> DEFINE look == DayToLookAt(r)
             rec == IF look = {} THEN q ELSE Searching(r, Min(look))
             reserve == IF look = {} THEN 0
                        ELSE LET k == Min(look)
                             IN  FuelNeededAtLegStart(route[k].km, StationsFound(rec, k), rec.range)
             x == [Forget(rec) EXCEPT !.pc = "clear", !.outcome = "ready", !.leg = rec.leg]
             y == [rec EXCEPT !.pc = "search", !.reserve = reserve]
  <2>1. Put(r, x) \/ Put(r, y)
    BY <1>8 DEF LookAhead
  <2>2. rec \in Reqs /\ rec.at = 0 /\ rec.picked = {}
    <3>1. look # {} => Min(look) \in Legs
      BY LookType
    <3> HIDE DEF look
    <3> QED
      BY <1>2, <1>3, <1>8, <1>11, <3>1, SearchingPlaces
  <2> HIDE DEF rec, reserve
  <2>3. x.pc = "clear" /\ x.at = 0
    BY <2>2, ForgetPlaces DEF Reqs
  <2>4. y.pc = "search" /\ y.at = 0 /\ y.picked = {}
    BY <2>2 DEF Reqs
  <2> HIDE DEF x, y
  <2> QED
    BY <1>4, <2>1, <2>3, <2>4, NothingPlaced
<1>9. CASE SearchLeg(r)
  <2> DEFINE rec == Searching(r, Now(r))
             x == [rec EXCEPT !.pc = "place"]
  <2>1. Put(r, x)
    BY <1>9 DEF SearchLeg
  <2>2. ReqTyped(rec) /\ rec.leg = q.leg
    BY <1>2, SearchingTyped
  <2>8. q.picked = {} /\ q.leg \in RouteRecords
    BY <1>2, <1>3, <1>9, <1>11
  <2>3. rec \in Reqs /\ rec.at = 0 /\ rec.picked = {} /\ rec.todo = q.todo
    BY <1>2, <1>3, <2>8, SearchingPlaces
  <2> HIDE DEF rec
  <2>4. ReqTyped(x)
    BY <2>2, <2>8, GoTyped DEF Steps
  <2>5. x.pc = "place" /\ x.at = 0 /\ x.picked = {} /\ x.leg = q.leg /\ x.todo = q.todo
    BY <2>2, <2>3 DEF Reqs
  <2> HIDE DEF x
  <2>6. Head(x.todo) \in Legs
    BY <1>2, <2>5 DEF Now
  <2>7. GreedyPlan(x)
    BY <2>4, <2>5, <2>6, <2>8, GreedyStarts DEF GreedyPlan
  <2> QED
    BY <2>1, <2>7, GreedyAfter
<1>10. CASE SearchThrows(r)
  <2> DEFINE x == [Forget(q) EXCEPT !.pc = "fail"]
  <2>1. Put(r, x)
    BY <1>10 DEF SearchThrows
  <2>2. x.pc = "fail" /\ x.at = 0
    BY <1>2, ForgetPlaces DEF Reqs
  <2> HIDE DEF x
  <2> QED
    BY <1>4, <2>1, <2>2, NothingPlaced
<1>12. CASE ReadDefaultVehicle(r)
  <2> DEFINE x == [Forget(q) EXCEPT !.pc = "fail", !.pure = FALSE]
             y(km) == [q EXCEPT !.pc = "walk", !.range = km, !.anchor = declared, !.pure = FALSE]
  <2>1. PICK km : Put(r, x) \/ Put(r, y(km))
    BY <1>12, Zenon DEF ReadDefaultVehicle
  <2>2. x.pc = "fail" /\ x.at = 0
    BY <1>2, ForgetPlaces DEF Reqs
  <2>3. y(km).pc = "walk" /\ y(km).at = 0 /\ y(km).picked = {}
    BY <1>2, <1>3, <1>12, <1>11 DEF Reqs
  <2> HIDE DEF x, y
  <2> QED
    BY <1>4, <2>1, <2>2, <2>3, NothingPlaced
<1> QED
  BY <1>5, <1>6, <1>7, <1>8, <1>9, <1>10, <1>12

LEMMA PlaceGreedy ==
    ASSUME TypesInv, FuelInv, GreedyInv, NEW r \in Requests, Place(r)
    PROVE  GreedyInv'
<1> DEFINE q == req[r]
           found == StationsFound(q, Head(q.todo))
           safe == SafeStations(q.leg.km, found, q.range, q.burn, q.at)
<1>1. q.pc = "place"
  BY DEF Place, TankStateInvalid, PlanComplete, PlaceStop, PlanGap, Round, At
<1>2. ReqTyped(q) /\ Head(q.todo) \in Legs /\ q.leg \in RouteRecords /\ q \in Reqs
  BY <1>1, NowIsADay DEF Holding, HasLeg, ReqTyped, Now
<1>3. GreedySoFar(q)
  BY <1>1 DEF GreedyInv, GreedyPlan
<1>4. /\ q.leg.km \in Nat /\ found \in SUBSET Nat
      /\ q.range \in Nat /\ q.burn \in Nat /\ q.reserve \in Nat /\ q.at \in Nat
  BY <1>2, ArithmeticTypes
<1>5. /\ PlanInput(r).km = q.leg.km /\ PlanInput(r).reserve = q.reserve
      /\ PlanInput(r).range = q.range /\ PlanInput(r).burn = q.burn /\ PlanInput(r).at = q.at
      /\ Safe(PlanInput(r)) = safe
  BY DEF PlanInput, Safe, Now
<1>6. CASE TankStateInvalid(r) \/ PlanGap(r)
  <2> DEFINE x == [Forget(q) EXCEPT !.pc = "fail"]
             y == [Forget(q) EXCEPT !.pc = "fail", !.picked = {}]
             z == [Forget(q) EXCEPT !.pc = "clear", !.picked = {}, !.outcome = "no_stations_found"]
  <2>1. Put(r, x) \/ Put(r, y) \/ Put(r, z)
    BY <1>6 DEF TankStateInvalid, PlanGap
  <2>2. /\ x.pc = "fail" /\ x.at = 0 /\ y.pc = "fail" /\ y.at = 0
        /\ z.pc = "clear" /\ z.at = 0
    BY <1>2, ForgetPlaces DEF Reqs
  <2>3. "fail" \notin Early /\ "clear" \notin Early
    BY DEF Early
  <2> HIDE DEF x, y, z
  <2> QED
    BY <2>1, <2>2, <2>3, NothingPlaced
<1>7. CASE PlanComplete(r)
  <2> DEFINE x == [q EXCEPT !.pc = "begin", !.outcome = "ready"]
  <2>1. Put(r, x)
    BY <1>7 DEF PlanComplete
  <2>2. /\ x.pc = "begin" /\ x.at = q.at /\ x.picked = q.picked /\ x.leg = q.leg
        /\ x.range = q.range /\ x.burn = q.burn /\ x.reserve = q.reserve
        /\ x.todo = q.todo /\ x.known = q.known
    BY <1>2 DEF Reqs
  <2>3. EndInReach(q.leg.km, q.reserve, q.range, q.burn, q.at) \/ safe = {}
    BY <1>5, <1>7 DEF PlanComplete
  <2>4. ASSUME NEW at \in SUBSET StationsOf(q), DrivesOn(q, at)
        PROVE  EndInReach(q.leg.km, q.reserve, q.range, q.burn, q.at)
    <3>1. SUFFICES ASSUME ~EndInReach(q.leg.km, q.reserve, q.range, q.burn, q.at) PROVE FALSE
      OBVIOUS
    <3>2. at \in SUBSET OnLeg(q.leg.km, found) /\ Drivable(q.leg.km, q.reserve, q.range, q.burn, at)
      BY <2>4 DEF StationsOf, DrivesOn
    <3>3. \E s \in at : s \in safe
      <4> HIDE DEF q, found
      <4> QED
        BY <1>4, <3>1, <3>2, StationAhead
    <3> QED
      BY <2>3, <3>1, <3>3
  <2> HIDE DEF x, q
  <2>5. /\ StationsOf(x) = StationsOf(q) /\ \A at : DrivesOn(x, at) <=> DrivesOn(q, at)
    BY <2>2 DEF StationsOf, StationsFound, DrivesOn
  <2>6. GreedySoFar(x)
    BY <1>3, <2>2, <2>5 DEF GreedySoFar
  <2>7. ReachesOn(x)
    BY <2>2, <2>4, <2>5 DEF ReachesOn
  <2>8. GreedyPlan(x)
    BY <1>2, <2>2, <2>6, <2>7 DEF GreedyPlan, Early
  <2> QED
    BY <2>1, <2>8, GreedyAfter
<1>8. CASE PlaceStop(r)
  <2> DEFINE x == [q EXCEPT !.at = Choose(safe), !.picked = @ \cup {Choose(safe)}]
  <2>1. Put(r, x) /\ safe # {} /\ ~EndInReach(q.leg.km, q.reserve, q.range, q.burn, q.at)
    BY <1>5, <1>8 DEF PlaceStop
  <2>2. Choose(safe) \in Nat
    <3>1. Choose(safe) \in found
      <4> HIDE DEF q, found
      <4> QED
        BY <1>4, <2>1, FarthestIsSafe
    <3> QED
      BY <1>4, <3>1
  <2>3. /\ x \in Reqs /\ x.pc = "place" /\ x.at = Choose(safe) /\ x.picked = q.picked \cup {x.at}
        /\ x.leg = q.leg /\ x.range = q.range /\ x.burn = q.burn /\ x.reserve = q.reserve
        /\ x.todo = q.todo /\ x.known = q.known /\ x.victims = q.victims
    BY <1>1, <1>2, <2>2 DEF Reqs
  <2> HIDE DEF x
  <2>4. ReqTyped(x)
    <3>1. IsFiniteSet(x.picked)
      BY <1>2, <2>3, FS_AddElement DEF ReqTyped
    <3> QED
      BY <1>2, <2>3, <3>1 DEF ReqTyped
  <2>5. GreedySoFar(x)
    <3> HIDE DEF q
    <3> QED
      BY <1>2, <1>3, <2>1, <2>3, <2>4, GreedyGoesOn
  <2>6. GreedyPlan(x)
    BY <2>3, <2>5 DEF GreedyPlan, Early
  <2> QED
    BY <2>1, <2>6, GreedyAfter
<1> QED
  BY <1>6, <1>7, <1>8 DEF Place

LEMMA StoreGreedy ==
    ASSUME TypesInv, FuelInv, GreedyInv, NEW r \in Requests,
           \/ BeginStore(r) \/ DeleteOptions(r) \/ CommitStore(r) \/ ClearStops(r)
           \/ Settle(r) \/ FailLeg(r) \/ Killed(r)
    PROVE  GreedyInv'
<1> DEFINE q == req[r]
<1>1. q \in Reqs
  BY DEF TypesInv, ReqTyped
<1>2. Idle.at = 0 /\ Idle.pc = "idle"
  BY DEF Idle
<1>3. /\ "idle" \notin Early /\ "load" \notin Early /\ "delete" \notin Early
      /\ "commit" \notin Early /\ "settle" \notin Early /\ "failTarget" \notin Early
  BY DEF Early
<1>4. CASE BeginStore(r)
  <2> DEFINE x == [Forget(q) EXCEPT !.pc = "delete",
                     !.keep = {s.km : s \in {y \in stops[Now(r)] : y.state = "selected"}}]
  <2>1. Put(r, x)
    BY <1>4 DEF BeginStore
  <2>2. x.pc = "delete" /\ x.at = 0
    BY <1>1, ForgetPlaces DEF Reqs
  <2> HIDE DEF x
  <2> QED
    BY <1>3, <2>1, <2>2, NothingPlaced
<1>5. q.pc \in {"delete", "commit", "clear", "settle", "fail"} => q.at = 0
  BY DEF GreedyInv, GreedyPlan
<1>6. CASE DeleteOptions(r)
  <2> DEFINE x == [q EXCEPT !.pc = "commit", !.victims = OptionStops(Now(r))]
  <2>1. Put(r, x) /\ q.at = 0
    BY <1>5, <1>6 DEF DeleteOptions, At
  <2>2. x.pc = "commit" /\ x.at = 0
    BY <1>1, <2>1 DEF Reqs
  <2> HIDE DEF x
  <2> QED
    BY <1>3, <2>1, <2>2, NothingPlaced
<1>7. CASE CommitStore(r)
  <2> DEFINE x == [q EXCEPT !.pc = "settle", !.victims = {}]
  <2>1. Put(r, x) /\ q.at = 0
    BY <1>5, <1>7 DEF CommitStore, At
  <2>2. x.pc = "settle" /\ x.at = 0
    BY <1>1, <2>1 DEF Reqs
  <2> HIDE DEF x
  <2> QED
    BY <1>3, <2>1, <2>2, NothingPlaced
<1>8. CASE ClearStops(r)
  <2> DEFINE x == [q EXCEPT !.pc = "settle"]
  <2>1. Put(r, x) /\ q.at = 0
    BY <1>5, <1>8 DEF ClearStops, At, Go
  <2>2. x.pc = "settle" /\ x.at = 0
    BY <1>1, <2>1 DEF Reqs
  <2> HIDE DEF x
  <2> QED
    BY <1>3, <2>1, <2>2, NothingPlaced
<1>9. CASE Settle(r)
  <2> DEFINE x == [q EXCEPT !.pc = "load", !.todo = Tail(@), !.leg = None]
  <2>1. (Put(r, x) \/ Put(r, Idle)) /\ q.at = 0
    BY <1>5, <1>9 DEF Settle, At
  <2>2. x.pc = "load" /\ x.at = 0
    BY <1>1, <2>1 DEF Reqs
  <2> HIDE DEF x
  <2> QED
    BY <1>2, <1>3, <2>1, <2>2, NothingPlaced
<1>10. CASE FailLeg(r)
  <2> DEFINE x == [q EXCEPT !.pc = "failTarget"]
  <2>1. (Put(r, x) \/ Put(r, Idle)) /\ q.at = 0
    BY <1>5, <1>10 DEF FailLeg, At, Go
  <2>2. x.pc = "failTarget" /\ x.at = 0
    BY <1>1, <2>1 DEF Reqs
  <2> HIDE DEF x
  <2> QED
    BY <1>2, <1>3, <2>1, <2>2, NothingPlaced
<1>11. CASE Killed(r)
  <2>1. Put(r, Idle)
    BY <1>11 DEF Killed
  <2> QED
    BY <1>2, <1>3, <2>1, NothingPlaced
<1> QED
  BY <1>4, <1>6, <1>7, <1>8, <1>9, <1>10, <1>11

LEMMA TripGreedy ==
    ASSUME TypesInv, FuelInv, GreedyInv, DriverOrTurn
    PROVE  GreedyInv'
<1>1. ASSUME NEW r \in Requests, NEW l \in Legs, OpenDay(r, l) \/ ForceDay(r, l)
      PROVE  GreedyInv'
  <2> DEFINE x == [Idle EXCEPT !.pc = "lookup", !.target = l, !.pure = editor.todo = <<>>,
                     !.calm = /\ editor.todo = <<>>
                              /\ \A s \in Requests : At(s, "idle") \/ req[s].calm,
                     !.alone = IF InSight(l) /\ \A s \in Requests : At(s, "idle")
                               THEN opens' ELSE 0]
  <2>1. Put(r, x)
    BY <1>1 DEF OpenDay, ForceDay, BeginOpen
  <2>2. x.pc = "lookup" /\ x.at = 0
    BY DEF Idle
  <2>3. "lookup" \notin Early
    BY DEF Early
  <2> HIDE DEF x
  <2> QED
    BY <2>1, <2>2, <2>3, NothingPlaced
<1>2. ASSUME NEW q \in Reqs, GreedyPlan(q), NEW pure \in BOOLEAN, NEW calm \in BOOLEAN,
             NEW x, x = [q EXCEPT !.pure = pure, !.calm = calm]
      PROVE  GreedyPlan(x)
  <2>1. /\ x.pc = q.pc /\ x.at = q.at /\ x.picked = q.picked /\ x.leg = q.leg
        /\ x.range = q.range /\ x.burn = q.burn /\ x.reserve = q.reserve
        /\ x.todo = q.todo /\ x.known = q.known
    BY <1>2 DEF Reqs
  <2>2. /\ StationsOf(x) = StationsOf(q) /\ \A at : DrivesOn(x, at) <=> DrivesOn(q, at)
    BY <2>1 DEF StationsOf, StationsFound, DrivesOn
  <2>3. /\ GreedySoFar(q) => GreedySoFar(x)
        /\ ReachesOn(q) => ReachesOn(x)
    BY <2>1, <2>2 DEF GreedySoFar, ReachesOn
  <2> QED
    BY <1>2, <2>1, <2>3 DEF GreedyPlan
<1>10. \A r \in Requests : req[r] \in Reqs /\ GreedyPlan(req[r])
  BY DEF TypesInv, ReqTyped, GreedyInv
<1>11. ASSUME NEW kind, NEW legs, Alter(kind, legs)
       PROVE  GreedyInv'
  <2>1. \A r \in Requests : req'[r] = [req[r] EXCEPT !.pure = FALSE, !.calm = FALSE]
    BY <1>11 DEF Alter
  <2> QED
    BY <1>2, <1>10, <2>1 DEF GreedyInv
<1>12. ASSUME NEW l, NEW s, SelectStop(l, s)
       PROVE  GreedyInv'
  <2>1. PICK planned \in BOOLEAN :
           req' = [r \in Requests |-> [req[r] EXCEPT !.pure = @ /\ planned]]
    BY <1>12, SelectIs
  <2>2. ASSUME NEW r \in Requests PROVE GreedyPlan(req'[r])
    <3> DEFINE q == req[r]
    <3>1. /\ q \in Reqs /\ GreedyPlan(q) /\ req'[r] = [q EXCEPT !.pure = @ /\ planned]
      BY <1>10, <2>1
    <3> HIDE DEF q
    <3> DEFINE pure == q.pure /\ planned
               calm == q.calm
    <3>2. pure \in BOOLEAN /\ calm \in BOOLEAN
      BY <3>1 DEF Reqs
    <3>3. req'[r] = [q EXCEPT !.pure = pure, !.calm = calm]
      BY <3>1 DEF Reqs
    <3> HIDE DEF pure, calm
    <3> QED
      BY <1>2, <3>1, <3>2, <3>3
  <2> QED
    BY <2>2 DEF GreedyInv
<1>3. ASSUME UNCHANGED req PROVE GreedyInv'
  BY <1>3 DEF GreedyInv
<1>4. CASE \E l \in Legs : CacheExpires(l)
  BY <1>3, <1>4 DEF CacheExpires
<1>5. CASE \E l \in Legs, rt \in NewRoutes : RerouteLeg(l, rt)
  BY <1>5, <1>11 DEF RerouteLeg
<1>6. CASE \E km \in Ranges : AssignVehicle(km) \/ EditVehicle(km)
  BY <1>6, <1>11 DEF AssignVehicle, EditVehicle
<1>7. CASE \E l \in Legs, km \in Declarable : DeclareFuelState(l, km)
  BY <1>7, <1>11 DEF DeclareFuelState
<1>13. CASE \E l \in Legs : AddOrDropStop(l)
  BY <1>11, <1>13 DEF AddOrDropStop
<1>8. CASE \E l \in Legs : \E s \in stops[l] : DismissStop(l, s) \/ SelectStop(l, s)
  <2>1. PICK l \in Legs : \E s \in stops[l] : DismissStop(l, s) \/ SelectStop(l, s)
    BY <1>8
  <2> QED
    BY <1>11, <1>12, <2>1 DEF DismissStop
<1>9. CASE InvalidateStops \/ InvalidateStatus
  BY <1>3, <1>9 DEF InvalidateStops, InvalidateStatus
<1> QED
  BY <1>1, <1>4, <1>5, <1>6, <1>7, <1>8, <1>9, <1>13 DEF DriverOrTurn

LEMMA GreedyStep == TypesInv /\ FuelInv /\ GreedyInv /\ [Next]_vars => GreedyInv'
<1> SUFFICES ASSUME TypesInv, FuelInv, GreedyInv, [Next]_vars PROVE GreedyInv'
  OBVIOUS
<1>1. CASE \E r \in Requests : Place(r)
  BY <1>1, PlaceGreedy
<1>2. ASSUME NEW r \in Requests, Work(r) PROVE GreedyInv'
  BY <1>2, LoadGreedy, SourceGreedy, StoreGreedy DEF Work
<1>3. CASE DriverOrTurn
  BY <1>3, TripGreedy
<1>4. CASE UNCHANGED vars
  BY <1>4 DEF vars, GreedyInv
<1> QED
  BY <1>1, <1>2, <1>3, <1>4 DEF Next

LEMMA GreedyInit == Init => GreedyInv
<1> SUFFICES ASSUME Init PROVE GreedyInv
  OBVIOUS
<1>1. Idle.at = 0 /\ Idle.pc = "idle"
  BY DEF Idle
<1>2. GreedyPlan(Idle)
  BY <1>1 DEF GreedyPlan, Early
<1> QED
  BY <1>2 DEF Init, GreedyInv

\* A greedy plan is the shortest that gets on to the next day's fuel, if one does.
LEMMA GreedyIsFewest == TypesInv /\ FuelInv /\ GreedyInv => FewestStopsThatReachTomorrow
<1> SUFFICES ASSUME TypesInv, FuelInv, GreedyInv, NEW r \in Requests, At(r, "begin"),
                    NEW at \in SUBSET OnLeg(PlanInput(r).km, PlanInput(r).stations),
                    Drivable(PlanInput(r).km, PlanInput(r).reserve, PlanInput(r).range,
                             PlanInput(r).burn, at)
             PROVE  /\ Drivable(PlanInput(r).km, PlanInput(r).reserve, PlanInput(r).range,
                                PlanInput(r).burn, req[r].picked)
                    /\ Cardinality(req[r].picked) <= Cardinality(at)
  BY DEF FewestStopsThatReachTomorrow
<1>1. PICK q : q = req[r]
  OBVIOUS
<1>2. /\ q.pc = "begin" /\ q.leg \in RouteRecords /\ GreedySoFar(q) /\ ReachesOn(q)
      /\ ReqTyped(q) /\ Head(q.todo) \in Legs
  BY <1>1, NowIsADay DEF At, GreedyInv, GreedyPlan, Holding, Now
<1> DEFINE found == StationsFound(q, Head(q.todo))
<1>3. /\ q.leg.km \in Nat /\ found \in SUBSET Nat
      /\ q.range \in Nat /\ q.burn \in Nat /\ q.reserve \in Nat /\ q.at \in Nat
  BY <1>2, ArithmeticTypes
<1>4. /\ PlanInput(r).km = q.leg.km /\ PlanInput(r).reserve = q.reserve
      /\ PlanInput(r).range = q.range /\ PlanInput(r).burn = q.burn
      /\ PlanInput(r).stations = found
  BY <1>1 DEF PlanInput, Now
<1>5. at \in SUBSET StationsOf(q) /\ DrivesOn(q, at)
  BY <1>4 DEF StationsOf, DrivesOn
<1>6. EndInReach(q.leg.km, q.reserve, q.range, q.burn, q.at)
  BY <1>2, <1>5 DEF ReachesOn
<1>7. /\ q.picked \in SUBSET OnLeg(q.leg.km, found) /\ q.at \in {0} \cup q.picked
      /\ \A s \in q.picked : s <= q.at
      /\ \A p \in {0} \cup q.picked :
             p < q.at => \E s \in q.picked : p < s /\ s - p <= Reach(q.range, q.burn, p)
      /\ Cardinality(q.picked) <= Cardinality({s \in at : s <= q.at})
  BY <1>2, <1>5 DEF GreedySoFar, StationsOf
<1>8. Drivable(q.leg.km, q.reserve, q.range, q.burn, q.picked)
  <2> HIDE DEF found
  <2> QED
    BY <1>3, <1>6, <1>7, ChainIsDriven
<1>9. Cardinality(q.picked) <= Cardinality(at)
  <2>1. IsFiniteSet(at)
    <3>1. at \in SUBSET OnLeg(q.leg.km, found)
      BY <1>5 DEF StationsOf
    <3> HIDE DEF found
    <3> QED
      BY <1>3, <3>1, OnLegIsFinite
  <2>2. PICK passed : passed = {s \in at : s <= q.at}
    OBVIOUS
  <2>3. passed \in SUBSET at /\ IsFiniteSet(q.picked)
    BY <1>2, <2>2 DEF ReqTyped
  <2>4. Cardinality(passed) <= Cardinality(at) /\ IsFiniteSet(passed)
    BY ONLY <2>1, <2>3, FS_Subset
  <2>5. Cardinality(passed) \in Nat /\ Cardinality(at) \in Nat /\ Cardinality(q.picked) \in Nat
    BY <2>1, <2>3, <2>4, FS_CardinalityType
  <2>6. Cardinality(q.picked) <= Cardinality(passed)
    BY <1>7, <2>2
  <2> QED
    BY ONLY <2>4, <2>5, <2>6
<1> QED
  BY <1>1, <1>4, <1>8, <1>9

\* Of all choices of stations that reach the next day's fuel, the plan that is about to be
\* stored has the fewest stops, for every leg, tank, reserve and set of stations (plan.ts:
\* the fewest safe stops).
THEOREM FewestStops == Spec => []FewestStopsThatReachTomorrow
<1>1. Init => TypesInv /\ FuelInv /\ GreedyInv
  BY TypesInit, FuelInit, GreedyInit
<1>2. TypesInv /\ FuelInv /\ GreedyInv /\ [Next]_vars => (TypesInv /\ FuelInv /\ GreedyInv)'
  BY TypesStep, FuelStep, GreedyStep
<1> QED
  BY <1>1, <1>2, GreedyIsFewest, PTL DEF Spec
-----------------------------------------------------------------------------
(* The reference: the greedy stops of a day *)

\* What the placement and the reference place from `at` on, if `from` is what they place
\* from each later place on.
NextStops(i, from, at) ==
    LET safe == SafeStations(i.km, i.stations, i.range, i.burn, at)
    IN  IF EndInReach(i.km, i.reserve, i.range, i.burn, at) \/ safe = {} THEN {}
        ELSE {Choose(safe)} \cup from[Choose(safe)]

DayInputs == [km : Nat, stations : SUBSET Nat, range : Nat, burn : Nat, reserve : Nat]

IsGreedy(i, from, n) ==
    /\ from = [at \in n .. i.km |-> from[at]]
    /\ \A at \in n .. i.km : from[at] = NextStops(i, from, at)

\* A station in reach lies ahead, on the leg.
LEMMA NextIsAhead ==
    ASSUME NEW i \in DayInputs, NEW at \in Nat,
           SafeStations(i.km, i.stations, i.range, i.burn, at) # {}
    PROVE  LET next == Choose(SafeStations(i.km, i.stations, i.range, i.burn, at))
           IN  next \in Nat /\ at < next /\ next <= i.km /\ next \in i.stations
<1>1. i.km \in Nat /\ i.stations \in SUBSET Nat
  BY DEF DayInputs
<1>2. PICK km, stations : km = i.km /\ stations = i.stations
  OBVIOUS
<1> DEFINE safe == SafeStations(km, stations, i.range, i.burn, at)
           next == Choose(safe)
<1>3. safe = SafeStations(i.km, i.stations, i.range, i.burn, at)
  BY <1>2
<1>4. next \in safe
  <2>1. km \in Nat /\ stations \in SUBSET Nat /\ safe # {}
    BY <1>1, <1>2, <1>3
  <2> QED
    BY <2>1, FarthestIsSafe
<1>5. next \in OnLeg(km, stations) /\ at < next
  BY <1>4 DEF SafeStations
<1>6. OnLeg(km, stations) \subseteq 1 .. km /\ OnLeg(km, stations) \subseteq stations
  BY <1>1, <1>2, OnLegIs
<1> HIDE DEF next, safe
<1>7. next \in Nat /\ at < next /\ next <= i.km /\ next \in i.stations
  BY <1>1, <1>2, <1>5, <1>6
<1> QED
  BY <1>3, <1>7 DEF next

\* One kilometre further back.
LEMMA GreedyGoesBack ==
    ASSUME NEW i \in DayInputs, NEW n \in 1 .. i.km, NEW from, IsGreedy(i, from, n)
    PROVE  \E g : IsGreedy(i, g, n - 1)
<1>1. i.km \in Nat /\ n \in Nat /\ n - 1 \in Nat /\ n <= i.km
  BY DEF DayInputs
<1> DEFINE b == NextStops(i, from, n - 1)
           g == [at \in (n - 1) .. i.km |-> IF at = n - 1 THEN b ELSE from[at]]
<1> HIDE DEF b
<1>2. /\ g = [at \in (n - 1) .. i.km |-> g[at]]
      /\ \A at \in n .. i.km : g[at] = from[at]
      /\ g[n - 1] = b
  BY <1>1
<1> HIDE DEF g
<1>3. ASSUME NEW at \in (n - 1) .. i.km PROVE NextStops(i, g, at) = NextStops(i, from, at)
  <2> DEFINE safe == SafeStations(i.km, i.stations, i.range, i.burn, at)
  <2>1. CASE safe = {}
    BY <2>1 DEF NextStops
  <2>2. CASE safe # {}
    <3>1. at \in Nat
      BY <1>1
    <3>2. Choose(safe) \in Nat /\ at < Choose(safe) /\ Choose(safe) <= i.km
      BY <2>2, <3>1, NextIsAhead
    <3> HIDE DEF safe
    <3>3. Choose(safe) \in n .. i.km
      BY <1>1, <3>1, <3>2
    <3>4. g[Choose(safe)] = from[Choose(safe)]
      BY <1>2, <3>3
    <3> QED
      BY <3>4 DEF NextStops, safe
  <2> QED
    BY <2>1, <2>2
<1>4. ASSUME NEW at \in (n - 1) .. i.km PROVE g[at] = NextStops(i, g, at)
  <2>1. CASE at = n - 1
    BY <1>2, <1>3, <2>1 DEF b
  <2>2. CASE at # n - 1
    <3>1. at \in n .. i.km
      BY <1>1, <2>2
    <3> QED
      BY <1>2, <1>3, <3>1 DEF IsGreedy
  <2> QED
    BY <2>1, <2>2
<1> QED
  BY <1>2, <1>4 DEF IsGreedy

LEMMA GreedyExists ==
    ASSUME NEW i \in DayInputs
    PROVE  \E g : IsGreedy(i, g, 0)
<1>1. i.km \in Nat
  BY DEF DayInputs
<1> DEFINE Good == {n \in 0 .. i.km : \E g : IsGreedy(i, g, n)}
<1>2. Good \in SUBSET Nat /\ \A n \in 0 .. i.km : n \in Good <=> \E g : IsGreedy(i, g, n)
  BY <1>1
<1>9. \A n \in Good : n <= i.km
  BY <1>1
<1>3. i.km \in Good
  <2> DEFINE z == [at \in i.km .. i.km |-> {}]
  <2>1. z = [at \in i.km .. i.km |-> z[at]] /\ \A at \in i.km .. i.km : z[at] = {}
    OBVIOUS
  <2> HIDE DEF z
  <2>2. ASSUME NEW at \in i.km .. i.km PROVE z[at] = NextStops(i, z, at)
    <3>1. at = i.km /\ at \in Nat
      BY <1>1
    <3>2. SafeStations(i.km, i.stations, i.range, i.burn, at) = {}
      <4>1. SUFFICES ASSUME SafeStations(i.km, i.stations, i.range, i.burn, at) # {} PROVE FALSE
        OBVIOUS
      <4> QED
        BY <3>1, <4>1, NextIsAhead
    <3> QED
      BY <2>1, <3>2 DEF NextStops
  <2>3. IsGreedy(i, z, i.km)
    BY <2>1, <2>2 DEF IsGreedy
  <2> QED
    BY <1>1, <2>3
<1> HIDE DEF Good
<1>4. PICK n \in Good : \A m \in Good : n <= m
  BY <1>2, <1>3, LeastNatural
<1>5. n \in 0 .. i.km
  BY <1>1, <1>2, <1>4, <1>9
<1>6. n = 0
  <2>1. SUFFICES ASSUME n # 0 PROVE FALSE
    OBVIOUS
  <2>2. n \in 1 .. i.km /\ n - 1 \in 0 .. i.km
    BY <1>1, <1>5, <2>1
  <2>3. \E g : IsGreedy(i, g, n)
    BY <1>2, <1>5
  <2>4. \E g : IsGreedy(i, g, n - 1)
    BY <2>2, <2>3, GreedyGoesBack
  <2>5. n - 1 \in Good
    BY <1>2, <2>2, <2>4
  <2> QED
    BY <1>4, <2>2, <2>5
<1> QED
  BY <1>2, <1>5, <1>6

\* The reference places by the planner's rule, from every place on.
LEMMA GreedyFromIs ==
    ASSUME NEW i \in DayInputs
    PROVE  IsGreedy(i, GreedyFrom(i.km, i.stations, i.range, i.burn, i.reserve), 0)
<1> DEFINE reach(at) == IF at = 0 THEN i.range - i.burn ELSE i.range
           safe(at) == {s \in i.stations : at < s /\ s <= i.km /\ s <= at + reach(at)}
           rec(g) == [at \in 0 .. i.km |->
                        IF i.km - at + i.reserve <= reach(at) \/ safe(at) = {} THEN {}
                        ELSE {Max(safe(at))} \cup g[Max(safe(at))]]
           from == CHOOSE g : g = rec(g)
<1>1. /\ i.km \in Nat /\ i.stations \in SUBSET Nat /\ i.range \in Nat /\ i.burn \in Nat
      /\ i.reserve \in Nat
  BY DEF DayInputs
<1>2. GreedyFrom(i.km, i.stations, i.range, i.burn, i.reserve) = from
  BY DEF GreedyFrom
<1>3. ASSUME NEW at \in 0 .. i.km
      PROVE  /\ SafeStations(i.km, i.stations, i.range, i.burn, at) = safe(at)
             /\ EndInReach(i.km, i.reserve, i.range, i.burn, at)
                  <=> i.km - at + i.reserve <= reach(at)
  BY <1>1 DEF SafeStations, OnLeg, Reach, EndInReach
<1>4. ASSUME NEW g, NEW at \in 0 .. i.km
      PROVE  NextStops(i, g, at)
               = IF i.km - at + i.reserve <= reach(at) \/ safe(at) = {} THEN {}
                 ELSE {Max(safe(at))} \cup g[Max(safe(at))]
  <2> HIDE DEF safe, reach
  <2> QED
    BY <1>3 DEF NextStops, Choose
<1> HIDE DEF safe, reach
<1>5. ASSUME NEW g PROVE IsGreedy(i, g, 0) <=> g = rec(g)
  <2>1. IsGreedy(i, g, 0) => g = rec(g)
    BY <1>4 DEF IsGreedy
  <2>2. g = rec(g) => IsGreedy(i, g, 0)
    <3>1. SUFFICES ASSUME g = rec(g) PROVE IsGreedy(i, g, 0)
      OBVIOUS
    <3>2. g = [at \in 0 .. i.km |-> g[at]]
      BY <3>1
    <3>3. \A at \in 0 .. i.km : g[at] = NextStops(i, g, at)
      BY <3>1, <1>4
    <3> QED
      BY <3>2, <3>3 DEF IsGreedy
  <2> QED
    BY <2>1, <2>2
<1>6. PICK g : IsGreedy(i, g, 0)
  BY GreedyExists
<1>7. g = rec(g)
  BY <1>5, <1>6
<1>8. from = rec(from)
  BY <1>7, Zenon
<1> HIDE DEF from, rec
<1> QED
  BY <1>2, <1>5, <1>8

\* What is placed from some place on lies ahead of it, on the leg.
LEMMA GreedyIsAhead ==
    ASSUME NEW i \in DayInputs, NEW from, IsGreedy(i, from, 0), NEW at \in 0 .. i.km
    PROVE  from[at] \subseteq OnLeg(i.km, i.stations)
<1>1. i.km \in Nat /\ i.stations \in SUBSET Nat
  BY DEF DayInputs
<1> DEFINE Bad == {n \in 0 .. i.km : ~ from[i.km - n] \subseteq OnLeg(i.km, i.stations)}
<1>2. Bad \in SUBSET Nat
  BY <1>1
<1>3. \A n \in 0 .. i.km : n \in Bad <=> ~ from[i.km - n] \subseteq OnLeg(i.km, i.stations)
  OBVIOUS
<1>4. Bad \subseteq 0 .. i.km
  OBVIOUS
<1> HIDE DEF Bad
<1>5. Bad = {}
  <2>1. SUFFICES ASSUME Bad # {} PROVE FALSE
    OBVIOUS
  <2>2. PICK n \in Bad : \A m \in Bad : n <= m
    BY <1>2, <2>1, LeastNatural
  <2> DEFINE p == i.km - n
             safe == SafeStations(i.km, i.stations, i.range, i.burn, p)
  <2>3. n \in 0 .. i.km /\ p \in 0 .. i.km /\ p \in Nat
    BY <1>1, <1>4, <2>2
  <2>9. ~ from[p] \subseteq OnLeg(i.km, i.stations)
    BY <1>3, <2>2, <2>3
  <2>4. from[p] = NextStops(i, from, p)
    BY <2>3 DEF IsGreedy
  <2>5. safe # {}
    BY <2>4, <2>9 DEF NextStops
  <2>6. Choose(safe) \in Nat /\ p < Choose(safe) /\ Choose(safe) <= i.km /\ Choose(safe) \in i.stations
    BY <2>3, <2>5, NextIsAhead
  <2> HIDE DEF safe
  <2>7. Choose(safe) \in OnLeg(i.km, i.stations)
    BY <2>3, <2>6 DEF OnLeg
  <2>8. from[Choose(safe)] \subseteq OnLeg(i.km, i.stations)
    <3> DEFINE m == i.km - Choose(safe)
    <3>1. m \in 0 .. i.km /\ m < n /\ i.km - m = Choose(safe)
      BY <1>1, <2>3, <2>6
    <3>2. m \notin Bad
      BY <1>1, <2>2, <2>3, <3>1
    <3> HIDE DEF m
    <3> QED
      BY <1>3, <3>1, <3>2
  <2> QED
    BY <2>4, <2>7, <2>8, <2>9 DEF NextStops, safe
<1>6. i.km - at \in 0 .. i.km /\ i.km - (i.km - at) = at
  BY <1>1
<1> QED
  BY <1>3, <1>5, <1>6

-----------------------------------------------------------------------------
(* The reference: day by day *)

DayBefore(t) == [burn |-> 0, stops |-> {}, warned |-> FALSE, left |-> t.range]

IsReference(f, t, m) ==
    /\ f = [l \in 0 .. m |-> f[l]]
    /\ f[0] = DayBefore(t)
    /\ \A l \in 1 .. m : f[l] = ReferenceDay(t, l, f[l - 1].left)

LEMMA ReferenceGoesOn ==
    ASSUME NEW t, NEW m \in Nat, m # 0, NEW f, IsReference(f, t, m - 1)
    PROVE  \E g : IsReference(g, t, m)
<1> DEFINE b == ReferenceDay(t, m, f[m - 1].left)
           g == [l \in 0 .. m |-> IF l = m THEN b ELSE f[l]]
<1> HIDE DEF b
<1>1. /\ g = [l \in 0 .. m |-> g[l]]
      /\ \A l \in 0 .. (m - 1) : g[l] = f[l]
      /\ g[m] = b
  OBVIOUS
<1> HIDE DEF g
<1>2. g[0] = DayBefore(t)
  BY <1>1 DEF IsReference
<1>3. ASSUME NEW l \in 1 .. m PROVE g[l] = ReferenceDay(t, l, g[l - 1].left)
  <2>1. l - 1 \in 0 .. (m - 1)
    OBVIOUS
  <2>4. g[l - 1] = f[l - 1]
    BY <1>1, <2>1
  <2>2. CASE l = m
    BY <1>1, <2>4, <2>2 DEF b
  <2>3. CASE l # m
    <3>1. l \in 1 .. (m - 1) /\ l \in 0 .. (m - 1)
      BY <2>3
    <3>2. g[l] = f[l]
      BY <1>1, <3>1
    <3> QED
      BY <2>4, <3>1, <3>2 DEF IsReference
  <2> QED
    BY <2>2, <2>3
<1> QED
  BY <1>1, <1>2, <1>3 DEF IsReference

LEMMA ReferenceExists ==
    ASSUME NEW t
    PROVE  \E f : IsReference(f, t, Days)
<1>1. Days \in Nat
  BY DaysAssumption
<1> DEFINE Bad == {m \in 0 .. Days : ~ \E f : IsReference(f, t, m)}
<1>2. Bad \in SUBSET Nat /\ Bad \subseteq 0 .. Days
  BY <1>1
<1>3. \A m \in 0 .. Days : m \in Bad <=> ~ \E f : IsReference(f, t, m)
  OBVIOUS
<1> HIDE DEF Bad
<1>4. Bad = {}
  <2>1. SUFFICES ASSUME Bad # {} PROVE FALSE
    OBVIOUS
  <2>2. PICK m \in Bad : \A n \in Bad : m <= n
    BY <1>2, <2>1, LeastNatural
  <2>3. m # 0
    <3> DEFINE z == [l \in 0 .. 0 |-> DayBefore(t)]
    <3>1. z = [l \in 0 .. 0 |-> z[l]] /\ z[0] = DayBefore(t)
      OBVIOUS
    <3> HIDE DEF z
    <3>2. IsReference(z, t, 0)
      BY <3>1 DEF IsReference
    <3> QED
      BY <1>1, <1>3, <2>2, <3>2
  <2>4. m \in Nat /\ m - 1 \in 0 .. Days /\ m - 1 \notin Bad
    BY <1>1, <1>2, <2>2, <2>3
  <2>5. PICK f : IsReference(f, t, m - 1)
    BY <1>3, <2>4
  <2>6. \E g : IsReference(g, t, m)
    BY <2>3, <2>4, <2>5, ReferenceGoesOn
  <2> QED
    BY <1>2, <1>3, <2>2, <2>6
<1> QED
  BY <1>1, <1>3, <1>4

LEMMA ReferenceIs ==
    ASSUME NEW t
    PROVE  IsReference(ReferenceOf(t), t, Days)
<1> DEFINE rec(f) == [l \in 0 .. Days |->
                        IF l = 0 THEN [burn |-> 0, stops |-> {}, warned |-> FALSE, left |-> t.range]
                        ELSE ReferenceDay(t, l, f[l - 1].left)]
           day == CHOOSE f : f = rec(f)
<1>1. Days \in Nat
  BY DaysAssumption
<1>2. ReferenceOf(t) = day
  BY DEF ReferenceOf
<1>3. ASSUME NEW f PROVE IsReference(f, t, Days) <=> f = rec(f)
  <2>1. IsReference(f, t, Days) => f = rec(f)
    BY <1>1 DEF IsReference, DayBefore
  <2>2. f = rec(f) => IsReference(f, t, Days)
    <3>1. SUFFICES ASSUME f = rec(f) PROVE IsReference(f, t, Days)
      OBVIOUS
    <3>2. f = [l \in 0 .. Days |-> f[l]]
      BY <3>1
    <3>3. f[0] = DayBefore(t)
      BY <1>1, <3>1 DEF DayBefore
    <3>4. \A l \in 1 .. Days : f[l] = ReferenceDay(t, l, f[l - 1].left)
      BY <1>1, <3>1
    <3> QED
      BY <3>2, <3>3, <3>4 DEF IsReference
  <2> QED
    BY <2>1, <2>2
<1>4. PICK f : IsReference(f, t, Days)
  BY ReferenceExists
<1>5. f = rec(f)
  BY <1>3, <1>4
<1>6. day = rec(day)
  BY <1>5, Zenon
<1> HIDE DEF day, rec
<1> QED
  BY <1>2, <1>3, <1>6

\* A trip as the reference reads it.
TripTyped(t) ==
    /\ t.route \in [Legs -> RouteRecords]
    /\ t.range \in Nat
    /\ t.declared \in Declarations \cup {None}
    /\ t.picked \in [Legs -> SUBSET Nat]
    /\ \A l \in Legs : IsFiniteSet(t.picked[l])

DayTyped(t, d) ==
    /\ d.burn \in Nat
    /\ d.stops \in SUBSET Nat /\ IsFiniteSet(d.stops)
    /\ d.left \in Int /\ d.left <= t.range

LEMMA ReserveType ==
    ASSUME NEW t, TripTyped(t), NEW l \in Legs, NEW left
    PROVE  ReferenceReserve(t, l, left) \in Nat
<1> DEFINE later == {k \in Legs : k > l /\ t.route[k].type = "drive" /\ t.route[k].km > 0}
           next == Min(later)
           needed == {t.range, t.route[next].km} \cup {s \in t.route[next].stations : s > 0}
<1>1. ReferenceReserve(t, l, left) \in {0, Min(needed)}
  BY Zenon DEF ReferenceReserve
<1>4. CASE later = {}
  BY <1>4 DEF ReferenceReserve
<1>5. CASE later # {}
  <2>1. next \in Legs
    <3>1. later \in SUBSET Nat
      BY DaysAssumption DEF Legs
    <3>2. later \subseteq Legs
      OBVIOUS
    <3> HIDE DEF later
    <3> QED
      BY <1>5, <3>1, <3>2, MinIsLeast
  <2> HIDE DEF next
  <2>2. t.route[next] \in RouteRecords
    BY <2>1 DEF TripTyped
  <2>3. t.route[next].km \in Nat /\ t.route[next].stations \in SUBSET Nat
    BY <2>2 DEF RouteRecords
  <2>4. needed \in SUBSET Nat /\ needed # {}
    BY <2>3 DEF TripTyped
  <2> HIDE DEF needed
  <2>5. Min(needed) \in Nat
    BY <2>4, MinIsLeast
  <2> QED
    BY <1>1, <2>5
<1> QED
  BY <1>4, <1>5

\* The numbers the greedy stops of a day are computed from.
LEMMA InputsOfADay ==
    ASSUME NEW t, TripTyped(t), NEW l \in Legs, NEW burn \in Nat, NEW reserve \in Nat
    PROVE  LET i == [km |-> t.route[l].km, stations |-> t.route[l].stations,
                     range |-> t.range, burn |-> burn, reserve |-> reserve]
           IN  i \in DayInputs
<1>1. t.route[l] \in RouteRecords /\ t.range \in Nat
  BY DEF TripTyped
<1>2. t.route[l].km \in Nat /\ t.route[l].stations \in SUBSET Nat
  BY <1>1 DEF RouteRecords
<1> QED
  BY <1>1, <1>2 DEF DayInputs

LEMMA GreedyStopsType ==
    ASSUME NEW i \in DayInputs
    PROVE  LET greedy == GreedyStops(i.km, i.stations, i.range, i.burn, i.reserve)
           IN  /\ greedy \subseteq OnLeg(i.km, i.stations) /\ greedy \in SUBSET Nat
               /\ IsFiniteSet(greedy)
<1> DEFINE from == GreedyFrom(i.km, i.stations, i.range, i.burn, i.reserve)
<1>1. i.km \in Nat /\ i.stations \in SUBSET Nat
  BY DEF DayInputs
<1>2. GreedyStops(i.km, i.stations, i.range, i.burn, i.reserve) = from[0]
  BY DEF GreedyStops
<1>3. IsGreedy(i, from, 0)
  BY GreedyFromIs
<1> HIDE DEF from
<1>4. from[0] \subseteq OnLeg(i.km, i.stations)
  BY <1>1, <1>3, GreedyIsAhead
<1> DEFINE greedy == from[0]
           km == i.km
           stations == i.stations
<1>5. km \in Nat /\ stations \in SUBSET Nat /\ greedy \in SUBSET OnLeg(km, stations)
  BY <1>1, <1>4
<1> HIDE DEF greedy, km, stations
<1>6. IsFiniteSet(greedy) /\ greedy \in SUBSET (1 .. km)
  BY <1>5, OnLegIsFinite
<1>7. greedy \in SUBSET Nat
  BY <1>5, <1>6
<1> QED
  BY <1>2, <1>4, <1>6, <1>7 DEF greedy

LEMMA ChosenType ==
    ASSUME NEW S \in SUBSET Nat, IsFiniteSet(S)
    PROVE  Chosen(S) \subseteq S /\ Chosen(S) \in SUBSET Nat /\ IsFiniteSet(Chosen(S))
<1>1. Chosen(S) \in SUBSET S
  BY DEF Chosen
<1>2. IsFiniteSet(Chosen(S))
  BY <1>1, FS_Subset
<1> QED
  BY <1>1, <1>2

\* The parts of a day of the reference.
LeftAt(t, l, leftBefore) ==
    IF t.declared # None /\ t.declared.leg = l THEN Min({t.range, t.declared.km}) ELSE leftBefore

GreedyOf(t, l, left) ==
    GreedyStops(t.route[l].km, t.route[l].stations, t.range, t.range - left,
                ReferenceReserve(t, l, left))

WarnedAt(t, l, left) ==
    /\ t.route[l].ends = "apart"
    /\ ~Drivable(t.route[l].km, 0, t.range, t.range - left, GreedyOf(t, l, left))

StopsAt(t, l, left) ==
    t.picked[l] \cup (IF t.route[l].ends = "apart" /\ ~WarnedAt(t, l, left)
                      THEN Chosen(GreedyOf(t, l, left)) ELSE {})

LeftAfter(t, l, left) ==
    LET at == StopsAt(t, l, left)
    IN  CASE at # {} -> Min({t.range, t.range - (t.route[l].km - Max(at))})
          [] at = {} /\ WarnedAt(t, l, left) -> t.range
          [] at = {} /\ ~WarnedAt(t, l, left) -> left - t.route[l].km

LEMMA DayParts ==
    ASSUME NEW t, NEW l, NEW before
    PROVE  LET left == LeftAt(t, l, before)
               d == ReferenceDay(t, l, before)
           IN  /\ d.burn = t.range - left
               /\ d.stops = StopsAt(t, l, left)
               /\ d.warned = WarnedAt(t, l, left)
               /\ d.left = LeftAfter(t, l, left)
  BY Zenon DEF ReferenceDay, LeftAt, StopsAt, WarnedAt, LeftAfter, GreedyOf

LEMMA MinOfTwo ==
    ASSUME NEW m \in Int, NEW n \in Int
    PROVE  Min({m, n}) = IF m <= n THEN m ELSE n
<1>1. \E x \in {m, n} : \A y \in {m, n} : x <= y
  OBVIOUS
<1>2. Min({m, n}) \in {m, n} /\ \A y \in {m, n} : Min({m, n}) <= y
  BY <1>1, Zenon DEF Min
<1> QED
  BY <1>2

LEMMA LeftType ==
    ASSUME NEW t, TripTyped(t), NEW l \in Legs, NEW before \in Int, before <= t.range
    PROVE  LeftAt(t, l, before) \in Int /\ LeftAt(t, l, before) <= t.range
<1>1. t.range \in Nat
  BY DEF TripTyped
<1>2. CASE t.declared # None /\ t.declared.leg = l
  <2>1. t.declared.km \in Nat
    BY <1>2 DEF TripTyped, Declarations
  <2>2. Min({t.range, t.declared.km}) = IF t.range <= t.declared.km THEN t.range ELSE t.declared.km
    BY <1>1, <2>1, MinOfTwo
  <2> QED
    BY <1>1, <1>2, <2>1, <2>2 DEF LeftAt
<1>3. CASE ~(t.declared # None /\ t.declared.leg = l)
  BY <1>3 DEF LeftAt
<1> QED
  BY <1>2, <1>3

LEMMA DayType ==
    ASSUME NEW t, TripTyped(t), NEW l \in Legs, NEW before \in Int, before <= t.range
    PROVE  DayTyped(t, ReferenceDay(t, l, before))
<1> DEFINE left == LeftAt(t, l, before)
           d == ReferenceDay(t, l, before)
           at == StopsAt(t, l, left)
           greedy == GreedyOf(t, l, left)
<1>1. left \in Int /\ left <= t.range /\ t.range \in Nat
  BY LeftType DEF TripTyped
<1>2. /\ d.burn = t.range - left /\ d.stops = at /\ d.left = LeftAfter(t, l, left)
  BY DayParts
<1> HIDE DEF left, d
<1>3. t.range - left \in Nat
  BY <1>1
<1>4. greedy \in SUBSET Nat /\ IsFiniteSet(greedy)
  <2> DEFINE i == [km |-> t.route[l].km, stations |-> t.route[l].stations, range |-> t.range,
                   burn |-> t.range - left, reserve |-> ReferenceReserve(t, l, left)]
  <2>1. i \in DayInputs
    BY <1>3, ReserveType, InputsOfADay
  <2>2. greedy = GreedyStops(i.km, i.stations, i.range, i.burn, i.reserve)
    BY DEF GreedyOf
  <2> HIDE DEF i, greedy
  <2> QED
    BY <2>1, <2>2, GreedyStopsType
<1>5. at \in SUBSET Nat /\ IsFiniteSet(at)
  <2> HIDE DEF greedy
  <2>1. t.picked[l] \in SUBSET Nat /\ IsFiniteSet(t.picked[l])
    BY DEF TripTyped
  <2>2. Chosen(greedy) \in SUBSET Nat /\ IsFiniteSet(Chosen(greedy))
    BY <1>4, ChosenType
  <2>3. IsFiniteSet(t.picked[l] \cup Chosen(greedy))
    BY <2>1, <2>2, FS_Union
  <2>4. at \in {t.picked[l], t.picked[l] \cup Chosen(greedy)}
    BY DEF StopsAt, greedy
  <2> HIDE DEF at
  <2> QED
    BY <2>1, <2>2, <2>3, <2>4
<1> HIDE DEF at, greedy
<1>6. t.route[l].km \in Nat
  <2>1. t.route[l] \in RouteRecords
    BY DEF TripTyped
  <2> QED
    BY <2>1 DEF RouteRecords
<1>7. LeftAfter(t, l, left) \in Int /\ LeftAfter(t, l, left) <= t.range
  <2>1. CASE at # {}
    <3>5. at \in SUBSET Int
      BY <1>5
    <3>1. Max(at) \in Int
      BY <1>5, <2>1, <3>5, MaxIsGreatest
    <3> DEFINE n == t.range - (t.route[l].km - Max(at))
    <3>2. n \in Int
      BY <1>1, <1>6, <3>1
    <3>3. LeftAfter(t, l, left) = Min({t.range, n})
      BY <2>1 DEF LeftAfter, at
    <3> HIDE DEF n
    <3> QED
      BY <1>1, <3>2, <3>3, MinOfTwo
  <2>2. CASE at = {} /\ WarnedAt(t, l, left)
    BY <1>1, <2>2 DEF LeftAfter, at
  <2>3. CASE at = {} /\ ~WarnedAt(t, l, left)
    <3>1. LeftAfter(t, l, left) = left - t.route[l].km
      BY <2>3 DEF LeftAfter, at
    <3> QED
      BY <1>1, <1>6, <3>1
  <2> QED
    BY <2>1, <2>2, <2>3
<1> QED
  BY <1>2, <1>3, <1>5, <1>7 DEF DayTyped, d

LEMMA ReferenceType ==
    ASSUME NEW t, TripTyped(t), NEW l \in 0 .. Days
    PROVE  DayTyped(t, ReferenceOf(t)[l])
<1> DEFINE f == ReferenceOf(t)
<1>1. IsReference(f, t, Days)
  BY ReferenceIs
<1> HIDE DEF f
<1> DEFINE Bad == {k \in 0 .. Days : ~DayTyped(t, f[k])}
<1>2. Bad \in SUBSET Nat /\ Bad \subseteq 0 .. Days /\ \A k \in 0 .. Days : k \in Bad <=> ~DayTyped(t, f[k])
  BY DaysAssumption
<1> HIDE DEF Bad
<1>3. Bad = {}
  <2>1. SUFFICES ASSUME Bad # {} PROVE FALSE
    OBVIOUS
  <2>2. PICK k \in Bad : \A n \in Bad : k <= n
    BY <1>2, <2>1, LeastNatural
  <2>3. k # 0
    <3>1. SUFFICES ASSUME k = 0 PROVE FALSE
      OBVIOUS
    <3>2. f[0] = DayBefore(t) /\ t.range \in Nat
      BY <1>1 DEF IsReference, TripTyped
    <3>3. DayTyped(t, f[0])
      BY <3>2, FS_EmptySet DEF DayTyped, DayBefore
    <3> QED
      BY <1>2, <2>2, <3>1, <3>3
  <2>4. k \in Legs /\ k - 1 \in 0 .. Days /\ k - 1 \notin Bad
    BY <1>2, <2>2, <2>3, DaysAssumption DEF Legs
  <2>5. DayTyped(t, f[k - 1])
    BY <1>2, <2>4
  <2>6. f[k] = ReferenceDay(t, k, f[k - 1].left)
    BY <1>1, <2>4 DEF IsReference, Legs
  <2>7. DayTyped(t, f[k])
    BY <2>4, <2>5, <2>6, DayType DEF DayTyped
  <2> QED
    BY <1>2, <2>2, <2>7
<1> QED
  BY <1>2, <1>3 DEF f

\* A day of the reference, from the one before.
LEMMA ReferenceAt ==
    ASSUME NEW t, TripTyped(t), NEW l \in Legs
    PROVE  \E left \in Int :
               LET d == ReferenceOf(t)[l]
               IN  /\ left = LeftAt(t, l, ReferenceOf(t)[l - 1].left) /\ left <= t.range
                   /\ d.burn = t.range - left /\ d.burn \in Nat
                   /\ d.stops = StopsAt(t, l, left)
                   /\ d.warned = WarnedAt(t, l, left)
                   /\ d.left = LeftAfter(t, l, left)
<1> DEFINE f == ReferenceOf(t)
           before == f[l - 1].left
<1>1. l - 1 \in 0 .. Days /\ l \in 1 .. Days /\ l \in 0 .. Days
  BY DaysAssumption DEF Legs
<1>2. f[l] = ReferenceDay(t, l, before)
  BY <1>1, ReferenceIs DEF IsReference
<1>3. before \in Int /\ before <= t.range
  BY <1>1, ReferenceType DEF DayTyped
<1>4. f[l].burn \in Nat
  BY <1>1, ReferenceType DEF DayTyped
<1> HIDE DEF f, before
<1> DEFINE left == LeftAt(t, l, before)
<1>5. left \in Int /\ left <= t.range
  BY <1>3, LeftType
<1> HIDE DEF left
<1>6. /\ f[l].burn = t.range - left /\ f[l].stops = StopsAt(t, l, left)
      /\ f[l].warned = WarnedAt(t, l, left) /\ f[l].left = LeftAfter(t, l, left)
  BY <1>2, DayParts DEF left
<1> QED
  BY <1>4, <1>5, <1>6 DEF f, left, before

-----------------------------------------------------------------------------
(* The reference and the tank walk *)

LEMMA PickedType ==
    ASSUME TypesInv, NEW l \in Legs
    PROVE  /\ PickedKm(l) \in SUBSET Nat /\ IsFiniteSet(PickedKm(l))
           /\ PickedKm(l) \subseteq Refuels(l)
<1>1. PickedKm(l) \subseteq Refuels(l)
  BY DEF PickedKm, Refuels
<1>2. Refuels(l) \in SUBSET Nat /\ IsFiniteSet(Refuels(l))
  BY RefuelsType
<1> QED
  BY <1>1, <1>2, FS_Subset

LEMMA TripIsTyped ==
    ASSUME TypesInv, NEW t, t = TripAsItIs
    PROVE  /\ t.route = route /\ t.range = range /\ t.declared = declared
           /\ \A l \in Legs : t.picked[l] = PickedKm(l)
           /\ TripTyped(t)
<1>1. /\ t.route = route /\ t.range = range /\ t.declared = declared
      /\ t.picked = [l \in Legs |-> PickedKm(l)]
  BY DEF TripAsItIs
<1>2. route \in [Legs -> RouteRecords] /\ range \in Nat /\ declared \in Declarations \cup {None}
  BY RouteAssumption, TankAssumption DEF TypesInv, TypeOK
<1>3. \A l \in Legs : PickedKm(l) \in SUBSET Nat /\ IsFiniteSet(PickedKm(l))
  BY PickedType
<1> HIDE DEF PickedKm
<1> DEFINE p == [l \in Legs |-> PickedKm(l)]
<1>4. p \in [Legs -> SUBSET Nat] /\ \A l \in Legs : p[l] = PickedKm(l)
  BY <1>3
<1> HIDE DEF p
<1>5. t.picked = p
  BY <1>1 DEF p
<1> QED
  BY <1>1, <1>2, <1>3, <1>4, <1>5 DEF TripTyped

\* A firm day is the reference's.
LEMMA FirmAgrees ==
    ASSUME TypesInv, PlansAgree, NEW k \in Legs, Firm(k)
    PROVE  /\ Refuels(k) = Reference[k].stops
           /\ (status[k] = "no_stations_found") <=> Reference[k].warned
<1>1. CASE k \in Drives \/ route[k].ends = "apart"
  BY <1>1 DEF Firm, Whole, PlansAgree
<1>2. CASE k \notin Drives /\ route[k].ends # "apart"
  <2>1. OptionStops(k) = {} /\ status[k] # "no_stations_found"
    BY <1>2 DEF Firm, Bare
  <2>2. Refuels(k) = PickedKm(k)
    <3>1. \A s \in stops[k] : s.state \in {"option", "selected", "dismissed"}
      BY DEF TypesInv, TypeOK, Stops
    <3> QED
      BY <2>1, <3>1 DEF OptionStops, Refuels, PickedKm
  <2>3. PICK t : t = TripAsItIs
    OBVIOUS
  <2>4. PICK left \in Int : /\ ReferenceOf(t)[k].stops = StopsAt(t, k, left)
                            /\ ReferenceOf(t)[k].warned = WarnedAt(t, k, left)
    BY <2>3, TripIsTyped, ReferenceAt
  <2>5. t.route[k].ends # "apart" /\ t.picked[k] = PickedKm(k)
    BY <1>2, <2>3, TripIsTyped
  <2> QED
    BY <2>1, <2>2, <2>3, <2>4, <2>5 DEF StopsAt, WarnedAt, Reference
<1> QED
  BY <1>1, <1>2

\* The last of the refuels, if there is one.
LEMMA LastFuelIs ==
    ASSUME NEW S \in SUBSET Nat, IsFiniteSet(S)
    PROVE  /\ S = {} => Max({-1} \cup S) = -1
           /\ S # {} => Max({-1} \cup S) = Max(S) /\ Max(S) \in Nat
<1> DEFINE T == {-1} \cup S
<1>1. T \in SUBSET Int /\ T # {} /\ IsFiniteSet(T)
  BY FS_AddElement
<1>2. \A x \in T : x = -1 \/ x \in S
  OBVIOUS
<1>3. -1 \in T /\ S \subseteq T
  OBVIOUS
<1> HIDE DEF T
<1>4. Max(T) \in T /\ \A x \in T : x <= Max(T)
  BY <1>1, MaxIsGreatest
<1>5. S = {} => Max(T) = -1
  BY <1>2, <1>4
<1>6. ASSUME S # {} PROVE Max(T) = Max(S) /\ Max(S) \in Nat
  <2>1. S \in SUBSET Int
    OBVIOUS
  <2>2. Max(S) \in S /\ \A x \in S : x <= Max(S)
    BY <1>6, <2>1, MaxIsGreatest
  <2>3. Max(S) \in Nat /\ Max(S) <= Max(T)
    BY <1>3, <1>4, <2>2
  <2>4. Max(T) \in S
    BY <1>2, <1>4, <2>3
  <2>5. Max(T) \in Nat /\ Max(T) <= Max(S)
    BY <2>2, <2>4
  <2> QED
    BY <2>3, <2>5
<1> QED
  BY <1>5, <1>6 DEF T

LEMMA DeclaredIs ==
    ASSUME NEW t, TripTyped(t), NEW l, t.declared # None, t.declared.leg = l, NEW before
    PROVE  /\ DeclaredBurn(t.range, t.declared) = t.range - LeftAt(t, l, before)
           /\ DeclaredBurn(t.range, t.declared) \in Nat
<1>1. t.range \in Nat /\ t.declared.km \in Nat
  BY DEF TripTyped, Declarations
<1>2. Min({t.range, t.declared.km}) = IF t.range <= t.declared.km THEN t.range ELSE t.declared.km
  BY <1>1, MinOfTwo
<1> QED
  BY <1>1, <1>2 DEF DeclaredBurn, AtLeastZero, LeftAt

\* What the walk has burned after a day is what the reference has not left.
LEMMA OneDayBurns ==
    ASSUME TypesInv, NEW t, t = TripAsItIs, NEW k \in Legs, NEW before \in Int, before <= range,
           Refuels(k) = StopsAt(t, k, LeftAt(t, k, before)),
           (status[k] = "no_stations_found") <=> WarnedAt(t, k, LeftAt(t, k, before))
    PROVE  BurnAfter(History(k, range, declared), range - before)
             = range - LeftAfter(t, k, LeftAt(t, k, before))
<1> DEFINE h == History(k, range, declared)
           left == LeftAt(t, k, before)
           at == Refuels(k)
           km == route[k].km
<1>1. TripTyped(t) /\ t.route = route /\ t.range = range /\ t.declared = declared
  BY TripIsTyped
<1>2. range \in Nat /\ km \in Nat
  <2>1. route[k] \in RouteRecords
    BY <1>1 DEF TripTyped
  <2> QED
    BY <1>1, <2>1 DEF TripTyped, RouteRecords
<1>3. /\ h.km = km /\ h.lastFuel = Max({-1} \cup at)
      /\ h.declared = IF declared # None /\ declared.leg = k THEN DeclaredBurn(range, declared) ELSE -1
      /\ h.warned = (status[k] = "no_stations_found")
  BY DEF History
<1>4. at \in SUBSET Nat /\ IsFiniteSet(at)
  BY RefuelsType
<1>5. left \in Int /\ left <= range
  BY <1>1, LeftType
<1>6. at = StopsAt(t, k, left) /\ (h.warned <=> WarnedAt(t, k, left))
  BY <1>3
<1>7. declared # None /\ declared.leg = k =>
        DeclaredBurn(range, declared) = range - left /\ DeclaredBurn(range, declared) \in Nat
  BY <1>1, DeclaredIs
<1>8. ~(declared # None /\ declared.leg = k) => left = before
  BY <1>1 DEF LeftAt
<1> HIDE DEF h, left, at, km
<1>9. CASE at # {}
  <2>1. h.lastFuel = Max(at) /\ Max(at) \in Nat
    BY <1>3, <1>4, <1>9, LastFuelIs
  <2>2. LeftAfter(t, k, left) = Min({range, range - (km - Max(at))})
    BY <1>1, <1>6, <1>9 DEF LeftAfter, km
  <2> DEFINE n == range - (km - Max(at))
  <2>3. n \in Int
    BY <1>2, <2>1
  <2>4. Min({range, n}) = IF range <= n THEN range ELSE n
    BY <1>2, <2>3, MinOfTwo
  <2>5. BurnAfter(h, range - before) = AtLeastZero(km - Max(at))
    BY <1>3, <2>1 DEF BurnAfter
  <2> QED
    BY <1>2, <2>1, <2>2, <2>4, <2>5 DEF AtLeastZero, h, left
<1>10. CASE at = {} /\ h.warned
  <2>1. h.lastFuel = -1
    BY <1>3, <1>4, <1>10, LastFuelIs
  <2>2. LeftAfter(t, k, left) = range
    BY <1>1, <1>6, <1>10 DEF LeftAfter
  <2>3. BurnAfter(h, range - before) = 0
    BY <1>10, <2>1 DEF BurnAfter
  <2> QED
    BY <1>2, <2>2, <2>3 DEF h, left
<1>11. CASE at = {} /\ ~h.warned
  <2>1. h.lastFuel = -1
    BY <1>3, <1>4, <1>11, LastFuelIs
  <2>2. LeftAfter(t, k, left) = left - km
    BY <1>1, <1>6, <1>11 DEF LeftAfter, km
  <2>3. CASE declared # None /\ declared.leg = k
    <3>1. BurnAfter(h, range - before) = km + (range - left)
      BY <1>2, <1>3, <1>5, <1>7, <1>11, <2>1, <2>3 DEF BurnAfter
    <3> QED
      BY <1>2, <1>5, <2>2, <3>1 DEF h, left
  <2>4. CASE ~(declared # None /\ declared.leg = k)
    <3>1. BurnAfter(h, range - before) = km + (range - before)
      BY <1>2, <1>3, <1>11, <2>1, <2>4 DEF BurnAfter
    <3> QED
      BY <1>2, <1>5, <1>8, <2>2, <2>4, <3>1 DEF h, left
  <2> QED
    BY <2>3, <2>4
<1> QED
  BY <1>9, <1>10, <1>11

\* On firm days the walk burns what the reference burns.
LEMMA BurnIsReference ==
    ASSUME TypesInv, PlansAgree, NEW l \in Legs, \A k \in 1 .. (l - 1) : Firm(k)
    PROVE  BurnAtStart(l, range, declared) = Reference[l].burn
<1>1. PICK t : t = TripAsItIs
  OBVIOUS
<1>2. TripTyped(t) /\ t.route = route /\ t.range = range /\ t.declared = declared
  BY <1>1, TripIsTyped
<1> DEFINE R == ReferenceOf(t)
<1>3. Reference = R
  BY <1>1 DEF Reference
<1>4. IsReference(R, t, Days)
  BY ReferenceIs
<1>5. \A k \in 0 .. Days : R[k].left \in Int /\ R[k].left <= range
  BY <1>2, ReferenceType DEF DayTyped
<1>6. l \in Nat /\ l - 1 \in Nat /\ 1 .. (l - 1) \subseteq Legs /\ 0 .. (l - 1) \subseteq 0 .. Days
      /\ Legs = 1 .. Days /\ l - 1 \in 0 .. Days /\ Days \in Nat
  BY DaysAssumption DEF Legs
<1>7. PICK left \in Int : /\ left = LeftAt(t, l, R[l - 1].left) /\ R[l].burn = range - left
  BY <1>2, ReferenceAt
<1> HIDE DEF R
<1>8. CASE declared # None /\ declared.leg = l
  <2>1. DeclaredBurn(range, declared) = range - left
    BY <1>2, <1>7, <1>8, DeclaredIs
  <2> QED
    BY <1>3, <1>7, <1>8, <2>1 DEF BurnAtStart
<1>9. CASE ~(declared # None /\ declared.leg = l)
  <2> DEFINE h == [k \in 1 .. (l - 1) |-> History(k, range, declared)]
  <2>1. h \in [1 .. (l - 1) -> LegHistory]
    BY <1>2, <1>6, HistoryType DEF TripTyped
  <2>2. \A k \in 1 .. (l - 1) : h[k] = History(k, range, declared)
    OBVIOUS
  <2>3. BurnAtStart(l, range, declared) = KmBurnedSinceLastRefuel(h)
    BY <1>9 DEF BurnAtStart
  <2> HIDE DEF h
  <2>4. h \in Seq(LegHistory) /\ Len(h) = l - 1
    <3>1. h \in Seq(LegHistory)
      BY <1>6, <2>1, SeqDef
    <3> QED
      BY <1>6, <2>1, <3>1, LenProperties
  <2>5. PICK f : IsWalk(f, h, l - 1) /\ KmBurnedSinceLastRefuel(h) = f[l - 1]
    BY <2>4, KmBurnedIsAWalk
  <2> DEFINE Bad == {k \in 0 .. (l - 1) : f[k] # range - R[k].left}
  <2>6. Bad \in SUBSET Nat /\ Bad \subseteq 0 .. (l - 1)
        /\ \A k \in 0 .. (l - 1) : k \in Bad <=> f[k] # range - R[k].left
    BY <1>6
  <2> HIDE DEF Bad
  <2>7. Bad = {}
    <3>1. SUFFICES ASSUME Bad # {} PROVE FALSE
      OBVIOUS
    <3>2. PICK k \in Bad : \A n \in Bad : k <= n
      BY <2>6, <3>1, LeastNatural
    <3>3. k # 0
      <4>1. f[0] = 0
        BY <2>5 DEF IsWalk
      <4>2. R[0].left = range
        BY <1>2, <1>4 DEF IsReference, DayBefore
      <4>3. 0 \in 0 .. (l - 1) /\ range \in Nat
        BY <1>2, <1>6 DEF TripTyped
      <4> QED
        BY <2>6, <3>2, <4>1, <4>2, <4>3
    <3>4. k \in 1 .. (l - 1) /\ k - 1 \in 0 .. (l - 1) /\ k - 1 \notin Bad /\ k \in Legs
      BY <1>6, <2>6, <3>2, <3>3
    <3> DEFINE before == R[k - 1].left
               now == LeftAt(t, k, before)
    <3>5. f[k] = BurnAfter(h[k], f[k - 1]) /\ f[k - 1] = range - before
      BY <2>5, <2>6, <3>4 DEF IsWalk
    <3>6. before \in Int /\ before <= range
      BY <1>5, <1>6, <3>4
    <3>7. R[k] = ReferenceDay(t, k, before)
      BY <1>4, <1>6, <3>4 DEF IsReference
    <3>8. /\ R[k].stops = StopsAt(t, k, now) /\ R[k].warned = WarnedAt(t, k, now)
          /\ R[k].left = LeftAfter(t, k, now)
      BY <3>7, DayParts
    <3>9. Refuels(k) = R[k].stops /\ ((status[k] = "no_stations_found") <=> R[k].warned)
      BY <1>3, <3>4, FirmAgrees
    <3>10. BurnAfter(History(k, range, declared), range - before) = range - LeftAfter(t, k, now)
      <4> HIDE DEF before
      <4> QED
        BY <1>1, <3>4, <3>6, <3>8, <3>9, OneDayBurns
    <3> HIDE DEF before, now
    <3>11. f[k] = range - R[k].left
      BY <2>2, <3>4, <3>5, <3>8, <3>10
    <3> QED
      BY <2>6, <3>2, <3>11
  <2>8. f[l - 1] = range - R[l - 1].left
    BY <1>6, <2>6, <2>7
  <2>9. left = R[l - 1].left
    BY <1>2, <1>7, <1>9 DEF LeftAt
  <2> QED
    BY <1>3, <1>7, <2>3, <2>5, <2>8, <2>9
<1> QED
  BY <1>8, <1>9

-----------------------------------------------------------------------------
(* What the reference tells *)

\* The reference is the same if the driver picks what it has.
LEMMA PicksOfThePlan ==
    ASSUME NEW t, TripTyped(t), NEW u, TripTyped(u),
           u.route = t.route, u.range = t.range, u.declared = t.declared,
           \A k \in Legs : /\ t.picked[k] \subseteq u.picked[k]
                           /\ u.picked[k] \subseteq ReferenceOf(t)[k].stops
    PROVE  /\ ReferenceOf(u) = ReferenceOf(t)
           /\ \A l, left : ReferenceReserve(u, l, left) = ReferenceReserve(t, l, left)
<1> DEFINE R == ReferenceOf(t)
           Q == ReferenceOf(u)
<1>1. IsReference(R, t, Days) /\ IsReference(Q, u, Days)
  BY ReferenceIs
<1>2. \A l, left : ReferenceReserve(u, l, left) = ReferenceReserve(t, l, left)
  BY DEF ReferenceReserve
<1>3. \A l, left : GreedyOf(u, l, left) = GreedyOf(t, l, left)
  BY <1>2 DEF GreedyOf
<1>4. /\ \A l, left : WarnedAt(u, l, left) = WarnedAt(t, l, left)
      /\ \A l, before : LeftAt(u, l, before) = LeftAt(t, l, before)
  BY <1>3 DEF WarnedAt, LeftAt
<1>5. \A k \in Legs : t.picked[k] \subseteq u.picked[k] /\ u.picked[k] \subseteq R[k].stops
  OBVIOUS
<1> HIDE DEF R, Q
<1>6. ASSUME NEW k \in Legs, Q[k - 1] = R[k - 1] PROVE Q[k] = R[k]
  <2> DEFINE before == R[k - 1].left
             left == LeftAt(t, k, before)
  <2>1. R[k] = ReferenceDay(t, k, before) /\ Q[k] = ReferenceDay(u, k, before)
    BY <1>1, <1>6 DEF IsReference, Legs
  <2>2. LeftAt(u, k, before) = left
    BY <1>4
  <2> HIDE DEF before, left
  <2>3. StopsAt(u, k, left) = StopsAt(t, k, left)
    <3>1. R[k].stops = StopsAt(t, k, left)
      BY <2>1, DayParts DEF left
    <3> DEFINE new == IF t.route[k].ends = "apart" /\ ~WarnedAt(t, k, left)
                      THEN Chosen(GreedyOf(t, k, left)) ELSE {}
    <3>2. StopsAt(t, k, left) = t.picked[k] \cup new
      BY DEF StopsAt
    <3>3. StopsAt(u, k, left) = u.picked[k] \cup new
      BY <1>3, <1>4 DEF StopsAt
    <3> HIDE DEF new
    <3> QED
      BY <1>5, <3>1, <3>2, <3>3
  <2>4. LeftAfter(u, k, left) = LeftAfter(t, k, left)
    BY <1>4, <2>3 DEF LeftAfter
  <2>5. ASSUME NEW v PROVE ReferenceDay(v, k, before) =
             [burn |-> v.range - LeftAt(v, k, before), stops |-> StopsAt(v, k, LeftAt(v, k, before)),
              warned |-> WarnedAt(v, k, LeftAt(v, k, before)),
              left |-> LeftAfter(v, k, LeftAt(v, k, before))]
    BY Zenon DEF ReferenceDay, LeftAt, StopsAt, WarnedAt, LeftAfter, GreedyOf
  <2>6. /\ ReferenceDay(t, k, before) = [burn |-> t.range - left, stops |-> StopsAt(t, k, left),
                                         warned |-> WarnedAt(t, k, left), left |-> LeftAfter(t, k, left)]
        /\ ReferenceDay(u, k, before) = [burn |-> u.range - left, stops |-> StopsAt(u, k, left),
                                         warned |-> WarnedAt(u, k, left), left |-> LeftAfter(u, k, left)]
    BY <2>2, <2>5 DEF left
  <2>7. WarnedAt(u, k, left) = WarnedAt(t, k, left)
    BY <1>4
  <2> QED
    BY <2>1, <2>3, <2>4, <2>6, <2>7
<1>7. Q[0] = R[0]
  BY <1>1 DEF IsReference, DayBefore
<1> DEFINE Bad == {k \in 0 .. Days : Q[k] # R[k]}
<1>8. Bad \in SUBSET Nat /\ Bad \subseteq 0 .. Days /\ \A k \in 0 .. Days : k \in Bad <=> Q[k] # R[k]
  BY DaysAssumption
<1> HIDE DEF Bad
<1>9. Bad = {}
  <2>1. SUFFICES ASSUME Bad # {} PROVE FALSE
    OBVIOUS
  <2>2. PICK k \in Bad : \A n \in Bad : k <= n
    BY <1>8, <2>1, LeastNatural
  <2>3. k \in Legs /\ k - 1 \in 0 .. Days /\ k - 1 \notin Bad
    BY <1>7, <1>8, <2>2, DaysAssumption DEF Legs
  <2> QED
    BY <1>6, <1>8, <2>2, <2>3
<1>10. Q = R
  BY <1>1, <1>8, <1>9 DEF IsReference
<1> QED
  BY <1>2, <1>10 DEF Q, R

\* A plan with room left is a whole one.
LEMMA UncutIsWhole ==
    ASSUME NEW S \in SUBSET Nat, IsFiniteSet(S), Cardinality(Chosen(S)) < MaxStopsPerLeg
    PROVE  Chosen(S) = S
<1> DEFINE rest == S \ Chosen(S)
<1>1. SUFFICES ASSUME rest # {} PROVE FALSE
  BY ChosenType
<1>2. rest \in SUBSET Nat
  OBVIOUS
<1>3. \A x \in S : x \notin Chosen(S) <=> x \in rest
  OBVIOUS
<1>4. rest \subseteq S
  OBVIOUS
<1> HIDE DEF rest
<1>5. PICK x \in rest : \A y \in rest : x <= y
  BY <1>1, <1>2, LeastNatural
<1> DEFINE before == {y \in S : y < x}
<1>6. before \in SUBSET Chosen(S)
  <2> SUFFICES ASSUME NEW y \in S, y < x PROVE y \in Chosen(S)
    OBVIOUS
  <2> QED
    BY <1>2, <1>3, <1>5
<1>7. ~(Cardinality(before) < MaxStopsPerLeg)
  BY <1>3, <1>4, <1>5 DEF Chosen
<1> HIDE DEF before
<1>8. IsFiniteSet(Chosen(S)) /\ IsFiniteSet(before) /\ Cardinality(before) <= Cardinality(Chosen(S))
  BY <1>6, ChosenType, FS_Subset
<1>9. Cardinality(before) \in Nat /\ Cardinality(Chosen(S)) \in Nat
  BY <1>8, FS_CardinalityType
<1> QED
  BY <1>7, <1>8, <1>9, FuelLimitAssumption

\* Who gets through with some stops gets through with more.
LEMMA MoreStopsAreFine ==
    ASSUME NEW km \in Nat, NEW tank \in Nat, NEW burn \in Nat, NEW A \in SUBSET Nat,
           NEW B \in SUBSET Nat, A \subseteq B, Drivable(km, 0, tank, burn, A)
    PROVE  Drivable(km, 0, tank, burn, B)
<1> DEFINE a == {s \in A : 0 < s /\ s <= km}
           b == {s \in B : 0 < s /\ s <= km}
           nextA(p) == Min({km + 0} \cup {s \in a : s > p})
           nextB(p) == Min({km + 0} \cup {s \in b : s > p})
           reach(p) == IF p = 0 THEN tank - burn ELSE tank
<1>1. \A p \in {0} \cup a : nextA(p) - p <= reach(p)
  BY Zenon DEF Drivable
<1>2. SUFFICES ASSUME NEW p \in {0} \cup b PROVE nextB(p) - p <= reach(p)
  BY Zenon DEF Drivable
<1>13. \A s \in b : s \in Nat /\ 0 < s /\ s <= km
  OBVIOUS
<1>14. \A s \in a : s \in b
  OBVIOUS
<1> HIDE DEF a, b
<1>3. p \in Nat /\ (\A s \in a : s \in Nat /\ s \in 1 .. km)
  BY <1>13, <1>14
<1> HIDE DEF nextA, nextB, reach
<1> DEFINE passed == {0} \cup {s \in a : s <= p}
           q == Max(passed)
<1>4. q \in passed /\ \A s \in passed : s <= q
  <2>1. passed \in SUBSET Int /\ passed # {}
    BY <1>3
  <2>2. IsFiniteSet(passed)
    <3>1. IsFiniteSet(1 .. km)
      BY FS_Interval
    <3>2. {s \in a : s <= p} \in SUBSET (1 .. km)
      BY <1>3
    <3>3. IsFiniteSet({s \in a : s <= p})
      BY <3>1, <3>2, FS_Subset
    <3> QED
      BY <3>3, FS_AddElement
  <2> HIDE DEF passed
  <2> QED
    BY <2>1, <2>2, MaxIsGreatest
<1>5. q \in {0} \cup a /\ q \in Nat /\ q <= p
  BY <1>3, <1>4
<1>6. \A s \in a : s > q => s > p
  BY <1>3, <1>4, <1>5
<1> HIDE DEF q
<1> DEFINE stretchA == {km + 0} \cup {s \in a : s > q}
           stretchB == {km + 0} \cup {s \in b : s > p}
<1>7. /\ stretchA \in SUBSET Nat /\ stretchA # {} /\ stretchB \in SUBSET Nat /\ stretchB # {}
      /\ stretchA \subseteq stretchB
  BY <1>3, <1>6, <1>13, <1>14
<1>8. nextA(q) = Min(stretchA) /\ nextB(p) = Min(stretchB)
  BY DEF nextA, nextB
<1> HIDE DEF stretchA, stretchB
<1>9. /\ Min(stretchA) \in stretchA /\ Min(stretchB) \in stretchB
      /\ \A s \in stretchB : Min(stretchB) <= s
  BY <1>7, MinIsLeast
<1>10. Min(stretchA) \in Nat /\ Min(stretchB) \in Nat /\ Min(stretchB) <= Min(stretchA)
  BY <1>7, <1>9
<1>11. Min(stretchA) - q <= reach(q)
  BY <1>1, <1>5, <1>8
<1>12. Min(stretchB) - p <= reach(p)
  BY <1>3, <1>5, <1>10, <1>11 DEF reach
<1> QED
  BY <1>8, <1>12

-----------------------------------------------------------------------------
(* The three properties follow *)

LEMMA PlannedIsFirm ==
    ASSUME NEW l \in Legs, PlannedUpTo(l)
    PROVE  /\ l \in Drives /\ Firm(l) /\ Whole(l)
           /\ \A k \in 1 .. (l - 1) : Firm(k)
<1>1. l \in 1 .. l /\ 1 .. (l - 1) \subseteq 1 .. l
  BY DaysAssumption DEF Legs
<1> QED
  BY <1>1 DEF PlannedUpTo, Firm

LEMMA OrderDoesNotMatter == TypesInv /\ ReferenceInv => OpeningOrderDoesNotMatter
<1> SUFFICES ASSUME TypesInv, PlansAgree, NEW l \in Legs, PlannedUpTo(l)
             PROVE  /\ Refuels(l) = Reference[l].stops
                    /\ (status[l] = "no_stations_found") <=> Reference[l].warned
  BY DEF ReferenceInv, OpeningOrderDoesNotMatter
<1> QED
  BY PlannedIsFirm, FirmAgrees

LEMMA WarningIsHonest == TypesInv /\ ReferenceInv => WarnedOnlyIfImpossible
<1> SUFFICES ASSUME TypesInv, PlansAgree, NEW l \in Legs, PlannedUpTo(l),
                    status[l] = "no_stations_found"
             PROVE  ~ \E at \in SUBSET route[l].stations :
                          Drivable(route[l].km, 0, range, BurnAtStart(l, range, declared), at)
  BY DEF ReferenceInv, WarnedOnlyIfImpossible
<1>1. Whole(l) /\ \A k \in 1 .. (l - 1) : Firm(k)
  BY PlannedIsFirm
<1>2. NoWayThrough(TripAsItIs, l)
  BY <1>1 DEF Whole, PlansAgree
<1>3. BurnAtStart(l, range, declared) = Reference[l].burn
  BY <1>1, BurnIsReference
<1> QED
  BY <1>2, <1>3, TripIsTyped DEF NoWayThrough, Reference

LEMMA ReadyIsDrivable == TypesInv /\ ReferenceInv => NeverPastRange
<1> SUFFICES ASSUME TypesInv, PlansAgree, NEW l \in Legs, PlannedUpTo(l), status[l] = "ready",
                    Cardinality(Refuels(l)) < MaxStopsPerLeg
             PROVE  Drivable(route[l].km, 0, range, BurnAtStart(l, range, declared), Refuels(l))
  BY DEF ReferenceInv, NeverPastRange
<1>1. Whole(l) /\ Firm(l) /\ \A k \in 1 .. (l - 1) : Firm(k)
  BY PlannedIsFirm
<1>2. PICK t : t = TripAsItIs
  OBVIOUS
<1>3. TripTyped(t) /\ t.route = route /\ t.range = range
  BY <1>2, TripIsTyped
<1>4. PICK left \in Int : /\ left <= range
                          /\ Reference[l].burn = range - left /\ Reference[l].burn \in Nat
                          /\ Reference[l].stops = StopsAt(t, l, left)
                          /\ Reference[l].warned = WarnedAt(t, l, left)
  BY <1>2, <1>3, ReferenceAt DEF Reference
<1>5. Refuels(l) = StopsAt(t, l, left) /\ ~WarnedAt(t, l, left)
  BY <1>1, <1>4, FirmAgrees
<1>6. route[l].ends = "apart"
  BY <1>1 DEF Whole, PlansAgree
<1>7. BurnAtStart(l, range, declared) = range - left
  BY <1>1, <1>4, BurnIsReference
<1> DEFINE greedy == GreedyOf(t, l, left)
           km == route[l].km
<1>8. Drivable(km, 0, range, range - left, greedy)
  BY <1>3, <1>5, <1>6 DEF WarnedAt
<1>9. range \in Nat /\ km \in Nat /\ range - left \in Nat
  <2>1. route[l] \in RouteRecords
    BY <1>3 DEF TripTyped
  <2> QED
    BY <1>3, <1>4, <2>1 DEF TripTyped, RouteRecords
<1>10. greedy \in SUBSET Nat /\ IsFiniteSet(greedy)
  <2> DEFINE i == [km |-> t.route[l].km, stations |-> t.route[l].stations, range |-> t.range,
                   burn |-> t.range - left, reserve |-> ReferenceReserve(t, l, left)]
  <2>1. i \in DayInputs
    <3>1. t.range - left \in Nat
      BY <1>3, <1>9
    <3> QED
      BY <1>3, <3>1, ReserveType, InputsOfADay
  <2>2. greedy = GreedyStops(i.km, i.stations, i.range, i.burn, i.reserve)
    BY DEF GreedyOf
  <2> HIDE DEF i, greedy
  <2> QED
    BY <2>1, <2>2, GreedyStopsType
<1>11. Refuels(l) \in SUBSET Nat /\ IsFiniteSet(Refuels(l)) /\ Chosen(greedy) \in SUBSET Refuels(l)
  <2>1. Refuels(l) = t.picked[l] \cup Chosen(greedy)
    BY <1>3, <1>5, <1>6 DEF StopsAt
  <2> QED
    BY <2>1, RefuelsType
<1> HIDE DEF greedy, km
<1>12. Cardinality(Chosen(greedy)) < MaxStopsPerLeg
  <2>1. /\ IsFiniteSet(Chosen(greedy))
        /\ Cardinality(Chosen(greedy)) <= Cardinality(Refuels(l))
    BY <1>11, FS_Subset
  <2>2. Cardinality(Chosen(greedy)) \in Nat /\ Cardinality(Refuels(l)) \in Nat
    BY <1>11, <2>1, FS_CardinalityType
  <2> QED
    BY <2>1, <2>2, FuelLimitAssumption
<1>13. greedy \subseteq Refuels(l)
  BY <1>10, <1>11, <1>12, UncutIsWhole
<1>14. Drivable(km, 0, range, range - left, Refuels(l))
  BY <1>8, <1>9, <1>10, <1>11, <1>13, MoreStopsAreFine
<1> QED
  BY <1>7, <1>14 DEF km

-----------------------------------------------------------------------------
(* The reference's plan of a day *)

LEMMA PickIs ==
    ASSUME NEW t, TripTyped(t), NEW l \in Legs, t.route[l].ends = "apart"
    PROVE  LET d == ReferenceOf(t)[l]
               reserve == ReferenceReserve(t, l, t.range - d.burn)
               i == [km |-> t.route[l].km, stations |-> t.route[l].stations, range |-> t.range,
                     burn |-> d.burn, reserve |-> reserve]
               from == GreedyFrom(i.km, i.stations, i.range, i.burn, i.reserve)
           IN  /\ i \in DayInputs /\ IsGreedy(i, from, 0)
               /\ d.warned <=> ~Drivable(i.km, 0, i.range, i.burn, from[0])
               /\ d.stops = t.picked[l] \cup (IF d.warned THEN {} ELSE Chosen(from[0]))
<1> DEFINE d == ReferenceOf(t)[l]
           reserve == ReferenceReserve(t, l, t.range - d.burn)
           i == [km |-> t.route[l].km, stations |-> t.route[l].stations, range |-> t.range,
                 burn |-> d.burn, reserve |-> reserve]
           from == GreedyFrom(i.km, i.stations, i.range, i.burn, i.reserve)
<1>1. PICK left \in Int : /\ left <= t.range
                          /\ d.burn = t.range - left /\ d.burn \in Nat
                          /\ d.stops = StopsAt(t, l, left)
                          /\ d.warned = WarnedAt(t, l, left)
  BY ReferenceAt
<1>2. t.range \in Nat
  BY DEF TripTyped
<1> HIDE DEF d
<1>3. t.range - d.burn = left
  BY <1>1, <1>2
<1>4. i \in DayInputs
  BY <1>1, ReserveType, InputsOfADay
<1>5. IsGreedy(i, from, 0)
  BY <1>4, GreedyFromIs
<1>6. GreedyOf(t, l, left) = from[0]
  BY <1>1, <1>3 DEF GreedyOf, GreedyStops
<1> HIDE DEF from
<1>7. d.warned <=> ~Drivable(i.km, 0, i.range, i.burn, from[0])
  BY <1>1, <1>6 DEF WarnedAt
<1>8. d.stops = t.picked[l] \cup (IF d.warned THEN {} ELSE Chosen(from[0]))
  BY <1>1, <1>6 DEF StopsAt
<1> QED
  BY <1>4, <1>5, <1>7, <1>8 DEF d, from

\* A stop further.
LEMMA PlacedOne ==
    ASSUME NEW i \in DayInputs, NEW from, IsGreedy(i, from, 0), NEW at \in 0 .. i.km,
           ~EndInReach(i.km, i.reserve, i.range, i.burn, at),
           SafeStations(i.km, i.stations, i.range, i.burn, at) # {}
    PROVE  LET next == Choose(SafeStations(i.km, i.stations, i.range, i.burn, at))
           IN  from[at] = {next} \cup from[next]
  BY DEF IsGreedy, NextStops

LEMMA PlacedAll ==
    ASSUME NEW i \in DayInputs, NEW from, IsGreedy(i, from, 0), NEW at \in 0 .. i.km,
           \/ EndInReach(i.km, i.reserve, i.range, i.burn, at)
           \/ SafeStations(i.km, i.stations, i.range, i.burn, at) = {}
    PROVE  from[at] = {}
  BY DEF IsGreedy, NextStops

\* A day that needs no stop.
LEMMA NoStopNeeded ==
    ASSUME NEW t, TripTyped(t), NEW l \in Legs, t.route[l].ends = "apart",
           LET d == ReferenceOf(t)[l]
           IN  d.burn + t.route[l].km + ReferenceReserve(t, l, t.range - d.burn) <= t.range
    PROVE  ~ReferenceOf(t)[l].warned /\ ReferenceOf(t)[l].stops = t.picked[l]
<1> DEFINE d == ReferenceOf(t)[l]
           reserve == ReferenceReserve(t, l, t.range - d.burn)
           i == [km |-> t.route[l].km, stations |-> t.route[l].stations, range |-> t.range,
                 burn |-> d.burn, reserve |-> reserve]
           from == GreedyFrom(i.km, i.stations, i.range, i.burn, i.reserve)
<1>1. /\ i \in DayInputs /\ IsGreedy(i, from, 0)
      /\ d.warned <=> ~Drivable(i.km, 0, i.range, i.burn, from[0])
      /\ d.stops = t.picked[l] \cup (IF d.warned THEN {} ELSE Chosen(from[0]))
  BY PickIs
<1>2. i.burn + i.km + i.reserve <= i.range
  OBVIOUS
<1> HIDE DEF d, i, from
<1>3. i.km \in Nat /\ i.range \in Nat /\ i.burn \in Nat /\ i.reserve \in Nat
  BY <1>1 DEF DayInputs
<1>4. EndInReach(i.km, i.reserve, i.range, i.burn, 0)
  BY <1>2, <1>3 DEF EndInReach, Reach
<1>8. 0 \in 0 .. i.km
  BY <1>3
<1>5. from[0] = {}
  BY <1>1, <1>4, <1>8, PlacedAll
<1>6. Drivable(i.km, 0, i.range, i.burn, {})
  <2>1. SUFFICES ASSUME NEW p \in {0} PROVE Min({i.km + 0}) - p <= i.range - i.burn
    BY Zenon DEF Drivable
  <2>2. Min({i.km + 0}) = i.km
    <3>1. {i.km + 0} \in SUBSET Nat /\ {i.km + 0} # {}
      BY <1>3
    <3>2. Min({i.km + 0}) \in {i.km + 0}
      BY <3>1, MinIsLeast
    <3> QED
      BY <1>3, <3>2
  <2> QED
    BY <1>2, <1>3, <2>2
<1>7. Chosen({}) = {}
  BY DEF Chosen
<1> QED
  BY <1>1, <1>5, <1>6, <1>7 DEF d

\* The fuel needed at the start of a day, said in two ways.
LEMMA NeededIs ==
    ASSUME NEW km \in Nat, NEW stations \in SUBSET Nat, NEW tank \in Nat
    PROVE  FuelNeededAtLegStart(km, stations, tank) = Min({tank, km} \cup {s \in stations : s > 0})
<1> DEFINE S == {km, tank} \cup {s \in stations : 0 < s /\ s < km}
           T == {tank, km} \cup {s \in stations : s > 0}
<1>1. S \in SUBSET Nat /\ T \in SUBSET Nat /\ S # {} /\ T # {} /\ km \in T
  OBVIOUS
<1>2. S \subseteq T /\ \A x \in T : x \in S \/ x >= km
  OBVIOUS
<1>6. km \in S
  OBVIOUS
<1>3. FuelNeededAtLegStart(km, stations, tank) = Min(S)
  BY DEF FuelNeededAtLegStart
<1> HIDE DEF S, T
<1>4. /\ Min(S) \in S /\ \A x \in S : Min(S) <= x
      /\ Min(T) \in T /\ \A x \in T : Min(T) <= x
  BY <1>1, MinIsLeast
<1>5. Min(T) \in S
  <2>1. Min(T) \in Nat /\ Min(T) <= km
    BY <1>1, <1>4
  <2>2. Min(T) >= km => Min(T) = km
    BY <2>1
  <2> QED
    BY <1>2, <1>4, <1>6, <2>2
<1>7. Min(S) \in Nat /\ Min(T) \in Nat /\ Min(S) <= Min(T) /\ Min(T) <= Min(S)
  BY <1>1, <1>2, <1>4, <1>5
<1>8. Min(S) = Min(T)
  BY <1>7
<1> QED
  BY <1>3, <1>8 DEF T


-----------------------------------------------------------------------------
(* The reference and the steps *)

RefuelsIn(rows) == {s.km : s \in {x \in rows : x.state # "dismissed"}}
PickedIn(rows) == {s.km : s \in {x \in rows : x.state = "selected"}}

\* What a day that is up to date has is the reference's.
StopsAgree(t, l, at) == t.route[l].ends = "apart" /\ at = ReferenceOf(t)[l].stops

StatusAgrees(t, l, s) ==
    /\ (s = "no_stations_found") <=> ReferenceOf(t)[l].warned
    /\ ReferenceOf(t)[l].warned => NoWayThrough(t, l)

LEMMA AgreeNow ==
    ASSUME NEW t, t = TripAsItIs
    PROVE  PlansAgree <=>
             \A l \in Legs :
                 /\ "stops" \in upToDate[l] => StopsAgree(t, l, Refuels(l))
                 /\ "status" \in upToDate[l] => StatusAgrees(t, l, status[l])
<1>1. t.route = route
  BY DEF TripAsItIs
<1> QED
  BY <1>1 DEF PlansAgree, StopsAgree, StatusAgrees, Reference

LEMMA AgreeThen ==
    ASSUME NEW t, t = TripAsItIs',
           \A l \in Legs :
               /\ "stops" \in upToDate'[l] => StopsAgree(t, l, Refuels(l)')
               /\ "status" \in upToDate'[l] => StatusAgrees(t, l, status'[l])
    PROVE  PlansAgree'
<1>1. t.route = route'
  BY DEF TripAsItIs
<1>2. Reference' = ReferenceOf(t)
  BY DEF Reference
<1> QED
  BY <1>1, <1>2 DEF PlansAgree, StopsAgree, StatusAgrees

LEMMA TripStays ==
    ASSUME UNCHANGED Trip, \A l \in Legs : PickedKm(l)' = PickedKm(l)
    PROVE  TripAsItIs' = TripAsItIs
<1>1. route' = route /\ range' = range /\ declared' = declared
  BY DEF Trip
<1> DEFINE p == [l \in Legs |-> PickedKm(l)]
<1>2. p' = p
  OBVIOUS
<1> HIDE DEF p
<1> QED
  BY <1>1, <1>2 DEF TripAsItIs, p

\* A step of one request, after which what is up to date still agrees.
LEMMA ReferenceAfter ==
    ASSUME FuelInv, ReferenceInv, NEW t, t = TripAsItIs, TripAsItIs' = t, PlansAgree',
           NEW r \in Requests, NEW p, Put(r, p), PurePlan(t, p)
    PROVE  ReferenceInv'
<1>1. req = [x \in Requests |-> req[x]] /\ req' = [req EXCEPT ![r] = p]
  BY DEF FuelInv, Put
<1>2. \A x \in Requests : req'[x] = IF x = r THEN p ELSE req[x]
  BY <1>1
<1>3. \A x \in Requests : PurePlan(t, req'[x])
  BY <1>2 DEF ReferenceInv
<1> QED
  BY <1>3 DEF ReferenceInv

\* A step of no request, after which what is up to date still agrees.
LEMMA ReferenceKept ==
    ASSUME ReferenceInv, TripAsItIs' = TripAsItIs, PlansAgree', UNCHANGED req
    PROVE  ReferenceInv'
  BY DEF ReferenceInv

\* Nothing is written.
LEMMA QuietReference ==
    ASSUME FuelInv, ReferenceInv, NEW t, t = TripAsItIs, UNCHANGED <<Trip, status, stops, upToDate>>,
           NEW r \in Requests, NEW p, Put(r, p), PurePlan(t, p)
    PROVE  ReferenceInv'
<1>1. \A l \in Legs : PickedKm(l)' = PickedKm(l) /\ Refuels(l)' = Refuels(l)
  BY DEF PickedKm, Refuels
<1>2. TripAsItIs' = t
  BY <1>1, TripStays
<1>3. PlansAgree'
  BY <1>1, <1>2, AgreeNow, AgreeThen DEF ReferenceInv
<1> QED
  BY <1>2, <1>3, ReferenceAfter

\* The status of a day is written down.
LEMMA StatusNoted ==
    ASSUME TypesInv, PlansAgree, NEW t, t = TripAsItIs, UNCHANGED <<Trip, stops>>,
           NEW l \in Legs, NEW w, SetFuelStatus(l, w), NEW current, Note(l, "status", current),
           current => StatusAgrees(t, l, w)
    PROVE  TripAsItIs' = t /\ PlansAgree'
<1>1. \A k \in Legs : PickedKm(k)' = PickedKm(k) /\ Refuels(k)' = Refuels(k)
  BY DEF PickedKm, Refuels
<1>2. TripAsItIs' = t
  BY <1>1, TripStays
<1>3. /\ \A k \in Legs : status'[k] = IF k = l THEN w ELSE status[k]
      /\ \A k \in Legs : k # l => upToDate'[k] = upToDate[k]
      /\ "stops" \in upToDate'[l] => "stops" \in upToDate[l]
      /\ "status" \in upToDate'[l] => current
  BY DEF TypesInv, TypeOK, SetFuelStatus, Note
<1>4. ASSUME NEW k \in Legs
      PROVE  /\ "stops" \in upToDate'[k] => StopsAgree(t, k, Refuels(k)')
             /\ "status" \in upToDate'[k] => StatusAgrees(t, k, status'[k])
  BY <1>1, <1>3, AgreeNow
<1> QED
  BY <1>2, <1>4, AgreeThen

Stores(l, rows) == stops' = [stops EXCEPT ![l] = rows]

\* The stops of a day are written down.
LEMMA StopsNoted ==
    ASSUME TypesInv, PlansAgree, NEW t, t = TripAsItIs, UNCHANGED <<Trip, status>>,
           NEW l \in Legs, NEW v, Stores(l, v),
           PickedIn(v) = PickedIn(stops[l]), NEW current, Note(l, "stops", current),
           current => StopsAgree(t, l, RefuelsIn(v))
    PROVE  TripAsItIs' = t /\ PlansAgree'
<1>1. \A k \in Legs : stops'[k] = IF k = l THEN v ELSE stops[k]
  BY DEF TypesInv, TypeOK, Stores
<1>2. \A k \in Legs : /\ PickedKm(k) = PickedIn(stops[k]) /\ PickedKm(k)' = PickedIn(stops'[k])
                      /\ Refuels(k) = RefuelsIn(stops[k]) /\ Refuels(k)' = RefuelsIn(stops'[k])
  BY DEF PickedKm, PickedIn, Refuels, RefuelsIn
<1>3. \A k \in Legs : PickedKm(k)' = PickedKm(k)
  BY <1>1, <1>2
<1>4. TripAsItIs' = t
  BY <1>3, TripStays
<1>5. /\ \A k \in Legs : k # l => upToDate'[k] = upToDate[k]
      /\ "status" \in upToDate'[l] => "status" \in upToDate[l]
      /\ "stops" \in upToDate'[l] => current
  BY DEF TypesInv, TypeOK, Note
<1>6. ASSUME NEW k \in Legs
      PROVE  /\ "stops" \in upToDate'[k] => StopsAgree(t, k, Refuels(k)')
             /\ "status" \in upToDate'[k] => StatusAgrees(t, k, status'[k])
  BY <1>1, <1>2, <1>5, AgreeNow
<1> QED
  BY <1>4, <1>6, AgreeThen

\* The steps at which a request claims nothing of the reference.
Plain == {"idle", "lookup", "refuels", "failTarget", "load", "fail"}

LEMMA PlainPlan ==
    ASSUME NEW t, NEW q, PurePlan(t, q), NEW p, p.pure = q.pure, p.known = q.known,
           p.pc \in Plain
    PROVE  PurePlan(t, p)
  BY DEF PurePlan, ReadIsSo, PlansReference, Plain, Early, Storing

LEMMA IdlePlan == \A t : PurePlan(t, Idle)
  BY DEF PurePlan, Idle

\* What planning neither reads nor writes of a request.
LEMMA ForgetPlans ==
    ASSUME NEW q \in Reqs
    PROVE  /\ Forget(q).pure = q.pure /\ Forget(q).grounded = q.grounded
           /\ Forget(q).known = q.known /\ Forget(q).keep = q.keep
  BY DEF Forget, Reqs

LEMMA SearchingPlans ==
    ASSUME TypesInv, NEW r \in Requests, NEW l \in Legs
    PROVE  LET p == Searching(r, l)
           IN  /\ p.pure = req[r].pure /\ p.grounded = req[r].grounded
               /\ p.leg = req[r].leg /\ p.range = req[r].range /\ p.anchor = req[r].anchor
               /\ p.burn = req[r].burn /\ p.reserve = req[r].reserve
               /\ p.known[l] # {}
               /\ p.known = req[r].known \/ p.known = [req[r].known EXCEPT ![l] = {route[l].stations}]
<1>1. req[r] \in Reqs /\ req[r].known \in [Legs -> SUBSET (SUBSET Nat)]
  BY DEF TypesInv, ReqTyped, Reqs
<1>2. CASE Known(r, l)
  BY <1>2 DEF Searching, Known
<1>3. CASE ~Known(r, l)
  BY <1>1, <1>3 DEF Searching, Reqs
<1> QED
  BY <1>2, <1>3

\* The days before the one asked for.
LEMMA LookupReference ==
    ASSUME TypesInv, FuelInv, ReferenceInv, NEW r \in Requests,
           ReadStatuses(r) \/ DecideCascade(r) \/ FailTarget(r) \/ SearchThrows(r)
             \/ TankStateInvalid(r) \/ FailLeg(r) \/ Killed(r)
    PROVE  ReferenceInv'
<1>0. PICK t : t = TripAsItIs
  OBVIOUS
<1> DEFINE q == req[r]
<1>1. q \in Reqs /\ PurePlan(t, q) /\ PlansAgree
  BY <1>0 DEF TypesInv, ReqTyped, ReferenceInv
<1>2. ASSUME NEW p, p.pure = q.pure, p.known = q.known, p.pc \in Plain
      PROVE  PurePlan(t, p)
  BY <1>1, <1>2, PlainPlan
<1>3. PurePlan(t, Idle)
  BY IdlePlan
<1>4. CASE ReadStatuses(r)
  <2> DEFINE l == q.target
             x == [q EXCEPT !.pc = "load", !.todo = <<l>>]
             y == [q EXCEPT !.pc = "refuels",
                     !.seen = [k \in Legs |-> IF k < l THEN status[k] ELSE "none"]]
  <2>1. (Put(r, x) \/ Put(r, y)) /\ UNCHANGED <<Trip, status, stops, upToDate>>
    BY <1>4 DEF ReadStatuses, Row
  <2>2. /\ x.pc = "load" /\ x.pure = q.pure /\ x.known = q.known
        /\ y.pc = "refuels" /\ y.pure = q.pure /\ y.known = q.known
    BY <1>1 DEF Reqs
  <2> HIDE DEF x, y
  <2>3. PurePlan(t, x) /\ PurePlan(t, y)
    BY <1>2, <2>2 DEF Plain
  <2> QED
    BY <1>0, <2>1, <2>3, QuietReference
<1>5. CASE DecideCascade(r)
  <2> DEFINE l == q.target
             plan == LegsNeedingSourcingBefore(1..(l - 1), q.seen)
             x == [q EXCEPT !.pc = "failTarget", !.seen = Idle.seen]
             y == [q EXCEPT !.pc = "load", !.seen = Idle.seen,
                            !.todo = InOrder(plan.toSource \cup {l})]
  <2>1. (Put(r, x) \/ Put(r, y)) /\ UNCHANGED <<Trip, status, stops, upToDate>>
    BY <1>5 DEF DecideCascade, Row
  <2>2. /\ x.pc = "failTarget" /\ x.pure = q.pure /\ x.known = q.known
        /\ y.pc = "load" /\ y.pure = q.pure /\ y.known = q.known
    BY <1>1 DEF Reqs
  <2> HIDE DEF x, y
  <2>3. PurePlan(t, x) /\ PurePlan(t, y)
    BY <1>2, <2>2 DEF Plain
  <2> QED
    BY <1>0, <2>1, <2>3, QuietReference
<1>6. CASE FailTarget(r)
  <2>1. q.target \in Legs
    BY <1>6 DEF FuelInv, ReqOK, FailTarget, At
  <2>2. TripAsItIs' = t /\ PlansAgree'
    BY <1>0, <1>1, <1>6, <2>1, StatusNoted DEF FailTarget
  <2> QED
    BY <1>0, <1>3, <1>6, <2>2, ReferenceAfter DEF FailTarget
<1>7. CASE SearchThrows(r) \/ TankStateInvalid(r)
  <2> DEFINE x == [Forget(q) EXCEPT !.pc = "fail"]
  <2>1. Put(r, x) /\ UNCHANGED <<Trip, status, stops, upToDate>>
    BY <1>7 DEF SearchThrows, TankStateInvalid, Row
  <2>2. x.pc = "fail" /\ x.pure = q.pure /\ x.known = q.known
    BY <1>1, ForgetPlaces, ForgetPlans DEF Reqs
  <2> HIDE DEF x
  <2>3. PurePlan(t, x)
    BY <1>2, <2>2 DEF Plain
  <2> QED
    BY <1>0, <2>1, <2>3, QuietReference
<1>8. CASE FailLeg(r)
  <2>1. Now(r) \in Legs
    BY <1>8, NowIsADay DEF FailLeg, At, Holding
  <2>2. TripAsItIs' = t /\ PlansAgree'
    BY <1>0, <1>1, <1>8, <2>1, StatusNoted DEF FailLeg
  <2> DEFINE x == [q EXCEPT !.pc = "failTarget"]
  <2>3. Put(r, x) \/ Put(r, Idle)
    BY <1>8 DEF FailLeg, Go
  <2>4. x.pc = "failTarget" /\ x.pure = q.pure /\ x.known = q.known
    BY <1>1 DEF Reqs
  <2> HIDE DEF x
  <2>5. PurePlan(t, x)
    BY <1>2, <2>4 DEF Plain
  <2> QED
    BY <1>0, <1>3, <2>2, <2>3, <2>5, ReferenceAfter
<1>9. CASE Killed(r)
  <2>1. Put(r, Idle) /\ UNCHANGED <<Trip, status, stops, upToDate>>
    BY <1>9 DEF Killed
  <2> QED
    BY <1>0, <1>3, <2>1, QuietReference
<1> QED
  BY <1>4, <1>5, <1>6, <1>7, <1>8, <1>9

\* The row of a day, its mark and the tank.
LEMMA LoadReference ==
    ASSUME TypesInv, FuelInv, ReferenceInv, NEW r \in Requests,
           LoadLeg(r) \/ MarkComputing(r) \/ ReadTank(r) \/ ReadDefaultVehicle(r)
    PROVE  ReferenceInv'
<1>0. PICK t : t = TripAsItIs
  OBVIOUS
<1> DEFINE q == req[r]
           l == Now(r)
<1>1. q \in Reqs /\ PurePlan(t, q) /\ PlansAgree
  BY <1>0 DEF TypesInv, ReqTyped, ReferenceInv
<1>2. l \in Legs /\ l = Head(q.todo)
  BY NowIsADay DEF LoadLeg, MarkComputing, ReadTank, ReadDefaultVehicle, At, Holding, Now
<1>3. t.route = route /\ t.range = range /\ t.declared = declared /\ TripTyped(t)
  BY <1>0, TripIsTyped
<1>4. CASE LoadLeg(r)
  <2> DEFINE rt == route[l]
             begin == [q EXCEPT !.grounded = FALSE, !.picked = {}, !.keep = {}]
             x == [begin EXCEPT !.pc = "settle", !.outcome = "none"]
             y == [begin EXCEPT !.pc = "clear", !.outcome = "ready"]
             z == [begin EXCEPT !.pc = "compute", !.leg = rt]
  <2>1. UNCHANGED <<Trip, status, stops, upToDate>>
    BY <1>4 DEF LoadLeg, Row
  <2>2. Put(r, x) \/ Put(r, y) \/ (Put(r, z) /\ rt.ends # "missing" /\ rt.ends # "same")
    BY <1>4 DEF LoadLeg
  <2>3. rt.ends \in {"missing", "same", "apart"}
    BY <1>2, <1>3, RouteTypes DEF TripTyped
  <2>4. /\ x.pc = "settle" /\ ~x.grounded /\ x.pure = q.pure /\ x.known = q.known
        /\ y.pc = "clear" /\ ~y.grounded /\ y.pure = q.pure /\ y.known = q.known
        /\ z.pc = "compute" /\ ~z.grounded /\ z.pure = q.pure /\ z.known = q.known
        /\ z.leg = rt /\ z.todo = q.todo
    BY <1>1 DEF Reqs
  <2> HIDE DEF x, y, z
  <2>5. PurePlan(t, x) /\ PurePlan(t, y)
    BY <1>1, <2>4 DEF PurePlan, ReadIsSo, Early
  <2>6. rt.ends # "missing" /\ rt.ends # "same" => PurePlan(t, z)
    <3>1. rt = t.route[l]
      BY <1>3
    <3> QED
      BY <1>1, <1>2, <2>3, <2>4, <3>1 DEF PurePlan, ReadIsSo, Early
  <2> HIDE DEF rt
  <2> QED
    BY <1>0, <2>1, <2>2, <2>5, <2>6, QuietReference
<1>5. CASE MarkComputing(r)
  <2> DEFINE x == [q EXCEPT !.pc = "vehicle"]
  <2>1. Put(r, x)
    BY <1>5 DEF MarkComputing, Go
  <2>2. TripAsItIs' = t /\ PlansAgree'
    BY <1>0, <1>1, <1>2, <1>5, StatusNoted DEF MarkComputing
  <2>3. /\ q.pc = "compute" /\ x.pc = "vehicle" /\ x.pure = q.pure /\ x.known = q.known
        /\ x.leg = q.leg /\ x.todo = q.todo
    BY <1>1, <1>5 DEF Reqs, MarkComputing, At
  <2> HIDE DEF x
  <2>4. PurePlan(t, x)
    BY <1>1, <2>3 DEF PurePlan, ReadIsSo, PlansReference, Early, Storing
  <2> QED
    BY <1>0, <2>1, <2>2, <2>4, ReferenceAfter
<1>6. CASE ReadTank(r)
  <2> DEFINE x == [Forget(q) EXCEPT !.pc = "fail"]
             y == [q EXCEPT !.pc = "walk", !.range = range, !.anchor = declared]
  <2>1. (Put(r, x) \/ Put(r, y)) /\ UNCHANGED <<Trip, status, stops, upToDate>>
    BY <1>6 DEF ReadTank, Row
  <2>2. x.pc = "fail" /\ x.pure = q.pure /\ x.known = q.known
    BY <1>1, ForgetPlaces, ForgetPlans DEF Reqs
  <2>3. /\ q.pc = "vehicle" /\ y.pc = "walk" /\ y.pure = q.pure /\ y.known = q.known
        /\ y.leg = q.leg /\ y.todo = q.todo /\ y.range = t.range /\ y.anchor = t.declared
    BY <1>1, <1>3, <1>6 DEF Reqs, ReadTank, At
  <2> HIDE DEF x, y
  <2>4. PurePlan(t, x)
    BY <1>1, <2>2, PlainPlan DEF Plain
  <2>5. PurePlan(t, y)
    BY <1>1, <2>3 DEF PurePlan, ReadIsSo, PlansReference, Early, Storing
  <2> QED
    BY <1>0, <2>1, <2>4, <2>5, QuietReference
<1>7. CASE ReadDefaultVehicle(r)
  <2>1. PICK km \in Ranges :
            \/ Put(r, [Forget(q) EXCEPT !.pc = "fail", !.pure = FALSE])
            \/ Put(r, [q EXCEPT !.pc = "walk", !.range = km, !.anchor = declared, !.pure = FALSE])
    BY <1>7 DEF ReadDefaultVehicle
  <2> DEFINE x == [Forget(q) EXCEPT !.pc = "fail", !.pure = FALSE]
             y == [q EXCEPT !.pc = "walk", !.range = km, !.anchor = declared, !.pure = FALSE]
  <2>2. UNCHANGED <<Trip, status, stops, upToDate>>
    BY <1>7 DEF ReadDefaultVehicle, Row
  <2>3. ~x.pure /\ ~y.pure
    BY <1>1, ForgetPlaces DEF Reqs
  <2> HIDE DEF x, y
  <2>4. PurePlan(t, x) /\ PurePlan(t, y)
    BY <2>3 DEF PurePlan
  <2> QED
    BY <1>0, <2>1, <2>2, <2>4, QuietReference DEF x, y
<1> QED
  BY <1>4, <1>5, <1>6, <1>7

\* A request that has met nobody plans its days in order, so those before the one under way
\* are planned.
LEMMA WalksOnPlannedDays ==
    ASSUME TypesInv, FuelInv, CalmInv, SteadyInv, NEW r \in Requests, At(r, "walk"),
           req[r].pure, req[r].alone = opens
    PROVE  \A k \in 1..(Now(r) - 1) : Firm(k)
<1>1. PICK q : q = req[r]
  OBVIOUS
<1>2. q.pc = "walk" /\ Now(r) = Head(q.todo)
  BY <1>1 DEF At, Now
<1>3. SteadyPlan(r)
  BY <1>1, <1>2 DEF SteadyInv, Steady, At
<1>4. q.calm /\ CascadeFills(q)
  BY <1>1, <1>2, <1>3 DEF SteadyPlan, Planning, Holding
<1>5. PlansInOrder(q)
  BY <1>1, <1>2, <1>4 DEF CalmInv, CalmPlans, CalmPlan, Planning, Holding
<1>6. /\ Len(q.todo) \in Nat /\ Len(q.todo) >= 1 /\ Head(q.todo) = q.todo[1]
      /\ \A i \in 1..Len(q.todo) : q.todo[i] \in Legs
  <2>1. ReqTyped(q) /\ ReqOK(q) /\ q.pc \in Planning
    BY <1>1, <1>2 DEF TypesInv, FuelInv, Planning, Holding
  <2> QED
    BY <2>1, TodoType
<1>7. \A k \in Legs : k \in Int
  BY DaysAssumption DEF Legs
<1> SUFFICES ASSUME NEW k \in 1..(Head(q.todo) - 1) PROVE Firm(k)
  BY <1>2
<1>8. q.target = q.todo[Len(q.todo)] /\ q.todo[1] <= q.target /\ q.target \in Legs
  BY <1>5, <1>6, <1>7 DEF PlansInOrder, Ascending
<1>9. k \in 1..(q.target - 1) /\ k < q.todo[1]
  BY <1>6, <1>7, <1>8
<1>10. ASSUME NEW i \in 1..Len(q.todo), q.todo[i] = k PROVE FALSE
  BY <1>5, <1>6, <1>7, <1>9, <1>10 DEF PlansInOrder, Ascending
<1> QED
  BY <1>4, <1>9, <1>10 DEF CascadeFills

\* The tank walk: on planned days a request finds what the reference has burned.
LEMMA WalkReference ==
    ASSUME TypesInv, FuelInv, CalmInv, SteadyInv, ReferenceInv, NEW r \in Requests, WalkBack(r)
    PROVE  ReferenceInv'
<1>0. PICK t : t = TripAsItIs
  OBVIOUS
<1> DEFINE q == req[r]
           l == Now(r)
           x == [q EXCEPT !.pc = "ahead", !.burn = BurnAtStart(l, q.range, q.anchor),
                          !.grounded = q.alone = opens \/ \A k \in 1..(l - 1) : Firm(k)]
<1>1. q \in Reqs /\ PurePlan(t, q) /\ PlansAgree
  BY <1>0 DEF TypesInv, ReqTyped, ReferenceInv
<1>2. l \in Legs /\ l = Head(q.todo) /\ q.pc = "walk"
  BY NowIsADay DEF WalkBack, At, Holding, Now
<1>3. t.range = range /\ t.declared = declared
  BY <1>0, TripIsTyped
<1>4. Put(r, x) /\ UNCHANGED <<Trip, status, stops, upToDate>>
  BY DEF WalkBack, Row
<1>5. /\ x.pc = "ahead" /\ x.pure = q.pure /\ x.known = q.known /\ x.leg = q.leg
      /\ x.todo = q.todo /\ x.range = q.range /\ x.anchor = q.anchor
      /\ x.burn = BurnAtStart(l, q.range, q.anchor)
      /\ x.grounded <=> (q.alone = opens \/ \A k \in 1..(l - 1) : Firm(k))
  BY <1>1 DEF Reqs
<1>9. q.pure /\ q.alone = opens => \A k \in 1..(l - 1) : Firm(k)
  BY <1>2, WalksOnPlannedDays DEF Now, At
<1>10. x.pure /\ x.grounded => \A k \in 1..(l - 1) : Firm(k)
  BY <1>5, <1>9
<1> HIDE DEF x, q, l
<1>6. ASSUME x.pure PROVE ReadIsSo(t, x)
  BY <1>1, <1>2, <1>5, <1>6 DEF PurePlan, ReadIsSo, Early
<1>7. ASSUME x.pure, x.grounded PROVE PlansReference(t, x)
  <2>1. q.range = range /\ q.anchor = declared /\ t.route[l].ends = "apart"
    BY <1>1, <1>2, <1>3, <1>5, <1>7 DEF PurePlan, ReadIsSo, Early
  <2>2. x.burn = ReferenceOf(t)[l].burn
    BY <1>0, <1>1, <1>2, <1>5, <1>7, <1>10, <2>1, BurnIsReference DEF Reference
  <2> QED
    BY <1>2, <1>5, <2>1, <2>2 DEF PlansReference, Storing
<1>8. PurePlan(t, x)
  BY <1>6, <1>7 DEF PurePlan
<1> QED
  BY <1>0, <1>4, <1>8, QuietReference

\* A search finds the stations of the leg.
LEMMA FoundIs ==
    ASSUME TypesInv, NEW r \in Requests, NEW t, t = TripAsItIs, NEW l \in Legs,
           \A k \in Legs : req[r].known[k] \in {{}, {t.route[k].stations}}
    PROVE  LET p == Searching(r, l)
           IN  /\ \A k \in Legs : p.known[k] \in {{}, {t.route[k].stations}}
               /\ StationsFound(p, l) = t.route[l].stations
<1>1. t.route = route
  BY DEF TripAsItIs
<1> DEFINE p == Searching(r, l)
           known == req[r].known
<1>2. p.known[l] # {} /\ (p.known = known \/ p.known = [known EXCEPT ![l] = {route[l].stations}])
  BY SearchingPlans
<1>3. known \in [Legs -> SUBSET (SUBSET Nat)]
  BY DEF TypesInv, ReqTyped, Reqs
<1> HIDE DEF p
<1>4. \A k \in Legs : p.known[k] \in {{}, {t.route[k].stations}}
  BY <1>1, <1>2, <1>3
<1>5. p.known[l] = {t.route[l].stations}
  BY <1>2, <1>4
<1> QED
  BY <1>4, <1>5 DEF StationsFound, p

\* The look-ahead reserves what the reference does.
LEMMA LookIsReference ==
    ASSUME TypesInv, FuelInv, NEW t, t = TripAsItIs, NEW r \in Requests, At(r, "ahead"),
           req[r].pure, req[r].grounded, PurePlan(t, req[r])
    PROVE  LET look == DayToLookAt(r)
               rec == IF look = {} THEN req[r] ELSE Searching(r, Min(look))
               reserve ==
                   IF look = {} THEN 0
                   ELSE LET k == Min(look)
                        IN  FuelNeededAtLegStart(route[k].km, StationsFound(rec, k), rec.range)
           IN  reserve = ReferenceReserve(t, Now(r), t.range - req[r].burn)
<1> DEFINE q == req[r]
           l == Now(r)
           look == DayToLookAt(r)
           rec == IF look = {} THEN q ELSE Searching(r, Min(look))
           reserve ==
               IF look = {} THEN 0
               ELSE LET k == Min(look)
                    IN  FuelNeededAtLegStart(route[k].km, StationsFound(rec, k), rec.range)
           later == {k \in Legs : k > l /\ t.route[k].type = "drive" /\ t.route[k].km > 0}
           next == Min(later)
           early == \/ later = {}
                    \/ t.declared # None /\ l < t.declared.leg /\ t.declared.leg <= next
                    \/ t.range - q.burn - t.route[l].km >= t.route[next].km
<1>1. t.route = route /\ t.range = range /\ t.declared = declared /\ TripTyped(t)
  BY TripIsTyped
<1>2. /\ q.leg = t.route[l] /\ q.range = t.range /\ q.anchor = t.declared
      /\ \A k \in Legs : q.known[k] \in {{}, {t.route[k].stations}}
  BY DEF PurePlan, ReadIsSo, At, Early, Now
<1>3. later = {k \in Drives : k > l /\ route[k].km > 0}
  BY <1>1 DEF Drives
<1>4. look = IF early THEN {} ELSE {next}
  BY <1>1, <1>2, <1>3, Zenon DEF DayToLookAt, LeftWithoutStops
<1>5. ReferenceReserve(t, l, t.range - q.burn)
        = IF early THEN 0
          ELSE Min({t.range, t.route[next].km} \cup {s \in t.route[next].stations : s > 0})
  BY Zenon DEF ReferenceReserve
<1>6. CASE early
  <2> HIDE DEF early, look
  <2> QED
    BY <1>4, <1>5, <1>6 DEF look
<1>7. CASE ~early
  <2>1. later # {}
    BY <1>7
  <2> HIDE DEF early
  <2>2. look = {next}
    BY <1>4, <1>7
  <2>3. next \in Legs
    <3>1. later \in SUBSET Nat /\ later \subseteq Legs
      BY DaysAssumption DEF Legs
    <3> HIDE DEF later
    <3> QED
      BY <2>1, <3>1, MinIsLeast
  <2> HIDE DEF later, next
  <2>4. Min({next}) = next
    <3>1. {next} \in SUBSET Nat
      BY <2>3, DaysAssumption DEF Legs
    <3>2. Min({next}) \in {next}
      BY <3>1, MinIsLeast
    <3> QED
      BY <3>2
  <2>5. rec = Searching(r, next)
    BY <2>2, <2>4
  <2>6. StationsFound(Searching(r, next), next) = t.route[next].stations
    BY <1>2, <2>3, FoundIs
  <2>7. Searching(r, next).range = t.range
    BY <1>2, <2>3, SearchingPlans
  <2>8. reserve = FuelNeededAtLegStart(t.route[next].km, t.route[next].stations, t.range)
    BY <1>1, <2>2, <2>4, <2>5, <2>6, <2>7
  <2>9. /\ t.route[next].km \in Nat /\ t.route[next].stations \in SUBSET Nat /\ t.range \in Nat
    BY <1>1, <2>3, RouteTypes DEF TripTyped
  <2> HIDE DEF reserve
  <2>10. reserve = Min({t.range, t.route[next].km} \cup {s \in t.route[next].stations : s > 0})
    BY <2>8, <2>9, NeededIs
  <2> QED
    BY <1>5, <1>7, <2>10 DEF reserve
<1> QED
  BY <1>6, <1>7

\* The look-ahead: a day that needs no stop is done, another is searched.
LEMMA AheadReference ==
    ASSUME TypesInv, FuelInv, ReferenceInv, NEW r \in Requests, LookAhead(r)
    PROVE  ReferenceInv'
<1>0. PICK t : t = TripAsItIs
  OBVIOUS
<1> DEFINE q == req[r]
           l == Now(r)
           look == DayToLookAt(r)
           rec == IF look = {} THEN q ELSE Searching(r, Min(look))
           reserve ==
               IF look = {} THEN 0
               ELSE LET k == Min(look)
                    IN  FuelNeededAtLegStart(route[k].km, StationsFound(rec, k), rec.range)
           x == [Forget(rec) EXCEPT !.pc = "clear", !.outcome = "ready", !.leg = rec.leg]
           y == [rec EXCEPT !.pc = "search", !.reserve = reserve]
           day == ReferenceOf(t)[l]
<1>1. q \in Reqs /\ PurePlan(t, q) /\ PlansAgree
  BY <1>0 DEF TypesInv, ReqTyped, ReferenceInv
<1>2. l \in Legs /\ l = Head(q.todo) /\ q.pc = "ahead"
  BY NowIsADay DEF LookAhead, At, Holding, Now
<1>3. TripTyped(t)
  BY <1>0, TripIsTyped
<1>4. UNCHANGED <<Trip, status, stops, upToDate>>
  BY DEF LookAhead, Row
<1>5. Put(r, IF rec.burn + rec.leg.km + reserve <= rec.range THEN x ELSE y)
  BY DEF LookAhead
<1>6. look # {} => Min(look) \in Legs
  BY LookType
<1>7. q.pure /\ q.grounded => reserve = ReferenceReserve(t, l, t.range - q.burn)
  BY <1>0, <1>1, LookIsReference DEF LookAhead
<1>8. /\ rec \in Reqs /\ rec.pure = q.pure /\ rec.grounded = q.grounded
      /\ rec.leg = q.leg /\ rec.range = q.range /\ rec.anchor = q.anchor /\ rec.burn = q.burn
      /\ rec.todo = q.todo
  <2> HIDE DEF look
  <2> QED
    BY <1>1, <1>6, SearchingPlans, SearchingPlaces
<1>9. q.pure => \A k \in Legs : rec.known[k] \in {{}, {t.route[k].stations}}
  <2>1. q.pure => \A k \in Legs : q.known[k] \in {{}, {t.route[k].stations}}
    BY <1>1 DEF PurePlan, ReadIsSo
  <2> HIDE DEF look
  <2> QED
    BY <1>0, <1>6, <2>1, FoundIs
<1> HIDE DEF rec, reserve, look
<1>10. /\ x.pc = "clear" /\ x.outcome = "ready" /\ x.pure = q.pure /\ x.grounded = q.grounded
       /\ x.todo = q.todo /\ x.known = rec.known
       /\ y.pc = "search" /\ y.reserve = reserve /\ y.pure = q.pure /\ y.grounded = q.grounded
       /\ y.todo = q.todo /\ y.known = rec.known /\ y.leg = q.leg /\ y.range = q.range
       /\ y.anchor = q.anchor /\ y.burn = q.burn
  BY <1>8, ForgetPlaces, ForgetPlans DEF Reqs
<1> HIDE DEF x, y, q, l
<1>11. q.pure => q.leg = t.route[l] /\ q.leg.ends = "apart" /\ q.range = t.range /\ q.anchor = t.declared
  BY <1>1, <1>2 DEF PurePlan, ReadIsSo, Early
<1>12. q.pure /\ q.grounded => q.burn = day.burn
  BY <1>1, <1>2 DEF PurePlan, PlansReference
<1>13. PurePlan(t, y)
  BY <1>2, <1>7, <1>9, <1>10, <1>11, <1>12 DEF PurePlan, ReadIsSo, PlansReference, Early, Storing
<1>14. ASSUME rec.burn + rec.leg.km + reserve <= rec.range PROVE PurePlan(t, x)
  <2>1. q.pure => ReadIsSo(t, x)
    BY <1>9, <1>10 DEF ReadIsSo, Early
  <2>2. ASSUME q.pure, q.grounded PROVE PlansReference(t, x)
    <3>1. t.route[l].ends = "apart"
      BY <1>11, <2>2
    <3>2. day.burn + t.route[l].km + ReferenceReserve(t, l, t.range - day.burn) <= t.range
      BY <1>7, <1>8, <1>11, <1>12, <1>14, <2>2
    <3>3. ~day.warned /\ day.stops = t.picked[l]
      BY <1>2, <1>3, <3>1, <3>2, NoStopNeeded
    <3> QED
      BY <1>2, <1>10, <3>1, <3>3 DEF PlansReference, Storing, Searched
  <2> QED
    BY <1>10, <2>1, <2>2 DEF PurePlan
<1> QED
  BY <1>0, <1>4, <1>5, <1>13, <1>14, QuietReference

\* The search: what is placed from the start on is all of the reference's.
LEMMA SearchReference ==
    ASSUME TypesInv, FuelInv, GreedyInv, ReferenceInv, NEW r \in Requests, SearchLeg(r)
    PROVE  ReferenceInv'
<1>0. PICK t : t = TripAsItIs
  OBVIOUS
<1> DEFINE q == req[r]
           l == Now(r)
           rec == Searching(r, l)
           x == [rec EXCEPT !.pc = "place"]
<1>1. q \in Reqs /\ PurePlan(t, q) /\ PlansAgree
  BY <1>0 DEF TypesInv, ReqTyped, ReferenceInv
<1>2. l \in Legs /\ l = Head(q.todo) /\ q.pc = "search"
  BY NowIsADay DEF SearchLeg, At, Holding, Now
<1>3. Put(r, x) /\ UNCHANGED <<Trip, status, stops, upToDate>>
  BY DEF SearchLeg, Row
<1>4. q.at = 0 /\ q.picked = {}
  BY <1>2 DEF Early, GreedyInv, GreedyPlan
<1>5. /\ rec \in Reqs /\ rec.pure = q.pure /\ rec.grounded = q.grounded
      /\ rec.leg = q.leg /\ rec.range = q.range /\ rec.anchor = q.anchor /\ rec.burn = q.burn
      /\ rec.reserve = q.reserve /\ rec.todo = q.todo /\ rec.at = 0 /\ rec.picked = {}
      /\ rec.known[l] # {}
  BY <1>2, <1>4, SearchingPlans, SearchingPlaces
<1>6. q.pure => \A k \in Legs : rec.known[k] \in {{}, {t.route[k].stations}}
  <2>1. q.pure => \A k \in Legs : q.known[k] \in {{}, {t.route[k].stations}}
    BY <1>1 DEF PurePlan, ReadIsSo
  <2> QED
    BY <1>0, <1>2, <2>1, FoundIs
<1> HIDE DEF rec
<1>7. /\ x.pc = "place" /\ x.pure = q.pure /\ x.grounded = q.grounded
      /\ x.leg = q.leg /\ x.range = q.range /\ x.anchor = q.anchor /\ x.burn = q.burn
      /\ x.reserve = q.reserve /\ x.todo = q.todo /\ x.at = 0 /\ x.picked = {}
      /\ x.known = rec.known
  BY <1>5 DEF Reqs
<1> HIDE DEF x, q, l
<1>8. q.pure => ReadIsSo(t, x)
  BY <1>1, <1>2, <1>5, <1>6, <1>7 DEF PurePlan, ReadIsSo, Early
<1>9. q.pure /\ q.grounded => PlansReference(t, x)
  BY <1>1, <1>2, <1>7 DEF PurePlan, PlansReference, Storing
<1>10. PurePlan(t, x)
  BY <1>7, <1>8, <1>9 DEF PurePlan
<1> QED
  BY <1>0, <1>3, <1>10, QuietReference

\* What a request that places stops on a planned day computes with.
LEMMA PlacingIs ==
    ASSUME TypesInv, FuelInv, GreedyInv, NEW t, t = TripAsItIs, NEW r \in Requests,
           At(r, "place"), req[r].pure, PurePlan(t, req[r])
    PROVE  LET q == req[r]
               l == Now(r)
           IN  /\ l \in Legs /\ l = Head(q.todo) /\ ReqTyped(q) /\ GreedySoFar(q)
               /\ q.leg = t.route[l] /\ t.route[l].ends = "apart" /\ q.range = t.range
               /\ StationsFound(q, l) = t.route[l].stations
               /\ q.at \in 0 .. t.route[l].km
<1> DEFINE q == req[r]
           l == Now(r)
<1>1. l \in Legs /\ l = Head(q.todo) /\ ReqTyped(q) /\ q.pc = "place"
  BY NowIsADay DEF At, Holding, Now
<1>2. GreedySoFar(q)
  BY <1>1 DEF GreedyInv, GreedyPlan
<1>3. /\ q.leg = t.route[l] /\ t.route[l].ends = "apart" /\ q.range = t.range
      /\ q.known[l] \in {{}, {t.route[l].stations}} /\ q.known[l] # {}
  BY <1>1 DEF PurePlan, ReadIsSo
<1>4. StationsFound(q, l) = t.route[l].stations
  BY <1>3 DEF StationsFound
<1>5. t.route[l].km \in Nat /\ t.route[l].stations \in SUBSET Nat
  BY <1>1, TripIsTyped, RouteTypes DEF TripTyped
<1>6. q.at \in 0 .. t.route[l].km
  <2> DEFINE km == t.route[l].km
             stations == t.route[l].stations
  <2>1. q.picked \subseteq OnLeg(km, stations) /\ q.at \in {0} \cup q.picked
    BY <1>1, <1>2, <1>3, <1>4 DEF GreedySoFar, StationsOf
  <2>2. km \in Nat /\ stations \in SUBSET Nat
    BY <1>5
  <2> HIDE DEF km, stations
  <2>3. OnLeg(km, stations) \subseteq 1 .. km
    BY <2>2, OnLegIs
  <2>4. q.at \in 0 .. km
    BY <2>1, <2>2, <2>3
  <2> QED
    BY <2>4 DEF km
<1> QED
  BY <1>1, <1>2, <1>3, <1>4, <1>6

\* If the end and every station are out of reach, nothing gets through.
LEMMA NothingHelps ==
    ASSUME NEW km \in Nat, NEW stations \in SUBSET Nat, NEW tank \in Nat, NEW burn \in Nat,
           NEW p \in Nat, ~EndInReach(km, 0, tank, burn, p),
           SafeStations(km, stations, tank, burn, p) = {}, NEW at \in SUBSET stations
    PROVE  ~Drivable(km, 0, tank, burn, at)
<1> DEFINE A == OnLeg(km, at)
<1>1. A \in SUBSET OnLeg(km, stations) /\ {s \in A : 0 < s /\ s <= km} = {s \in at : 0 < s /\ s <= km}
  BY DEF OnLeg
<1> HIDE DEF A
<1>2. Drivable(km, 0, tank, burn, at) => Drivable(km, 0, tank, burn, A)
  BY <1>1, Zenon DEF Drivable
<1> QED
  BY <1>1, <1>2, StationAhead

\* Placing goes along the reference's stops, and ends with all of them or a warning.
LEMMA PlaceReference ==
    ASSUME TypesInv, FuelInv, GreedyInv, ReferenceInv, NEW r \in Requests,
           PlanComplete(r) \/ PlaceStop(r) \/ PlanGap(r)
    PROVE  ReferenceInv'
<1>0. PICK t : t = TripAsItIs
  OBVIOUS
<1>20. PICK q : q = req[r]
  OBVIOUS
<1>21. PICK l : l = Now(r)
  OBVIOUS
<1> DEFINE day == ReferenceOf(t)[l]
           km == t.route[l].km
           stations == t.route[l].stations
           reserve == ReferenceReserve(t, l, t.range - day.burn)
           from == GreedyFrom(km, stations, t.range, day.burn, reserve)
           safe == SafeStations(km, stations, t.range, day.burn, q.at)
           i == [km |-> km, stations |-> stations, range |-> t.range, burn |-> day.burn,
                 reserve |-> reserve]
<1>1. q \in Reqs /\ PurePlan(t, q) /\ PlansAgree /\ ReqTyped(q)
  BY <1>0, <1>20 DEF TypesInv, ReqTyped, ReferenceInv
<1>2. l \in Legs /\ l = Head(q.todo) /\ q.pc = "place" /\ At(r, "place")
  BY <1>20, <1>21, NowIsADay DEF PlanComplete, PlaceStop, PlanGap, Round, At, Holding, Now
<1>3. TripTyped(t)
  BY <1>0, TripIsTyped
<1>4. UNCHANGED <<Trip, status, stops, upToDate>>
  BY DEF PlanComplete, PlaceStop, PlanGap, Row
<1>5. q.pure => /\ GreedySoFar(q) /\ q.leg = t.route[l] /\ t.route[l].ends = "apart"
                /\ q.range = t.range /\ StationsFound(q, l) = stations /\ q.at \in 0 .. km
  BY <1>0, <1>1, <1>2, <1>20, <1>21, PlacingIs
<1>6. q.pure /\ q.grounded =>
        q.burn = day.burn /\ q.reserve = reserve /\ from[0] = q.picked \cup from[q.at]
  BY <1>1, <1>2 DEF PurePlan, PlansReference
<1>7. q.pure => /\ i \in DayInputs /\ IsGreedy(i, from, 0)
                /\ day.warned <=> ~Drivable(km, 0, t.range, day.burn, from[0])
                /\ day.stops = t.picked[l] \cup (IF day.warned THEN {} ELSE Chosen(from[0]))
  BY <1>2, <1>3, <1>5, PickIs
<1>8. /\ PlanInput(r).km = q.leg.km /\ PlanInput(r).reserve = q.reserve
      /\ PlanInput(r).range = q.range /\ PlanInput(r).burn = q.burn /\ PlanInput(r).at = q.at
      /\ PlanInput(r).stations = StationsFound(q, l)
      /\ Safe(PlanInput(r)) = SafeStations(q.leg.km, StationsFound(q, l), q.range, q.burn, q.at)
  BY <1>20, <1>21 DEF PlanInput, Safe
<1>9. q.pure /\ q.grounded =>
        /\ PlanInput(r).km = km /\ PlanInput(r).reserve = reserve /\ PlanInput(r).range = t.range
        /\ PlanInput(r).burn = day.burn /\ Safe(PlanInput(r)) = safe
        /\ PlanInput(r).stations = stations
  BY <1>5, <1>6, <1>8
<1>10. q.pure => /\ km \in Nat /\ stations \in SUBSET Nat /\ t.range \in Nat /\ day.burn \in Nat
                 /\ reserve \in Nat /\ q.at \in Nat
  BY <1>5, <1>7 DEF DayInputs
<1>11. q.pure => ReadIsSo(t, q)
  BY <1>1 DEF PurePlan
<1>17. i.km = km /\ i.stations = stations /\ i.range = t.range /\ i.burn = day.burn /\ i.reserve = reserve
  OBVIOUS
<1> HIDE DEF day, km, stations, reserve, from, safe, i
<1>12. CASE PlanComplete(r)
  <2> DEFINE x == [q EXCEPT !.pc = "begin", !.outcome = "ready"]
  <2>1. Put(r, x)
    BY <1>12, <1>20 DEF PlanComplete
  <2>2. /\ x.pc = "begin" /\ x.outcome = "ready" /\ x.pure = q.pure /\ x.grounded = q.grounded
        /\ x.leg = q.leg /\ x.range = q.range /\ x.anchor = q.anchor /\ x.burn = q.burn
        /\ x.reserve = q.reserve /\ x.todo = q.todo /\ x.at = q.at /\ x.picked = q.picked
        /\ x.known = q.known
    BY <1>1 DEF Reqs
  <2> HIDE DEF x
  <2>3. q.pure => ReadIsSo(t, x)
    BY <1>2, <1>11, <2>2 DEF ReadIsSo, Early
  <2>4. ASSUME q.pure, q.grounded PROVE PlansReference(t, x)
    <3>1. \/ EndInReach(km, reserve, t.range, day.burn, q.at)
          \/ safe = {} /\ EndInReach(km, 0, t.range, day.burn, q.at)
      BY <1>8, <1>9, <1>12, <2>4 DEF PlanComplete
    <3>2. EndInReach(km, 0, t.range, day.burn, q.at)
      BY <1>10, <2>4, <3>1 DEF EndInReach, Reach
    <3>3. from[q.at] = {}
      BY <1>5, <1>7, <1>17, <2>4, <3>1, PlacedAll DEF safe
    <3>4. from[0] = q.picked
      BY <1>6, <2>4, <3>3
    <3>5. /\ q.picked \in SUBSET OnLeg(km, stations) /\ q.at \in {0} \cup q.picked
          /\ \A s \in q.picked : s <= q.at
          /\ \A p \in {0} \cup q.picked :
                 p < q.at => \E s \in q.picked : p < s /\ s - p <= Reach(t.range, day.burn, p)
      BY <1>2, <1>5, <1>6, <2>4 DEF GreedySoFar, StationsOf, km
    <3>6. Drivable(km, 0, t.range, day.burn, q.picked)
      BY <1>10, <2>4, <3>2, <3>5, ChainIsDriven
    <3>7. ~day.warned /\ day.stops = t.picked[l] \cup Chosen(q.picked)
      BY <1>7, <2>4, <3>4, <3>6
    <3> QED
      BY <1>2, <1>5, <1>6, <2>2, <2>4, <3>7 DEF PlansReference, Storing, Searched, day, reserve
  <2>5. PurePlan(t, x)
    BY <2>2, <2>3, <2>4 DEF PurePlan
  <2> QED
    BY <1>0, <1>4, <2>1, <2>5, QuietReference
<1>13. CASE PlaceStop(r)
  <2> DEFINE next == Choose(Safe(PlanInput(r)))
             x == [q EXCEPT !.at = next, !.picked = @ \cup {next}]
  <2>1. /\ Put(r, x) /\ Safe(PlanInput(r)) # {}
        /\ ~EndInReach(PlanInput(r).km, PlanInput(r).reserve, PlanInput(r).range,
                       PlanInput(r).burn, PlanInput(r).at)
    BY <1>13, <1>20 DEF PlaceStop
  <2> HIDE DEF next
  <2>2. /\ x.pc = "place" /\ x.pure = q.pure /\ x.grounded = q.grounded
        /\ x.leg = q.leg /\ x.range = q.range /\ x.anchor = q.anchor /\ x.burn = q.burn
        /\ x.reserve = q.reserve /\ x.todo = q.todo /\ x.at = next
        /\ x.picked = q.picked \cup {next} /\ x.known = q.known
    BY <1>1, <1>2 DEF Reqs
  <2> HIDE DEF x
  <2>3. q.pure => ReadIsSo(t, x)
    BY <1>2, <1>11, <2>2 DEF ReadIsSo, Early
  <2>4. ASSUME q.pure, q.grounded PROVE PlansReference(t, x)
    <3>1. next = Choose(safe) /\ safe # {} /\ ~EndInReach(km, reserve, t.range, day.burn, q.at)
      BY <1>8, <1>9, <2>1, <2>4 DEF next
    <3>2. from[q.at] = {next} \cup from[next]
      BY <1>5, <1>7, <1>17, <2>4, <3>1, PlacedOne DEF safe
    <3>3. from[0] = x.picked \cup from[x.at]
      BY <1>6, <2>2, <2>4, <3>2
    <3>4. x.burn = day.burn /\ x.reserve = reserve /\ t.route[l].ends = "apart" /\ Head(x.todo) = l
      BY <1>2, <1>5, <1>6, <2>2, <2>4
    <3>5. x.pc = "place"
      BY <2>2
    <3> QED
      BY ONLY <3>3, <3>4, <3>5, Zenon
         DEF PlansReference, Storing, day, reserve, from, km, stations
  <2>5. PurePlan(t, x)
    BY <2>2, <2>3, <2>4 DEF PurePlan
  <2> QED
    BY <1>0, <1>4, <2>1, <2>5, QuietReference
<1>14. CASE PlanGap(r)
  <2> DEFINE y == [Forget(q) EXCEPT !.pc = "fail", !.picked = {}]
             z == [Forget(q) EXCEPT !.pc = "clear", !.picked = {}, !.outcome = "no_stations_found"]
  <2>1. Put(r, y) \/ Put(r, z)
    BY <1>14, <1>20 DEF PlanGap
  <2>2. /\ y.pc = "fail" /\ y.pure = q.pure /\ y.known = q.known
        /\ z.pc = "clear" /\ z.pure = q.pure /\ z.known = q.known /\ z.grounded = q.grounded
        /\ z.outcome = "no_stations_found" /\ z.todo = q.todo
    BY <1>1, ForgetPlaces, ForgetPlans DEF Reqs
  <2> HIDE DEF y, z
  <2>3. PurePlan(t, y)
    BY <1>1, <2>2, PlainPlan DEF Plain
  <2>4. q.pure => ReadIsSo(t, z)
    BY <1>11, <2>2 DEF ReadIsSo, Early
  <2>5. ASSUME q.pure, q.grounded PROVE PlansReference(t, z)
    <3>1. safe = {} /\ ~EndInReach(km, 0, t.range, day.burn, q.at)
      BY <1>8, <1>9, <1>14, <2>5 DEF PlanGap
    <3>2. ASSUME NEW at \in SUBSET stations PROVE ~Drivable(km, 0, t.range, day.burn, at)
      BY <1>10, <2>5, <3>1, NothingHelps DEF safe
    <3>3. from[0] \in SUBSET stations
      <4>1. from[0] \subseteq OnLeg(km, stations)
        <5>1. 0 \in 0 .. km
          BY <1>10, <2>5
        <5> QED
          BY <1>7, <1>17, <2>5, <5>1, GreedyIsAhead
      <4> QED
        BY <4>1 DEF OnLeg
    <3>4. day.warned /\ day.stops = t.picked[l]
      BY <1>7, <2>5, <3>2, <3>3
    <3>5. NoWayThrough(t, l)
      BY <3>2 DEF NoWayThrough, km, stations, day
    <3> QED
      BY <1>2, <1>5, <2>2, <2>5, <3>4, <3>5 DEF PlansReference, Storing, Searched, day
  <2>6. PurePlan(t, z)
    BY <2>2, <2>4, <2>5 DEF PurePlan
  <2> QED
    BY <1>0, <1>4, <2>1, <2>3, <2>6, QuietReference
<1> QED
  BY <1>12, <1>13, <1>14

\* The transaction: what the driver has picked stays, beside it comes what the reference chooses.
LEMMA StoreReference ==
    ASSUME TypesInv, FuelInv, ReferenceInv, NEW r \in Requests,
           BeginStore(r) \/ DeleteOptions(r) \/ CommitStore(r) \/ ClearStops(r)
    PROVE  ReferenceInv'
<1>0. PICK t : t = TripAsItIs
  OBVIOUS
<1>20. PICK q : q = req[r]
  OBVIOUS
<1>21. PICK l : l = Now(r)
  OBVIOUS
<1> DEFINE day == ReferenceOf(t)[l]
<1>1. q \in Reqs /\ PurePlan(t, q) /\ PlansAgree
  BY <1>0, <1>20 DEF TypesInv, ReqTyped, ReferenceInv
<1>2. l \in Legs /\ l = Head(q.todo) /\ q.pc \in {"begin", "delete", "commit", "clear"}
  BY <1>20, <1>21, NowIsADay DEF BeginStore, DeleteOptions, CommitStore, ClearStops, At, Holding, Now
<1>3. t.picked[l] = PickedKm(l)
  BY <1>0, <1>2, TripIsTyped
<1>4. q.pure => \A k \in Legs : q.known[k] \in {{}, {t.route[k].stations}}
  BY <1>1 DEF PurePlan, ReadIsSo
<1>5. q.pure /\ q.grounded =>
        /\ t.route[l].ends = "apart"
        /\ q.pc \in {"begin", "delete", "commit"} => day.stops = t.picked[l] \cup Chosen(q.picked)
        /\ q.pc \in {"delete", "commit"} => q.keep \subseteq t.picked[l]
        /\ q.pc = "clear" => day.stops = t.picked[l]
        /\ q.outcome \in Searched /\ StatusAgrees(t, l, q.outcome)
  BY <1>1, <1>2, Zenon DEF PurePlan, PlansReference, Storing, StatusAgrees
<1>6. \A s \in stops[l] : s.state \in {"option", "selected", "dismissed"}
  BY <1>2 DEF TypesInv, TypeOK, Stops
<1> HIDE DEF day
\* A plan under way goes on as one.
<1>7. ASSUME NEW p, p.pc \in {"delete", "commit", "settle"}, p.pure = q.pure, p.todo = q.todo,
             p.grounded = q.grounded, p.known = q.known, p.outcome = q.outcome,
             q.pure /\ q.grounded /\ p.pc # "settle" =>
                 /\ p.keep \subseteq t.picked[l]
                 /\ day.stops = t.picked[l] \cup Chosen(p.picked)
      PROVE  PurePlan(t, p)
  <2>1. q.pure => ReadIsSo(t, p)
    BY <1>4, <1>7 DEF ReadIsSo, Early
  <2>2. q.pure /\ q.grounded => PlansReference(t, p)
    BY <1>2, <1>5, <1>7 DEF PlansReference, Storing, StatusAgrees, day
  <2> QED
    BY <1>7, <2>1, <2>2 DEF PurePlan
<1>8. CASE BeginStore(r)
  <2> DEFINE keep == {s.km : s \in {x \in stops[l] : x.state = "selected"}}
             x == [Forget(q) EXCEPT !.pc = "delete", !.keep = keep]
  <2>1. Put(r, x) /\ UNCHANGED <<Trip, status, stops, upToDate>> /\ q.pc = "begin"
    BY <1>8, <1>20, <1>21 DEF BeginStore, Row, At
  <2>2. keep = PickedKm(l)
    BY DEF PickedKm
  <2> HIDE DEF keep
  <2>3. /\ x.pc = "delete" /\ x.keep = keep /\ x.pure = q.pure /\ x.grounded = q.grounded
        /\ x.todo = q.todo /\ x.known = q.known /\ x.outcome = q.outcome /\ x.picked = q.picked
    BY <1>1, ForgetIs, ForgetPlaces, ForgetPlans DEF Reqs
  <2> HIDE DEF x
  <2>4. PurePlan(t, x)
    BY <1>3, <1>5, <1>7, <2>1, <2>2, <2>3
  <2> QED
    BY <1>0, <2>1, <2>4, QuietReference
<1>9. CASE DeleteOptions(r)
  <2> DEFINE x == [q EXCEPT !.pc = "commit", !.victims = OptionStops(l)]
  <2>1. Put(r, x) /\ UNCHANGED <<Trip, status, stops, upToDate>> /\ q.pc = "delete"
    BY <1>9, <1>20, <1>21 DEF DeleteOptions, Row, At
  <2>2. /\ x.pc = "commit" /\ x.keep = q.keep /\ x.pure = q.pure /\ x.grounded = q.grounded
        /\ x.todo = q.todo /\ x.known = q.known /\ x.outcome = q.outcome /\ x.picked = q.picked
    BY <1>1 DEF Reqs
  <2> HIDE DEF x
  <2>3. PurePlan(t, x)
    BY <1>5, <1>7, <2>1, <2>2
  <2> QED
    BY <1>0, <2>1, <2>3, QuietReference
<1>10. CASE CommitStore(r)
  <2> DEFINE x == [q EXCEPT !.pc = "settle", !.victims = {}]
             new == NewRows(r)
             v == (stops[l] \ q.victims) \cup new
             current == Current(r) /\ (Missed(r) # {} => "stops" \in upToDate[l])
  <2>1. /\ Put(r, x) /\ UNCHANGED <<Trip, status>> /\ q.pc = "commit"
        /\ Stores(l, v) /\ Note(l, "stops", current)
    BY <1>10, <1>20, <1>21 DEF CommitStore, Row, At, Stores
  <2>2. \A s \in q.victims : s.state = "option"
    BY <1>20 DEF FuelInv, ReqOK
  <2> DEFINE b == NewBatch(Now(r))
             row(s) == [km |-> s, state |-> "option", batch |-> b]
  <2>3. new = {row(s) : s \in Chosen(q.picked) \ q.keep}
    BY <1>20 DEF NewRows
  <2> HIDE DEF b
  <2>10. \A s : row(s).km = s /\ row(s).state = "option"
    OBVIOUS
  <2> HIDE DEF new, row
  <2>4. /\ \A s \in new : s.state = "option" /\ s.km \in Chosen(q.picked) \ q.keep
        /\ \A k \in Chosen(q.picked) \ q.keep : \E s \in new : s.km = k /\ s.state = "option"
    BY <2>3, <2>10
  <2> HIDE DEF new
  <2>5. PickedIn(v) = PickedIn(stops[l])
    BY <2>2, <2>4 DEF PickedIn
  <2>6. ASSUME current PROVE StopsAgree(t, l, RefuelsIn(v))
    <3>1. /\ t.route[l].ends = "apart" /\ q.keep \subseteq t.picked[l]
          /\ day.stops = t.picked[l] \cup Chosen(q.picked)
      BY <1>5, <1>20, <2>1, <2>6 DEF Current
    <3>2. Missed(r) = {s \in stops[l] : s.state = "option"} \ q.victims
      BY <1>20, <1>21 DEF Missed, OptionStops
    <3>3. \A s \in Missed(r) : s.km \in day.stops
      <4>1. SUFFICES ASSUME NEW s \in Missed(r) PROVE s.km \in day.stops
        OBVIOUS
      <4>2. Refuels(l) = day.stops
        BY <1>0, <1>1, <1>2, <2>6, <4>1, AgreeNow DEF StopsAgree, day
      <4>3. s \in stops[l] /\ s.state = "option"
        BY <3>2
      <4> QED
        BY <4>2, <4>3 DEF Refuels
    <3> DEFINE rows == {s \in v : s.state # "dismissed"}
    <3>4. ASSUME NEW s \in rows PROVE s.km \in day.stops
      <4>1. CASE s \in new
        BY <2>4, <3>1, <4>1
      <4>2. CASE s \notin new
        <5>1. s \in stops[l] /\ s \notin q.victims /\ s.state \in {"option", "selected"}
          BY <1>6, <4>2
        <5>2. CASE s.state = "option"
          BY <3>2, <3>3, <5>1, <5>2
        <5>3. CASE s.state = "selected"
          <6>1. s.km \in PickedKm(l)
            BY <5>1, <5>3 DEF PickedKm
          <6> QED
            BY <1>3, <3>1, <6>1
        <5> QED
          BY <5>1, <5>2, <5>3
      <4> QED
        BY <4>1, <4>2
    <3>5. ASSUME NEW k \in day.stops PROVE \E s \in rows : s.km = k
      <4>1. CASE k \in t.picked[l]
        <5>1. PICK s \in stops[l] : s.state = "selected" /\ s.km = k
          BY <1>3, <4>1 DEF PickedKm
        <5>2. s \notin q.victims
          BY <2>2, <5>1
        <5> QED
          BY <5>1, <5>2
      <4>2. CASE k \notin t.picked[l]
        <5>1. k \in Chosen(q.picked) \ q.keep
          BY <3>1, <4>2
        <5>2. PICK s \in new : s.km = k /\ s.state = "option"
          BY <2>4, <5>1
        <5> QED
          BY <5>2
      <4> QED
        BY <4>1, <4>2
    <3>6. RefuelsIn(v) = {s.km : s \in rows}
      BY DEF RefuelsIn
    <3> HIDE DEF rows
    <3>7. RefuelsIn(v) = day.stops
      BY <3>4, <3>5, <3>6
    <3> QED
      BY <3>1, <3>7 DEF StopsAgree, day
  <2> HIDE DEF current, v
  <2>7. TripAsItIs' = t /\ PlansAgree'
    BY <1>0, <1>1, <1>2, <2>1, <2>5, <2>6, StopsNoted
  <2>8. /\ x.pc = "settle" /\ x.pure = q.pure /\ x.grounded = q.grounded
        /\ x.todo = q.todo /\ x.known = q.known /\ x.outcome = q.outcome
    BY <1>1 DEF Reqs
  <2> HIDE DEF x
  <2>9. PurePlan(t, x)
    BY <1>7, <2>8
  <2> QED
    BY <1>0, <2>1, <2>7, <2>9, ReferenceAfter
<1>11. CASE ClearStops(r)
  <2> DEFINE x == [q EXCEPT !.pc = "settle"]
             v == stops[l] \ OptionStops(l)
             current == Current(r)
  <2>1. /\ Put(r, x) /\ UNCHANGED <<Trip, status>> /\ q.pc = "clear"
        /\ Stores(l, v) /\ Note(l, "stops", current)
    BY <1>11, <1>20, <1>21 DEF ClearStops, ClearOptions, Go, Row, At, Stores
  <2>2. PickedIn(v) = PickedIn(stops[l]) /\ RefuelsIn(v) = PickedKm(l)
    BY <1>6 DEF PickedIn, RefuelsIn, PickedKm, OptionStops
  <2>3. current => StopsAgree(t, l, RefuelsIn(v))
    BY <1>3, <1>5, <1>20, <2>1, <2>2 DEF Current, StopsAgree, day
  <2> HIDE DEF current, v
  <2>4. TripAsItIs' = t /\ PlansAgree'
    BY <1>0, <1>1, <1>2, <2>1, <2>2, <2>3, StopsNoted
  <2>5. /\ x.pc = "settle" /\ x.pure = q.pure /\ x.grounded = q.grounded
        /\ x.todo = q.todo /\ x.known = q.known /\ x.outcome = q.outcome
    BY <1>1 DEF Reqs
  <2> HIDE DEF x
  <2>6. PurePlan(t, x)
    BY <1>7, <2>5
  <2> QED
    BY <1>0, <2>1, <2>4, <2>6, ReferenceAfter
<1> QED
  BY <1>8, <1>9, <1>10, <1>11

\* The last write of a day.
LEMMA SettleReference ==
    ASSUME TypesInv, FuelInv, ReferenceInv, NEW r \in Requests, Settle(r)
    PROVE  ReferenceInv'
<1>0. PICK t : t = TripAsItIs
  OBVIOUS
<1> DEFINE q == req[r]
           l == Now(r)
           x == [q EXCEPT !.pc = "load", !.todo = Tail(@), !.leg = None]
           current == Current(r) /\ q.outcome \in Searched
<1>1. q \in Reqs /\ PurePlan(t, q) /\ PlansAgree
  BY <1>0 DEF TypesInv, ReqTyped, ReferenceInv
<1>2. l \in Legs /\ l = Head(q.todo) /\ q.pc = "settle"
  BY NowIsADay DEF Settle, At, Holding, Now
<1>3. /\ Put(r, Idle) \/ Put(r, x)
      /\ SetFuelStatus(l, q.outcome) /\ Note(l, "status", current) /\ UNCHANGED <<Trip, stops>>
  BY DEF Settle
<1>4. x.pc = "load" /\ x.pure = q.pure /\ x.known = q.known
  BY <1>1 DEF Reqs
<1>5. current => StatusAgrees(t, l, q.outcome)
  BY <1>1, <1>2, Zenon DEF Current, PurePlan, PlansReference, StatusAgrees
<1> HIDE DEF x, current
<1>6. TripAsItIs' = t /\ PlansAgree'
  BY <1>0, <1>1, <1>2, <1>3, <1>5, StatusNoted
<1>7. PurePlan(t, x) /\ PurePlan(t, Idle)
  BY <1>1, <1>4, PlainPlan, IdlePlan DEF Plain
<1> QED
  BY <1>0, <1>3, <1>6, <1>7, ReferenceAfter

\* When something plans rest on changes, nothing is up to date and nobody undisturbed.
LEMMA NothingClaimed ==
    ASSUME \A l \in Legs : upToDate'[l] = {}, \A r \in Requests : ~req'[r].pure
    PROVE  ReferenceInv'
<1>1. PlansAgree'
  BY DEF PlansAgree
<1>2. \A r \in Requests : PurePlan(TripAsItIs', req'[r])
  BY DEF PurePlan
<1> QED
  BY <1>1, <1>2 DEF ReferenceInv

\* Planning around more of the reference's own stops is planning the reference.
LEMMA SameReference ==
    ASSUME NEW t, NEW u, u.route = t.route, u.range = t.range, u.declared = t.declared,
           ReferenceOf(u) = ReferenceOf(t),
           \A l, left : ReferenceReserve(u, l, left) = ReferenceReserve(t, l, left),
           NEW q, PurePlan(t, q), NEW p, p.pure => q.pure, p.pc = q.pc, p.todo = q.todo,
           p.known = q.known, p.leg = q.leg, p.range = q.range, p.anchor = q.anchor,
           p.burn = q.burn, p.reserve = q.reserve, p.at = q.at, p.picked = q.picked,
           p.keep = q.keep, p.outcome = q.outcome, p.grounded = q.grounded,
           LET l == Head(q.todo)
           IN  p.pc \in {"delete", "commit", "begin", "clear"} =>
                   t.picked[l] \subseteq u.picked[l] /\ u.picked[l] \subseteq ReferenceOf(t)[l].stops
    PROVE  PurePlan(u, p)
<1> DEFINE l == Head(q.todo)
           day == ReferenceOf(t)[l]
           reserve == ReferenceReserve(t, l, t.range - day.burn)
           from == GreedyFrom(t.route[l].km, t.route[l].stations, t.range, day.burn, reserve)
<1>1. ASSUME p.pure PROVE ReadIsSo(u, p)
  BY <1>1 DEF PurePlan, ReadIsSo
<1>2. ASSUME p.pure, p.grounded PROVE PlansReference(u, p)
  <2>1. PlansReference(t, q)
    BY <1>2 DEF PurePlan
  <2>2. NoWayThrough(t, l) => NoWayThrough(u, l)
    BY DEF NoWayThrough
  <2>3. /\ Head(p.todo) = l /\ ReferenceOf(u)[l] = day
        /\ ReferenceReserve(u, l, u.range - day.burn) = reserve
        /\ GreedyFrom(u.route[l].km, u.route[l].stations, u.range, day.burn, reserve) = from
    OBVIOUS
  <2>4. /\ q.pc \in {"ahead", "search", "place", "settle"} \cup Storing => t.route[l].ends = "apart"
        /\ q.pc \in {"ahead", "search", "place", "begin"} => q.burn = day.burn
        /\ q.pc \in {"search", "place", "begin"} => q.reserve = reserve
        /\ q.pc = "place" => from[0] = q.picked \cup from[q.at]
        /\ q.pc \in {"begin", "delete", "commit"} => day.stops = t.picked[l] \cup Chosen(q.picked)
        /\ q.pc \in {"delete", "commit"} => q.keep \subseteq t.picked[l]
        /\ q.pc = "clear" => day.stops = t.picked[l]
        /\ q.pc \in {"settle"} \cup Storing =>
               /\ q.outcome \in Searched
               /\ (q.outcome = "no_stations_found") <=> day.warned
               /\ day.warned => NoWayThrough(t, l)
    BY <2>1, Zenon DEF PlansReference
  <2>5. p.pc \in {"delete", "commit", "begin", "clear"} =>
            t.picked[l] \subseteq u.picked[l] /\ u.picked[l] \subseteq day.stops
    OBVIOUS
  <2> HIDE DEF l, day, reserve, from
  <2>6. /\ p.pc \in {"ahead", "search", "place", "settle"} \cup Storing => u.route[l].ends = "apart"
        /\ p.pc \in {"ahead", "search", "place", "begin"} => p.burn = day.burn
        /\ p.pc \in {"search", "place", "begin"} => p.reserve = reserve
        /\ p.pc = "place" => from[0] = p.picked \cup from[p.at]
        /\ p.pc \in {"settle"} \cup Storing =>
               /\ p.outcome \in Searched
               /\ (p.outcome = "no_stations_found") <=> day.warned
               /\ day.warned => NoWayThrough(u, l)
    BY <2>2, <2>4
  <2>7. /\ p.pc \in {"begin", "delete", "commit"} => day.stops = u.picked[l] \cup Chosen(p.picked)
        /\ p.pc \in {"delete", "commit"} => p.keep \subseteq u.picked[l]
        /\ p.pc = "clear" => day.stops = u.picked[l]
    BY <2>4, <2>5
  <2> QED
    BY <2>3, <2>6, <2>7, Zenon DEF PlansReference
<1> QED
  BY <1>1, <1>2 DEF PurePlan

\* A pick of what an up-to-date plan has placed changes nothing of the reference.
LEMMA SelectReference ==
    ASSUME TypesInv, FuelInv, ReferenceInv, NEW l \in Legs, NEW s \in stops[l], SelectStop(l, s)
    PROVE  ReferenceInv'
<1>0. PICK t : t = TripAsItIs
  OBVIOUS
<1>1. PICK u : u = TripAsItIs'
  OBVIOUS
<1>2. \A r \in Requests : req[r] \in Reqs
  BY DEF TypesInv, ReqTyped
<1>3. CASE "stops" \notin upToDate[l]
  <2>1. \A k \in Legs : upToDate'[k] = {}
    BY <1>3 DEF SelectStop
  <2>2. \A r \in Requests : req'[r].pure = (req[r].pure /\ "stops" \in upToDate[l])
    BY <1>2 DEF SelectStop, Reqs
  <2> QED
    BY <1>3, <2>1, <2>2, NothingClaimed
<1>4. CASE "stops" \in upToDate[l]
  <2> DEFINE new == [s EXCEPT !.state = "selected"]
             rows == (stops[l] \ {s}) \cup {new}
  <2>1. /\ s.state = "option" /\ s \in Stops /\ \A x \in stops[l] : x \in Stops
    BY DEF SelectStop, TypesInv, TypeOK
  <2>2. new.state = "selected" /\ new.km = s.km
    BY <2>1 DEF Stops
  <2>3. \A k \in Legs : stops'[k] = IF k = l THEN rows ELSE stops[k]
    BY DEF SelectStop, TypesInv, TypeOK
  <2> HIDE DEF new
  <2>4. PickedIn(rows) = PickedIn(stops[l]) \cup {s.km}
    BY <2>1, <2>2 DEF PickedIn
  <2>5. RefuelsIn(rows) = RefuelsIn(stops[l])
    <3>1. s.state # "dismissed" /\ new.state # "dismissed"
      BY <2>1, <2>2
    <3> QED
      BY <2>2, <3>1 DEF RefuelsIn
  <2> HIDE DEF rows
  <2>6. \A k \in Legs : /\ PickedKm(k) = PickedIn(stops[k]) /\ PickedKm(k)' = PickedIn(stops'[k])
                        /\ Refuels(k) = RefuelsIn(stops[k]) /\ Refuels(k)' = RefuelsIn(stops'[k])
    BY DEF PickedKm, PickedIn, Refuels, RefuelsIn
  <2>7. /\ \A k \in Legs : PickedKm(k)' = IF k = l THEN PickedKm(k) \cup {s.km} ELSE PickedKm(k)
        /\ \A k \in Legs : Refuels(k)' = Refuels(k)
    BY <2>3, <2>4, <2>5, <2>6
  <2>8. /\ t.route = route /\ t.range = range /\ t.declared = declared /\ TripTyped(t)
        /\ \A k \in Legs : t.picked[k] = PickedKm(k)
    BY <1>0, TripIsTyped
  <2>9. /\ u.route = t.route /\ u.range = t.range /\ u.declared = t.declared
        /\ u.picked = [k \in Legs |-> PickedKm(k)']
    <3>1. UNCHANGED Trip
      BY DEF SelectStop
    <3> QED
      BY <1>0, <1>1, <3>1 DEF TripAsItIs, Trip
  <2>10. \A k \in Legs : u.picked[k] = IF k = l THEN t.picked[k] \cup {s.km} ELSE t.picked[k]
    <3> DEFINE p == [k \in Legs |-> PickedKm(k)']
    <3>1. \A k \in Legs : p[k] = PickedKm(k)'
      OBVIOUS
    <3>2. u.picked = p
      BY <2>9
    <3> HIDE DEF p
    <3> QED
      BY <2>7, <2>8, <3>1, <3>2
  <2>11. s.km \in ReferenceOf(t)[l].stops
    <3>1. Refuels(l) = ReferenceOf(t)[l].stops
      BY <1>0, <1>4, AgreeNow DEF ReferenceInv, StopsAgree
    <3>2. s.km \in Refuels(l)
      BY <2>1 DEF Refuels
    <3> QED
      BY <3>1, <3>2
  <2>12. \A k \in Legs : t.picked[k] \subseteq ReferenceOf(t)[k].stops
    BY <2>8, ReferenceAt DEF StopsAt
  <2>13. \A k \in Legs : /\ t.picked[k] \subseteq u.picked[k]
                         /\ u.picked[k] \subseteq ReferenceOf(t)[k].stops
    BY <2>10, <2>11, <2>12
  <2>14. TripTyped(u)
    <3>1. ASSUME NEW k \in Legs PROVE u.picked[k] \in SUBSET Nat /\ IsFiniteSet(u.picked[k])
      <4>1. k \in 0 .. Days
        BY DaysAssumption DEF Legs
      <4>2. ReferenceOf(t)[k].stops \in SUBSET Nat /\ IsFiniteSet(ReferenceOf(t)[k].stops)
        BY <2>8, <4>1, ReferenceType DEF DayTyped
      <4>3. u.picked[k] \in SUBSET ReferenceOf(t)[k].stops
        BY <2>13
      <4> QED
        BY <4>2, <4>3, FS_Subset
    <3>2. u.picked \in [Legs -> SUBSET Nat]
      <4>1. \E p : u.picked = [k \in Legs |-> p[k]]
        <5> DEFINE p == [k \in Legs |-> PickedKm(k)']
        <5>1. p = [k \in Legs |-> p[k]] /\ u.picked = p
          BY <2>9
        <5> QED
          BY <5>1
      <4> QED
        BY <3>1, <4>1
    <3> QED
      BY <2>8, <2>9, <3>1, <3>2 DEF TripTyped
  <2>15. /\ ReferenceOf(u) = ReferenceOf(t)
         /\ \A k, left : ReferenceReserve(u, k, left) = ReferenceReserve(t, k, left)
    BY <2>8, <2>9, <2>13, <2>14, PicksOfThePlan
  <2>16. PlansAgree'
    <3>1. /\ \A k \in Legs : upToDate'[k] = upToDate[k]
          /\ status' = status
      BY <1>4 DEF SelectStop, Row
    <3>2. ASSUME NEW k \in Legs
          PROVE  /\ "stops" \in upToDate'[k] => StopsAgree(u, k, Refuels(k)')
                 /\ "status" \in upToDate'[k] => StatusAgrees(u, k, status'[k])
      <4>1. /\ StopsAgree(t, k, Refuels(k)) => StopsAgree(u, k, Refuels(k)')
            /\ StatusAgrees(t, k, status[k]) => StatusAgrees(u, k, status'[k])
        BY <2>7, <2>9, <2>15, <3>1 DEF StopsAgree, StatusAgrees, NoWayThrough
      <4> QED
        BY <1>0, <3>1, <4>1, AgreeNow DEF ReferenceInv
    <3> QED
      BY <1>1, <3>2, AgreeThen
  <2>17. ASSUME NEW r \in Requests PROVE PurePlan(u, req'[r])
    <3>1. PICK q : q = req[r]
      OBVIOUS
    <3> DEFINE p == [q EXCEPT !.pure = @ /\ "stops" \in upToDate[l]]
    <3>2. q \in Reqs /\ PurePlan(t, q) /\ req'[r] = p
      BY <1>0, <1>2, <3>1 DEF ReferenceInv, SelectStop
    <3>3. /\ p.pure => q.pure
          /\ p.pc = q.pc /\ p.todo = q.todo /\ p.known = q.known /\ p.leg = q.leg
          /\ p.range = q.range /\ p.anchor = q.anchor /\ p.burn = q.burn /\ p.reserve = q.reserve
          /\ p.at = q.at /\ p.picked = q.picked /\ p.keep = q.keep /\ p.outcome = q.outcome
          /\ p.grounded = q.grounded
      BY <3>2 DEF Reqs
    <3> HIDE DEF p
    <3>4. p.pc \in {"delete", "commit", "begin", "clear"} => Head(q.todo) \in Legs
      BY <3>1, <3>3, NowIsADay DEF Holding, Now
    <3>5. PurePlan(u, p)
      BY <2>9, <2>13, <2>15, <3>2, <3>3, <3>4, SameReference
    <3> QED
      BY <3>2, <3>5
  <2> QED
    BY <1>1, <2>16, <2>17 DEF ReferenceInv
<1> QED
  BY <1>3, <1>4

\* What else happens to the trip.
LEMMA TripReference ==
    ASSUME TypesInv, FuelInv, ReferenceInv, DriverOrTurn
    PROVE  ReferenceInv'
<1>0. PICK t : t = TripAsItIs
  OBVIOUS
<1>1. PlansAgree /\ \A r \in Requests : req[r] \in Reqs
  BY DEF TypesInv, ReqTyped, ReferenceInv
<1>2. ASSUME NEW r \in Requests, NEW l \in Legs, OpenDay(r, l) \/ ForceDay(r, l)
      PROVE  ReferenceInv'
  <2> DEFINE x == [Idle EXCEPT !.pc = "lookup", !.target = l, !.pure = editor.todo = <<>>,
                     !.calm = /\ editor.todo = <<>>
                              /\ \A s \in Requests : At(s, "idle") \/ req[s].calm,
                     !.alone = IF InSight(l) /\ \A s \in Requests : At(s, "idle")
                               THEN opens' ELSE 0]
  <2>1. Put(r, x) /\ UNCHANGED <<Trip, status, stops, upToDate>>
    BY <1>2 DEF OpenDay, ForceDay, BeginOpen, Row
  <2>2. x.pc = "lookup" /\ ~x.grounded /\ x.known = [k \in Legs |-> {}]
    BY DEF Idle
  <2> HIDE DEF x
  <2>3. PurePlan(t, x)
    BY <2>2 DEF PurePlan, ReadIsSo, Early
  <2> QED
    BY <1>0, <2>1, <2>3, QuietReference
<1>3. ASSUME NEW kind, NEW legs, Alter(kind, legs) PROVE ReferenceInv'
  <2>1. \A l \in Legs : upToDate'[l] = {}
    BY <1>3 DEF Alter
  <2>2. \A r \in Requests : req'[r] = [req[r] EXCEPT !.pure = FALSE, !.calm = FALSE]
    BY <1>3 DEF Alter
  <2>3. \A r \in Requests : ~req'[r].pure
    BY <1>1, <2>2 DEF Reqs
  <2> QED
    BY <2>1, <2>3, NothingClaimed
<1>4. ASSUME NEW l \in Legs, CacheExpires(l) PROVE ReferenceInv'
  <2>1. UNCHANGED <<Trip, status, stops, upToDate, req>>
    BY <1>4 DEF CacheExpires
  <2>2. \A k \in Legs : PickedKm(k)' = PickedKm(k) /\ Refuels(k)' = Refuels(k)
    BY <2>1 DEF PickedKm, Refuels
  <2>3. TripAsItIs' = t
    BY <1>0, <2>1, <2>2, TripStays
  <2>4. PlansAgree'
    BY <1>0, <1>1, <2>1, <2>2, <2>3, AgreeNow, AgreeThen
  <2> QED
    BY <1>0, <2>1, <2>3, <2>4, ReferenceKept
<1>5. ASSUME InvalidateStops \/ InvalidateStatus PROVE ReferenceInv'
  <2>1. PICK l : l = Head(editor.todo)
    OBVIOUS
  <2>2. l \in Legs
    <3>1. editor.todo \in Seq(Legs) /\ editor.todo # <<>>
      BY <1>5 DEF TypesInv, TypeOK, InvalidateStops, InvalidateStatus
    <3> QED
      BY <2>1, <3>1, HeadTailProperties
  <2>3. CASE InvalidateStops
    <3> DEFINE v == stops[l] \ OptionStops(l)
    <3>1. /\ Stores(l, v) /\ Note(l, "stops", FALSE) /\ UNCHANGED <<Trip, status>>
          /\ UNCHANGED req
      BY <2>1, <2>3 DEF InvalidateStops, ClearOptions, Stores, Row
    <3>2. PickedIn(v) = PickedIn(stops[l])
      BY DEF PickedIn, OptionStops
    <3> HIDE DEF v
    <3>3. TripAsItIs' = t /\ PlansAgree'
      BY <1>0, <1>1, <2>2, <3>1, <3>2, StopsNoted
    <3> QED
      BY <1>0, <3>1, <3>3, ReferenceKept
  <2>4. CASE InvalidateStatus
    <3>1. /\ SetFuelStatus(l, "none") /\ Note(l, "status", FALSE) /\ UNCHANGED <<Trip, stops>>
          /\ UNCHANGED req
      BY <2>1, <2>4 DEF InvalidateStatus
    <3>2. TripAsItIs' = t /\ PlansAgree'
      BY <1>0, <1>1, <2>2, <3>1, StatusNoted
    <3> QED
      BY <1>0, <3>1, <3>2, ReferenceKept
  <2> QED
    BY <1>5, <2>3, <2>4
<1>6. CASE \E l \in Legs, rt \in NewRoutes : RerouteLeg(l, rt)
  BY <1>3, <1>6 DEF RerouteLeg
<1>7. CASE \E km \in Ranges : AssignVehicle(km) \/ EditVehicle(km)
  BY <1>3, <1>7 DEF AssignVehicle, EditVehicle
<1>8. CASE \E l \in Legs, km \in Declarable : DeclareFuelState(l, km)
  BY <1>3, <1>8 DEF DeclareFuelState
<1>10. CASE \E l \in Legs : AddOrDropStop(l)
  BY <1>3, <1>10 DEF AddOrDropStop
<1>9. CASE \E l \in Legs : \E s \in stops[l] : DismissStop(l, s) \/ SelectStop(l, s)
  <2>1. PICK l \in Legs : \E s \in stops[l] : DismissStop(l, s) \/ SelectStop(l, s)
    BY <1>9
  <2> QED
    BY <1>3, <2>1, SelectReference DEF DismissStop
<1> QED
  BY <1>2, <1>4, <1>5, <1>6, <1>7, <1>8, <1>9, <1>10 DEF DriverOrTurn

LEMMA ReferenceStep ==
    TypesInv /\ FuelInv /\ CalmInv /\ SteadyInv /\ GreedyInv /\ ReferenceInv /\ [Next]_vars
        => ReferenceInv'
<1> SUFFICES ASSUME TypesInv, FuelInv, CalmInv, SteadyInv, GreedyInv, ReferenceInv, [Next]_vars
             PROVE  ReferenceInv'
  OBVIOUS
<1>1. CASE \E r \in Requests : Place(r)
  BY <1>1, PlaceReference, LookupReference DEF Place
<1>2. ASSUME NEW r \in Requests, Work(r) PROVE ReferenceInv'
  BY <1>2, LookupReference, LoadReference, WalkReference, AheadReference, SearchReference,
     StoreReference, SettleReference DEF Work
<1>3. CASE DriverOrTurn
  BY <1>3, TripReference
<1>4. CASE UNCHANGED vars
  <2>1. UNCHANGED <<Trip, status, stops, upToDate, req>>
    BY <1>4 DEF vars, Trip
  <2>2. \A k \in Legs : PickedKm(k)' = PickedKm(k) /\ Refuels(k)' = Refuels(k)
    BY <2>1 DEF PickedKm, Refuels
  <2>3. PICK t : t = TripAsItIs
    OBVIOUS
  <2>4. TripAsItIs' = t
    BY <2>1, <2>2, <2>3, TripStays
  <2>5. PlansAgree'
    BY <2>1, <2>2, <2>3, <2>4, AgreeNow, AgreeThen DEF ReferenceInv
  <2> QED
    BY <2>1, <2>3, <2>4, <2>5, ReferenceKept
<1> QED
  BY <1>1, <1>2, <1>3, <1>4 DEF Next

LEMMA ReferenceInit == Init => ReferenceInv
<1> SUFFICES ASSUME Init PROVE ReferenceInv
  OBVIOUS
<1>1. PlansAgree
  BY DEF Init, PlansAgree
<1>2. \A r \in Requests : req[r] = Idle
  BY DEF Init
<1> QED
  BY <1>1, <1>2, IdlePlan DEF ReferenceInv

LEMMA ReferenceHolds == Spec => [](TypesInv /\ ReferenceInv)
<1> DEFINE All == TypesInv /\ FuelInv /\ CalmInv /\ SteadyInv /\ GreedyInv /\ ReferenceInv
<1>1. Init => All
  BY TypesInit, FuelInit, CalmInit, SteadyInit, GreedyInit, ReferenceInit
<1>2. All /\ [Next]_vars => All'
  BY TypesStep, FuelStep, CalmStepOfNext, SteadyStep, GreedyStep, ReferenceStep
<1>3. All => TypesInv /\ ReferenceInv
  OBVIOUS
<1> QED
  BY <1>1, <1>2, <1>3, PTL DEF Spec

\* However many requests open the days, in whatever order, whichever of them fail or are
\* killed and whatever the driver picks meanwhile, a day planned after the last change has
\* the stops and the status that planning the trip in order gives it, for every trip
\* (fuel.ts: a day's plan is independent of which days the driver happens to have opened).
\* A day opened with nobody else at work counts even if no day before it was planned, for its
\* cascade plans them first, unless an unplanned one lay where the cascade does not look; one
\* opened while others are at work counts if its walk found the days before it planned.
THEOREM PlansAreOrderFree == Spec => []OpeningOrderDoesNotMatter
  BY ReferenceHolds, OrderDoesNotMatter, PTL

\* A ready day is never driven past the range, for every vehicle, tank state and stations,
\* unless its plan was cut off or made for the default vehicle because the trip's could not be
\* read (range.ts: the hard rule).
THEOREM RangeIsNeverPassed == Spec => []NeverPastRange
  BY ReferenceHolds, ReadyIsDrivable, PTL

\* Where a planned day is warned about, no choice of its stations gets the driver through,
\* unless the default vehicle was planned for (fuel.ts: a warning is real geography and no
\* failed search).
THEOREM WarningsAreHonest == Spec => []WarnedOnlyIfImpossible
  BY ReferenceHolds, WarningIsHonest, PTL
=============================================================================
