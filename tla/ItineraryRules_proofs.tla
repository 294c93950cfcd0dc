------------------------ MODULE ItineraryRules_proofs ------------------------
(***************************************************************************)
(* Lemmas about the rules of an itinerary, for trips of any length: the    *)
(* order of the legs is total, an index and a rank count what comes        *)
(* before, and a rebuild numbers the legs along the order of the drives.   *)
(***************************************************************************)
EXTENDS ItineraryRules, FiniteOrders

-----------------------------------------------------------------------------
(* The order of the legs *)

\* A trip: finitely many legs, under the numbers they were given.
IsTrip(f) == IsFiniteSet(DOMAIN f) /\ DOMAIN f \subseteq Nat /\ f \in [DOMAIN f -> Legs]

\* The tie-breaker tells legs of equal sort_order apart.
Breaks(tie, f) ==
    \A k, l \in DOMAIN f : k # l /\ f[k].sort = f[l].sort =>
        tie[k] \in Int /\ tie[l] \in Int /\ tie[k] # tie[l]

\* No two legs share a sort_order.
AllDiffer(f) == \A k, l \in DOMAIN f : k # l => f[k].sort # f[l].sort

\* What a read may return is an order.
LEMMA TieBreaks ==
    ASSUME NEW f, IsTrip(f), NEW tie \in Ties(f)
    PROVE  Breaks(tie, f)
<1>1. /\ tie \in [Tied(f) -> Tied(f)]
      /\ \A a, b \in Tied(f) : tie[a] = tie[b] => a = b
  BY DEF Ties, IsInjective
<1>2. Tied(f) \subseteq Int
  BY DEF Tied, IsTrip
<1>3. \A k, l \in DOMAIN f : k # l /\ f[k].sort = f[l].sort => k \in Tied(f) /\ l \in Tied(f)
  BY DEF Tied
<1> QED
  BY <1>1, <1>2, <1>3 DEF Breaks

LEMMA PrecedesOrders ==
    ASSUME NEW f, IsTrip(f), NEW tie, Breaks(tie, f)
    PROVE  /\ \A l \in DOMAIN f : ~Precedes(f, tie, l, l)
           /\ \A k, l, m \in DOMAIN f :
                 Precedes(f, tie, k, l) /\ Precedes(f, tie, l, m) => Precedes(f, tie, k, m)
           /\ \A k, l \in DOMAIN f :
                 k # l => Precedes(f, tie, k, l) \/ Precedes(f, tie, l, k)
<1>1. \A l \in DOMAIN f : f[l].sort \in Int
  BY DEF IsTrip, Legs
<1>2. \A l \in DOMAIN f : ~Precedes(f, tie, l, l)
  BY <1>1 DEF Precedes
<1>3. ASSUME NEW k \in DOMAIN f, NEW l \in DOMAIN f, k # l
      PROVE  Precedes(f, tie, k, l) \/ Precedes(f, tie, l, k)
  <2>1. CASE f[k].sort = f[l].sort
    <3>1. tie[k] \in Int /\ tie[l] \in Int /\ tie[k] # tie[l]
      BY <1>3, <2>1 DEF Breaks
    <3> QED
      BY <1>3, <2>1, <3>1 DEF Precedes
  <2>2. CASE f[k].sort # f[l].sort
    BY <1>1, <2>2 DEF Precedes
  <2> QED
    BY <2>1, <2>2
<1>4. ASSUME NEW k \in DOMAIN f, NEW l \in DOMAIN f, NEW m \in DOMAIN f,
             Precedes(f, tie, k, l), Precedes(f, tie, l, m)
      PROVE  Precedes(f, tie, k, m)
  <2>1. f[k].sort <= f[l].sort /\ f[l].sort <= f[m].sort
    BY <1>1, <1>4 DEF Precedes
  <2>2. CASE f[k].sort < f[m].sort
    BY <2>2 DEF Precedes
  <2>3. CASE f[k].sort = f[l].sort /\ f[l].sort = f[m].sort
    <3>1. /\ k # l /\ l # m
          /\ tie[k] < tie[l] /\ tie[l] < tie[m]
      BY <1>1, <1>4, <2>3 DEF Precedes
    <3>2. tie[k] \in Int /\ tie[l] \in Int /\ tie[m] \in Int
      BY <2>3, <3>1 DEF Breaks
    <3>3. tie[k] < tie[m]
      BY <3>1, <3>2
    <3>4. k # m
      BY <3>1, <3>2
    <3> QED
      BY <2>3, <3>3, <3>4 DEF Precedes
  <2> QED
    BY <2>1, <2>2, <2>3, <1>1
<1> QED
  BY <1>2, <1>3, <1>4

\* The order as a set of pairs, from first to last and back.
Order(f, tie) == {p \in (DOMAIN f) \X (DOMAIN f) : Precedes(f, tie, p[1], p[2])}
Backwards(f, tie) == {p \in (DOMAIN f) \X (DOMAIN f) : Precedes(f, tie, p[2], p[1])}

LEMMA OrderOrders ==
    ASSUME NEW f, IsTrip(f), NEW tie, Breaks(tie, f), NEW S \in SUBSET DOMAIN f
    PROVE  /\ \A k, l \in DOMAIN f : <<k, l>> \in Order(f, tie) <=> Precedes(f, tie, k, l)
           /\ \A k, l \in DOMAIN f : <<k, l>> \in Backwards(f, tie) <=> Precedes(f, tie, l, k)
           /\ Orders(Order(f, tie), S) /\ Orders(Backwards(f, tie), S)
<1>1. \A k, l \in DOMAIN f : <<k, l>> \in Order(f, tie) <=> Precedes(f, tie, k, l)
  BY DEF Order
<1>2. \A k, l \in DOMAIN f : <<k, l>> \in Backwards(f, tie) <=> Precedes(f, tie, l, k)
  BY DEF Backwards
<1>3. Orders(Order(f, tie), S)
  BY <1>1, PrecedesOrders DEF Orders
<1>4. Orders(Backwards(f, tie), S)
  BY <1>2, PrecedesOrders DEF Orders
<1> QED
  BY <1>1, <1>2, <1>3, <1>4

\* The first and the last leg of a set.
LEMMA FirstIsFirst ==
    ASSUME NEW f, IsTrip(f), NEW tie, Breaks(tie, f), NEW S \in SUBSET DOMAIN f, S # {}
    PROVE  /\ FirstOf(f, tie, S) \in S
           /\ \A k \in S \ {FirstOf(f, tie, S)} : Precedes(f, tie, FirstOf(f, tie, S), k)
<1>1. IsFiniteSet(S)
  BY FS_Subset DEF IsTrip
<1>4. Orders(Order(f, tie), S)
  BY OrderOrders
<1>2. PICK x \in S : \A y \in S \ {x} : <<x, y>> \in Order(f, tie)
  BY <1>1, <1>4, FirstExists
<1>3. \A y \in S \ {x} : Precedes(f, tie, x, y)
  BY <1>2, OrderOrders
<1> QED
  BY <1>3 DEF FirstOf

LEMMA LastIsLast ==
    ASSUME NEW f, IsTrip(f), NEW tie, Breaks(tie, f), NEW S \in SUBSET DOMAIN f, S # {}
    PROVE  /\ LastOf(f, tie, S) \in S
           /\ \A k \in S \ {LastOf(f, tie, S)} : Precedes(f, tie, k, LastOf(f, tie, S))
<1>1. IsFiniteSet(S)
  BY FS_Subset DEF IsTrip
<1>4. Orders(Backwards(f, tie), S)
  BY OrderOrders
<1>2. PICK x \in S : \A y \in S \ {x} : <<x, y>> \in Backwards(f, tie)
  BY <1>1, <1>4, FirstExists
<1>3. \A y \in S \ {x} : Precedes(f, tie, y, x)
  BY <1>2, OrderOrders
<1> QED
  BY <1>3 DEF LastOf

\* An index counts the legs before.
LEMMA IndexCounts ==
    ASSUME NEW f, IsTrip(f), NEW tie, Breaks(tie, f)
    PROVE  /\ \A l \in DOMAIN f : Index(f, tie, l) \in 0 .. (Cardinality(DOMAIN f) - 1)
           /\ \A k, l \in DOMAIN f :
                 Precedes(f, tie, k, l) <=> Index(f, tie, k) < Index(f, tie, l)
           /\ {Index(f, tie, l) : l \in DOMAIN f} = 0 .. (Cardinality(DOMAIN f) - 1)
<1> DEFINE D == DOMAIN f
           r == Order(f, tie)
<1>1. Orders(r, D) /\ \A k, l \in D : <<k, l>> \in r <=> Precedes(f, tie, k, l)
  BY OrderOrders
<1>2. \A l \in D : Index(f, tie, l) = Cardinality(Below(r, D, l))
  <2> TAKE l \in D
  <2>1. {k \in D : Precedes(f, tie, k, l)} = Below(r, D, l)
    BY <1>1 DEF Below
  <2> QED
    BY <2>1 DEF Index
<1>3. IsFiniteSet(D)
  BY DEF IsTrip
<1> HIDE DEF D, r
<1>4. \A l \in D : Index(f, tie, l) \in 0 .. (Cardinality(D) - 1)
  BY <1>1, <1>2, <1>3, FewerBelow
<1>5. \A k, l \in D : Precedes(f, tie, k, l) => Index(f, tie, k) < Index(f, tie, l)
  BY <1>1, <1>2, <1>3, FewerBelow
<1>6. {Index(f, tie, l) : l \in D} = 0 .. (Cardinality(D) - 1)
  <2>1. {Index(f, tie, l) : l \in D} = {Cardinality(Below(r, D, l)) : l \in D}
    BY <1>2
  <2> QED
    BY <2>1, <1>1, <1>3, AllNumbers
<1>7. Cardinality(D) \in Nat
  BY <1>3, FS_CardinalityType
<1>8. ASSUME NEW k \in D, NEW l \in D, Index(f, tie, k) < Index(f, tie, l)
      PROVE  Precedes(f, tie, k, l)
  <2>1. k # l
    BY <1>8, <1>4, <1>7
  <2>2. CASE Precedes(f, tie, l, k)
    BY <2>2, <1>5, <1>8, <1>4, <1>7
  <2> QED
    BY <2>1, <2>2, PrecedesOrders DEF D
<1> QED
  BY <1>4, <1>5, <1>6, <1>8 DEF D

\* The leg right before another.
LEMMA PreviousIs ==
    ASSUME NEW f, IsTrip(f), NEW tie, Breaks(tie, f), NEW l \in DOMAIN f
    PROVE  /\ \A p : p \in Previous(f, tie, l) <=>
                 /\ p \in DOMAIN f /\ Precedes(f, tie, p, l)
                 /\ \A k \in DOMAIN f \ {p} : Precedes(f, tie, k, l) => Precedes(f, tie, k, p)
           /\ Previous(f, tie, l) = {} <=> Earlier(f, tie, l) = {}
           /\ Earlier(f, tie, l) # {} => 
                 Previous(f, tie, l) = {LastOf(f, tie, Earlier(f, tie, l))}
<1>1. Earlier(f, tie, l) \in SUBSET DOMAIN f
  BY DEF Earlier
<1>2. CASE Earlier(f, tie, l) = {}
  BY <1>2 DEF Previous, Earlier
<1>3. CASE Earlier(f, tie, l) # {}
  <2> DEFINE q == LastOf(f, tie, Earlier(f, tie, l))
  <2>1. /\ q \in Earlier(f, tie, l)
        /\ \A k \in Earlier(f, tie, l) \ {q} : Precedes(f, tie, k, q)
    BY <1>1, <1>3, LastIsLast
  <2>2. Previous(f, tie, l) = {q}
    BY <1>3 DEF Previous
  <2> HIDE DEF q
  <2>3. ASSUME NEW p \in DOMAIN f, Precedes(f, tie, p, l), p # q,
               \A k \in DOMAIN f \ {p} : Precedes(f, tie, k, l) => Precedes(f, tie, k, p)
        PROVE  FALSE
    <3>1. Precedes(f, tie, q, p) /\ Precedes(f, tie, p, q)
      BY <2>1, <2>3 DEF Earlier
    <3>2. q \in DOMAIN f
      BY <2>1, <1>1
    <3> QED
      BY <3>1, <3>2, <2>3, PrecedesOrders
  <2>4. \A k \in DOMAIN f \ {q} : Precedes(f, tie, k, l) => Precedes(f, tie, k, q)
    BY <2>1 DEF Earlier
  <2>5. q \in DOMAIN f /\ Precedes(f, tie, q, l)
    BY <2>1 DEF Earlier
  <2> QED
    BY <2>2, <2>3, <2>4, <2>5, <1>3 DEF q
<1> QED
  BY <1>2, <1>3

\* When no two legs share a sort_order, the tie-breaker says nothing.
LEMMA NoTies ==
    ASSUME NEW f, IsTrip(f), AllDiffer(f), NEW tie, NEW tie2
    PROVE  /\ Breaks(tie, f)
           /\ \A k, l \in DOMAIN f : Precedes(f, tie, k, l) <=> f[k].sort < f[l].sort
           /\ \A l \in DOMAIN f :
                 /\ Index(f, tie, l) = Index(f, tie2, l)
                 /\ Earlier(f, tie, l) = Earlier(f, tie2, l)
                 /\ Previous(f, tie, l) = Previous(f, tie2, l)
<1>1. Breaks(tie, f) /\ Breaks(tie2, f)
  BY DEF AllDiffer, Breaks
<1>2. \A l \in DOMAIN f : f[l].sort \in Int
  BY DEF IsTrip, Legs
<1>3. \A k, l \in DOMAIN f :
        /\ Precedes(f, tie, k, l) <=> f[k].sort < f[l].sort
        /\ Precedes(f, tie2, k, l) <=> f[k].sort < f[l].sort
  BY <1>2 DEF AllDiffer, Precedes
<1>4. ASSUME NEW l \in DOMAIN f
      PROVE  /\ Index(f, tie, l) = Index(f, tie2, l)
             /\ Earlier(f, tie, l) = Earlier(f, tie2, l)
             /\ Previous(f, tie, l) = Previous(f, tie2, l)
  <2>1. Earlier(f, tie, l) = Earlier(f, tie2, l)
    BY <1>3 DEF Earlier
  <2>2. Index(f, tie, l) = Index(f, tie2, l)
    BY <2>1 DEF Index, Earlier
  <2>3. \A p : p \in Previous(f, tie, l) <=> p \in Previous(f, tie2, l)
    <3>1. \A p : p \in Previous(f, tie, l) <=>
            /\ p \in DOMAIN f /\ Precedes(f, tie, p, l)
            /\ \A k \in DOMAIN f \ {p} : Precedes(f, tie, k, l) => Precedes(f, tie, k, p)
      BY <1>1, PreviousIs
    <3>2. \A p : p \in Previous(f, tie2, l) <=>
            /\ p \in DOMAIN f /\ Precedes(f, tie2, p, l)
            /\ \A k \in DOMAIN f \ {p} : Precedes(f, tie2, k, l) => Precedes(f, tie2, k, p)
      BY <1>1, PreviousIs
    <3>3. \A p \in DOMAIN f : \A k \in DOMAIN f \ {p} :
            (Precedes(f, tie, k, l) => Precedes(f, tie, k, p))
            <=> (Precedes(f, tie2, k, l) => Precedes(f, tie2, k, p))
      BY <1>3
    <3> QED
      BY <3>1, <3>2, <3>3, <1>3
  <2>4. Previous(f, tie, l) = Previous(f, tie2, l)
    BY <2>3
  <2> QED
    BY <2>1, <2>2, <2>4
<1> QED
  BY <1>1, <1>3, <1>4

\* What the order of the legs depends on.
LEMMA SameSorts ==
    ASSUME NEW f, IsTrip(f), AllDiffer(f), NEW g, IsTrip(g), DOMAIN g = DOMAIN f,
           \A l \in DOMAIN f : g[l].sort = f[l].sort, NEW tie, NEW tie2
    PROVE  /\ AllDiffer(g)
           /\ \A l \in DOMAIN f :
                 /\ Index(f, tie, l) = Index(g, tie2, l)
                 /\ Previous(f, tie, l) = Previous(g, tie2, l)
<1>1. AllDiffer(g)
  BY DEF AllDiffer
<1>2. Breaks(tie, f) /\ Breaks(tie2, g)
  BY <1>1, NoTies
<1>3. \A k, l \in DOMAIN f : Precedes(f, tie, k, l) <=> Precedes(g, tie2, k, l)
  <2>1. \A k, l \in DOMAIN f : Precedes(f, tie, k, l) <=> f[k].sort < f[l].sort
    BY NoTies
  <2>2. \A k, l \in DOMAIN f : Precedes(g, tie2, k, l) <=> g[k].sort < g[l].sort
    BY <1>1, NoTies
  <2> QED
    BY <2>1, <2>2
<1>4. ASSUME NEW l \in DOMAIN f
      PROVE  Index(f, tie, l) = Index(g, tie2, l)
  <2>1. {k \in DOMAIN f : Precedes(f, tie, k, l)} = {k \in DOMAIN g : Precedes(g, tie2, k, l)}
    BY <1>3
  <2> QED
    BY <2>1 DEF Index
<1>5. ASSUME NEW l \in DOMAIN f
      PROVE  Previous(f, tie, l) = Previous(g, tie2, l)
  <2>1. \A p : p \in Previous(f, tie, l) <=>
          /\ p \in DOMAIN f /\ Precedes(f, tie, p, l)
          /\ \A k \in DOMAIN f \ {p} : Precedes(f, tie, k, l) => Precedes(f, tie, k, p)
    BY <1>2, PreviousIs
  <2>2. \A p : p \in Previous(g, tie2, l) <=>
          /\ p \in DOMAIN f /\ Precedes(g, tie2, p, l)
          /\ \A k \in DOMAIN f \ {p} : Precedes(g, tie2, k, l) => Precedes(g, tie2, k, p)
    BY <1>2, PreviousIs
  <2>3. \A p \in DOMAIN f : \A k \in DOMAIN f \ {p} :
          (Precedes(f, tie, k, l) => Precedes(f, tie, k, p))
          <=> (Precedes(g, tie2, k, l) => Precedes(g, tie2, k, p))
    BY <1>3
  <2>4. \A p : p \in Previous(f, tie, l) <=> p \in Previous(g, tie2, l)
    BY <2>1, <2>2, <2>3, <1>3
  <2> QED
    BY <2>4
<1> QED
  BY <1>1, <1>4, <1>5

-----------------------------------------------------------------------------
(* The rebuild *)

\* The place a rest day is spent at: where it starts, or else where it ends.
SpotOf(f, r) == IF f[r].start # None THEN f[r].start ELSE f[r].end

LEMMA KmIsADistance ==
    ASSUME NEW p \in Int, NEW q \in Int
    PROVE  Km(p, q) \in Nat /\ (Km(p, q) = 0 <=> p = q)
  BY DEF Km

\* The stop of a rest day is a drive, and one that ends where the rest day is spent if
\* some drive does.
LEMMA StopIsADrive ==
    ASSUME NEW f, IsTrip(f), NEW tie, Breaks(tie, f), Drives(f) # {}, NEW r \in DOMAIN f
    PROVE  /\ NearestDriveStop(f, tie, r) \in Drives(f)
           /\ \A d \in Drives(f) : SpotOf(f, r) # None /\ f[d].end = SpotOf(f, r) =>
                 f[NearestDriveStop(f, tie, r)].end = SpotOf(f, r)
<1> DEFINE spot == SpotOf(f, r)
           placed == {d \in Drives(f) : f[d].end # None}
           nearest == {d \in placed : \A e \in placed : Km(spot, f[d].end) <= Km(spot, f[e].end)}
<1>1. Drives(f) \in SUBSET DOMAIN f
  BY DEF Drives
<1>2. NearestDriveStop(f, tie, r) = IF spot = None \/ placed = {} THEN LastOf(f, tie, Drives(f))
                                    ELSE FirstOf(f, tie, nearest)
  BY DEF NearestDriveStop, SpotOf
<1>3. CASE spot = None \/ placed = {}
  <2>1. LastOf(f, tie, Drives(f)) \in Drives(f)
    BY <1>1, LastIsLast
  <2>2. \A d \in Drives(f) : ~(spot # None /\ f[d].end = spot)
    BY <1>3
  <2> QED
    BY <1>2, <1>3, <2>1, <2>2
<1>4. CASE spot # None /\ placed # {}
  <2>1. spot \in Int /\ \A d \in placed : f[d].end \in Int
    BY <1>4, <1>1, PlaceAssumption DEF IsTrip, Legs, Spots, SpotOf
  <2> DEFINE kms == {Km(spot, f[d].end) : d \in placed}
  <2>2. \A d \in placed : Km(spot, f[d].end) \in Nat /\ (Km(spot, f[d].end) = 0 <=> spot = f[d].end)
    BY <2>1, KmIsADistance
  <2>3. PICK n \in kms : \A m \in kms : n <= m
    <3>1. kms \in SUBSET Nat /\ kms # {}
      BY <2>2, <1>4
    <3> HIDE DEF kms
    <3> QED
      BY <3>1, LeastNatural
  <2>4. PICK x \in placed : n = Km(spot, f[x].end)
    BY <2>3
  <2>5. x \in nearest
    BY <2>3, <2>4
  <2>6. FirstOf(f, tie, nearest) \in nearest
    <3>1. nearest \in SUBSET DOMAIN f /\ nearest # {}
      BY <2>5, <1>1
    <3> HIDE DEF nearest
    <3> QED
      BY <3>1, FirstIsFirst
  <2>7. ASSUME NEW s \in nearest
        PROVE  /\ s \in Drives(f)
               /\ \A d \in Drives(f) : f[d].end = spot => f[s].end = spot
    <3>1. s \in Drives(f)
      OBVIOUS
    <3>2. ASSUME NEW d \in Drives(f), f[d].end = spot
          PROVE  f[s].end = spot
      <4>1. d \in placed
        BY <3>2, <1>4
      <4>2. Km(spot, f[s].end) <= Km(spot, f[d].end)
        BY <4>1
      <4>3. Km(spot, f[d].end) = 0
        BY <4>1, <2>2, <3>2
      <4>4. Km(spot, f[s].end) \in Nat /\ (Km(spot, f[s].end) = 0 <=> spot = f[s].end)
        BY <2>2
      <4> HIDE DEF nearest, placed, spot
      <4> QED
        BY <4>2, <4>3, <4>4
    <3> QED
      BY <3>1, <3>2
  <2>8. NearestDriveStop(f, tie, r) \in nearest
    BY <1>2, <1>4, <2>6
  <2> QED
    BY <2>7, <2>8
<1> QED
  BY <1>3, <1>4

\* The drive a leg belongs to: itself, or the stop of a rest day.
DriveOf(f, tie, l) == IF l \in Drives(f) THEN l ELSE NearestDriveStop(f, tie, l)

\* The order of a rebuilt trip: along the drives, each followed by its rest days.
Before(f, tie, k, l) ==
    \/ Precedes(f, tie, DriveOf(f, tie, k), DriveOf(f, tie, l))
    \/ /\ DriveOf(f, tie, k) = DriveOf(f, tie, l)
       /\ l \in Rests(f)
       /\ k \in Drives(f) \/ Precedes(f, tie, k, l)

Rebuilding(f, tie) == {p \in (DOMAIN f) \X (DOMAIN f) : Before(f, tie, p[1], p[2])}

LEMMA Kinds ==
    ASSUME NEW f, IsTrip(f)
    PROVE  /\ Drives(f) \cup Rests(f) = DOMAIN f
           /\ Drives(f) \cap Rests(f) = {}
<1>1. \A l \in DOMAIN f : f[l].kind \in {"drive", "rest"}
  BY DEF IsTrip, Legs
<1> QED
  BY <1>1 DEF Drives, Rests

LEMMA DriveOfIsADrive ==
    ASSUME NEW f, IsTrip(f), NEW tie, Breaks(tie, f), Drives(f) # {}, NEW l \in DOMAIN f
    PROVE  DriveOf(f, tie, l) \in Drives(f) /\ DriveOf(f, tie, l) \in DOMAIN f
<1>1. NearestDriveStop(f, tie, l) \in Drives(f)
  BY StopIsADrive
<1> QED
  BY <1>1 DEF DriveOf, Drives

\* Before is an order, and along the drives it is the order of the legs.
LEMMA BeforeOrders ==
    ASSUME NEW f, IsTrip(f), NEW tie, Breaks(tie, f), Drives(f) # {}
    PROVE  /\ Orders(Rebuilding(f, tie), DOMAIN f)
           /\ \A k, l \in DOMAIN f : <<k, l>> \in Rebuilding(f, tie) <=> Before(f, tie, k, l)
           /\ \A l \in DOMAIN f : ~Before(f, tie, l, l)
           /\ \A k, l, m \in DOMAIN f :
                 Before(f, tie, k, l) /\ Before(f, tie, l, m) => Before(f, tie, k, m)
           /\ \A k, l \in DOMAIN f : k # l => Before(f, tie, k, l) \/ Before(f, tie, l, k)
           /\ \A d, e \in Drives(f) : Before(f, tie, d, e) <=> Precedes(f, tie, d, e)
<1> DEFINE D(l) == DriveOf(f, tie, l)
           P(k, l) == Precedes(f, tie, k, l)
           B(k, l) == Before(f, tie, k, l)
<1>1. \A k, l \in DOMAIN f :
        B(k, l) <=> \/ P(D(k), D(l))
                    \/ D(k) = D(l) /\ l \in Rests(f) /\ (k \in Drives(f) \/ P(k, l))
  BY DEF Before
<1>2. \A l \in DOMAIN f : D(l) \in DOMAIN f /\ (l \in Drives(f) => D(l) = l)
  BY DriveOfIsADrive DEF DriveOf
<1>3. \A l \in DOMAIN f : l \in Rests(f) <=> l \notin Drives(f)
  BY Kinds
<1>4. /\ \A l \in DOMAIN f : ~P(l, l)
      /\ \A k, l, m \in DOMAIN f : P(k, l) /\ P(l, m) => P(k, m)
      /\ \A k, l \in DOMAIN f : k # l => P(k, l) \/ P(l, k)
  BY PrecedesOrders
<1>5. Drives(f) \subseteq DOMAIN f
  BY DEF Drives
<1> HIDE DEF D, P, B
<1>6. \A l \in DOMAIN f : ~B(l, l)
  BY <1>1, <1>2, <1>3, <1>4
<1>7. ASSUME NEW k \in DOMAIN f, NEW l \in DOMAIN f, NEW m \in DOMAIN f, B(k, l), B(l, m)
      PROVE  B(k, m)
  <2>1. CASE P(D(k), D(l)) /\ P(D(l), D(m))
    BY <2>1, <1>1, <1>2, <1>4
  <2>2. CASE P(D(k), D(l)) /\ D(l) = D(m)
    BY <2>2, <1>1
  <2>3. CASE D(k) = D(l) /\ P(D(l), D(m))
    BY <2>3, <1>1
  <2>4. CASE /\ D(k) = D(l) /\ l \in Rests(f) /\ (k \in Drives(f) \/ P(k, l))
             /\ D(l) = D(m) /\ m \in Rests(f) /\ (l \in Drives(f) \/ P(l, m))
    BY <2>4, <1>1, <1>3, <1>4
  <2> QED
    BY <2>1, <2>2, <2>3, <2>4, <1>7, <1>1
<1>8. ASSUME NEW k \in DOMAIN f, NEW l \in DOMAIN f, k # l
      PROVE  B(k, l) \/ B(l, k)
  <2>1. CASE D(k) # D(l)
    BY <2>1, <1>1, <1>2, <1>4
  <2>2. CASE D(k) = D(l)
    BY <2>2, <1>1, <1>2, <1>3, <1>4, <1>8
  <2> QED
    BY <2>1, <2>2
<1>9. \A d, e \in Drives(f) : B(d, e) <=> P(d, e)
  BY <1>1, <1>2, <1>3, <1>5
<1>10. \A k, l \in DOMAIN f : <<k, l>> \in Rebuilding(f, tie) <=> B(k, l)
  BY DEF Rebuilding, B
<1>11. Orders(Rebuilding(f, tie), DOMAIN f)
  BY <1>6, <1>7, <1>8, <1>10 DEF Orders
<1> QED
  BY <1>6, <1>7, <1>8, <1>9, <1>10, <1>11 DEF B, P

\* A rank counts the legs before.
LEMMA RankCounts ==
    ASSUME NEW f, IsTrip(f), NEW tie, Breaks(tie, f), Drives(f) # {}, NEW l \in DOMAIN f
    PROVE  Rank(f, tie, l) = Cardinality({k \in DOMAIN f : Before(f, tie, k, l)})
<1> DEFINE stop == [r \in Rests(f) |-> NearestDriveStop(f, tie, r)]
           d == DriveOf(f, tie, l)
           A == {e \in Drives(f) : Precedes(f, tie, e, d)}
           R == {r \in Rests(f) : stop[r] \in A}
           T == {r \in Rests(f) : stop[r] = d /\ Precedes(f, tie, r, l)}
           N == Cardinality(A) + Cardinality(R)
<1>1. Rank(f, tie, l) = IF l \in Drives(f) THEN N ELSE N + 1 + Cardinality(T)
  <2>1. d = IF l \in Drives(f) THEN l ELSE stop[l]
    BY Kinds DEF DriveOf
  <2> QED
    BY <2>1 DEF Rank
<1>2. d \in Drives(f)
  BY DriveOfIsADrive
<1>3. \A k \in DOMAIN f :
        /\ k \in Rests(f) <=> k \notin Drives(f)
        /\ k \in Drives(f) => DriveOf(f, tie, k) = k
        /\ k \in Rests(f) => DriveOf(f, tie, k) = stop[k]
        /\ k \in Rests(f) => stop[k] \in Drives(f)
  BY Kinds, StopIsADrive DEF DriveOf
<1>4. /\ IsFiniteSet(A) /\ IsFiniteSet(R) /\ IsFiniteSet(T) /\ IsFiniteSet({d})
      /\ Cardinality(A) \in Nat /\ Cardinality(R) \in Nat /\ Cardinality(T) \in Nat
      /\ Cardinality({d}) = 1
  <2>1. A \in SUBSET DOMAIN f /\ R \in SUBSET DOMAIN f /\ T \in SUBSET DOMAIN f
    BY DEF Drives, Rests
  <2>2. IsFiniteSet(DOMAIN f)
    BY DEF IsTrip
  <2> HIDE DEF A, R, T
  <2> QED
    BY <2>1, <2>2, FS_Subset, FS_CardinalityType, FS_Singleton
<1>5. Drives(f) \subseteq DOMAIN f /\ Rests(f) \subseteq DOMAIN f
  BY DEF Drives, Rests
<1>6. ~Precedes(f, tie, d, d)
  BY <1>2, <1>5, PrecedesOrders
<1>7. A \cap R = {} /\ (A \cup R) \cap {d} = {} /\ (A \cup R \cup {d}) \cap T = {}
  BY <1>2, <1>3, <1>5, <1>6
<1>8. \A k \in DOMAIN f : Before(f, tie, k, l) <=>
        \/ k \in A \/ k \in R
        \/ l \in Rests(f) /\ (k = d \/ k \in T)
  <2> TAKE k \in DOMAIN f
  <2>1. CASE k \in Drives(f)
    BY <2>1, <1>3, <1>5, <1>2 DEF Before
  <2>2. CASE k \in Rests(f)
    BY <2>2, <1>3, <1>5, <1>2 DEF Before
  <2> QED
    BY <2>1, <2>2, <1>3
<1> HIDE DEF A, R, T, d
<1>9. Cardinality(A \cup R) = N /\ IsFiniteSet(A \cup R)
  BY <1>4, <1>7, DisjointUnion
<1>10. Cardinality((A \cup R) \cup {d}) = N + 1 /\ IsFiniteSet((A \cup R) \cup {d})
  <2>1. d \notin A \cup R
    BY <1>7
  <2>2. N \in Nat
    BY <1>4
  <2> QED
    BY <1>9, <2>1, <2>2, FS_AddElement
<1>11. Cardinality(((A \cup R) \cup {d}) \cup T) = N + 1 + Cardinality(T)
  BY <1>4, <1>7, <1>10, DisjointUnion
<1>12. A \subseteq DOMAIN f /\ R \subseteq DOMAIN f /\ T \subseteq DOMAIN f /\ d \in DOMAIN f
  BY <1>2, <1>5 DEF A, R, T
<1>13. CASE l \in Drives(f)
  <2>1. {k \in DOMAIN f : Before(f, tie, k, l)} = A \cup R
    BY <1>3, <1>8, <1>12, <1>13
  <2> QED
    BY <2>1, <1>1, <1>9, <1>13
<1>14. CASE l \in Rests(f)
  <2>1. {k \in DOMAIN f : Before(f, tie, k, l)} = A \cup R \cup {d} \cup T
    BY <1>8, <1>12, <1>14
  <2> QED
    BY <2>1, <1>1, <1>3, <1>11, <1>14
<1> QED
  BY <1>3, <1>13, <1>14

\* What a rebuild makes of a trip with a drive: the ranks are the numbers from 0, in the
\* order of the drives and of the rest days behind each; drives keep their route, and a
\* rest day is spent where its drive ends.
LEMMA RebuiltIs ==
    ASSUME NEW f, IsTrip(f), NEW tie, Breaks(tie, f), Drives(f) # {}
    PROVE  LET g == Rebuilt(f, tie)
           IN  /\ DOMAIN g = DOMAIN f /\ IsTrip(g) /\ AllDiffer(g)
               /\ Drives(g) = Drives(f) /\ Rests(g) = Rests(f)
               /\ \A d \in Drives(f) : /\ g[d].start = f[d].start /\ g[d].end = f[d].end
                                       /\ g[d].route = f[d].route
               /\ \A r \in Rests(f) :
                     LET spot == f[NearestDriveStop(f, tie, r)].end
                     IN  g[r].start = spot /\ g[r].end = spot
               /\ \A l \in DOMAIN f :
                     g[l].sort = Cardinality({k \in DOMAIN f : Before(f, tie, k, l)})
               /\ {g[l].sort : l \in DOMAIN f} = 0 .. (Cardinality(DOMAIN f) - 1)
               /\ \A k, l \in DOMAIN f : g[k].sort < g[l].sort <=> Before(f, tie, k, l)
<1> DEFINE g == Rebuilt(f, tie)
           n == Cardinality(DOMAIN f)
           spot(r) == f[NearestDriveStop(f, tie, r)].end
           b == Rebuilding(f, tie)
           S == DOMAIN f
<1>1. g = [l \in S |->
             IF l \in Drives(f) THEN [f[l] EXCEPT !.sort = Rank(f, tie, l)]
             ELSE [f[l] EXCEPT !.sort = Rank(f, tie, l), !.start = spot(l), !.end = spot(l)]]
  BY DEF Rebuilt
<1>2. \A l \in S : Rank(f, tie, l) = Cardinality(Below(b, S, l))
  <2> TAKE l \in S
  <2>1. {k \in S : Before(f, tie, k, l)} = Below(b, S, l)
    BY BeforeOrders DEF Below
  <2> QED
    BY <2>1, RankCounts
<1>3. Orders(b, S) /\ IsFiniteSet(S) /\ n \in Nat
  BY BeforeOrders, FS_CardinalityType DEF IsTrip
<1>4. \A l \in S : spot(l) \in Spots
  BY StopIsADrive DEF Drives, IsTrip, Legs
<1>5. \A l \in S : f[l] \in Legs
  BY DEF IsTrip
<1>6. Drives(f) \subseteq S /\ Rests(f) \subseteq S
  BY DEF Drives, Rests
<1>7. \A k, l \in S : <<k, l>> \in b <=> Before(f, tie, k, l)
  BY BeforeOrders
<1>8. \A l \in S : Rank(f, tie, l) = Cardinality({k \in DOMAIN f : Before(f, tie, k, l)})
  BY RankCounts
<1> HIDE DEF g, spot, b, S
<1>9. \A l \in S : Rank(f, tie, l) \in 0 .. (Cardinality(S) - 1)
  BY <1>2, <1>3, FewerBelow
<1>10. \A l \in S : Rank(f, tie, l) \in Int
  BY <1>9, <1>3 DEF S
<1>11. DOMAIN g = S
  BY <1>1
<1>12. \A l \in S :
         /\ g[l] \in Legs /\ g[l].kind = f[l].kind /\ g[l].route = f[l].route
         /\ g[l].sort = Rank(f, tie, l)
         /\ l \in Drives(f) => g[l].start = f[l].start /\ g[l].end = f[l].end
         /\ l \notin Drives(f) => g[l].start = spot(l) /\ g[l].end = spot(l)
  BY <1>1, <1>4, <1>5, <1>10 DEF Legs
<1>13. IsTrip(g)
  <2>1. g = [l \in S |-> g[l]]
    BY <1>1
  <2>2. g \in [S -> Legs]
    BY <2>1, <1>12
  <2> QED
    BY <2>2, <1>11 DEF IsTrip, S
<1>14. Drives(g) = Drives(f) /\ Rests(g) = Rests(f)
  BY <1>11, <1>12 DEF Drives, Rests, S
<1>15. {g[l].sort : l \in S} = 0 .. (Cardinality(S) - 1)
  <2>1. {g[l].sort : l \in S} = {Cardinality(Below(b, S, l)) : l \in S}
    BY <1>12, <1>2
  <2> QED
    BY <2>1, <1>3, AllNumbers
<1>16. \A k, l \in S : Before(f, tie, k, l) => g[k].sort < g[l].sort
  <2>1. \A k, l \in S : <<k, l>> \in b =>
          Cardinality(Below(b, S, k)) < Cardinality(Below(b, S, l))
    BY <1>3, FewerBelow
  <2> QED
    BY <2>1, <1>2, <1>7, <1>12
<1>17. \A k, l \in S : g[k].sort \in Int /\ g[l].sort \in Int
  BY <1>12, <1>10
<1>18. \A k, l \in S : k # l => Before(f, tie, k, l) \/ Before(f, tie, l, k)
  BY BeforeOrders DEF S
<1>19. \A k, l \in S : g[k].sort < g[l].sort <=> Before(f, tie, k, l)
  <2> SUFFICES ASSUME NEW k \in S, NEW l \in S, g[k].sort < g[l].sort
               PROVE  Before(f, tie, k, l)
    BY <1>16
  <2>1. k # l
    BY <1>17
  <2>2. ~Before(f, tie, l, k)
    BY <1>16, <1>17
  <2> QED
    BY <2>1, <2>2, <1>18
<1>20. AllDiffer(g)
  BY <1>11, <1>16, <1>17, <1>18 DEF AllDiffer
<1>21. \A r \in Rests(f) : g[r].start = spot(r) /\ g[r].end = spot(r)
  BY <1>12, <1>6, Kinds
<1>22. \A d \in Drives(f) : /\ g[d].start = f[d].start /\ g[d].end = f[d].end
                            /\ g[d].route = f[d].route
  BY <1>12, <1>6
<1>23. \A l \in S : g[l].sort = Cardinality({k \in DOMAIN f : Before(f, tie, k, l)})
  BY <1>12, <1>8
<1> QED
  BY <1>11, <1>13, <1>14, <1>15, <1>19, <1>20, <1>21, <1>22, <1>23 DEF g, spot, S

\* Right before a rest day of a rebuilt trip comes a leg that ends at its stop.
LEMMA RestsAreBehind ==
    ASSUME NEW f, IsTrip(f), NEW tie, Breaks(tie, f), Drives(f) # {},
           NEW g, g = Rebuilt(f, tie), NEW tie2, NEW r \in Rests(f)
    PROVE  \E p \in Previous(g, tie2, r) : g[p].end = f[NearestDriveStop(f, tie, r)].end
<1> DEFINE d == NearestDriveStop(f, tie, r)
<1>1. /\ DOMAIN g = DOMAIN f /\ IsTrip(g) /\ AllDiffer(g)
      /\ \A e \in Drives(f) : g[e].end = f[e].end
      /\ \A q \in Rests(f) : g[q].end = f[NearestDriveStop(f, tie, q)].end
      /\ \A k, l \in DOMAIN f : g[k].sort < g[l].sort <=> Before(f, tie, k, l)
  BY RebuiltIs
<1>2. \A k, l \in DOMAIN f : Precedes(g, tie2, k, l) <=> Before(f, tie, k, l)
  BY <1>1, NoTies
<1>3. Breaks(tie2, g)
  BY <1>1, NoTies
<1>4. r \in DOMAIN f /\ d \in Drives(f) /\ d \in DOMAIN f /\ r \notin Drives(f)
  <2>1. r \in DOMAIN f
    BY DEF Rests
  <2> QED
    BY <2>1, StopIsADrive, Kinds DEF Drives
<1>5. DriveOf(f, tie, r) = d /\ DriveOf(f, tie, d) = d
  BY <1>4 DEF DriveOf
<1>6. Before(f, tie, d, r)
  BY <1>4, <1>5 DEF Before
<1>7. Earlier(g, tie2, r) # {}
  BY <1>1, <1>2, <1>4, <1>6 DEF Earlier
<1>8. PICK p : p \in Previous(g, tie2, r)
  BY <1>7, <1>1, <1>3, <1>4, PreviousIs
<1>9. /\ p \in DOMAIN f /\ Before(f, tie, p, r)
      /\ d # p => Before(f, tie, d, p)
  <2>1. /\ p \in DOMAIN g /\ Precedes(g, tie2, p, r)
        /\ \A k \in DOMAIN g \ {p} : Precedes(g, tie2, k, r) => Precedes(g, tie2, k, p)
    BY <1>8, <1>1, <1>3, <1>4, PreviousIs
  <2> QED
    BY <2>1, <1>1, <1>2, <1>4, <1>6
<1>10. DriveOf(f, tie, p) = d
  <2> DEFINE e == DriveOf(f, tie, p)
  <2>1. e \in DOMAIN f
    BY <1>9, DriveOfIsADrive
  <2>2. e = d \/ Precedes(f, tie, e, d)
    BY <1>9, <1>5 DEF Before
  <2>3. e = d \/ Precedes(f, tie, d, e)
    <3>1. CASE d = p
      BY <3>1, <1>5
    <3>2. CASE d # p
      BY <3>2, <1>9, <1>5 DEF Before
    <3> QED
      BY <3>1, <3>2
  <2> HIDE DEF e
  <2>4. e = d
    BY <2>1, <2>2, <2>3, <1>4, PrecedesOrders
  <2> QED
    BY <2>4 DEF e
<1>11. g[p].end = f[d].end
  <2>1. CASE p \in Drives(f)
    BY <2>1, <1>1, <1>10 DEF DriveOf
  <2>2. CASE p \in Rests(f)
    <3>1. p \notin Drives(f)
      BY <2>2, Kinds
    <3> QED
      BY <3>1, <2>2, <1>1, <1>10 DEF DriveOf
  <2> QED
    BY <2>1, <2>2, <1>9, Kinds
<1> QED
  BY <1>8, <1>11

\* A leg whose columns are written as they are stays the same.
LEMMA WrittenAsItIs ==
    ASSUME NEW leg \in Legs, NEW s, s = leg.sort
    PROVE  /\ [leg EXCEPT !.sort = s] = leg
           /\ \A p : p = leg.start /\ p = leg.end =>
                 [leg EXCEPT !.sort = s, !.start = p, !.end = p] = leg
  BY DEF Legs

\* A rebuilt trip whose drives end at places of their own is rebuilt into itself.
LEMMA RebuiltAgain ==
    ASSUME NEW f, IsTrip(f), NEW tie, Breaks(tie, f), NEW g, g = Rebuilt(f, tie), NEW tie2,
           \A d \in Drives(g) : /\ g[d].end # None
                                /\ \A e \in Drives(g) \ {d} : g[e].end # g[d].end
    PROVE  Rebuilt(g, tie2) = g
<1>1. CASE Drives(f) = {}
  BY <1>1 DEF Rebuilt
<1>2. CASE Drives(f) # {}
  <2>1. /\ DOMAIN g = DOMAIN f /\ IsTrip(g) /\ AllDiffer(g)
        /\ Drives(g) = Drives(f) /\ Rests(g) = Rests(f)
        /\ \A e \in Drives(f) : g[e].end = f[e].end
        /\ \A r \in Rests(f) : /\ g[r].start = f[NearestDriveStop(f, tie, r)].end
                               /\ g[r].end = f[NearestDriveStop(f, tie, r)].end
        /\ \A l \in DOMAIN f : g[l].sort = Cardinality({k \in DOMAIN f : Before(f, tie, k, l)})
        /\ \A k, l \in DOMAIN f : g[k].sort < g[l].sort <=> Before(f, tie, k, l)
    BY <1>2, RebuiltIs
  <2>2. Breaks(tie2, g) /\ \A k, l \in DOMAIN f : Precedes(g, tie2, k, l) <=> Before(f, tie, k, l)
    BY <2>1, NoTies
  <2>3. \A r \in Rests(f) : r \in DOMAIN f /\ r \notin Drives(f)
    BY Kinds DEF Rests
  <2>4. \A r \in Rests(f) : NearestDriveStop(f, tie, r) \in Drives(f)
    BY <1>2, <2>3, StopIsADrive
  <2>5. ASSUME NEW r \in Rests(f)
        PROVE  NearestDriveStop(g, tie2, r) = NearestDriveStop(f, tie, r)
    <3> DEFINE d == NearestDriveStop(f, tie, r)
               e == NearestDriveStop(g, tie2, r)
    <3>1. d \in Drives(g) /\ g[d].end # None /\ SpotOf(g, r) = g[d].end
      BY <2>1, <2>4 DEF SpotOf
    <3>2. r \in DOMAIN g /\ Drives(g) # {}
      BY <2>1, <2>3, <1>2
    <3>3. e \in Drives(g) /\ g[e].end = SpotOf(g, r)
      BY <3>1, <3>2, <2>1, <2>2, StopIsADrive
    <3> HIDE DEF d, e
    <3>4. e = d
      BY <3>1, <3>3
    <3> QED
      BY <3>4 DEF d, e
  <2>6. \A l \in DOMAIN f : DriveOf(g, tie2, l) = DriveOf(f, tie, l)
    <3> TAKE l \in DOMAIN f
    <3>1. CASE l \in Drives(f)
      BY <3>1, <2>1 DEF DriveOf
    <3>2. CASE l \in Rests(f)
      BY <3>2, <2>1, <2>3, <2>5 DEF DriveOf
    <3> QED
      BY <3>1, <3>2, Kinds
  <2>7. ASSUME NEW k \in DOMAIN f, NEW l \in DOMAIN f
        PROVE  Before(g, tie2, k, l) <=> Before(f, tie, k, l)
    <3> DEFINE u == DriveOf(f, tie, k)
               v == DriveOf(f, tie, l)
    <3>1. u \in Drives(f) /\ v \in Drives(f) /\ u \in DOMAIN f /\ v \in DOMAIN f
      BY <1>2, DriveOfIsADrive
    <3>2. Precedes(g, tie2, u, v) <=> Precedes(f, tie, u, v)
      BY <3>1, <2>2, <1>2, BeforeOrders
    <3>3. \A x \in DOMAIN f : ~Precedes(f, tie, x, x)
      BY PrecedesOrders
    <3>4. k \notin Drives(f) /\ l \in Rests(f) /\ u = v =>
            (Precedes(g, tie2, k, l) <=> Precedes(f, tie, k, l))
      BY <3>1, <3>3, <2>2 DEF Before
    <3>5. Before(g, tie2, k, l) <=>
            \/ Precedes(g, tie2, u, v)
            \/ u = v /\ l \in Rests(f) /\ (k \in Drives(f) \/ Precedes(g, tie2, k, l))
      BY <2>1, <2>6 DEF Before
    <3>6. Before(f, tie, k, l) <=>
            \/ Precedes(f, tie, u, v)
            \/ u = v /\ l \in Rests(f) /\ (k \in Drives(f) \/ Precedes(f, tie, k, l))
      BY DEF Before
    <3> HIDE DEF u, v
    <3> QED
      BY <3>2, <3>4, <3>5, <3>6
  <2>8. \A l \in DOMAIN f : Rank(g, tie2, l) = g[l].sort
    <3> TAKE l \in DOMAIN f
    <3>1. Rank(g, tie2, l) = Cardinality({k \in DOMAIN g : Before(g, tie2, k, l)})
      BY <2>1, <2>2, <1>2, RankCounts
    <3>2. {k \in DOMAIN g : Before(g, tie2, k, l)} = {k \in DOMAIN f : Before(f, tie, k, l)}
      BY <2>1, <2>7
    <3> QED
      BY <3>1, <3>2, <2>1
  <2>9. \A l \in DOMAIN g : g[l] \in Legs
    BY <2>1 DEF IsTrip
  <2>10. \A l \in DOMAIN g : l \notin Drives(g) =>
           /\ g[NearestDriveStop(g, tie2, l)].end = g[l].start
           /\ g[NearestDriveStop(g, tie2, l)].end = g[l].end
    <3> TAKE l \in DOMAIN g
    <3> HAVE l \notin Drives(g)
    <3>1. l \in Rests(f)
      BY <2>1, Kinds
    <3> QED
      BY <3>1, <2>1, <2>4, <2>5
  <2> DEFINE row(l) ==
               IF l \in Drives(g) THEN [g[l] EXCEPT !.sort = Rank(g, tie2, l)]
               ELSE [g[l] EXCEPT !.sort = Rank(g, tie2, l),
                                 !.start = g[NearestDriveStop(g, tie2, l)].end,
                                 !.end = g[NearestDriveStop(g, tie2, l)].end]
  <2>11. ASSUME NEW l \in DOMAIN g
         PROVE  row(l) = g[l]
    <3>1. g[l] \in Legs /\ Rank(g, tie2, l) = g[l].sort
      BY <2>1, <2>8, <2>9
    <3>2. CASE l \in Drives(g)
      BY <3>1, <3>2, WrittenAsItIs
    <3>3. CASE l \notin Drives(g)
      <4> DEFINE spot == g[NearestDriveStop(g, tie2, l)].end
      <4>1. spot = g[l].start /\ spot = g[l].end
        BY <2>10, <3>3
      <4>2. row(l) = [g[l] EXCEPT !.sort = Rank(g, tie2, l), !.start = spot, !.end = spot]
        BY <3>3
      <4> HIDE DEF spot, row
      <4> QED
        BY <4>1, <4>2, <3>1, WrittenAsItIs
    <3> QED
      BY <3>2, <3>3
  <2>12. g = [l \in DOMAIN g |-> g[l]]
    BY <2>1 DEF IsTrip
  <2>13. Rebuilt(g, tie2) = [l \in DOMAIN g |-> row(l)]
    BY <2>1, <1>2 DEF Rebuilt
  <2> HIDE DEF row
  <2> QED
    BY <2>11, <2>12, <2>13
<1> QED
  BY <1>1, <1>2

-----------------------------------------------------------------------------
(* Room for a new leg *)

\* The values a function takes on a finite set are finitely many.
LEMMA FiniteImage ==
    ASSUME NEW S, IsFiniteSet(S), NEW v
    PROVE  IsFiniteSet({v[x] : x \in S})
<1> DEFINE T == {v[x] : x \in S}
           g == [x \in S |-> v[x]]
<1>1. g \in Surjection(S, T)
  BY DEF Surjection
<1> HIDE DEF T, g
<1>2. IsFiniteSet(T)
  BY <1>1, FS_Surjection
<1> QED
  BY <1>2 DEF T

\* The greatest sort_order of some legs, or -1.
LEMMA GreatestSort ==
    ASSUME NEW f, IsTrip(f), NEW S \in SUBSET DOMAIN f
    PROVE  Max({-1} \cup {f[l].sort : l \in S}) \in Int
<1> DEFINE v == [l \in S |-> f[l].sort]
           T == {v[l] : l \in S}
<1>1. IsFiniteSet(S)
  BY FS_Subset DEF IsTrip
<1> HIDE DEF v
<1>2. IsFiniteSet(T)
  BY <1>1, FiniteImage
<1>3. T = {f[l].sort : l \in S}
  BY DEF v
<1>4. T \in SUBSET Int
  BY <1>3 DEF IsTrip, Legs
<1> HIDE DEF T
<1>5. IsFiniteSet({-1}) /\ IsFiniteSet({-1} \cup T)
  BY <1>2, FS_Singleton, FS_Union
<1>6. {-1} \cup T \in SUBSET Int /\ {-1} \cup T # {}
  BY <1>4
<1>7. Max({-1} \cup T) \in {-1} \cup T
  BY <1>5, <1>6, MaxIsGreatest
<1> QED
  BY <1>7, <1>6, <1>3

\* A new leg goes behind at most one sort_order.
LEMMA InsertAfterIs ==
    ASSUME NEW f, IsTrip(f), NEW e \in Edits
    PROVE  \/ InsertAfter(f, e) = {}
           \/ \E s \in Int : InsertAfter(f, e) = {s}
<1>1. CASE e.leg \in DOMAIN f
  <2>1. f[e.leg].sort \in Int
    BY <1>1 DEF IsTrip, Legs
  <2> QED
    BY <1>1, <2>1 DEF InsertAfter
<1>2. CASE e.leg \notin DOMAIN f /\ e.sort # None
  BY <1>2 DEF InsertAfter
<1>3. CASE e.leg \notin DOMAIN f /\ e.sort = None
  <2> DEFINE matches == {l \in DOMAIN f : /\ e.start # None /\ f[l].end # None
                                          /\ Km(e.start, f[l].end) <= LEG_CHAIN_MATCH_KM}
             m == Max({-1} \cup {f[l].sort : l \in matches})
  <2>1. m \in Int
    BY GreatestSort
  <2>2. InsertAfter(f, e) = {s \in {m} : matches # {} /\ s < MaxSort(f)}
    BY <1>3 DEF InsertAfter, InferInsertAfterSort
  <2> HIDE DEF m, matches
  <2> QED
    BY <2>1, <2>2
<1> QED
  BY <1>1, <1>2, <1>3

LEMMA SortIsNumber ==
    ASSUME NEW f, IsTrip(f), NEW e \in Edits
    PROVE  SortOf(f, e) \in Int
<1>1. CASE InsertAfter(f, e) # {}
  <2>1. PICK s \in Int : InsertAfter(f, e) = {s}
    BY <1>1, InsertAfterIs
  <2>2. IsFiniteSet({s}) /\ {s} \in SUBSET Int /\ {s} # {}
    BY FS_Singleton
  <2>3. Max({s}) \in Int
    BY <2>2, MaxIsGreatest
  <2> QED
    BY <1>1, <2>1, <2>3 DEF SortOf
<1>2. CASE InsertAfter(f, e) = {}
  <2>1. MaxSort(f) \in Int
    BY GreatestSort DEF MaxSort
  <2>2. e.sort \in Int \cup {None}
    BY DEF Edits
  <2> QED
    BY <1>2, <2>1, <2>2 DEF SortOf
<1> QED
  BY <1>1, <1>2

\* Making room moves legs back without changing their order.
LEMMA RoomIsMade ==
    ASSUME NEW f, IsTrip(f), NEW e \in Edits
    PROVE  LET g == MakeRoom(f, e)
           IN  /\ DOMAIN g = DOMAIN f /\ IsTrip(g)
               /\ \A l \in DOMAIN f :
                     /\ g[l].kind = f[l].kind /\ g[l].route = f[l].route
                     /\ g[l].start = f[l].start /\ g[l].end = f[l].end
               /\ \A k, l \in DOMAIN f : f[k].sort < f[l].sort => g[k].sort < g[l].sort
<1> DEFINE g == MakeRoom(f, e)
           behind(l) == \E s \in InsertAfter(f, e) : f[l].sort > s
<1>1. \A l \in DOMAIN f : f[l] \in Legs
  BY DEF IsTrip
<1>2. g = [l \in DOMAIN f |->
             [f[l] EXCEPT !.sort = IF behind(l) THEN f[l].sort + 1 ELSE f[l].sort]]
  BY <1>1 DEF MakeRoom
<1>3. \A k, l \in DOMAIN f : f[k].sort < f[l].sort /\ behind(k) => behind(l)
  <2> SUFFICES ASSUME NEW k \in DOMAIN f, NEW l \in DOMAIN f, f[k].sort < f[l].sort,
                      NEW s \in InsertAfter(f, e), f[k].sort > s
               PROVE  f[l].sort > s
    OBVIOUS
  <2>1. s \in Int
    BY InsertAfterIs
  <2>2. f[k].sort \in Int /\ f[l].sort \in Int
    BY <1>1 DEF Legs
  <2> QED
    BY <2>1, <2>2
<1> HIDE DEF behind, g
<1>4. DOMAIN g = DOMAIN f
  BY <1>2
<1>5. \A l \in DOMAIN f :
        /\ g[l] \in Legs
        /\ g[l].kind = f[l].kind /\ g[l].route = f[l].route
        /\ g[l].start = f[l].start /\ g[l].end = f[l].end
        /\ g[l].sort = IF behind(l) THEN f[l].sort + 1 ELSE f[l].sort
  BY <1>1, <1>2 DEF Legs
<1>6. IsTrip(g)
  <2>1. g = [l \in DOMAIN g |-> g[l]]
    BY <1>2
  <2> QED
    BY <2>1, <1>4, <1>5 DEF IsTrip
<1>7. ASSUME NEW k \in DOMAIN f, NEW l \in DOMAIN f, f[k].sort < f[l].sort
      PROVE  g[k].sort < g[l].sort
  <2>1. f[k].sort \in Int /\ f[l].sort \in Int
    BY <1>1 DEF Legs
  <2>2. behind(k) => behind(l)
    BY <1>3, <1>7
  <2> QED
    BY <2>1, <2>2, <1>5, <1>7
<1> QED
  BY <1>4, <1>5, <1>6, <1>7 DEF g

-----------------------------------------------------------------------------
(* Progress and continuity *)

LEMMA AnchorIndexIs ==
    ASSUME NEW f, IsTrip(f), NEW tie, Breaks(tie, f), NEW anchor
    PROVE  AnchorIndex(f, tie, anchor) \in Nat
<1>1. Cardinality(DOMAIN f) \in Nat
  BY FS_CardinalityType DEF IsTrip
<1>2. \A l \in DOMAIN f : Index(f, tie, l) \in Nat
  BY <1>1, IndexCounts
<1> QED
  BY <1>2 DEF AnchorIndex

\* The next leg is a drive of the trip, and only one.
LEMMA NextDriveIs ==
    ASSUME NEW f, IsTrip(f), NEW tie, Breaks(tie, f), NEW p
    PROVE  \/ NextDriveLeg(f, tie, p) = {}
           \/ \E d \in Drives(f) : NextDriveLeg(f, tie, p) = {d}
<1> DEFINE spots(l) == {f[l].start, f[l].end} \ {None}
           placed == {l \in DOMAIN f : spots(l) # {}}
           km(l) == Min({Km(p, s) : s \in spots(l)})
           nearest == {l \in placed : \A k \in placed : km(l) <= km(k)}
           from == IF placed = {} THEN 0 ELSE Index(f, tie, FirstOf(f, tie, nearest))
           ahead == {d \in Drives(f) : Index(f, tie, d) >= from}
<1>1. NextDriveLeg(f, tie, p) =
        IF Drives(f) = {} THEN {}
        ELSE IF ahead = {} THEN {LastOf(f, tie, Drives(f))} ELSE {FirstOf(f, tie, ahead)}
  BY DEF NextDriveLeg
<1>2. ahead \in SUBSET Drives(f)
  OBVIOUS
<1> HIDE DEF ahead
<1>3. Drives(f) \in SUBSET DOMAIN f /\ ahead \in SUBSET DOMAIN f
  BY <1>2 DEF Drives
<1>4. CASE Drives(f) = {}
  BY <1>1, <1>4
<1>5. CASE Drives(f) # {} /\ ahead = {}
  <2>1. LastOf(f, tie, Drives(f)) \in Drives(f)
    BY <1>3, <1>5, LastIsLast
  <2> QED
    BY <2>1, <1>1, <1>5
<1>6. CASE Drives(f) # {} /\ ahead # {}
  <2>1. FirstOf(f, tie, ahead) \in Drives(f)
    BY <1>2, <1>3, <1>6, FirstIsFirst
  <2> QED
    BY <2>1, <1>1, <1>6
<1> QED
  BY <1>4, <1>5, <1>6

\* What the repair will write: one thing for each leg, each behind the anchor; the start of
\* a drive becomes the known end of the leg before it, and a route is retried from the
\* known start of its leg.
LEMMA TargetsAre ==
    ASSUME NEW f, IsTrip(f), NEW tie, Breaks(tie, f), NEW anchor
    PROVE  LET targets == RepairTargets(f, tie, anchor)
           IN  /\ \A t \in targets :
                     /\ t = [leg |-> t.leg, index |-> t.index, fix |-> t.fix, origin |-> t.origin]
                     /\ t.leg \in DOMAIN f /\ t.index \in Nat /\ t.fix \in BOOLEAN
                     /\ t.origin \in Places
                     /\ Index(f, tie, t.leg) > AnchorIndex(f, tie, anchor)
                     /\ t.fix => /\ t.leg \in Drives(f)
                                 /\ \A p \in Previous(f, tie, t.leg) : t.origin = f[p].end
                     /\ ~t.fix => t.origin = f[t.leg].start
               /\ \A t, u \in targets : t.leg = u.leg => t = u
<1> DEFINE targets == RepairTargets(f, tie, anchor)
           fixes == StartFixes(f, tie, anchor)
           retries == Retries(f, tie, anchor)
           origin(l) == f[LastOf(f, tie, Earlier(f, tie, l))].end
           fix(l) == [leg |-> l, index |-> Index(f, tie, l), fix |-> TRUE, origin |-> origin(l)]
           retry(l) == [leg |-> l, index |-> Index(f, tie, l), fix |-> FALSE,
                        origin |-> f[l].start]
<1>1. \A t \in targets : (\E l \in fixes : t = fix(l)) \/ (\E l \in retries : t = retry(l))
  BY DEF RepairTargets
<1>2. \A l \in DOMAIN f : Index(f, tie, l) \in Nat
  <2>1. Cardinality(DOMAIN f) \in Nat
    BY FS_CardinalityType DEF IsTrip
  <2> QED
    BY <2>1, IndexCounts
<1>3. ASSUME NEW l \in fixes
      PROVE  /\ l \in Drives(f) /\ l \in DOMAIN f
             /\ Index(f, tie, l) > AnchorIndex(f, tie, anchor)
             /\ origin(l) \in Places
             /\ \A p \in Previous(f, tie, l) : origin(l) = f[p].end
  <2>1. l \in Drives(f) /\ l \in DOMAIN f /\ Index(f, tie, l) > AnchorIndex(f, tie, anchor)
    BY DEF StartFixes, Drives
  <2>2. PICK p \in Previous(f, tie, l) : f[p].end # None
    BY DEF StartFixes
  <2>3. Previous(f, tie, l) = {LastOf(f, tie, Earlier(f, tie, l))}
    BY <2>1, <2>2, PreviousIs
  <2>4. p \in DOMAIN f
    BY <2>1, <2>2, PreviousIs
  <2>5. f[p].end \in Places
    BY <2>2, <2>4 DEF IsTrip, Legs, Spots
  <2> QED
    BY <2>1, <2>2, <2>3, <2>5
<1>4. ASSUME NEW l \in retries
      PROVE  /\ l \in DOMAIN f /\ l \notin fixes
             /\ Index(f, tie, l) > AnchorIndex(f, tie, anchor)
             /\ f[l].start \in Places
  <2>1. l \in DOMAIN f /\ l \notin fixes /\ f[l].start # None
        /\ Index(f, tie, l) > AnchorIndex(f, tie, anchor)
    BY DEF Retries
  <2> QED
    BY <2>1 DEF IsTrip, Legs, Spots
<1> HIDE DEF targets, fixes, retries, origin
<1>5. ASSUME NEW t \in targets
      PROVE  /\ t = [leg |-> t.leg, index |-> t.index, fix |-> t.fix, origin |-> t.origin]
             /\ t.leg \in DOMAIN f /\ t.index \in Nat /\ t.fix \in BOOLEAN
             /\ t.origin \in Places
             /\ Index(f, tie, t.leg) > AnchorIndex(f, tie, anchor)
             /\ t.fix => /\ t.leg \in Drives(f)
                         /\ \A p \in Previous(f, tie, t.leg) : t.origin = f[p].end
             /\ ~t.fix => t.origin = f[t.leg].start
  <2>1. CASE \E l \in fixes : t = fix(l)
    <3>1. PICK l \in fixes : t = fix(l)
      BY <2>1
    <3>2. t.leg = l /\ t.index = Index(f, tie, l) /\ t.fix = TRUE /\ t.origin = origin(l)
      BY <3>1
    <3> QED
      BY <3>1, <3>2, <1>2, <1>3
  <2>2. CASE \E l \in retries : t = retry(l)
    <3>1. PICK l \in retries : t = retry(l)
      BY <2>2
    <3>2. t.leg = l /\ t.index = Index(f, tie, l) /\ t.fix = FALSE /\ t.origin = f[l].start
      BY <3>1
    <3> QED
      BY <3>1, <3>2, <1>2, <1>4
  <2> QED
    BY <2>1, <2>2, <1>1
<1>6. ASSUME NEW t \in targets, NEW u \in targets, t.leg = u.leg
      PROVE  t = u
  <2>1. \A x \in targets :
          \/ x.leg \in fixes /\ x = fix(x.leg)
          \/ x.leg \in retries /\ x = retry(x.leg)
    <3> TAKE x \in targets
    <3>1. CASE \E l \in fixes : x = fix(l)
      BY <3>1
    <3>2. CASE \E l \in retries : x = retry(l)
      BY <3>2
    <3> QED
      BY <3>1, <3>2, <1>1
  <2> HIDE DEF fix, retry
  <2>2. CASE t.leg \in fixes
    BY <2>1, <2>2, <1>4, <1>6
  <2>3. CASE t.leg \notin fixes
    BY <2>1, <2>3, <1>6
  <2> QED
    BY <2>2, <2>3
<1> QED
  BY <1>5, <1>6 DEF targets

\* Every drive behind the anchor starts where the leg before it ends, or will be moved.
LEMMA TargetsCover ==
    ASSUME NEW f, IsTrip(f), NEW tie, Breaks(tie, f), NEW anchor, NEW l \in Drives(f),
           Index(f, tie, l) > AnchorIndex(f, tie, anchor),
           NEW p \in Previous(f, tie, l), f[p].end # None
    PROVE  \/ /\ f[l].start # None
              /\ Km(f[p].end, f[l].start) <= DEFAULT_CONTINUITY_EPSILON_KM
           \/ \E t \in RepairTargets(f, tie, anchor) :
                 t.leg = l /\ t.fix /\ t.origin = f[p].end
<1> DEFINE n == Cardinality(DOMAIN f)
<1>1. l \in DOMAIN f
  BY DEF Drives
<1>2. n \in Nat /\ Index(f, tie, l) \in 0 .. (n - 1)
  BY <1>1, IndexCounts, FS_CardinalityType DEF IsTrip
<1>3. AnchorIndex(f, tie, anchor) \in Nat
  BY AnchorIndexIs
<1>4. ~(n < 2)
  BY <1>2, <1>3
<1>5. p \in DOMAIN f /\ Previous(f, tie, l) = {LastOf(f, tie, Earlier(f, tie, l))}
  BY <1>1, PreviousIs
<1>6. f[p].end \in Int /\ (f[l].start = None \/ f[l].start \in Int)
  BY <1>1, <1>5, PlaceAssumption DEF IsTrip, Legs, Spots
<1>7. CASE l \in StartFixes(f, tie, anchor)
  <2> DEFINE t == [leg |-> l, index |-> Index(f, tie, l), fix |-> TRUE,
                   origin |-> f[LastOf(f, tie, Earlier(f, tie, l))].end]
  <2>1. t \in RepairTargets(f, tie, anchor)
    BY <1>4, <1>7 DEF RepairTargets
  <2>2. t.leg = l /\ t.fix /\ t.origin = f[p].end
    BY <1>5
  <2> QED
    BY <2>1, <2>2
<1>8. CASE l \notin StartFixes(f, tie, anchor)
  <2>1. f[l].start # None /\ ~(Km(f[p].end, f[l].start) > DEFAULT_CONTINUITY_EPSILON_KM)
    BY <1>8 DEF StartFixes
  <2>2. Km(f[p].end, f[l].start) \in Nat
    BY <1>6, <2>1, KmIsADistance
  <2> QED
    BY <2>1, <2>2 DEF DEFAULT_CONTINUITY_EPSILON_KM
<1> QED
  BY <1>7, <1>8

-----------------------------------------------------------------------------
(* The gate before dispatch *)

\* What is left of the legs after the deletes at the places ps of a batch.
LeftAfter(f, batch, ps, skipped) ==
    Restrict(GateLegs(f), DOMAIN f \ ({batch[i].leg : i \in ps} \ skipped))

\* What the simulation makes of a delete.
LEMMA DeleteIs ==
    ASSUME NEW sim, NEW e, e.op = "delete", NEW skipped
    PROVE  /\ e.leg \in skipped => SimulateEdit(sim, e, skipped) = sim
           /\ e.leg \notin skipped =>
                 SimulateEdit(sim, e, skipped) = [sim EXCEPT !.legs = Without(@, e.leg)]
  BY Zenon DEF SimulateEdit

\* A batch of deletes is simulated by taking out the legs it names, in whatever order.
LEMMA SimulateDeletes ==
    ASSUME NEW f, NEW batch \in Seq(Edits), NEW n, NEW skipped,
           \A i \in 1 .. Len(batch) : batch[i].op = "delete"
    PROVE  Simulate(f, batch, n, skipped)
             = Restrict(GateLegs(f), DOMAIN f \ (DeletesOf(batch) \ skipped))
<1> DEFINE P == 1 .. Len(batch)
           top == Max({0} \cup {f[l].sort : l \in DOMAIN f})
           base == [legs |-> GateLegs(f), synId |-> n, maxSort |-> top]
           sim(ps) == [legs |-> LeftAfter(f, batch, ps, skipped), synId |-> n, maxSort |-> top]
           rec(g) == [ps \in SUBSET P |->
                        IF ps = {} THEN base
                        ELSE SimulateEdit(g[ps \ {Max(ps)}], batch[Max(ps)], skipped)]
           closed == [ps \in SUBSET P |-> sim(ps)]
           iter == CHOOSE g : g = rec(g)
<1>1. Len(batch) \in Nat /\ DOMAIN batch = P
  OBVIOUS
<1>2. \A ps \in SUBSET P : ps # {} => Max(ps) \in ps
  <2> TAKE ps \in SUBSET P
  <2>1. IsFiniteSet(P)
    BY <1>1, FS_Interval
  <2>2. IsFiniteSet(ps)
    BY <2>1, FS_Subset
  <2>3. ps \in SUBSET Int
    OBVIOUS
  <2> QED
    BY <2>2, <2>3, MaxIsGreatest
<1>3. sim({}) = base
  <2>1. LeftAfter(f, batch, {}, skipped) = GateLegs(f)
    BY DEF LeftAfter, GateLegs, Restrict
  <2> QED
    BY <2>1
<1>4. ASSUME NEW ps \in SUBSET P, NEW i \in ps
      PROVE  SimulateEdit(sim(ps \ {i}), batch[i], skipped) = sim(ps)
  <2> DEFINE e == batch[i]
             L == LeftAfter(f, batch, ps \ {i}, skipped)
             q == [legs |-> L, synId |-> n, maxSort |-> top]
  <2>1. e.op = "delete" /\ i \in P
    OBVIOUS
  <2>2. DOMAIN L = DOMAIN f \ ({batch[j].leg : j \in ps \ {i}} \ skipped)
    BY DEF LeftAfter, Restrict
  <2>3. CASE e.leg \in skipped
    <3>1. SimulateEdit(q, e, skipped) = q
      BY <2>1, <2>3, DeleteIs
    <3>2. {batch[j].leg : j \in ps \ {i}} \ skipped = {batch[j].leg : j \in ps} \ skipped
      BY <2>3
    <3> QED
      BY <3>1, <3>2 DEF LeftAfter
  <2>4. CASE e.leg \notin skipped
    <3>1. SimulateEdit(q, e, skipped) = [q EXCEPT !.legs = Without(@, e.leg)]
      BY <2>1, <2>4, DeleteIs
    <3>2. ({batch[j].leg : j \in ps \ {i}} \ skipped) \cup {e.leg} = {batch[j].leg : j \in ps} \ skipped
      BY <2>4
    <3>3. Without(L, e.leg) = LeftAfter(f, batch, ps, skipped)
      BY <3>2 DEF LeftAfter, Restrict, Without, GateLegs
    <3> QED
      BY <3>1, <3>3
  <2> QED
    BY <2>3, <2>4
<1> HIDE DEF sim
<1>5. closed = rec(closed)
  <2>1. \A ps \in SUBSET P : closed[ps] = rec(closed)[ps]
    <3> TAKE ps \in SUBSET P
    <3>1. CASE ps = {}
      BY <1>3, <3>1
    <3>2. CASE ps # {}
      <4>1. Max(ps) \in ps
        BY <1>2, <3>2
      <4>2. ps \ {Max(ps)} \in SUBSET P
        OBVIOUS
      <4> QED
        BY <1>4, <3>2, <4>1, <4>2
    <3> QED
      BY <3>1, <3>2
  <2> QED
    BY <2>1
<1>6. iter = rec(iter)
  BY <1>5, Zenon
<1>7. Simulate(f, batch, n, skipped) = iter[P].legs
  BY <1>1 DEF Simulate, FoldLeft, MapThenFoldSet
<1> HIDE DEF iter
<1>8. /\ \A ps \in SUBSET P : iter[ps] = IF ps = {} THEN base
                        ELSE SimulateEdit(iter[ps \ {Max(ps)}], batch[Max(ps)], skipped)
  BY <1>6
<1> HIDE DEF base
<1>9. \A ps \in SUBSET P : iter[ps] = sim(ps)
  <2> DEFINE Bad == {Cardinality(ps) : ps \in {qs \in SUBSET P : iter[qs] # sim(qs)}}
  <2>1. SUFFICES ASSUME Bad # {} PROVE FALSE
    OBVIOUS
  <2>2. IsFiniteSet(P)
    BY <1>1, FS_Interval
  <2>3. \A ps \in SUBSET P : IsFiniteSet(ps) /\ Cardinality(ps) \in Nat
    BY <2>2, FS_Subset, FS_CardinalityType
  <2>4. Bad \in SUBSET Nat
    BY <2>3
  <2>5. PICK m \in Bad : \A k \in Bad : m <= k
    BY <2>1, <2>4, LeastNatural
  <2>6. PICK ps \in SUBSET P : iter[ps] # sim(ps) /\ m = Cardinality(ps)
    OBVIOUS
  <2>7. ps # {}
    BY <1>3, <1>8, <2>6
  <2> DEFINE i == Max(ps)
             rest == ps \ {i}
  <2>8. i \in ps /\ rest \in SUBSET P
    BY <1>2, <2>7
  <2>9. Cardinality(rest) = Cardinality(ps) - 1
    BY <2>3, <2>8, FS_RemoveElement
  <2>10. iter[rest] = sim(rest)
    <3>1. Cardinality(rest) \in Nat /\ Cardinality(ps) \in Nat
      BY <2>3, <2>8
    <3>2. Cardinality(rest) \notin Bad
      <4>1. ~(m <= Cardinality(rest))
        BY <2>6, <2>9, <3>1
      <4> HIDE DEF Bad, rest
      <4> QED
        BY <2>5, <4>1
    <3> QED
      BY <2>8, <3>2
  <2>11. iter[ps] = SimulateEdit(iter[rest], batch[i], skipped)
    BY <1>8, <2>7
  <2>12. SimulateEdit(sim(rest), batch[i], skipped) = sim(ps)
    BY <1>4, <2>8
  <2> QED
    BY <2>6, <2>10, <2>11, <2>12
<1>10. sim(P).legs = LeftAfter(f, batch, P, skipped)
  BY DEF sim
<1>11. {batch[i].leg : i \in P} = DeletesOf(batch)
  BY <1>1 DEF DeletesOf, Range
<1> QED
  BY <1>7, <1>9, <1>10, <1>11 DEF LeftAfter

\* The gaps of a trip depend on the places and the order of its legs only.
LEMMA SameGaps ==
    ASSUME NEW f, NEW g, DOMAIN g = DOMAIN f, AllDiffer(f), NEW tie, NEW tie2,
           \A l \in DOMAIN f :
              g[l].sort = f[l].sort /\ g[l].start = f[l].start /\ g[l].end = f[l].end
    PROVE  GapKeys(f, tie) = GapKeys(g, tie2)
<1> DEFINE D == DOMAIN f
<1>1. \A k, l \in D : Precedes(f, tie, k, l) <=> Precedes(g, tie2, k, l)
  BY DEF Precedes, AllDiffer
<1>2. \A l \in D : Earlier(f, tie, l) = Earlier(g, tie2, l) /\ Earlier(f, tie, l) \subseteq D
  BY <1>1 DEF Earlier
<1>3. \A S \in SUBSET D : LastOf(f, tie, S) = LastOf(g, tie2, S)
  <2> TAKE S \in SUBSET D
  <2>1. \A l \in S : (\A k \in S \ {l} : Precedes(f, tie, k, l)) <=> (\A k \in S \ {l} : Precedes(g, tie2, k, l))
    BY <1>1
  <2> QED
    BY <2>1, Zenon DEF LastOf
<1>4. \A l \in D : Previous(f, tie, l) = Previous(g, tie2, l)
  BY <1>2, <1>3, Zenon DEF Previous
<1> QED
  BY <1>4 DEF GapKeys

\* What is left of a trip after the deletes of a batch that are not skipped.
Left(f, batch, skipped) == Restrict(f, DOMAIN f \ (DeletesOf(batch) \ skipped))

\* Part of a trip is a trip.
LEMMA PartOfATrip ==
    ASSUME NEW f, IsTrip(f), AllDiffer(f), NEW S
    PROVE  LET g == Restrict(f, DOMAIN f \ S)
           IN  /\ IsTrip(g) /\ AllDiffer(g)
               /\ DOMAIN g = DOMAIN f \ S /\ \A l \in DOMAIN g : g[l] = f[l]
<1> DEFINE g == Restrict(f, DOMAIN f \ S)
<1>1. DOMAIN g = DOMAIN f \ S /\ \A l \in DOMAIN g : g[l] = f[l]
  BY DEF Restrict
<1>2. g \in [DOMAIN g -> Legs]
  BY DEF Restrict, IsTrip
<1>3. IsFiniteSet(DOMAIN g) /\ DOMAIN g \subseteq Nat
  <2>1. DOMAIN f \ S \in SUBSET DOMAIN f
    OBVIOUS
  <2> QED
    BY <1>1, <2>1, FS_Subset DEF IsTrip
<1> HIDE DEF g
<1>4. IsTrip(g) /\ AllDiffer(g)
  BY <1>1, <1>2, <1>3 DEF IsTrip, AllDiffer
<1> QED
  BY <1>1, <1>4 DEF g

\* A batch whose simulation shows no new gap leaves none.
LEMMA NoNewGapIsLeft ==
    ASSUME NEW f, IsTrip(f), AllDiffer(f), NEW batch \in Seq(Edits), NEW n, NEW skipped,
           \A i \in 1 .. Len(batch) : batch[i].op = "delete", NEW tie, NEW tie2,
           NewGaps(f, tie, batch, n, skipped) = {}
    PROVE  GapKeys(Left(f, batch, skipped), tie2) \subseteq GapKeys(f, tie)
<1> DEFINE final == Simulate(f, batch, n, skipped)
           order == [l \in DOMAIN final |-> IF l \in DOMAIN tie THEN tie[l] ELSE l]
           left == Left(f, batch, skipped)
<1>1. final = Restrict(GateLegs(f), DOMAIN f \ (DeletesOf(batch) \ skipped))
  BY SimulateDeletes
<1>2. GapKeys(final, order) \subseteq GapKeys(f, tie)
  BY DEF NewGaps
<1> HIDE DEF final, order
<1>3. /\ AllDiffer(left) /\ DOMAIN left = DOMAIN f \ (DeletesOf(batch) \ skipped)
      /\ \A l \in DOMAIN left : left[l] = f[l]
  BY PartOfATrip DEF Left
<1>4. /\ DOMAIN final = DOMAIN left
      /\ \A l \in DOMAIN left :
            final[l].sort = left[l].sort /\ final[l].start = left[l].start /\ final[l].end = left[l].end
  BY <1>1, <1>3 DEF Restrict, GateLegs
<1> HIDE DEF left
<1>5. GapKeys(left, tie2) = GapKeys(final, order)
  BY <1>3, <1>4, SameGaps
<1> QED
  BY <1>2, <1>5 DEF left

\* A trip of one leg has no gap.
LEMMA NoGapInOneLeg ==
    ASSUME NEW f, IsTrip(f), AllDiffer(f), Cardinality(DOMAIN f) < 2, NEW tie
    PROVE  GapKeys(f, tie) = {}
<1> SUFFICES ASSUME NEW p \in DOMAIN f, NEW l \in DOMAIN f, p \in Previous(f, tie, l)
             PROVE  FALSE
  BY DEF GapKeys
<1>1. Precedes(f, tie, p, l) /\ Breaks(tie, f)
  BY NoTies, PreviousIs
<1>2. p # l
  BY <1>1, PrecedesOrders
<1>3. IsFiniteSet(DOMAIN f)
  BY DEF IsTrip
<1>4. Cardinality(DOMAIN f \ {p}) = Cardinality(DOMAIN f) - 1 /\ Cardinality(DOMAIN f) \in Nat
  BY <1>3, FS_RemoveElement, FS_CardinalityType
<1>5. IsFiniteSet(DOMAIN f \ {p}) /\ l \in DOMAIN f \ {p}
  BY <1>2, <1>3, FS_RemoveElement
<1>6. Cardinality(DOMAIN f \ {p}) # 0
  BY <1>5, FS_EmptySet
<1>7. Cardinality(DOMAIN f \ {p}) \in Nat
  BY <1>5, FS_CardinalityType
<1> QED
  BY <1>4, <1>6, <1>7

\* What the gate lets pass of a batch of deletes leaves no gap the trip did not have, unless
\* it held back several deletes and not all.
LEMMA GateHolds ==
    ASSUME NEW f, IsTrip(f), AllDiffer(f), NEW batch \in Seq(Edits), batch # <<>>, NEW n,
           \A i \in 1 .. Len(batch) : batch[i].op = "delete", NEW tie, NEW tie2,
           NEW blocked, blocked = FindGapCreatingDeletes(f, tie, batch, n),
           \/ Cardinality(blocked \cap DeletesOf(batch)) <= 1
           \/ blocked \cap DeletesOf(batch) = DeletesOf(batch)
    PROVE  GapKeys(Left(f, batch, blocked), tie2) \subseteq GapKeys(f, tie)
<1> DEFINE deletes == DeletesOf(batch)
           culprits == {l \in deletes \cap DOMAIN f : NewGaps(f, tie, batch, n, {l}) = {}}
           small == Cardinality(DOMAIN f) < 2
           quiet == NewGaps(f, tie, batch, n, {}) = {}
<1>1. deletes # {}
  <2>1. 1 \in DOMAIN batch /\ batch[1].op = "delete"
    OBVIOUS
  <2> QED
    BY <2>1 DEF DeletesOf, Range
<1>2. blocked = IF deletes = {} \/ small \/ quiet THEN {}
                ELSE IF culprits = {} THEN deletes ELSE culprits
  BY DEF FindGapCreatingDeletes
<1>3. blocked \subseteq deletes /\ culprits \subseteq DOMAIN f
  BY <1>2
<1>4. \A l \in culprits : NewGaps(f, tie, batch, n, {l}) = {}
  OBVIOUS
<1> HIDE DEF deletes, culprits
<1>5. CASE blocked = deletes
  <2>1. DOMAIN f \ (deletes \ blocked) = DOMAIN f /\ f = [l \in DOMAIN f |-> f[l]]
    BY <1>5 DEF IsTrip
  <2>2. Left(f, batch, blocked) = f
    BY <2>1 DEF Left, Restrict, deletes
  <2>3. GapKeys(f, tie2) = GapKeys(f, tie)
    BY SameGaps
  <2> QED
    BY <2>2, <2>3
<1>6. CASE blocked # deletes /\ small
  <2> DEFINE g == Left(f, batch, blocked)
  <2>1. IsTrip(g) /\ AllDiffer(g) /\ DOMAIN g \in SUBSET DOMAIN f
    <3> DEFINE S == DeletesOf(batch) \ blocked
    <3>1. g = Restrict(f, DOMAIN f \ S)
      BY DEF Left
    <3> HIDE DEF S, g
    <3>2. /\ IsTrip(Restrict(f, DOMAIN f \ S)) /\ AllDiffer(Restrict(f, DOMAIN f \ S))
          /\ DOMAIN Restrict(f, DOMAIN f \ S) = DOMAIN f \ S
      BY ONLY IsTrip(f), AllDiffer(f), PartOfATrip
    <3> QED
      BY <3>1, <3>2
  <2>2. IsFiniteSet(DOMAIN f)
    BY DEF IsTrip
  <2>3. Cardinality(DOMAIN g) <= Cardinality(DOMAIN f) /\ Cardinality(DOMAIN g) \in Nat
        /\ Cardinality(DOMAIN f) \in Nat
    <3> HIDE DEF g
    <3> QED
      BY <2>1, <2>2, FS_Subset, FS_CardinalityType
  <2> HIDE DEF g
  <2>4. GapKeys(g, tie2) = {}
    BY <1>6, <2>1, <2>3, NoGapInOneLeg
  <2> QED
    BY <2>4 DEF g
<1>7. CASE blocked # deletes /\ ~small /\ quiet
  <2>1. blocked = {}
    BY <1>2, <1>7
  <2> QED
    BY <1>7, <2>1, NoNewGapIsLeft
<1>8. CASE blocked # deletes /\ ~small /\ ~quiet
  <2>1. blocked = culprits /\ culprits # {}
    BY <1>1, <1>2, <1>8
  <2>2. blocked \cap deletes = blocked
    BY <1>3
  <2>3. Cardinality(blocked) <= 1
    BY <1>8, <2>2 DEF deletes
  <2>4. IsFiniteSet(blocked)
    BY <1>3, <2>1, FS_Subset DEF IsTrip
  <2>5. PICK l \in blocked : TRUE
    BY <2>1
  <2>6. blocked = {l}
    <3>1. Cardinality(blocked) \in Nat /\ Cardinality(blocked \ {l}) = Cardinality(blocked) - 1
          /\ IsFiniteSet(blocked \ {l})
      BY <2>4, <2>5, FS_RemoveElement, FS_CardinalityType
    <3>2. Cardinality(blocked \ {l}) \in Nat
      BY <3>1, FS_CardinalityType
    <3>3. Cardinality(blocked \ {l}) = 0
      BY <2>3, <3>1, <3>2
    <3>4. blocked \ {l} = {}
      BY <3>1, <3>3, FS_EmptySet
    <3> QED
      BY <2>5, <3>4
  <2>7. NewGaps(f, tie, batch, n, {l}) = {}
    BY <1>4, <2>1, <2>5
  <2> QED
    BY <2>6, <2>7, NoNewGapIsLeft
<1> QED
  BY <1>5, <1>6, <1>7, <1>8

\* A read that can only come in one order is of a trip of which no two legs share a
\* sort_order.
LEMMA OneOrder ==
    ASSUME NEW f, NEW tie, Ties(f) = {tie}
    PROVE  AllDiffer(f)
<1> SUFFICES ASSUME NEW k \in DOMAIN f, NEW l \in DOMAIN f, k # l, f[k].sort = f[l].sort
             PROVE  FALSE
  BY DEF AllDiffer
<1> DEFINE T == Tied(f)
           same == [x \in T |-> x]
           swap == [x \in T |-> IF x = k THEN l ELSE IF x = l THEN k ELSE x]
<1>1. k \in T /\ l \in T
  BY DEF Tied
<1> HIDE DEF T
<1>2. same \in [T -> T] /\ IsInjective(same)
  BY DEF IsInjective
<1>3. swap \in [T -> T] /\ IsInjective(swap)
  BY <1>1 DEF IsInjective
<1>4. same # swap
  <2>1. same[k] = k /\ swap[k] = l
    BY <1>1
  <2> QED
    BY <2>1
<1>5. same \in Ties(f) /\ swap \in Ties(f)
  BY <1>2, <1>3 DEF Ties, T
<1> QED
  BY <1>4, <1>5
=============================================================================
