-------------------------- MODULE Admission_proofs --------------------------
(***************************************************************************)
(* Proofs about Penny's door, for any accounts, instances, requests and    *)
(* bounds: AdmissionInv is inductive.                                      *)
(***************************************************************************)
EXTENDS AdmissionProperties, FiniteSetTheorems, TLAPS

-----------------------------------------------------------------------------
(* The operators *)

\* The strikes after a message: what was read, one more, or none and perhaps the lock.
LEMMA StrikesSaid ==
    ASSUME NEW tier \in Tiers, NEW count \in Nat, NEW now \in Nat
    PROVE  /\ tier = "T1" => NextStrikeState(tier, count, now) = NoStrikes
           /\ tier = "T2" => NextStrikeState(tier, count, now) =
                                [strikes |-> count, lockedUntil |-> None]
           /\ tier = "T3" => \/ /\ count + 1 < STRIKES_BEFORE_LOCK
                                /\ NextStrikeState(tier, count, now) =
                                      [strikes |-> count + 1, lockedUntil |-> None]
                             \/ NextStrikeState(tier, count, now) =
                                      [strikes |-> 0, lockedUntil |-> now + StrikeLock]
<1>1. CASE tier = "T1"
  BY <1>1 DEF NextStrikeState
<1>2. CASE tier = "T2"
  BY <1>2 DEF NextStrikeState
<1>3. CASE tier = "T3" /\ count + 1 < STRIKES_BEFORE_LOCK
  BY <1>3 DEF NextStrikeState
<1>4. CASE tier = "T3" /\ ~(count + 1 < STRIKES_BEFORE_LOCK)
  BY <1>4 DEF NextStrikeState
<1> QED
  BY <1>1, <1>2, <1>3, <1>4 DEF Tiers

LEMMA StrikesTyped ==
    ASSUME NEW tier \in Tiers, NEW count \in Nat, NEW now \in Nat,
           count < STRIKES_BEFORE_LOCK
    PROVE  /\ NextStrikeState(tier, count, now) \in StrikeStates
           /\ NextStrikeState(tier, count, now).strikes < STRIKES_BEFORE_LOCK
<1>1. StrikeLock \in Nat /\ STRIKES_BEFORE_LOCK \in Nat \ {0}
  BY LifeAssumption, StrikeAssumption
<1>2. NoStrikes \in StrikeStates /\ NoStrikes.strikes = 0
  BY DEF NoStrikes, StrikeStates
<1> DEFINE counted(n) == [strikes |-> n, lockedUntil |-> None]
           locked == [strikes |-> 0, lockedUntil |-> now + StrikeLock]
<1>3. \A n \in Nat : counted(n) \in StrikeStates /\ counted(n).strikes = n
  BY DEF StrikeStates
<1>4. locked \in StrikeStates /\ locked.strikes = 0
  BY <1>1 DEF StrikeStates
<1>8. /\ tier = "T1" => NextStrikeState(tier, count, now) = NoStrikes
      /\ tier = "T2" => NextStrikeState(tier, count, now) = counted(count)
      /\ tier = "T3" => \/ /\ count + 1 < STRIKES_BEFORE_LOCK
                           /\ NextStrikeState(tier, count, now) = counted(count + 1)
                        \/ NextStrikeState(tier, count, now) = locked
  BY StrikesSaid
<1> HIDE DEF counted, locked
<1>5. CASE tier = "T1"
  BY <1>1, <1>2, <1>5, <1>8
<1>6. CASE tier = "T2"
  BY <1>3, <1>6, <1>8
<1>7. CASE tier = "T3"
  BY <1>1, <1>3, <1>4, <1>7, <1>8
<1> QED
  BY <1>5, <1>6, <1>7 DEF Tiers

LEMMA IdleTyped == Idle \in Reqs
  BY DEF Idle, Reqs, NoStrikes, StrikeStates, Tiers

LEMMA ReadingTyped ==
    ASSUME TypeOK, NEW a \in Accounts \cup {None}, NEW i \in Instances
    PROVE  Reading(a, i) \in Reqs
<1>1. clock \in Nat
  BY DEF TypeOK
<1>2. Fresh(lockCache[i]) => lockCache[i].value \in BOOLEAN
  BY DEF TypeOK, Fresh
<1> DEFINE held == IF Fresh(lockCache[i]) THEN lockCache[i].value ELSE None
<1>3. held \in BOOLEAN \cup {None}
  BY <1>2
<1>4. Reading(a, i) = [Idle EXCEPT !.pc = "read", !.account = a, !.instance = i,
                                    !.asked = clock, !.locked = held]
  BY DEF Reading
<1> HIDE DEF held
<1> QED
  BY <1>1, <1>3, <1>4, IdleTyped DEF Reqs

\* What a decided request is, field by field.
LEMMA DecidedIs ==
    ASSUME NEW q \in Reqs, NEW facts \in Facts
    PROVE  LET d == Decided(q, facts) IN
           /\ d \in Reqs
           /\ d.asked = q.asked /\ d.account = q.account
           /\ d.spent = None /\ d.fetched = None /\ d.locked = None
           /\ d.pc \in {"caps", "refused"}
           /\ d.pc = "caps" => facts.spent < StopAt /\ ~facts.locked
           /\ d.pc = "refused" /\ d.reason = "manual_lock" => facts.locked
<1> DEFINE clean == [q EXCEPT !.spent = None, !.fetched = None, !.locked = None]
           v == Verdict(facts)
<1>1. facts.spent \in Nat /\ facts.locked \in BOOLEAN /\ StopAt \in Nat
  BY LifeAssumption DEF Facts
<1>2. /\ v \in {"", "spend", "manual_lock"}
      /\ v = "" => facts.spent < StopAt /\ ~facts.locked
      /\ v = "manual_lock" => facts.locked
  <2>1. CASE facts.spent >= StopAt
    BY <2>1, <1>1 DEF Verdict
  <2>2. CASE facts.spent < StopAt /\ facts.locked
    BY <2>2, <1>1 DEF Verdict
  <2>3. CASE facts.spent < StopAt /\ ~facts.locked
    BY <2>3, <1>1 DEF Verdict
  <2>4. \/ facts.spent >= StopAt
        \/ facts.spent < StopAt /\ facts.locked
        \/ facts.spent < StopAt /\ ~facts.locked
    BY <1>1
  <2> QED
    BY <2>1, <2>2, <2>3, <2>4
<1>3. Decided(q, facts) = IF v = "" THEN [clean EXCEPT !.pc = "caps"]
                          ELSE [clean EXCEPT !.pc = "refused", !.reason = v]
  BY DEF Decided
<1>4. /\ clean \in Reqs
      /\ clean.asked = q.asked /\ clean.account = q.account
      /\ clean.spent = None /\ clean.fetched = None /\ clean.locked = None
  BY DEF Reqs
<1> HIDE DEF clean, v
<1>5. CASE v = ""
  <2>1. Decided(q, facts) = [clean EXCEPT !.pc = "caps"]
    BY <1>3, <1>5
  <2> QED
    BY <1>2, <1>4, <1>5, <2>1 DEF Reqs
<1>6. CASE v # ""
  <2>1. Decided(q, facts) = [clean EXCEPT !.pc = "refused", !.reason = v]
    BY <1>3, <1>6
  <2> QED
    BY <1>2, <1>4, <1>6, <2>1 DEF Reqs
<1> QED
  BY <1>5, <1>6

-----------------------------------------------------------------------------
(* Types *)

LEMMA PutTyped ==
    ASSUME TypeOK, NEW r \in Requests, NEW q \in Reqs, Put(r, q)
    PROVE  req' \in [Requests -> Reqs]
  BY DEF TypeOK, Put

\* The common shape of a step: only the request changes, and perhaps a bound or history.
LEMMA OnlyReqTyped ==
    ASSUME TypeOK, UNCHANGED <<Table, Caches, clock, flip, flippedAt>>,
           req' \in [Requests -> Reqs],
           posts' \in Nat, flips' \in Nat, failures' \in Nat, failedAt' \in Nat \cup {None},
           row' \in [Accounts -> Rows]
    PROVE  TypeOK'
  BY DEF TypeOK, Table, Caches

LEMMA FieldsTyped ==
    ASSUME TypeOK, NEW r \in Requests
    PROVE  /\ req[r] \in Reqs
           /\ clock \in Nat /\ posts \in Nat /\ flips \in Nat /\ failures \in Nat
           /\ flippedAt \in Nat /\ failedAt \in Nat \cup {None}
           /\ row \in [Accounts -> Rows] /\ strikes \in [Accounts -> StrikeStates]
  BY DEF TypeOK

LEMMA AfterGateTyped ==
    ASSUME TypeOK, NEW r \in Requests, NEW tier \in Tiers
    PROVE  AfterGate(r, tier) \in Reqs
<1>1. req[r] \in Reqs /\ NoStrikes \in StrikeStates
  BY FieldsTyped DEF NoStrikes, StrikeStates
<1>2. [req[r] EXCEPT !.pc = "penny", !.strike = NoStrikes, !.gated = 0, !.tier = "T1",
                     !.alone = TRUE] \in Reqs
  BY <1>1 DEF Reqs, Tiers
<1> QED
  BY <1>2, IdleTyped DEF AfterGate

LEMMA JudgedTyped ==
    ASSUME TypeOK, NEW a \in Accounts, NEW tier, NEW next, NEW alone \in BOOLEAN,
           NEW stored \in BOOLEAN, Judged(a, tier, next, alone, stored)
    PROVE  row' \in [Accounts -> Rows]
<1>1. /\ row \in [Accounts -> Rows]
      /\ row[a].junk \in Nat /\ row[a].owed \in Nat /\ row[a].calm \in BOOLEAN
  BY DEF TypeOK, Rows
<1> DEFINE ends == tier = "T1" \/ next.lockedUntil # None
           counted(n) == IF tier = "T3" THEN n + 1 ELSE n
           new == IF ends /\ alone /\ stored THEN [junk |-> 0, owed |-> 0, calm |-> TRUE]
                  ELSE [junk |-> IF ends THEN 0 ELSE counted(row[a].junk),
                        owed |-> counted(row[a].owed), calm |-> row[a].calm /\ stored]
<1>2. new \in Rows
  BY <1>1 DEF Rows
<1>3. row' = [row EXCEPT ![a] = new]
  BY DEF Judged
<1> HIDE DEF new
<1> QED
  BY <1>1, <1>2, <1>3

LEMMA NextStrikesTyped ==
    ASSUME AdmissionInv, NEW r \in Requests, NEW tier \in Tiers, req[r].pc \in {"judge", "strike"}
    PROVE  /\ req[r].account \in Accounts
           /\ req[r].strike.strikes \in Nat /\ req[r].strike.strikes < STRIKES_BEFORE_LOCK
           /\ req[r].gated \in Nat
           /\ NextStrikes(r, tier) \in StrikeStates
           /\ NextStrikes(r, tier).strikes < STRIKES_BEFORE_LOCK
<1>1. req[r] \in Reqs
  BY FieldsTyped DEF AdmissionInv
<1>2. req[r].account \in Accounts
  BY DEF AdmissionInv, BreakerInv, ReadsOK
<1>3. req[r].strike.strikes < STRIKES_BEFORE_LOCK
  BY <1>2 DEF AdmissionInv, StrikesInv, JudgedAlone, Judging
<1>4. req[r].strike.strikes \in Nat /\ req[r].gated \in Nat
  BY <1>1 DEF Reqs, StrikeStates
<1> QED
  BY <1>2, <1>3, <1>4, StrikesTyped DEF NextStrikes

LEMMA CountTyped ==
    ASSUME IsFiniteSet(usage), NEW S \in SUBSET usage
    PROVE  Cardinality(S) \in Nat
  BY FS_Subset, FS_CardinalityType

LEMMA TypeStep == AdmissionInv /\ [Next]_vars => TypeOK'
<1> SUFFICES ASSUME AdmissionInv, [Next]_vars PROVE TypeOK'
  OBVIOUS
<1>1. TypeOK /\ IsFiniteSet(usage) /\ ReadsOK
  BY DEF AdmissionInv, BreakerInv
<1>2. \A r \in Requests : req[r] \in Reqs
  BY <1>1, FieldsTyped
<1>3. /\ clock \in Nat /\ posts \in Nat /\ flips \in Nat /\ failures \in Nat
      /\ flippedAt \in Nat /\ failedAt \in Nat \cup {None} /\ row \in [Accounts -> Rows]
      /\ strikes \in [Accounts -> StrikeStates]
  BY <1>1 DEF TypeOK
<1>4. ASSUME NEW r \in Requests, NEW q \in Reqs, Begin(r, q) PROVE TypeOK'
  <2>1. req' \in [Requests -> Reqs]
    BY <1>1, <1>4, PutTyped DEF Begin
  <2> QED
    BY <1>1, <1>3, <1>4, <2>1, OnlyReqTyped DEF Begin, History
<1>5. ASSUME NEW r \in Requests, NEW q \in Reqs, Put(r, q),
             UNCHANGED <<Table, Caches, clock, flip, flippedAt, posts, flips>>,
             failures' \in Nat, failedAt' \in Nat \cup {None}, row' \in [Accounts -> Rows]
      PROVE  TypeOK'
  <2>1. req' \in [Requests -> Reqs]
    BY <1>1, <1>5, PutTyped
  <2> QED
    BY <1>1, <1>3, <1>5, <2>1, OnlyReqTyped
<1>6. ASSUME NEW r \in Requests, NEW a \in Accounts, NEW i \in Reached, Post(r, a, i)
      PROVE  TypeOK'
  <2>1. i \in Instances
    BY AdmissionLimitAssumption
  <2>2. Reading(a, i) \in Reqs
    BY <1>1, <2>1, ReadingTyped
  <2>3. [Idle EXCEPT !.account = a, !.instance = i, !.asked = clock] \in Reqs
    BY <1>3, <2>1, IdleTyped DEF Reqs
  <2>4. Fresh(factCache[i]) => factCache[i].facts \in Facts
    BY <1>1, <2>1 DEF TypeOK, Fresh
  <2>5. Fresh(factCache[i]) =>
          Decided([Idle EXCEPT !.account = a, !.instance = i, !.asked = clock],
                  factCache[i].facts) \in Reqs
    BY <2>3, <2>4, DecidedIs
  <2> QED
    BY <1>4, <1>6, <2>2, <2>5 DEF Post
<1>7. ASSUME NEW r \in Requests, NEW i \in Reached, Look(r, i) PROVE TypeOK'
  <2>1. i \in Instances
    BY AdmissionLimitAssumption
  <2> QED
    BY <1>1, <1>4, <1>7, <2>1, ReadingTyped DEF Look
<1>8. ASSUME NEW r \in Requests, ReadSpend(r) PROVE TypeOK'
  <2>1. Cardinality(InWindow(req[r].asked)) \in Nat
    BY <1>1, CountTyped DEF InWindow
  <2>2. [req[r] EXCEPT !.spent = Cardinality(InWindow(req[r].asked))] \in Reqs
    BY <1>2, <2>1 DEF Reqs
  <2> QED
    BY <1>3, <1>5, <1>8, <2>2 DEF ReadSpend, Bounds, History
<1>9. ASSUME NEW r \in Requests, ReadSpendFails(r) PROVE TypeOK'
  <2>1. [req[r] EXCEPT !.failed = TRUE] \in Reqs
    BY <1>2 DEF Reqs
  <2> QED
    BY <1>3, <1>5, <1>9, <2>1 DEF ReadSpendFails, Fail, History
<1>10. ASSUME NEW r \in Requests, ReadLock(r) PROVE TypeOK'
  <2>1. [req[r] EXCEPT !.fetched = lock] \in Reqs
    BY <1>1, <1>2 DEF Reqs, TypeOK
  <2> QED
    BY <1>3, <1>5, <1>10, <2>1 DEF ReadLock, Bounds, History
<1>11. ASSUME NEW r \in Requests, ReadLockFails(r) PROVE TypeOK'
  <2>1. [req[r] EXCEPT !.locked = TRUE] \in Reqs
    BY <1>2 DEF Reqs
  <2> QED
    BY <1>3, <1>5, <1>11, <2>1 DEF ReadLockFails, Fail
<1>12. ASSUME NEW r \in Requests, LockAnswered(r) PROVE TypeOK'
  <2>1. req[r].fetched \in BOOLEAN /\ Stamp(req[r].asked) \in Nat
    BY <1>2, <1>12 DEF LockAnswered, Reqs, Stamp
  <2>2. [req[r] EXCEPT !.locked = req[r].fetched, !.fetched = None] \in Reqs
    BY <1>2, <2>1 DEF Reqs
  <2>3. req' \in [Requests -> Reqs]
    BY <1>1, <1>12, <2>2, PutTyped DEF LockAnswered
  <2>4. lockCache' \in [Instances -> [value : BOOLEAN, at : Nat] \cup {None}]
    BY <1>1, <1>12, <2>1 DEF LockAnswered, TypeOK
  <2> QED
    BY <1>1, <1>12, <2>3, <2>4 DEF LockAnswered, TypeOK, Table, Bounds, History
<1>13. ASSUME NEW r \in Requests, FactsAnswered(r) PROVE TypeOK'
  <2> DEFINE facts == [spent |-> req[r].spent, locked |-> req[r].locked]
  <2>1. CASE req[r].account = None
    BY <1>3, <1>5, <1>13, <2>1, IdleTyped DEF FactsAnswered, Bounds, History, Caches
  <2>2. CASE req[r].account # None /\ req[r].failed
    <3>1. [req[r] EXCEPT !.pc = "refused", !.failed = FALSE, !.locked = None,
                         !.reason = "facts_unavailable"] \in Reqs
      BY <1>2 DEF Reqs
    <3> QED
      BY <1>3, <1>5, <1>13, <2>2, <3>1 DEF FactsAnswered, Bounds, History, Caches
  <2>3. CASE req[r].account # None /\ ~req[r].failed
    <3>1. facts \in Facts /\ Stamp(req[r].asked) \in Nat
      BY <1>2, <1>13, <2>3 DEF FactsAnswered, Reqs, Facts, Stamp
    <3>2. Decided(req[r], facts) \in Reqs
      BY <1>2, <3>1, DecidedIs
    <3>3. Put(r, Decided(req[r], facts))
      BY <1>13, <2>3 DEF FactsAnswered
    <3>4. req' \in [Requests -> Reqs]
      BY <1>1, <3>2, <3>3, PutTyped
    <3>5. factCache' = [factCache EXCEPT ![req[r].instance] =
                           [facts |-> facts, at |-> Stamp(req[r].asked)]]
      BY <1>13, <2>3 DEF FactsAnswered
    <3> HIDE DEF facts
    <3>6. factCache' \in [Instances -> [facts : Facts, at : Nat] \cup {None}]
      BY <1>1, <3>1, <3>5 DEF TypeOK
    <3> QED
      BY <1>1, <1>13, <3>4, <3>6 DEF FactsAnswered, TypeOK, Table, Bounds, History
  <2> QED
    BY <2>1, <2>2, <2>3
<1>14. ASSUME NEW r \in Requests, Answer(r) \/ Killed(r) PROVE TypeOK'
  <2>1. CASE Killed(r) /\ req[r].pc = "strike"
    <3>1. req[r].account \in Accounts /\ req[r].alone \in BOOLEAN /\ req[r].tier \in Tiers
      BY <1>2, <2>1, NextStrikesTyped DEF Reqs
    <3>2. row' \in [Accounts -> Rows]
      BY <1>1, <2>1, <3>1, JudgedTyped DEF Killed
    <3> QED
      BY <1>3, <1>5, <2>1, <3>2, IdleTyped DEF Killed, Fail
  <2>2. CASE Answer(r) \/ req[r].pc # "strike"
    <3>1. Put(r, Idle) /\ UNCHANGED <<Table, Caches, clock, flip, flippedAt, posts, flips, failedAt, row>>
      BY <1>14, <2>2 DEF Answer, Killed, Bounds, History, At
    <3>2. failures' \in Nat
      <4>1. CASE Answer(r)
        BY <1>3, <4>1 DEF Answer, Bounds
      <4>2. CASE Killed(r)
        BY <1>3, <4>2 DEF Killed, Fail
      <4> QED
        BY <1>14, <4>1, <4>2
    <3> QED
      BY <1>3, <1>5, <3>1, <3>2, IdleTyped
  <2> QED
    BY <1>14, <2>1, <2>2
<1>15. ASSUME NEW r \in Requests, CheckCaps(r) \/ SkipGate(r) PROVE TypeOK'
  <2>1. [req[r] EXCEPT !.pc = "gate"] \in Reqs /\ [req[r] EXCEPT !.pc = "penny"] \in Reqs
    BY <1>2 DEF Reqs
  <2> QED
    BY <1>3, <1>5, <1>15, <2>1, IdleTyped DEF CheckCaps, SkipGate, Bounds, History
<1>16. ASSUME NEW r \in Requests, ReadStrikes(r) PROVE TypeOK'
  <2> DEFINE a == req[r].account
             others == Judging(a)
             read == [req[r] EXCEPT !.pc = "judge", !.strike = strikes[a], !.gated = clock,
                                    !.alone = others = {}]
  <2>1. a \in Accounts
    BY <1>1, <1>16 DEF ReadStrikes, ReadsOK, At
  <2>2. read \in Reqs
    BY <1>2, <1>3, <2>1 DEF Reqs
  <2>3. CASE Put(r, Idle) /\ UNCHANGED row
    BY <1>3, <1>5, <1>16, <2>3, IdleTyped DEF ReadStrikes, Bounds
  <2>4. CASE /\ req' = [s \in Requests |-> IF s = r THEN read
                                          ELSE IF s \in others THEN [req[s] EXCEPT !.alone = FALSE]
                                          ELSE req[s]]
             /\ row' = [row EXCEPT ![a].calm = @ /\ others = {}]
    <3>1. \A s \in Requests : [req[s] EXCEPT !.alone = FALSE] \in Reqs
      BY <1>2 DEF Reqs
    <3>2. req' \in [Requests -> Reqs]
      BY <1>2, <2>2, <2>4, <3>1
    <3>3. row' \in [Accounts -> Rows]
      BY <1>3, <2>1, <2>4 DEF Rows
    <3> QED
      BY <1>1, <1>3, <1>16, <3>2, <3>3, OnlyReqTyped DEF ReadStrikes, Bounds
  <2> QED
    BY <1>16, <2>3, <2>4 DEF ReadStrikes
<1>17. ASSUME NEW r \in Requests, NEW tier \in Tiers, Classify(r, tier) PROVE TypeOK'
  <2>1. req[r].account \in Accounts /\ req[r].alone \in BOOLEAN
    BY <1>2, <1>17, NextStrikesTyped DEF Classify, At, Reqs
  <2>2. AfterGate(r, tier) \in Reqs /\ [req[r] EXCEPT !.pc = "strike", !.tier = tier] \in Reqs
    BY <1>1, <1>2, AfterGateTyped DEF Reqs
  <2>3. row' \in [Accounts -> Rows]
    BY <1>1, <1>3, <1>17, <2>1, JudgedTyped DEF Classify
  <2> QED
    BY <1>3, <1>5, <1>17, <2>2, <2>3 DEF Classify, Bounds
<1>18. ASSUME NEW r \in Requests, WriteStrikes(r) \/ WriteStrikesFails(r) PROVE TypeOK'
  <2>1. At(r, "strike")
    BY <1>18 DEF WriteStrikes, WriteStrikesFails
  <2>2. /\ req[r].account \in Accounts /\ req[r].alone \in BOOLEAN /\ req[r].tier \in Tiers
        /\ NextStrikes(r, req[r].tier) \in StrikeStates
        /\ NextStrikes(r, req[r].tier).strikes < STRIKES_BEFORE_LOCK
    BY <1>2, <2>1, NextStrikesTyped DEF At, Reqs
  <2>3. AfterGate(r, req[r].tier) \in Reqs
    BY <1>1, <2>2, AfterGateTyped
  <2>4. row' \in [Accounts -> Rows]
    BY <1>1, <1>18, <2>2, JudgedTyped DEF WriteStrikes, WriteStrikesFails
  <2>5. CASE WriteStrikes(r)
    <3>1. req' \in [Requests -> Reqs]
      BY <1>1, <2>3, <2>5, PutTyped DEF WriteStrikes
    <3>2. /\ strikes' \in [Accounts -> StrikeStates]
          /\ \A a \in Accounts : strikes'[a].strikes < STRIKES_BEFORE_LOCK
      BY <1>1, <1>3, <2>2, <2>5 DEF WriteStrikes, TypeOK
    <3> QED
      BY <1>1, <2>4, <2>5, <3>1, <3>2 DEF WriteStrikes, TypeOK, Caches, Bounds
  <2>6. CASE WriteStrikesFails(r)
    BY <1>3, <1>5, <2>3, <2>4, <2>6 DEF WriteStrikesFails, Fail
  <2> QED
    BY <1>18, <2>5, <2>6
<1>19. ASSUME NEW r \in Requests, RecordUsage(r) PROVE TypeOK'
  <2>1. req[r].account \in Accounts
    BY <1>1, <1>19 DEF RecordUsage, ReadsOK, At
  <2>2. Cardinality(usage) \in Nat
    BY <1>1, CountTyped
  <2>3. usage' \subseteq Usage
    BY <1>1, <1>3, <1>19, <2>1, <2>2 DEF RecordUsage, TypeOK, Usage
  <2>4. req' \in [Requests -> Reqs]
    BY <1>1, <1>19, IdleTyped, PutTyped DEF RecordUsage
  <2> QED
    BY <1>1, <1>19, <2>3, <2>4 DEF RecordUsage, TypeOK, Caches, Bounds, History
<1>20. ASSUME NEW i \in Instances, FlipLock(i) PROVE TypeOK'
  BY <1>1, <1>20 DEF FlipLock, TypeOK, Caches
<1>21. CASE DropCaches
  BY <1>1, <1>21 DEF DropCaches, TypeOK, Table, History
<1>22. CASE Tick
  BY <1>1, <1>22 DEF Tick, TypeOK, Table, Caches, History
<1>23. CASE UNCHANGED vars
  BY <1>1, <1>23 DEF vars, TypeOK
<1> QED
  BY <1>6, <1>7, <1>8, <1>9, <1>10, <1>11, <1>12, <1>13, <1>14, <1>15, <1>16, <1>17, <1>18,
     <1>19, <1>20, <1>21, <1>22, <1>23 DEF Next

-----------------------------------------------------------------------------
(* The breaker *)

\* What BreakerInv says of one request.
Sound(q) ==
    /\ q.asked <= clock
    /\ q.pc = "read" => q.instance \in Instances
    /\ q.pc \notin {"idle", "read", "refused"} => q.account \in Accounts
    /\ q.spent # None => SpentIn(usage, q.asked) <= q.spent
    /\ q.fetched # None /\ q.fetched # lock => q.asked <= flippedAt
    /\ q.locked # None => LockRead(q.locked, q.asked)
    /\ q.pc = "caps" => \E t \in 0..q.asked :
                            q.asked < t + CacheLife /\ SpentIn(usage, t) < StopAt
    /\ flippedAt + 2 * CacheLife - 1 <= q.asked =>
        /\ q.pc = "caps" => ~lock
        /\ q.pc = "refused" /\ q.reason = "manual_lock" /\ ~lock =>
               failedAt # None /\ failedAt + CacheLife > q.asked

SoundState ==
    /\ IsFiniteSet(usage) /\ flippedAt <= clock
    /\ LockCached /\ FactsCached
    /\ \A r \in Requests : Sound(req[r])

LEMMA SoundIs == BreakerInv <=> SoundState
  BY DEF SoundState, BreakerInv, Sound, ReadsOK, BreakerIsHeeded, LockIsHeeded, SpendIsHeeded,
         LockSettled, LockedOut, Passed, At, SpentBefore

LEMMA SoundNext == BreakerInv' <=> SoundState'
  BY SoundIs, PTL

LEMMA SpentTyped ==
    ASSUME IsFiniteSet(usage), NEW t
    PROVE  SpentIn(usage, t) \in Nat
  BY CountTyped DEF SpentIn

LEMMA IdleSound == TypeOK => Sound(Idle)
  BY LifeAssumption DEF Sound, Idle, TypeOK

World == <<clock, lock, usage, flippedAt, failedAt>>

\* A step that only changes one request, to one that is sound.
LEMMA OneRequest ==
    ASSUME TypeOK, BreakerInv, NEW r \in Requests, NEW q, Put(r, q), Sound(q),
           UNCHANGED <<World, Caches>>
    PROVE  BreakerInv'
<1>1. SoundState
  BY SoundIs
<1>2. \A s \in Requests : req'[s] = IF s = r THEN q ELSE req[s]
  BY DEF Put, TypeOK
<1>3. \A s \in Requests : Sound(req[s])'
  BY <1>1, <1>2 DEF SoundState, Sound, LockRead, World
<1>4. (IsFiniteSet(usage) /\ flippedAt <= clock /\ LockCached /\ FactsCached)'
  BY <1>1 DEF SoundState, World, Caches, LockCached, FactsCached, LockRead, SpentBefore
<1> QED
  BY <1>3, <1>4, SoundNext DEF SoundState

\* Nothing after the breaker is about it: a request that is past it stays sound.
LEMMA PastSound ==
    ASSUME NEW p, Sound(p), p.pc \notin {"idle", "read", "refused"},
           NEW q, q.asked = p.asked, q.account = p.account, q.spent = p.spent,
           q.fetched = p.fetched, q.locked = p.locked, q.pc \in {"gate", "judge", "strike", "penny"}
    PROVE  Sound(q)
  BY DEF Sound

\* What is read of the lock through its cache.
LEMMA ReadingSound ==
    ASSUME TypeOK, BreakerInv, NEW a, NEW i \in Instances
    PROVE  Sound(Reading(a, i))
<1>1. clock \in Nat /\ flippedAt \in Nat /\ CacheLife \in Nat \ {0}
  BY LifeAssumption DEF TypeOK
<1> DEFINE held == IF Fresh(lockCache[i]) THEN lockCache[i].value ELSE None
           q == Reading(a, i)
<1>2. ASSUME Fresh(lockCache[i]) PROVE LockRead(lockCache[i].value, clock)
  <2>1. lockCache[i].at \in Nat /\ clock - lockCache[i].at < CacheLife
    BY <1>2 DEF Fresh, TypeOK
  <2>2. lockCache[i].value # lock => lockCache[i].at <= flippedAt
    BY <1>2 DEF Fresh, BreakerInv, LockCached
  <2> QED
    BY <1>1, <2>1, <2>2 DEF LockRead
<1>3. held # None => LockRead(held, clock)
  BY <1>2
<1>4. /\ q.pc = "read" /\ q.asked = clock /\ q.instance = i /\ q.spent = None
      /\ q.fetched = None /\ q.locked = held
  BY DEF Reading, Idle
<1> HIDE DEF held, q
<1> QED
  BY <1>1, <1>3, <1>4 DEF Sound, q

\* A request that facts decide on is sound, if they were asked for at t and are not older
\* than a cache may keep them.
LEMMA DecidedSound ==
    ASSUME TypeOK, BreakerInv, NEW q \in Reqs, NEW facts \in Facts, NEW t \in Nat,
           q.account \in Accounts, q.asked <= clock, t <= q.asked, q.asked < t + CacheLife,
           SpentIn(usage, t) <= facts.spent, LockRead(facts.locked, t)
    PROVE  Sound(Decided(q, facts))
<1> DEFINE d == Decided(q, facts)
<1>1. /\ clock \in Nat /\ flippedAt \in Nat /\ failedAt \in Nat \cup {None} /\ lock \in BOOLEAN
      /\ CacheLife \in Nat \ {0} /\ StopAt \in Nat /\ None \notin Nat
  BY LifeAssumption, NoneAssumption DEF TypeOK
<1>2. q.asked \in Nat /\ facts.spent \in Nat /\ facts.locked \in BOOLEAN
  BY DEF Reqs, Facts
<1>3. SpentIn(usage, t) \in Nat
  BY SpentTyped DEF BreakerInv
<1>4. /\ d.asked = q.asked /\ d.account = q.account
      /\ d.spent = None /\ d.fetched = None /\ d.locked = None
      /\ d.pc \in {"caps", "refused"}
      /\ d.pc = "caps" => facts.spent < StopAt /\ ~facts.locked
      /\ d.pc = "refused" /\ d.reason = "manual_lock" => facts.locked
  BY DecidedIs
<1> HIDE DEF d
<1>5. d.pc = "caps" => \E u \in 0..d.asked : d.asked < u + CacheLife /\ SpentIn(usage, u) < StopAt
  <2>1. t \in 0..d.asked
    BY <1>2, <1>4
  <2>2. d.pc = "caps" => SpentIn(usage, t) < StopAt
    BY <1>1, <1>2, <1>3, <1>4
  <2> QED
    BY <1>4, <2>1, <2>2
<1>6. flippedAt + 2 * CacheLife - 1 <= d.asked =>
        \/ facts.locked = lock
        \/ facts.locked /\ failedAt # None /\ failedAt + CacheLife > d.asked
  BY <1>1, <1>2, <1>4 DEF LockRead
<1>7. Sound(d)
  BY <1>1, <1>4, <1>5, <1>6 DEF Sound
<1> QED
  BY <1>7 DEF d

LEMMA BreakerStep == AdmissionInv /\ [Next]_vars => BreakerInv'
<1> SUFFICES ASSUME AdmissionInv, [Next]_vars PROVE BreakerInv'
  OBVIOUS
<1>1. TypeOK /\ BreakerInv /\ SoundState
  BY SoundIs DEF AdmissionInv
<1>2. \A r \in Requests : req[r] \in Reqs /\ Sound(req[r])
  BY <1>1, FieldsTyped DEF SoundState
<1>3. /\ clock \in Nat /\ flippedAt \in Nat /\ failedAt \in Nat \cup {None} /\ lock \in BOOLEAN
      /\ CacheLife \in Nat \ {0} /\ None \notin Nat \cup BOOLEAN \cup Accounts
  BY <1>1, LifeAssumption, NoneAssumption DEF TypeOK
<1>4. Sound(Idle)
  BY <1>1, IdleSound
<1>6. ASSUME NEW r \in Requests, NEW a \in Accounts, NEW i \in Reached, Post(r, a, i)
      PROVE  BreakerInv'
  <2> DEFINE q == [Idle EXCEPT !.account = a, !.instance = i, !.asked = clock]
             held == factCache[i]
  <2>1. i \in Instances
    BY AdmissionLimitAssumption
  <2>2. UNCHANGED <<World, Caches>>
    BY <1>6 DEF Post, Begin, World, Table, History
  <2>3. CASE Fresh(factCache[i])
    <3>1. q \in Reqs /\ q.account = a /\ q.asked = clock
      BY <1>3, <2>1, IdleTyped DEF Idle, Reqs
    <3>2. held.facts \in Facts /\ held.at \in Nat /\ clock - held.at < CacheLife
      BY <1>1, <2>1, <2>3 DEF TypeOK, Fresh
    <3>3. /\ held.at <= clock
          /\ SpentIn(usage, held.at) <= held.facts.spent
          /\ LockRead(held.facts.locked, held.at)
      BY <1>1, <2>1, <2>3 DEF Fresh, SoundState, FactsCached, SpentBefore
    <3>4. clock < held.at + CacheLife
      BY <1>3, <3>2
    <3>5. Put(r, Decided(q, held.facts))
      BY <1>6, <2>3 DEF Post, Begin
    <3> HIDE DEF q, held
    <3>6. Sound(Decided(q, held.facts))
      BY <1>1, <1>3, <3>1, <3>2, <3>3, <3>4, DecidedSound
    <3> QED
      BY <1>1, <2>2, <3>5, <3>6, OneRequest
  <2>4. CASE ~Fresh(factCache[i])
    <3>1. Put(r, Reading(a, i))
      BY <1>6, <2>4 DEF Post, Begin
    <3> QED
      BY <1>1, <2>1, <2>2, <3>1, ReadingSound, OneRequest
  <2> QED
    BY <2>3, <2>4
<1>7. ASSUME NEW r \in Requests, NEW i \in Reached, Look(r, i) PROVE BreakerInv'
  <2>1. i \in Instances
    BY AdmissionLimitAssumption
  <2>2. UNCHANGED <<World, Caches>> /\ Put(r, Reading(None, i))
    BY <1>7 DEF Look, Begin, World, Table, History
  <2> QED
    BY <1>1, <2>1, <2>2, ReadingSound, OneRequest
<1>8. ASSUME NEW r \in Requests, ReadSpend(r) PROVE BreakerInv'
  <2> DEFINE n == Cardinality(InWindow(req[r].asked))
             q == [req[r] EXCEPT !.spent = n]
  <2>1. SpentIn(usage, req[r].asked) <= n
    <3> DEFINE counted == {u \in usage : req[r].asked - Window <= u.at /\ u.at < req[r].asked}
    <3>2. counted \subseteq InWindow(req[r].asked)
      <4>1. ASSUME NEW u \in usage, req[r].asked - Window <= u.at
            PROVE  u.at >= req[r].asked - Window
        <5>1. u.at \in Nat
          BY <1>1 DEF TypeOK, Usage
        <5>2. req[r].asked \in Nat
          BY <1>2 DEF Reqs
        <5>3. Window \in Nat
          BY LifeAssumption
        <5> QED
          BY <4>1, <5>1, <5>2, <5>3
      <4> QED
        BY <4>1 DEF InWindow
    <3>3. IsFiniteSet(InWindow(req[r].asked))
      BY <1>1, FS_Subset DEF SoundState, InWindow
    <3> QED
      BY <3>2, <3>3, FS_Subset DEF SpentIn
  <2>2. UNCHANGED <<World, Caches>> /\ Put(r, q)
    BY <1>8 DEF ReadSpend, World, Table, Bounds, History
  <2>3. /\ q.spent = n /\ q.asked = req[r].asked /\ q.pc = req[r].pc /\ q.account = req[r].account
        /\ q.instance = req[r].instance /\ q.fetched = req[r].fetched /\ q.locked = req[r].locked
        /\ q.reason = req[r].reason
    BY <1>2 DEF Reqs
  <2> HIDE DEF n, q
  <2>4. Sound(q)
    BY <1>2, <2>1, <2>3 DEF Sound
  <2> QED
    BY <1>1, <2>2, <2>4, OneRequest
<1>9. ASSUME NEW r \in Requests, ReadSpendFails(r) PROVE BreakerInv'
  <2> DEFINE q == [req[r] EXCEPT !.failed = TRUE]
  <2>1. UNCHANGED <<World, Caches>> /\ Put(r, q)
    BY <1>9 DEF ReadSpendFails, World, Table, History
  <2>2. Sound(q)
    BY <1>2 DEF Sound, Reqs
  <2> QED
    BY <1>1, <2>1, <2>2, OneRequest
<1>10. ASSUME NEW r \in Requests, ReadLock(r) PROVE BreakerInv'
  <2> DEFINE q == [req[r] EXCEPT !.fetched = lock]
  <2>1. UNCHANGED <<World, Caches>> /\ Put(r, q)
    BY <1>10 DEF ReadLock, World, Table, Bounds, History
  <2>2. Sound(q)
    BY <1>2 DEF Sound, Reqs
  <2> QED
    BY <1>1, <2>1, <2>2, OneRequest
<1>11. ASSUME NEW r \in Requests, ReadLockFails(r) PROVE BreakerInv'
  <2>1. /\ UNCHANGED <<clock, lock, usage, flippedAt, Caches>> /\ failedAt' = clock
        /\ \A s \in Requests : req'[s] = IF s = r THEN [req[r] EXCEPT !.locked = TRUE] ELSE req[s]
    BY <1>1, <1>11 DEF ReadLockFails, Put, TypeOK, Table
  <2>2. failedAt = None \/ failedAt <= clock \/ clock < failedAt
    BY <1>3
  <2>3. \A s \in Requests : Sound(req[s])'
    <3>1. ASSUME NEW v, NEW t \in Nat, LockRead(v, t), t <= clock PROVE LockRead(v, t)'
      BY <1>3, <2>1, <3>1 DEF LockRead
    <3>2. ASSUME NEW s \in Requests, s # r PROVE Sound(req[s])'
      <4>1. req'[s] = req[s] /\ req[s] \in Reqs /\ Sound(req[s])
        BY <1>2, <2>1, <3>2
      <4>2. req[s].asked \in Nat /\ req[s].asked <= clock
        BY <4>1 DEF Reqs, Sound
      <4> QED
        BY <1>3, <2>1, <4>1, <4>2 DEF Sound, LockRead
    <3>3. Sound(req[r])'
      <4>1. req'[r] = [req[r] EXCEPT !.locked = TRUE] /\ req[r] \in Reqs /\ Sound(req[r])
        BY <1>2, <2>1
      <4>2. /\ req'[r].asked = req[r].asked /\ req'[r].pc = "read" /\ req'[r].locked = TRUE
            /\ req'[r].spent = req[r].spent /\ req'[r].instance = req[r].instance
            /\ req'[r].fetched = None /\ req[r].pc = "read" /\ req[r].asked \in Nat
        BY <1>11, <4>1 DEF ReadLockFails, At, Reqs
      <4> QED
        BY <1>3, <2>1, <4>1, <4>2 DEF Sound, LockRead
    <3> QED
      BY <3>2, <3>3
  <2>4. (IsFiniteSet(usage) /\ flippedAt <= clock /\ LockCached)'
    BY <1>1, <2>1 DEF SoundState, LockCached, Caches
  <2>5. FactsCached'
    <3>1. \A i \in Instances : factCache[i] # None => factCache[i].at \in Nat
      BY <1>1 DEF TypeOK
    <3> QED
      BY <1>1, <1>3, <2>1, <3>1 DEF SoundState, FactsCached, LockRead, SpentBefore, Caches
  <2> QED
    BY <2>3, <2>4, <2>5, SoundNext DEF SoundState
<1>12. ASSUME NEW r \in Requests, LockAnswered(r) PROVE BreakerInv'
  <2> DEFINE q == [req[r] EXCEPT !.locked = req[r].fetched, !.fetched = None]
             i == req[r].instance
  <2>1. UNCHANGED World /\ UNCHANGED factCache /\ Put(r, q)
    BY <1>12 DEF LockAnswered, World, Table, Bounds, History
  <2>2. /\ req[r].pc = "read" /\ req[r].fetched \in BOOLEAN
        /\ req[r].asked \in Nat /\ req[r].asked <= clock /\ i \in Instances
        /\ req[r].fetched # lock => req[r].asked <= flippedAt
    BY <1>2, <1>3, <1>12 DEF LockAnswered, At, Reqs, Sound
  <2>3. LockRead(req[r].fetched, req[r].asked)
    BY <1>3, <2>2 DEF LockRead
  <2>4. /\ q.locked = req[r].fetched /\ q.fetched = None /\ q.asked = req[r].asked
        /\ q.pc = req[r].pc /\ q.spent = req[r].spent /\ q.instance = req[r].instance
    BY <1>2 DEF Reqs
  <2>5. lockCache' = [lockCache EXCEPT ![i] = [value |-> req[r].fetched, at |-> req[r].asked]]
    BY <1>12 DEF LockAnswered, Stamp
  <2> HIDE DEF q, i
  <2>6. Sound(q)
    BY <1>2, <2>2, <2>3, <2>4 DEF Sound
  <2>7. \A s \in Requests : req'[s] = IF s = r THEN q ELSE req[s]
    BY <1>1, <2>1 DEF Put, TypeOK
  <2>8. \A s \in Requests : Sound(req[s])'
    BY <1>2, <2>1, <2>6, <2>7 DEF Sound, LockRead, World
  <2>9. LockCached'
    <3>1. \A j \in Instances :
            lockCache'[j] = IF j = i THEN [value |-> req[r].fetched, at |-> req[r].asked]
                            ELSE lockCache[j]
      BY <1>1, <2>5 DEF TypeOK
    <3> QED
      BY <1>1, <2>1, <2>2, <3>1 DEF SoundState, LockCached, World
  <2>10. (IsFiniteSet(usage) /\ flippedAt <= clock /\ FactsCached)'
    BY <1>1, <2>1 DEF SoundState, FactsCached, LockRead, SpentBefore, World
  <2> QED
    BY <2>8, <2>9, <2>10, SoundNext DEF SoundState
<1>13. ASSUME NEW r \in Requests, FactsAnswered(r) PROVE BreakerInv'
  <2> DEFINE facts == [spent |-> req[r].spent, locked |-> req[r].locked]
             i == req[r].instance
  <2>1. UNCHANGED World /\ UNCHANGED lockCache
    BY <1>13 DEF FactsAnswered, World, Table, Bounds, History
  <2>2. CASE req[r].account = None
    BY <1>1, <1>4, <1>13, <2>1, <2>2, OneRequest DEF FactsAnswered, Caches
  <2>3. CASE req[r].account # None /\ req[r].failed
    <3> DEFINE q == [req[r] EXCEPT !.pc = "refused", !.failed = FALSE, !.locked = None,
                                   !.reason = "facts_unavailable"]
    <3>1. Put(r, q) /\ UNCHANGED factCache
      BY <1>13, <2>3 DEF FactsAnswered
    <3>2. Sound(q)
      BY <1>2 DEF Sound, Reqs
    <3> QED
      BY <1>1, <2>1, <3>1, <3>2, OneRequest DEF Caches
  <2>4. CASE req[r].account # None /\ ~req[r].failed
    <3>1. /\ req[r].pc = "read" /\ facts \in Facts
          /\ facts.spent = req[r].spent /\ facts.locked = req[r].locked
          /\ req[r].asked \in Nat /\ req[r].account \in Accounts /\ i \in Instances
      BY <1>2, <1>13, <2>4 DEF FactsAnswered, At, Reqs, Facts, Sound
    <3>2. /\ req[r].asked <= clock /\ SpentIn(usage, req[r].asked) <= facts.spent
          /\ LockRead(facts.locked, req[r].asked)
      BY <1>2, <1>3, <3>1 DEF Sound, Facts
    <3>3. /\ Put(r, Decided(req[r], facts))
          /\ factCache' = [factCache EXCEPT ![i] = [facts |-> facts, at |-> req[r].asked]]
      BY <1>13, <2>4 DEF FactsAnswered, Stamp
    <3> HIDE DEF facts, i
    <3>4. Sound(Decided(req[r], facts))
      BY <1>1, <1>2, <1>3, <3>1, <3>2, DecidedSound
    <3> DEFINE q == Decided(req[r], facts)
    <3>5. \A s \in Requests : req'[s] = IF s = r THEN q ELSE req[s]
      BY <1>1, <3>3 DEF Put, TypeOK
    <3> HIDE DEF q
    <3>6. Sound(q)
      BY <3>4 DEF q
    <3>7. \A s \in Requests : Sound(req[s])'
      BY <1>2, <2>1, <3>5, <3>6 DEF Sound, LockRead, World
    <3>8. FactsCached'
      <4>1. \A j \in Instances :
              factCache'[j] = IF j = i THEN [facts |-> facts, at |-> req[r].asked]
                              ELSE factCache[j]
        BY <1>1, <3>3 DEF TypeOK
      <4> QED
        BY <1>1, <2>1, <3>2, <4>1 DEF SoundState, FactsCached, LockRead, SpentBefore, World
    <3>9. (IsFiniteSet(usage) /\ flippedAt <= clock /\ LockCached)'
      BY <1>1, <2>1 DEF SoundState, LockCached, World
    <3> QED
      BY <3>7, <3>8, <3>9, SoundNext DEF SoundState
  <2> QED
    BY <2>2, <2>3, <2>4
<1>14. ASSUME NEW r \in Requests, Answer(r) \/ Killed(r) PROVE BreakerInv'
  BY <1>1, <1>4, <1>14, OneRequest DEF Answer, Killed, World, Table, Bounds, History
<1>15. ASSUME NEW r \in Requests, CheckCaps(r) \/ SkipGate(r) PROVE BreakerInv'
  <2> DEFINE gate == [req[r] EXCEPT !.pc = "gate"]
             penny == [req[r] EXCEPT !.pc = "penny"]
  <2>1. Sound(gate) /\ Sound(penny)
    BY <1>2, <1>15, PastSound DEF CheckCaps, SkipGate, At, Reqs
  <2>2. Put(r, Idle) \/ Put(r, gate) \/ Put(r, penny)
    BY <1>15 DEF CheckCaps, SkipGate
  <2>3. UNCHANGED <<World, Caches>>
    BY <1>15 DEF CheckCaps, SkipGate, World, Table, Bounds, History
  <2> QED
    BY <1>1, <1>4, <2>1, <2>2, <2>3, OneRequest
<1>16. ASSUME NEW r \in Requests, ReadStrikes(r) PROVE BreakerInv'
  <2> DEFINE a == req[r].account
             others == Judging(a)
             read == [req[r] EXCEPT !.pc = "judge", !.strike = strikes[a], !.gated = clock,
                                    !.alone = others = {}]
             joined(s) == [req[s] EXCEPT !.alone = FALSE]
  <2>1. UNCHANGED <<World, Caches>>
    BY <1>16 DEF ReadStrikes, World, Table, Bounds
  <2>2. CASE Put(r, Idle)
    BY <1>1, <1>4, <2>1, <2>2, OneRequest
  <2>3. CASE req' = [s \in Requests |-> IF s = r THEN read
                                        ELSE IF s \in others THEN joined(s) ELSE req[s]]
    <3>1. Sound(read)
      BY <1>2, <1>16, PastSound DEF ReadStrikes, At, Reqs
    <3>2. \A s \in Requests : Sound(joined(s))
      BY <1>2 DEF Sound, Reqs
    <3>3. \A s \in Requests : req'[s] = read \/ req'[s] = joined(s) \/ req'[s] = req[s]
      BY <2>3
    <3> HIDE DEF read, joined
    <3>4. \A s \in Requests : Sound(req[s])'
      BY <1>2, <2>1, <3>1, <3>2, <3>3 DEF Sound, LockRead, World
    <3>5. (IsFiniteSet(usage) /\ flippedAt <= clock /\ LockCached /\ FactsCached)'
      BY <1>1, <2>1 DEF SoundState, World, Caches, LockCached, FactsCached, LockRead, SpentBefore
    <3> QED
      BY <3>4, <3>5, SoundNext DEF SoundState
  <2> QED
    BY <1>16, <2>2, <2>3 DEF ReadStrikes
<1>17. ASSUME NEW r \in Requests, NEW tier \in Tiers, req[r].pc \in {"judge", "strike"}
      PROVE  Sound(AfterGate(r, tier))
  <2> DEFINE q == [req[r] EXCEPT !.pc = "penny", !.strike = NoStrikes, !.gated = 0,
                                 !.tier = "T1", !.alone = TRUE]
  <2>1. Sound(q)
    BY <1>2, <1>17, PastSound DEF Reqs
  <2> QED
    BY <1>4, <2>1 DEF AfterGate
<1>18. ASSUME NEW r \in Requests, NEW tier \in Tiers, Classify(r, tier) PROVE BreakerInv'
  <2> DEFINE q == [req[r] EXCEPT !.pc = "strike", !.tier = tier]
  <2>1. Sound(q) /\ Sound(AfterGate(r, tier))
    BY <1>2, <1>17, <1>18, PastSound DEF Classify, At, Reqs
  <2>2. UNCHANGED <<World, Caches>> /\ (Put(r, q) \/ Put(r, AfterGate(r, tier)))
    BY <1>18 DEF Classify, World, Table, Bounds
  <2> QED
    BY <1>1, <2>1, <2>2, OneRequest
<1>19. ASSUME NEW r \in Requests, WriteStrikes(r) \/ WriteStrikesFails(r) PROVE BreakerInv'
  <2>1. Sound(AfterGate(r, req[r].tier))
    BY <1>2, <1>17, <1>19 DEF WriteStrikes, WriteStrikesFails, At, Reqs
  <2>2. UNCHANGED <<World, Caches>> /\ Put(r, AfterGate(r, req[r].tier))
    BY <1>19 DEF WriteStrikes, WriteStrikesFails, World, Table, Bounds
  <2> QED
    BY <1>1, <2>1, <2>2, OneRequest
<1>20. ASSUME NEW r \in Requests, RecordUsage(r) PROVE BreakerInv'
  <2> DEFINE new == [account |-> req[r].account, at |-> clock, nth |-> Cardinality(usage)]
  <2>1. /\ UNCHANGED <<clock, lock, flippedAt, failedAt, Caches>>
        /\ usage' = usage \cup {new} /\ Put(r, Idle)
    BY <1>20 DEF RecordUsage, Bounds, History
  <2>2. \A t \in Nat : t <= clock => SpentIn(usage', t) = SpentIn(usage, t)
    <3>1. \A t \in Nat : t <= clock => ~(new.at < t)
      BY <1>3
    <3>2. \A t \in Nat : t <= clock => {u \in usage' : t - Window <= u.at /\ u.at < t}
                                    = {u \in usage : t - Window <= u.at /\ u.at < t}
      BY <2>1, <3>1
    <3> QED
      BY <3>2 DEF SpentIn
  <2>3. IsFiniteSet(usage)'
    BY <1>1, <2>1, FS_AddElement DEF SoundState
  <2> HIDE DEF new
  <2>4. \A s \in Requests : req'[s] \in Reqs /\ Sound(req'[s])
    BY <1>1, <1>2, <1>4, <2>1, IdleTyped DEF Put, TypeOK
  <2>5. ASSUME NEW s \in Requests PROVE Sound(req[s])'
    <3>1. req'[s].asked \in Nat /\ req'[s].asked <= clock
      BY <2>4 DEF Sound, Reqs
    <3>2. \A t \in 0..req'[s].asked : SpentIn(usage', t) = SpentIn(usage, t)
      BY <1>3, <2>2, <3>1
    <3>3. SpentIn(usage', req'[s].asked) = SpentIn(usage, req'[s].asked)
      BY <2>2, <3>1
    <3> QED
      BY <2>1, <2>4, <3>2, <3>3 DEF Sound, LockRead
  <2>6. FactsCached'
    <3>1. \A i \in Instances : factCache[i] # None => factCache[i].at \in Nat
      BY <1>1 DEF TypeOK
    <3> QED
      BY <1>1, <2>1, <2>2, <3>1 DEF SoundState, FactsCached, LockRead, SpentBefore, Caches
  <2>7. (flippedAt <= clock /\ LockCached)'
    BY <1>1, <2>1 DEF SoundState, LockCached, Caches
  <2> QED
    BY <2>3, <2>5, <2>6, <2>7, SoundNext DEF SoundState
<1>21. ASSUME NEW i \in Instances, FlipLock(i) PROVE BreakerInv'
  <2>1. UNCHANGED <<clock, usage, failedAt, Caches, req>> /\ flippedAt' = clock /\ lock' = ~lock
    BY <1>21 DEF FlipLock
  <2>2. ASSUME NEW s \in Requests PROVE Sound(req[s])'
    <3>1. req[s].asked \in Nat /\ req[s].asked <= clock
      BY <1>2 DEF Sound, Reqs
    <3>2. Sound(req[s])
      BY <1>2
    <3> QED
      BY <1>3, <2>1, <3>1, <3>2 DEF Sound, LockRead
  <2>3. (IsFiniteSet(usage) /\ flippedAt <= clock /\ LockCached)'
    BY <1>1, <1>3, <2>1 DEF SoundState, LockCached, Caches
  <2>4. FactsCached'
    <3>1. \A j \in Instances : factCache[j] # None => factCache[j].at \in Nat
      BY <1>1 DEF TypeOK
    <3> QED
      BY <1>1, <1>3, <2>1, <3>1 DEF SoundState, FactsCached, LockRead, SpentBefore, Caches
  <2> QED
    BY <2>2, <2>3, <2>4, SoundNext DEF SoundState
<1>22. CASE DropCaches
  <2>1. UNCHANGED World /\ UNCHANGED req
    BY <1>22 DEF DropCaches, World, Table, History
  <2>2. \A s \in Requests : Sound(req[s])'
    BY <1>2, <2>1 DEF Sound, LockRead, World
  <2>3. \A i \in Instances : /\ lockCache'[i] \in {None, lockCache[i]}
                             /\ factCache'[i] \in {None, factCache[i]}
    BY <1>1, <1>22 DEF DropCaches, TypeOK
  <2>4. (IsFiniteSet(usage) /\ flippedAt <= clock /\ LockCached)'
    BY <1>1, <2>1, <2>3 DEF SoundState, LockCached, World
  <2>5. FactsCached'
    BY <1>1, <2>1, <2>3 DEF SoundState, FactsCached, LockRead, SpentBefore, World
  <2> QED
    BY <2>2, <2>4, <2>5, SoundNext DEF SoundState
<1>23. CASE Tick
  <2>1. UNCHANGED <<lock, usage, flippedAt, failedAt, Caches, req>> /\ clock' = clock + 1
    BY <1>23 DEF Tick, Table, History
  <2>2. ASSUME NEW s \in Requests PROVE Sound(req[s])'
    <3>1. req[s].asked \in Nat /\ Sound(req[s])
      BY <1>2 DEF Reqs
    <3> QED
      BY <1>3, <2>1, <3>1 DEF Sound, LockRead
  <2>3. (IsFiniteSet(usage) /\ flippedAt <= clock)'
    BY <1>1, <1>3, <2>1 DEF SoundState
  <2>4. LockCached' /\ FactsCached'
    <3>1. \A i \in Instances : /\ lockCache[i] # None => lockCache[i].at \in Nat
                               /\ factCache[i] # None => factCache[i].at \in Nat
      BY <1>1 DEF TypeOK
    <3>2. \A n \in Nat : n <= clock => n <= clock'
      BY <1>3, <2>1
    <3>3. LockCached /\ FactsCached /\ UNCHANGED <<lock, usage, flippedAt, failedAt, lockCache, factCache>>
      BY <1>1, <2>1 DEF SoundState, Caches
    <3>4. LockCached'
      BY <3>1, <3>2, <3>3 DEF LockCached
    <3>5. FactsCached'
      BY <3>1, <3>2, <3>3 DEF FactsCached, LockRead, SpentBefore
    <3> QED
      BY <3>4, <3>5
  <2> QED
    BY <2>2, <2>3, <2>4, SoundNext DEF SoundState
<1>24. CASE UNCHANGED vars
  <2>1. UNCHANGED <<World, Caches, req>>
    BY <1>24 DEF vars, World, Caches
  <2>2. \A s \in Requests : Sound(req[s])'
    BY <1>2, <2>1 DEF Sound, LockRead, World
  <2>3. (IsFiniteSet(usage) /\ flippedAt <= clock /\ LockCached /\ FactsCached)'
    BY <1>1, <2>1 DEF SoundState, World, Caches, LockCached, FactsCached, LockRead, SpentBefore
  <2> QED
    BY <2>2, <2>3, SoundNext DEF SoundState
<1> QED
  BY <1>6, <1>7, <1>8, <1>9, <1>10, <1>11, <1>12, <1>13, <1>14, <1>15, <1>16, <1>18, <1>19,
     <1>20, <1>21, <1>22, <1>23, <1>24 DEF Next

-----------------------------------------------------------------------------
(* The strikes *)

\* What StrikesInv says of one account.
CountOK(a) ==
    /\ strikes[a].strikes <= row[a].owed
    /\ row[a].calm => strikes[a].strikes = row[a].junk /\ row[a].junk = row[a].owed
    /\ \A r \in Judging(a) :
        /\ req[r].strike.strikes < STRIKES_BEFORE_LOCK
        /\ req[r].strike.strikes <= row[a].owed
        /\ req[r].alone => /\ Judging(a) = {r}
                           /\ strikes[a].strikes = req[r].strike.strikes
        /\ row[a].calm => req[r].alone

LEMMA CountIs == StrikesInv <=> \A a \in Accounts : CountOK(a)
  BY DEF StrikesInv, JudgedAlone, RowIsOwed, StrikesFollowTheRow, CountOK

LEMMA CountNext == StrikesInv' <=> \A a \in Accounts : CountOK(a)'
  BY DEF StrikesInv, JudgedAlone, RowIsOwed, StrikesFollowTheRow, CountOK

\* The account is left alone: nobody begins to be judged, and who goes on has read what
\* it had read.
LEMMA CountFrame ==
    ASSUME NEW a \in Accounts, CountOK(a), strikes'[a] = strikes[a], row'[a] = row[a],
           \A s \in Judging(a)' : /\ s \in Judging(a)
                                  /\ req'[s].strike = req[s].strike /\ req'[s].alone = req[s].alone
    PROVE  CountOK(a)'
<1>1. \A s \in Judging(a)' : req[s].alone => Judging(a)' = {s}
  BY DEF CountOK
<1> QED
  BY <1>1 DEF CountOK

LEMMA QuietStep ==
    ASSUME StrikesInv, UNCHANGED <<strikes, row>>,
           \A s \in Requests : req'[s].pc \in {"judge", "strike"} =>
              /\ req[s].pc \in {"judge", "strike"} /\ req'[s].account = req[s].account
              /\ req'[s].strike = req[s].strike /\ req'[s].alone = req[s].alone
    PROVE  StrikesInv'
<1>1. ASSUME NEW a \in Accounts PROVE CountOK(a)'
  <2>1. CountOK(a)
    BY CountIs
  <2>2. \A s \in Judging(a)' : /\ s \in Judging(a)
                               /\ req'[s].strike = req[s].strike /\ req'[s].alone = req[s].alone
    BY DEF Judging
  <2> QED
    BY <2>1, <2>2, CountFrame
<1> QED
  BY <1>1, CountNext

\* A request put aside, to where nothing is judged.
LEMMA QuietPut ==
    ASSUME TypeOK, StrikesInv, UNCHANGED <<strikes, row>>, NEW r \in Requests, NEW q, Put(r, q),
           q.pc \notin {"judge", "strike"}
    PROVE  StrikesInv'
<1>1. \A s \in Requests : req'[s] = IF s = r THEN q ELSE req[s]
  BY DEF Put, TypeOK
<1> QED
  BY <1>1, QuietStep

\* A judged message leaves: what is stored now, and the row, still go together.
LEMMA LeavesOK ==
    ASSUME AdmissionInv, NEW r \in Requests, NEW tier \in Tiers, NEW q, Put(r, q),
           req[r].pc \in {"judge", "strike"}, q.pc \notin {"judge", "strike"},
           NEW a, a = req[r].account, NEW c, c = req[r].strike.strikes,
           NEW next, next = NextStrikes(r, tier), NEW alone, alone = req[r].alone,
           NEW stored \in BOOLEAN,
           Judged(a, tier, next, alone, stored),
           \/ stored /\ strikes' = [strikes EXCEPT ![a] = next]
           \/ ~stored /\ strikes' = strikes
           \/ strikes' = strikes /\ next.strikes = c /\ next.lockedUntil = None
    PROVE  StrikesInv'
<1> DEFINE ends == tier = "T1" \/ next.lockedUntil # None
           ended == ends /\ alone /\ stored
           counted(n) == IF tier = "T3" THEN n + 1 ELSE n
<1>1. /\ a \in Accounts /\ c \in Nat /\ c < STRIKES_BEFORE_LOCK /\ req[r].gated \in Nat
      /\ next \in StrikeStates
  BY NextStrikesTyped
<1>2. /\ TypeOK /\ \A b \in Accounts : CountOK(b)
  BY CountIs DEF AdmissionInv
<1>3. /\ strikes \in [Accounts -> StrikeStates] /\ row \in [Accounts -> Rows]
      /\ strikes[a].strikes \in Nat /\ row[a].calm \in BOOLEAN
      /\ row[a].junk \in Nat /\ row[a].owed \in Nat
      /\ alone \in BOOLEAN
  BY <1>1, <1>2 DEF TypeOK, StrikeStates, Rows, Reqs
<1>4. /\ tier = "T1" => next.strikes = 0 /\ next.lockedUntil = None
      /\ tier = "T2" => next.strikes = c /\ next.lockedUntil = None
      /\ tier = "T3" => \/ next.strikes = c + 1 /\ next.lockedUntil = None
                        \/ next.strikes = 0 /\ next.lockedUntil # None
  <2>1. req[r].gated + StrikeLock # None
    BY <1>1, LifeAssumption, NoneAssumption
  <2>2. /\ tier = "T1" => next = NoStrikes
        /\ tier = "T2" => next = [strikes |-> c, lockedUntil |-> None]
        /\ tier = "T3" => \/ next = [strikes |-> c + 1, lockedUntil |-> None]
                          \/ next = [strikes |-> 0, lockedUntil |-> req[r].gated + StrikeLock]
    BY <1>1, StrikesSaid DEF NextStrikes
  <2> QED
    BY <2>1, <2>2 DEF NoStrikes
<1>5. /\ \A b \in Accounts : b # a => row'[b] = row[b] /\ strikes'[b] = strikes[b]
      /\ ended => row'[a].junk = 0 /\ row'[a].owed = 0 /\ row'[a].calm = TRUE
      /\ ~ended => /\ row'[a].junk = IF ends THEN 0 ELSE counted(row[a].junk)
                   /\ row'[a].owed = counted(row[a].owed)
                   /\ row'[a].calm = (row[a].calm /\ stored)
  <2>1. row' = [row EXCEPT ![a] =
                  IF ended THEN [junk |-> 0, owed |-> 0, calm |-> TRUE]
                  ELSE [junk |-> IF ends THEN 0 ELSE counted(row[a].junk),
                        owed |-> counted(row[a].owed), calm |-> row[a].calm /\ stored]]
    BY DEF Judged
  <2> HIDE DEF ended, ends, counted
  <2> QED
    BY <1>1, <1>3, <2>1
<1>6. \/ stored /\ strikes'[a].strikes = next.strikes
      \/ ~stored /\ strikes'[a] = strikes[a]
      \/ strikes'[a] = strikes[a] /\ next.strikes = c /\ next.lockedUntil = None
  BY <1>1, <1>3
<1>7. \A b \in Accounts : Judging(b)' = Judging(b) \ {r}
  BY <1>2 DEF Put, TypeOK, Judging
<1>8. \A s \in Requests : s # r => req'[s] = req[s]
  BY <1>2 DEF Put, TypeOK
<1>9. /\ r \in Judging(a) /\ strikes[a].strikes <= row[a].owed /\ c <= row[a].owed
      /\ row[a].calm => strikes[a].strikes = row[a].junk /\ row[a].junk = row[a].owed /\ alone
      /\ alone => Judging(a) = {r} /\ strikes[a].strikes = c
  BY <1>1, <1>2 DEF CountOK, Judging
<1> HIDE DEF ended
<1>10. /\ strikes'[a].strikes <= row'[a].owed
       /\ row'[a].calm => strikes'[a].strikes = row'[a].junk /\ row'[a].junk = row'[a].owed
  <2>1. CASE ended
    BY <1>1, <1>3, <1>4, <1>5, <1>6, <1>9, <2>1 DEF ended, Tiers
  <2>2. CASE ~ended
    <3>1. CASE tier = "T1"
      BY <1>1, <1>3, <1>4, <1>5, <1>6, <1>9, <2>2, <3>1 DEF ended
    <3>2. CASE tier = "T2"
      BY <1>1, <1>3, <1>4, <1>5, <1>6, <1>9, <2>2, <3>2
    <3>3. CASE tier = "T3"
      BY <1>1, <1>3, <1>4, <1>5, <1>6, <1>9, <2>2, <3>3 DEF ended
    <3> QED
      BY <3>1, <3>2, <3>3 DEF Tiers
  <2> QED
    BY <2>1, <2>2
<1>11. CountOK(a)'
  <2>1. ASSUME NEW s \in Judging(a)'
        PROVE  /\ req'[s].strike.strikes < STRIKES_BEFORE_LOCK
               /\ req'[s].strike.strikes <= row'[a].owed
               /\ ~req'[s].alone /\ ~row'[a].calm
    <3>1. s \in Judging(a) /\ s # r /\ s \in Requests /\ req'[s] = req[s]
      BY <1>1, <1>7, <1>8 DEF Judging
    <3>2. ~alone /\ ~row[a].calm
      BY <1>9, <3>1
    <3>3. ~req[s].alone
      BY <1>1, <1>2, <1>9, <3>1 DEF CountOK
    <3>4. req[s].strike.strikes < STRIKES_BEFORE_LOCK /\ req[s].strike.strikes <= row[a].owed
      BY <1>1, <1>2, <3>1 DEF CountOK
    <3>5. req[s].strike.strikes \in Nat
      BY <1>2, <3>1, FieldsTyped DEF Reqs, StrikeStates
    <3>6. ~row'[a].calm /\ row'[a].owed >= row[a].owed /\ row'[a].owed \in Nat
      <4>1. ~ended
        BY <3>2 DEF ended
      <4>2. row'[a].owed = row[a].owed \/ row'[a].owed = row[a].owed + 1
        BY <1>5, <4>1
      <4>3. ~row'[a].calm
        BY <1>5, <3>2, <4>1
      <4> QED
        BY <1>3, <4>2, <4>3
    <3> QED
      BY <1>3, <3>1, <3>3, <3>4, <3>5, <3>6
  <2> QED
    BY <1>10, <2>1 DEF CountOK
<1>12. ASSUME NEW b \in Accounts, b # a PROVE CountOK(b)'
  <2>1. \A s \in Judging(b)' : /\ s \in Judging(b)
                               /\ req'[s].strike = req[s].strike /\ req'[s].alone = req[s].alone
    BY <1>7, <1>8 DEF Judging
  <2> QED
    BY <1>2, <1>5, <1>12, <2>1, CountFrame
<1> QED
  BY <1>11, <1>12, CountNext

LEMMA StrikesStep == AdmissionInv /\ [Next]_vars => StrikesInv'
<1> SUFFICES ASSUME AdmissionInv, [Next]_vars PROVE StrikesInv'
  OBVIOUS
<1>1. TypeOK /\ StrikesInv /\ \A a \in Accounts : CountOK(a)
  BY CountIs DEF AdmissionInv
<1>2. \A r \in Requests : req[r] \in Reqs
  BY <1>1, FieldsTyped
<1>3. Idle.pc = "idle"
  BY DEF Idle
<1>4. ASSUME NEW r \in Requests, NEW a \in Accounts, NEW i \in Reached, Post(r, a, i)
      PROVE  StrikesInv'
  <2> DEFINE q == [Idle EXCEPT !.account = a, !.instance = i, !.asked = clock]
             d == Decided(q, factCache[i].facts)
  <2>1. Reading(a, i).pc = "read"
    BY DEF Reading, Idle
  <2>2. Fresh(factCache[i]) => d.pc \notin {"judge", "strike"}
    <3>1. i \in Instances /\ clock \in Nat
      BY <1>1, AdmissionLimitAssumption DEF TypeOK
    <3>2. q \in Reqs
      BY <3>1, IdleTyped DEF Reqs
    <3>3. Fresh(factCache[i]) => factCache[i].facts \in Facts
      BY <1>1, <3>1 DEF TypeOK, Fresh
    <3> HIDE DEF q
    <3> QED
      BY <3>2, <3>3, DecidedIs
  <2>3. UNCHANGED <<strikes, row>> /\ Put(r, IF Fresh(factCache[i]) THEN d ELSE Reading(a, i))
    BY <1>4 DEF Post, Begin, Table, History
  <2> HIDE DEF d
  <2> QED
    BY <1>1, <2>1, <2>2, <2>3, QuietPut
<1>5. ASSUME NEW r \in Requests, NEW i \in Reached, Look(r, i) PROVE StrikesInv'
  <2>1. Reading(None, i).pc = "read"
    BY DEF Reading, Idle
  <2>2. UNCHANGED <<strikes, row>> /\ Put(r, Reading(None, i))
    BY <1>5 DEF Look, Begin, Table, History
  <2> QED
    BY <1>1, <2>1, <2>2, QuietPut
<1>6. ASSUME NEW r \in Requests, ReadSpend(r) \/ ReadSpendFails(r) \/ ReadLock(r)
                                 \/ ReadLockFails(r) \/ LockAnswered(r)
      PROVE  StrikesInv'
  <2>1. /\ req[r].pc = "read" /\ UNCHANGED <<strikes, row>>
        /\ \/ Put(r, [req[r] EXCEPT !.spent = Cardinality(InWindow(req[r].asked))])
           \/ Put(r, [req[r] EXCEPT !.failed = TRUE])
           \/ Put(r, [req[r] EXCEPT !.fetched = lock])
           \/ Put(r, [req[r] EXCEPT !.locked = TRUE])
           \/ Put(r, [req[r] EXCEPT !.locked = req[r].fetched, !.fetched = None])
    BY <1>6 DEF ReadSpend, ReadSpendFails, ReadLock, ReadLockFails, LockAnswered, At, Table, History
  <2>2. \A v : /\ [req[r] EXCEPT !.spent = v].pc = "read"
               /\ [req[r] EXCEPT !.failed = v].pc = "read"
               /\ [req[r] EXCEPT !.fetched = v].pc = "read"
               /\ [req[r] EXCEPT !.locked = v].pc = "read"
               /\ [req[r] EXCEPT !.locked = v, !.fetched = None].pc = "read"
    BY <1>2, <2>1 DEF Reqs
  <2>3. PICK q : Put(r, q) /\ q.pc = "read"
    BY <2>1, <2>2
  <2> QED
    BY <1>1, <2>1, <2>3, QuietPut
<1>7. ASSUME NEW r \in Requests, FactsAnswered(r) PROVE StrikesInv'
  <2> DEFINE facts == [spent |-> req[r].spent, locked |-> req[r].locked]
             refused == [req[r] EXCEPT !.pc = "refused", !.failed = FALSE, !.locked = None,
                                       !.reason = "facts_unavailable"]
  <2>1. UNCHANGED <<strikes, row>> /\ refused.pc = "refused"
    BY <1>2, <1>7 DEF FactsAnswered, Table, History, Reqs
  <2>2. ~req[r].failed /\ req[r].account # None => Decided(req[r], facts).pc \notin {"judge", "strike"}
    <3>1. ~req[r].failed => facts \in Facts
      BY <1>2, <1>7 DEF FactsAnswered, Reqs, Facts
    <3> HIDE DEF facts
    <3> QED
      BY <1>2, <3>1, DecidedIs
  <2>3. \/ Put(r, Idle) \/ Put(r, refused)
        \/ ~req[r].failed /\ req[r].account # None /\ Put(r, Decided(req[r], facts))
    BY <1>7 DEF FactsAnswered
  <2> HIDE DEF facts, refused
  <2> QED
    BY <1>1, <1>3, <2>1, <2>2, <2>3, QuietPut
<1>8. ASSUME NEW r \in Requests, \/ Answer(r) \/ CheckCaps(r) \/ SkipGate(r)
                                 \/ RecordUsage(r)
                                 \/ (Killed(r) /\ req[r].pc # "strike")
      PROVE  StrikesInv'
  <2> DEFINE gate == [req[r] EXCEPT !.pc = "gate"]
             penny == [req[r] EXCEPT !.pc = "penny"]
  <2>1. gate.pc = "gate" /\ penny.pc = "penny"
    BY <1>2 DEF Reqs
  <2>2. UNCHANGED <<strikes, row>> /\ (Put(r, Idle) \/ Put(r, gate) \/ Put(r, penny))
    BY <1>8 DEF Answer, CheckCaps, SkipGate, RecordUsage, Killed, Table, History
  <2> HIDE DEF gate, penny
  <2> QED
    BY <1>1, <1>3, <2>1, <2>2, QuietPut
<1>9. ASSUME NEW r \in Requests, ReadStrikes(r) PROVE StrikesInv'
  <2>1. PICK a \in Accounts : a = req[r].account
    BY <1>9 DEF AdmissionInv, BreakerInv, ReadsOK, ReadStrikes, At
  <2> DEFINE read == [req[r] EXCEPT !.pc = "judge", !.strike = strikes[a], !.gated = clock,
                                    !.alone = Judging(a) = {}]
             joined(s) == [req[s] EXCEPT !.alone = FALSE]
  <2>2. CASE Put(r, Idle) /\ UNCHANGED row
    BY <1>1, <1>3, <1>9, <2>2, QuietPut DEF ReadStrikes, Table
  <2>3. CASE /\ req' = [s \in Requests |-> IF s = r THEN read
                                          ELSE IF s \in Judging(a) THEN joined(s) ELSE req[s]]
             /\ row' = [row EXCEPT ![a].calm = @ /\ Judging(a) = {}]
    <3>1. /\ row \in [Accounts -> Rows] /\ strikes' = strikes /\ req[r].pc = "gate"
          /\ strikes[a].strikes < STRIKES_BEFORE_LOCK
      BY <1>1, <1>9 DEF TypeOK, ReadStrikes, At, Table
    <3>2. /\ read.pc = "judge" /\ read.account = a /\ read.strike = strikes[a]
          /\ read.alone = (Judging(a) = {})
      BY <1>2, <2>1 DEF Reqs
    <3>3. \A s \in Requests : /\ joined(s).pc = req[s].pc /\ joined(s).account = req[s].account
                              /\ joined(s).strike = req[s].strike /\ ~joined(s).alone
      BY <1>2 DEF Reqs
    <3>4. r \notin Judging(a)
      BY <3>1 DEF Judging
    <3>5. /\ req'[r] = read
          /\ \A s \in Judging(a) : req'[s] = joined(s)
          /\ \A s \in Requests : s # r /\ s \notin Judging(a) => req'[s] = req[s]
      BY <2>3, <3>4 DEF Judging
    <3>6. /\ row'[a].junk = row[a].junk /\ row'[a].owed = row[a].owed
          /\ row'[a].calm = (row[a].calm /\ Judging(a) = {})
          /\ \A b \in Accounts : b # a => row'[b] = row[b]
      BY <2>3, <3>1 DEF Rows
    <3> HIDE DEF read, joined
    <3>7. Judging(a)' = Judging(a) \cup {r}
      BY <2>1, <3>2, <3>3, <3>5 DEF Judging
    <3>8. CountOK(a)'
      <4>1. /\ strikes'[a].strikes <= row'[a].owed
            /\ row'[a].calm => strikes'[a].strikes = row'[a].junk /\ row'[a].junk = row'[a].owed
        BY <1>1, <3>1, <3>6 DEF CountOK
      <4>2. ASSUME NEW s \in Judging(a)
            PROVE  /\ req'[s].strike.strikes < STRIKES_BEFORE_LOCK
                   /\ req'[s].strike.strikes <= row'[a].owed
                   /\ ~req'[s].alone /\ ~row'[a].calm
        <5>1. s \in Requests /\ req'[s].strike = req[s].strike /\ ~req'[s].alone
          BY <3>3, <3>5 DEF Judging
        <5> QED
          BY <1>1, <3>6, <5>1 DEF CountOK
      <4>3. /\ req'[r].strike.strikes < STRIKES_BEFORE_LOCK
            /\ req'[r].strike.strikes <= row'[a].owed
            /\ req'[r].alone => Judging(a)' = {r} /\ strikes'[a].strikes = req'[r].strike.strikes
            /\ row'[a].calm => req'[r].alone
        BY <1>1, <3>1, <3>2, <3>5, <3>6, <3>7 DEF CountOK
      <4> QED
        BY <3>7, <4>1, <4>2, <4>3 DEF CountOK
    <3>9. ASSUME NEW b \in Accounts, b # a PROVE CountOK(b)'
      <4>1. \A s \in Judging(b)' : s \in Judging(b) /\ req'[s] = req[s]
        BY <2>1, <3>2, <3>3, <3>5, <3>9 DEF Judging
      <4> QED
        BY <1>1, <3>1, <3>6, <3>9, <4>1, CountFrame
    <3> QED
      BY <3>8, <3>9, CountNext
  <2> QED
    BY <1>9, <2>1, <2>2, <2>3 DEF ReadStrikes
<1>10. ASSUME NEW r \in Requests, NEW tier \in Tiers
       PROVE  AfterGate(r, tier).pc \notin {"judge", "strike"}
  <2>1. [req[r] EXCEPT !.pc = "penny", !.strike = NoStrikes, !.gated = 0, !.tier = "T1",
                       !.alone = TRUE].pc = "penny"
    BY <1>2 DEF Reqs
  <2> QED
    BY <1>3, <2>1 DEF AfterGate
<1>11. ASSUME NEW r \in Requests, NEW tier \in Tiers, Classify(r, tier) PROVE StrikesInv'
  <2> DEFINE q == [req[r] EXCEPT !.pc = "strike", !.tier = tier]
             next == NextStrikes(r, tier)
  <2>1. req[r].pc = "judge" /\ strikes' = strikes
    BY <1>11 DEF Classify, At, Table
  <2>2. CASE Put(r, q) /\ UNCHANGED row
    <3>1. q.account = req[r].account /\ q.strike = req[r].strike /\ q.alone = req[r].alone
      BY <1>2 DEF Reqs
    <3>2. \A s \in Requests : req'[s] = IF s = r THEN q ELSE req[s]
      BY <1>1, <2>2 DEF Put, TypeOK
    <3> HIDE DEF q
    <3> QED
      BY <1>1, <2>1, <2>2, <3>1, <3>2, QuietStep
  <2>3. CASE /\ next.strikes = req[r].strike.strikes /\ next.lockedUntil = None
             /\ Put(r, AfterGate(r, tier))
             /\ Judged(req[r].account, tier, next, req[r].alone, TRUE)
    BY <1>10, <2>1, <2>3, LeavesOK
  <2> QED
    BY <1>11, <2>2, <2>3 DEF Classify
<1>12. ASSUME NEW r \in Requests, WriteStrikes(r) PROVE StrikesInv'
  <2>1. req[r].pc = "strike" /\ req[r].tier \in Tiers
    BY <1>2, <1>12 DEF WriteStrikes, At, Reqs
  <2>2. /\ strikes' = [strikes EXCEPT ![req[r].account] = NextStrikes(r, req[r].tier)]
        /\ Put(r, AfterGate(r, req[r].tier))
        /\ Judged(req[r].account, req[r].tier, NextStrikes(r, req[r].tier), req[r].alone, TRUE)
    BY <1>12 DEF WriteStrikes
  <2> QED
    BY <1>10, <2>1, <2>2, LeavesOK
<1>13. ASSUME NEW r \in Requests, WriteStrikesFails(r) PROVE StrikesInv'
  <2>1. req[r].pc = "strike" /\ req[r].tier \in Tiers /\ strikes' = strikes
    BY <1>2, <1>13 DEF WriteStrikesFails, At, Reqs, Table
  <2>2. /\ Put(r, AfterGate(r, req[r].tier))
        /\ Judged(req[r].account, req[r].tier, NextStrikes(r, req[r].tier), req[r].alone, FALSE)
    BY <1>13 DEF WriteStrikesFails
  <2> QED
    BY <1>10, <2>1, <2>2, LeavesOK
<1>16. ASSUME NEW r \in Requests, Killed(r), req[r].pc = "strike" PROVE StrikesInv'
  <2>1. req[r].tier \in Tiers /\ strikes' = strikes
    BY <1>2, <1>16 DEF Killed, Reqs, Table
  <2>2. /\ Put(r, Idle)
        /\ Judged(req[r].account, req[r].tier, NextStrikes(r, req[r].tier), req[r].alone, FALSE)
    BY <1>16 DEF Killed
  <2> QED
    BY <1>3, <1>16, <2>1, <2>2, LeavesOK
<1>14. ASSUME UNCHANGED <<strikes, row, req>> PROVE StrikesInv'
  BY <1>1, <1>14, QuietStep
<1>15. CASE \/ \E i \in Instances : FlipLock(i)
            \/ DropCaches \/ Tick \/ UNCHANGED vars
  BY <1>14, <1>15 DEF FlipLock, DropCaches, Tick, vars, Table, History
<1> QED
  BY <1>4, <1>5, <1>6, <1>7, <1>8, <1>9, <1>11, <1>12, <1>13, <1>15, <1>16 DEF Next

-----------------------------------------------------------------------------
(* The theorems *)

\* The strengthening that the three below rest on. A cached lock is wrong only if it was
\* flipped since it was read; a cached sum covers what had been recorded when it was asked
\* for; a message judged alone is the only one of its account and has read what is stored.
THEOREM AdmissionInvariant == Spec => []AdmissionInv
<1>1. Init => AdmissionInv
  <2> SUFFICES ASSUME Init PROVE AdmissionInv
    OBVIOUS
  <2>1. \A r \in Requests : req[r] = Idle /\ Idle.pc = "idle"
    BY DEF Init, Idle
  <2>2. PICK n \in [Accounts -> FirstStrikes] :
          /\ strikes = [a \in Accounts |-> [strikes |-> n[a], lockedUntil |-> None]]
          /\ row = [a \in Accounts |-> [junk |-> n[a], owed |-> n[a], calm |-> TRUE]]
    BY DEF Init
  <2>3. \A a \in Accounts : n[a] \in Nat /\ n[a] < STRIKES_BEFORE_LOCK
    <3>1. ASSUME NEW k \in FirstStrikes PROVE k \in Nat /\ k < STRIKES_BEFORE_LOCK
      <4>1. STRIKES_BEFORE_LOCK \in Nat /\ k \in 0..(STRIKES_BEFORE_LOCK - 1)
        BY StrikeAssumption
      <4> QED
        BY <4>1
    <3> QED
      BY <2>2, <3>1
  <2>4. TypeOK
    <3>1. strikes \in [Accounts -> StrikeStates] /\ row \in [Accounts -> Rows]
      BY <2>2, <2>3 DEF StrikeStates, Rows
    <3>2. \A a \in Accounts : strikes[a].strikes < STRIKES_BEFORE_LOCK
      BY <2>2, <2>3
    <3> QED
      BY <3>1, <3>2, IdleTyped DEF Init, TypeOK
  <2>5. BreakerInv
    <3>1. \A r \in Requests : Sound(req[r])
      BY <2>1, <2>4, IdleSound
    <3>2. IsFiniteSet(usage) /\ flippedAt <= clock /\ LockCached /\ FactsCached
      BY FS_EmptySet DEF Init, LockCached, FactsCached
    <3> QED
      BY <3>1, <3>2, SoundIs DEF SoundState
  <2>6. StrikesInv
    <3>1. \A a \in Accounts : Judging(a) = {}
      BY <2>1 DEF Judging
    <3>2. \A a \in Accounts : CountOK(a)
      BY <2>2, <2>3, <3>1 DEF CountOK
    <3> QED
      BY <3>2, CountIs
  <2> QED
    BY <2>4, <2>5, <2>6 DEF AdmissionInv
<1>2. AdmissionInv /\ [Next]_vars => AdmissionInv'
  BY TypeStep, BreakerStep, StrikesStep DEF AdmissionInv
<1> QED
  BY <1>1, <1>2, PTL DEF Spec

\* Every value is of its type, and an account that may write has fewer strikes than lock it.
THEOREM AdmissionTypeCorrect == Spec => []TypeOK
<1>1. AdmissionInv => TypeOK
  BY DEF AdmissionInv
<1> QED
  BY <1>1, AdmissionInvariant, PTL

\* The owner's lock decides two lives of a cache after it was flipped, but for a life after
\* a failed read of it, and no message passes a cache's life after the recorded spend had
\* reached the stop line: whatever reads were under way, on any number of instances, with
\* reads that fail (breakerCheck.ts).
THEOREM BreakerHeeded == Spec => []BreakerIsHeeded
<1>1. AdmissionInv => BreakerIsHeeded
  BY DEF AdmissionInv, BreakerInv
<1> QED
  BY <1>1, AdmissionInvariant, PTL

\* The strikes are the row of junk as long as messages are judged one by one and the writes
\* are stored, and whatever runs at once each is a junk message of its own since the row was
\* last cleared by a message judged alone (strikes.ts).
THEOREM StrikesInARow == Spec => []StrikesFollowTheRow
<1>1. AdmissionInv => StrikesFollowTheRow
  BY DEF AdmissionInv, StrikesInv
<1> QED
  BY <1>1, AdmissionInvariant, PTL
=============================================================================
