----------------------------- MODULE Admission ------------------------------
(***************************************************************************)
(* What a message passes before Penny is called: the deployment's breaker, *)
(* with its hand-thrown lock, the account's own cap, and the message gate, *)
(* which counts junk as strikes.  The breaker is read through two caches,  *)
(* one on top of the other, that every instance of the server has for      *)
(* itself; the strikes are read before a slow judgement and written after. *)
(*                                                                         *)
(* A request takes one database statement per step.  An answer that fills  *)
(* a cache lands in a step of its own.                                     *)
(***************************************************************************)
EXTENDS Integers, FiniteSets

CONSTANTS
    None,
    Accounts,
    Instances,     \* the running instances of the server
    Requests,      \* requests that may run at once
    StopAt,        \* turns in the window from which the spend breaker is open
    AccountCap,    \* turns in the window from which an account is capped
    Window,        \* the rolling window of both
    CacheLife,     \* CACHE_MS and BREAKER_CACHE_MS, which are equal
    STRIKES_BEFORE_LOCK,
    StrikeLock,    \* STRIKE_LOCK_MINUTES
    MaxDuration,   \* how long the platform lets a request run
    FirstStrikes,  \* the strikes an account may start with
    Reached,       \* bound: the instances that requests reach
    MaxClock, MaxPosts, MaxFlips, MaxFailures,  \* bounds
    LastFlip       \* bound: the clock after which the lock is flipped no more

ASSUME NoneAssumption == None \notin Nat \cup BOOLEAN \cup Accounts \cup Instances
ASSUME LifeAssumption ==
    /\ CacheLife \in Nat \ {0}
    /\ {Window, StopAt, AccountCap, MaxDuration} \subseteq Nat
    /\ StrikeLock \in Nat /\ MaxDuration < StrikeLock
ASSUME StrikeAssumption ==
    /\ STRIKES_BEFORE_LOCK \in Nat \ {0}
    /\ FirstStrikes \subseteq 0..(STRIKES_BEFORE_LOCK - 1)
ASSUME AdmissionLimitAssumption ==
    /\ {MaxClock, MaxPosts, MaxFlips, MaxFailures, LastFlip} \subseteq Nat
    /\ Reached \subseteq Instances

VARIABLES
    clock,
    lock,        \* app_meta.penny_locked
    usage,       \* the rows of usage_events that cost money, one per turn
    strikes,     \* account -> penny_strikes and penny_locked_until
    lockCache,   \* instance -> `lockCached` of switch.ts
    factCache,   \* instance -> `cached` of breakerCheck.ts
    req,         \* request -> what it is doing
    flip,        \* the instance that has just written the lock, or None
    posts, flips, failures,
    flippedAt,   \* history: when the lock was last thrown or cleared
    failedAt,    \* history: when a read of the lock last failed
    row          \* history: account -> its junk messages so far, see Judged

vars == <<clock, lock, usage, strikes, lockCache, factCache, req, flip, posts, flips,
          failures, flippedAt, failedAt, row>>

Tiers == {"T1", "T2", "T3"}
Usage == [account : Accounts, at : Nat, nth : Nat]
StrikeStates == [strikes : Nat, lockedUntil : Nat \cup {None}]
Facts == [spent : Nat, locked : BOOLEAN]
Rows == [junk : Nat, owed : Nat, calm : BOOLEAN]

\* `spent` and `locked` are the two reads behind the facts: None until they are answered;
\* `failed`, the first of them threw.
\* `fetched` is the lock as the database gave it, before the answer lands; `asked` and
\* `gated` are the `now` of the breaker and of the message gate. History: `alone`, no
\* other message of the account was judged at the same time.
Reqs == [pc : {"idle", "read", "caps", "gate", "judge", "strike", "penny", "refused"},
         account : Accounts \cup {None}, instance : Instances \cup {None}, asked : Nat,
         gated : Nat, spent : Nat \cup {None}, failed : BOOLEAN,
         fetched : BOOLEAN \cup {None}, locked : BOOLEAN \cup {None}, strike : StrikeStates, tier : Tiers,
         reason : {"", "spend", "manual_lock", "facts_unavailable"},
         alone : BOOLEAN]

NoStrikes == [strikes |-> 0, lockedUntil |-> None]

Idle == [pc |-> "idle", account |-> None, instance |-> None, asked |-> 0, gated |-> 0,
         spent |-> None, failed |-> FALSE, fetched |-> None, locked |-> None,
         strike |-> NoStrikes, tier |-> "T1", reason |-> "", alone |-> TRUE]

TypeOK ==
    /\ {clock, posts, flips, failures, flippedAt} \subseteq Nat
    /\ failedAt \in Nat \cup {None}
    /\ lock \in BOOLEAN
    /\ usage \subseteq Usage
    /\ strikes \in [Accounts -> StrikeStates]
    /\ lockCache \in [Instances -> [value : BOOLEAN, at : Nat] \cup {None}]
    /\ factCache \in [Instances -> [facts : Facts, at : Nat] \cup {None}]
    /\ req \in [Requests -> Reqs]
    /\ flip \in Instances \cup {None}
    /\ row \in [Accounts -> Rows]
    /\ \A a \in Accounts : strikes[a].strikes < STRIKES_BEFORE_LOCK

Init ==
    /\ clock = 0 /\ posts = 0 /\ flips = 0 /\ failures = 0
    /\ lock \in BOOLEAN
    /\ usage = {}
    /\ \E n \in [Accounts -> FirstStrikes] :
        /\ strikes = [a \in Accounts |-> [strikes |-> n[a], lockedUntil |-> None]]
        /\ row = [a \in Accounts |-> [junk |-> n[a], owed |-> n[a], calm |-> TRUE]]
    /\ lockCache = [i \in Instances |-> None]
    /\ factCache = [i \in Instances |-> None]
    /\ req = [r \in Requests |-> Idle]
    /\ flip = None
    /\ flippedAt = 0
    /\ failedAt = None

At(r, pc) == req[r].pc = pc
Put(r, rec) == req' = [req EXCEPT ![r] = rec]

Caches == <<lockCache, factCache>>
Table == <<lock, usage, strikes>>
Bounds == <<clock, flip, posts, flips, failures>>
History == <<flippedAt, failedAt, row>>

Fail ==
    /\ failures < MaxFailures
    /\ failures' = failures + 1

-----------------------------------------------------------------------------
(* The breaker: checkBreakerGate, breakerFacts, readBreakerFacts, pennyLocked *)

\* Variant for the mutation runs: an answer counts as fresh from when it lands.
StampOfLanding(asked) == clock

\* The `now` a reading is stored under is that of the call, not of the answer.
Stamp(asked) == asked

Fresh(entry) == entry # None /\ clock - entry.at < CacheLife

\* Rows of the window that ends at t.
InWindow(t) == {u \in usage : u.at >= t - Window}

\* evaluateGate: the spend comes first, then the lock.
Verdict(facts) ==
    CASE facts.spent >= StopAt -> "spend"
      [] facts.spent < StopAt /\ facts.locked -> "manual_lock"
      [] OTHER -> ""

\* The record of a request that the facts let pass or refuse.
Decided(rec, facts) ==
    LET v == Verdict(facts)
        clean == [rec EXCEPT !.spent = None, !.fetched = None, !.locked = None]
    IN  IF v = "" THEN [clean EXCEPT !.pc = "caps"]
        ELSE [clean EXCEPT !.pc = "refused", !.reason = v]

\* A request that starts to read the facts. The lock's own cache may hold its half.
Reading(a, i) ==
    [Idle EXCEPT !.pc = "read", !.account = a, !.instance = i, !.asked = clock,
                 !.locked = IF Fresh(lockCache[i]) THEN lockCache[i].value ELSE None]

Begin(r, rec) ==
    /\ At(r, "idle")
    /\ posts < MaxPosts
    /\ posts' = posts + 1
    /\ Put(r, rec)
    /\ UNCHANGED <<clock, flip, flips, failures, Table, Caches, History>>

\* A message of account a reaches instance i.
Post(r, a, i) ==
    Begin(r, IF Fresh(factCache[i])
             THEN Decided([Idle EXCEPT !.account = a, !.instance = i, !.asked = clock],
                          factCache[i].facts)
             ELSE Reading(a, i))

\* breakerSnapshot for the admin page, and the answer to a flip: never from the facts'
\* cache, but through the lock's.
Look(r, i) == Begin(r, Reading(None, i))

ReadSpend(r) ==
    /\ At(r, "read") /\ req[r].spent = None /\ ~req[r].failed
    /\ Put(r, [req[r] EXCEPT !.spent = Cardinality(InWindow(req[r].asked))])
    /\ UNCHANGED <<Table, Caches, Bounds, History>>

\* Any of the aggregate queries throws: the facts are unavailable.
ReadSpendFails(r) ==
    /\ At(r, "read") /\ req[r].spent = None /\ ~req[r].failed
    /\ Fail
    /\ Put(r, [req[r] EXCEPT !.failed = TRUE])
    /\ UNCHANGED <<clock, flip, posts, flips, Table, Caches, History>>

ReadLock(r) ==
    /\ At(r, "read") /\ req[r].locked = None /\ req[r].fetched = None
    /\ Put(r, [req[r] EXCEPT !.fetched = lock])
    /\ UNCHANGED <<Table, Caches, Bounds, History>>

\* pennyLocked catches what the query throws, answers TRUE and caches nothing.
ReadLockFails(r) ==
    /\ At(r, "read") /\ req[r].locked = None /\ req[r].fetched = None
    /\ Fail
    /\ Put(r, [req[r] EXCEPT !.locked = TRUE])
    /\ failedAt' = clock
    /\ UNCHANGED <<clock, flip, posts, flips, Table, Caches, flippedAt, row>>

\* The answer lands: it is cached whatever happened since it was read.
LockAnswered(r) ==
    /\ At(r, "read") /\ req[r].fetched # None
    /\ Put(r, [req[r] EXCEPT !.locked = req[r].fetched, !.fetched = None])
    /\ lockCache' = [lockCache EXCEPT ![req[r].instance] =
                        [value |-> req[r].fetched, at |-> Stamp(req[r].asked)]]
    /\ UNCHANGED <<Table, factCache, Bounds, History>>

\* All reads are answered. What could not be read is not cached.
FactsAnswered(r) ==
    LET facts == [spent |-> req[r].spent, locked |-> req[r].locked]
    IN  /\ At(r, "read") /\ req[r].locked # None
        /\ req[r].failed \/ req[r].spent # None
        /\ IF req[r].account = None
           THEN Put(r, Idle) /\ UNCHANGED factCache
           ELSE IF req[r].failed
           THEN /\ Put(r, [req[r] EXCEPT !.pc = "refused", !.failed = FALSE, !.locked = None,
                                         !.reason = "facts_unavailable"])
                /\ UNCHANGED factCache
           ELSE /\ Put(r, Decided(req[r], facts))
                /\ factCache' = [factCache EXCEPT ![req[r].instance] =
                                    [facts |-> facts, at |-> Stamp(req[r].asked)]]
        /\ UNCHANGED <<Table, lockCache, Bounds, History>>

\* The 503 is answered.
Answer(r) ==
    /\ At(r, "refused")
    /\ Put(r, Idle)
    /\ UNCHANGED <<Table, Caches, Bounds, History>>

-----------------------------------------------------------------------------
(* The account's cap and the message gate *)

\* getUserUsageSummary; over the cap, the request is answered with a 429.
CheckCaps(r) ==
    LET mine == {u \in InWindow(clock) : u.account = req[r].account}
    IN  /\ At(r, "caps")
        /\ Put(r, IF Cardinality(mine) >= AccountCap THEN Idle
                  ELSE [req[r] EXCEPT !.pc = "gate"])
        /\ UNCHANGED <<Table, Caches, Bounds, History>>

Judging(a) == {r \in Requests : req[r].pc \in {"judge", "strike"} /\ req[r].account = a}

\* The first message of a trip is composed by the app, an image has no text: neither is gated.
SkipGate(r) ==
    /\ At(r, "gate")
    /\ Put(r, [req[r] EXCEPT !.pc = "penny"])
    /\ UNCHANGED <<Table, Caches, Bounds, History>>

\* getStrikeState: an account inside its hour is answered with the lock line.
ReadStrikes(r) ==
    LET a == req[r].account
        locked == strikes[a].lockedUntil # None /\ strikes[a].lockedUntil > clock
        others == Judging(a)
    IN  /\ At(r, "gate")
        /\ IF locked
           THEN Put(r, Idle) /\ UNCHANGED row
           ELSE /\ req' = [s \in Requests |->
                     IF s = r THEN [req[r] EXCEPT !.pc = "judge", !.strike = strikes[a],
                                                  !.gated = clock, !.alone = others = {}]
                     ELSE IF s \in others THEN [req[s] EXCEPT !.alone = FALSE]
                     ELSE req[s]]
                /\ row' = [row EXCEPT ![a].calm = @ /\ others = {}]
        /\ UNCHANGED <<Table, Caches, Bounds, flippedAt, failedAt>>

\* Variant for the mutation runs: a real message leaves the count as it was.
CountNotCleared(tier, count, now) ==
    IF tier = "T3" /\ count + 1 >= STRIKES_BEFORE_LOCK
    THEN [strikes |-> 0, lockedUntil |-> now + StrikeLock]
    ELSE [strikes |-> IF tier = "T3" THEN count + 1 ELSE count, lockedUntil |-> None]

\* Variant for the mutation runs: the lock leaves the count at three.
CountKeptAtLock(tier, count, now) ==
    CASE tier = "T1" -> NoStrikes
      [] tier = "T2" -> [strikes |-> count, lockedUntil |-> None]
      [] tier = "T3" /\ count + 1 < STRIKES_BEFORE_LOCK ->
            [strikes |-> count + 1, lockedUntil |-> None]
      [] OTHER -> [strikes |-> count + 1, lockedUntil |-> now + StrikeLock]

NextStrikeState(tier, count, now) ==
    CASE tier = "T1" -> NoStrikes
      [] tier = "T2" -> [strikes |-> count, lockedUntil |-> None]
      [] tier = "T3" /\ count + 1 < STRIKES_BEFORE_LOCK ->
            [strikes |-> count + 1, lockedUntil |-> None]
      [] OTHER -> [strikes |-> 0, lockedUntil |-> now + StrikeLock]

NextStrikes(r, tier) == NextStrikeState(tier, req[r].strike.strikes, req[r].gated)

\* Only a message Penny can act on goes on to her.
AfterGate(r, tier) ==
    IF tier = "T1" THEN [req[r] EXCEPT !.pc = "penny", !.strike = NoStrikes, !.gated = 0,
                                         !.tier = "T1", !.alone = TRUE]
    ELSE Idle

\* History: a message of account a has been judged. `junk` is the row of junk it stands at,
\* which any real message ends, and the lock. `owed` counts the junk since the row was last
\* ended by a message that overlapped no other and whose write was stored; `calm`, none has
\* overlapped or lost its write since then.
Judged(a, tier, next, alone, stored) ==
    LET ends == tier = "T1" \/ next.lockedUntil # None
        counted(n) == IF tier = "T3" THEN n + 1 ELSE n
    IN  row' = [row EXCEPT ![a] =
              IF ends /\ alone /\ stored THEN [junk |-> 0, owed |-> 0, calm |-> TRUE]
              ELSE [junk |-> IF ends THEN 0 ELSE counted(@.junk), owed |-> counted(@.owed),
                    calm |-> @.calm /\ stored]]

\* The deterministic rules or a classifier sort the message. The state is written only if
\* it differs from what was read.
Classify(r, tier) ==
    LET a == req[r].account
        next == NextStrikes(r, tier)
    IN  /\ At(r, "judge")
        /\ IF next.strikes # req[r].strike.strikes \/ next.lockedUntil # None
           THEN Put(r, [req[r] EXCEPT !.pc = "strike", !.tier = tier]) /\ UNCHANGED row
           ELSE Put(r, AfterGate(r, tier)) /\ Judged(a, tier, next, req[r].alone, TRUE)
        /\ UNCHANGED <<Table, Caches, Bounds, flippedAt, failedAt>>

\* setStrikeState writes both columns, whatever they are by now.
WriteStrikes(r) ==
    LET a == req[r].account
        next == NextStrikes(r, req[r].tier)
    IN  /\ At(r, "strike")
        /\ strikes' = [strikes EXCEPT ![a] = next]
        /\ Put(r, AfterGate(r, req[r].tier))
        /\ Judged(a, req[r].tier, next, req[r].alone, TRUE)
        /\ UNCHANGED <<lock, usage, Caches, Bounds, flippedAt, failedAt>>

\* The write fails; the message is answered as judged.
WriteStrikesFails(r) ==
    /\ At(r, "strike")
    /\ Fail
    /\ Put(r, AfterGate(r, req[r].tier))
    /\ Judged(req[r].account, req[r].tier, NextStrikes(r, req[r].tier), req[r].alone, FALSE)
    /\ UNCHANGED <<clock, flip, posts, flips, Table, Caches, flippedAt, failedAt>>

\* The turn has run and its cost is recorded.
RecordUsage(r) ==
    /\ At(r, "penny")
    /\ usage' = usage \cup {[account |-> req[r].account, at |-> clock,
                             nth |-> Cardinality(usage)]}
    /\ Put(r, Idle)
    /\ UNCHANGED <<lock, strikes, Caches, Bounds, History>>

-----------------------------------------------------------------------------
(* The admin, the platform, and time *)

\* setPennyLocked on instance i. The caches of that instance go once the write is answered.
FlipLock(i) ==
    /\ flip = None
    /\ flips < MaxFlips /\ clock <= LastFlip
    /\ flips' = flips + 1
    /\ lock' = ~lock
    /\ flip' = i
    /\ flippedAt' = clock
    /\ UNCHANGED <<clock, posts, failures, usage, strikes, Caches, req, failedAt, row>>

\* invalidatePennyLock and invalidateBreakerFacts.
DropCaches ==
    /\ flip # None
    /\ lockCache' = [lockCache EXCEPT ![flip] = None]
    /\ factCache' = [factCache EXCEPT ![flip] = None]
    /\ flip' = None
    /\ UNCHANGED <<clock, posts, flips, failures, Table, req, History>>

\* A request is cut off; what it had judged is not written.
Killed(r) ==
    LET q == req[r]
    IN  /\ q.pc \notin {"idle", "refused"}
        /\ Fail
        /\ Put(r, Idle)
        /\ IF q.pc = "strike"
           THEN Judged(q.account, q.tier, NextStrikes(r, q.tier), q.alone, FALSE)
           ELSE UNCHANGED row
        /\ UNCHANGED <<clock, flip, posts, flips, Table, Caches, flippedAt, failedAt>>

\* No request lives longer than the platform lets it.
Tick ==
    /\ clock < MaxClock
    /\ \A r \in Requests : At(r, "idle") \/ clock - req[r].asked < MaxDuration
    /\ clock' = clock + 1
    /\ UNCHANGED <<Table, Caches, req, flip, posts, flips, failures, History>>

Next ==
    \/ \E r \in Requests, a \in Accounts, i \in Reached : Post(r, a, i)
    \/ \E r \in Requests, i \in Reached : Look(r, i)
    \/ \E r \in Requests :
        \/ ReadSpend(r) \/ ReadSpendFails(r)
        \/ ReadLock(r) \/ ReadLockFails(r) \/ LockAnswered(r)
        \/ FactsAnswered(r) \/ Answer(r)
        \/ CheckCaps(r) \/ SkipGate(r) \/ ReadStrikes(r)
        \/ \E tier \in Tiers : Classify(r, tier)
        \/ WriteStrikes(r) \/ WriteStrikesFails(r)
        \/ RecordUsage(r) \/ Killed(r)
    \/ \E i \in Instances : FlipLock(i)
    \/ DropCaches
    \/ Tick

Spec == Init /\ [][Next]_vars
=============================================================================
