------------------------ MODULE AdmissionProperties -------------------------
(***************************************************************************)
(* What the owner and a driver may count on at Penny's door.               *)
(***************************************************************************)
EXTENDS Admission

\* The breaker has let the request pass.
Passed(r) == At(r, "caps")

LockedOut(r) == At(r, "refused") /\ req[r].reason = "manual_lock"

\* The lock has been as it is for two lives of a cache, but for the last tick of the second,
\* when the request asked: an entry serves for less than its life.
LockSettled(r) == flippedAt + 2 * CacheLife - 1 <= req[r].asked

\* The turns of the window that were recorded before t.
SpentIn(rows, t) == Cardinality({u \in rows : t - Window <= u.at /\ u.at < t})
SpentBefore(t) == SpentIn(usage, t)

-----------------------------------------------------------------------------
(* Invariants *)

\* The lock decides within two lives of a cache after it was flipped, on every instance and
\* whatever reads were under way: the facts' cache takes the lock from the lock's own, and
\* an answer that one life would have dropped lives on in the other. That is twice the
\* thirty seconds that penny-lock/route.ts:52-58 and constants.ts:205-217 count on. Until a
\* life after a failed read of the lock, messages may be refused although it is off: the
\* facts' cache keeps what switch.ts:215-216 would not, see FailedReadPinsNothing.
LockIsHeeded ==
    \A r \in Requests : LockSettled(r) =>
        /\ Passed(r) => ~lock
        /\ LockedOut(r) /\ ~lock => failedAt # None /\ failedAt + CacheLife > req[r].asked

\* No message passes that was sent a cache's life or longer after the recorded spend had
\* reached the stop line, on any instance (constants.ts: the stop line plus thirty seconds
\* of spend per running instance).
SpendIsHeeded ==
    \A r \in Requests : Passed(r) =>
        \E t \in 0..req[r].asked : req[r].asked < t + CacheLife /\ SpentBefore(t) < StopAt

\* Neither the owner's lock nor the measured spend is ignored for longer than the caches
\* do keep an answer, counted from when the answer was asked for (breakerCheck.ts).
BreakerIsHeeded == LockIsHeeded /\ SpendIsHeeded

\* As long as the messages of an account are judged one by one and every write is stored,
\* its strikes are the row of junk it stands at, which any real message and the lock end: it
\* is locked out by three in a row and by nothing else (strikes.ts). Messages judged at once
\* and lost writes break that rule, see README. Even then each strike is a junk message of
\* its own since the row was last cleared by a message judged alone and stored: none is
\* counted twice, and none comes back from before.
StrikesFollowTheRow ==
    \A a \in Accounts :
        /\ row[a].calm => strikes[a].strikes = row[a].junk
        /\ strikes[a].strikes <= row[a].owed
        /\ \A r \in Judging(a) : req[r].strike.strikes <= row[a].owed

\* What switch.ts:215-216 says of the lock: a failed read of it does not pin the app shut
\* once the database is back. A message refused for the lock, which is off and has been for
\* two lives of a cache, asked no later than the read that failed.
FailedReadPinsNothing ==
    \A r \in Requests : LockSettled(r) /\ LockedOut(r) /\ ~lock =>
        failedAt # None /\ req[r].asked <= failedAt

-----------------------------------------------------------------------------
(* The inductive invariant behind them *)

\* A reading of the lock that was asked for at t is right, or the lock was flipped less
\* than a cache's life before t or since, or the read failed.
LockRead(value, t) ==
    value # lock =>
        \/ t < flippedAt + CacheLife
        \/ value /\ failedAt # None /\ t <= failedAt

\* A cached lock is wrong only if it was flipped since the read was asked for.
LockCached ==
    \A i \in Instances : lockCache[i] # None =>
        /\ lockCache[i].at <= clock
        /\ lockCache[i].value # lock => lockCache[i].at <= flippedAt

FactsCached ==
    \A i \in Instances : factCache[i] # None =>
        /\ factCache[i].at <= clock
        /\ SpentBefore(factCache[i].at) <= factCache[i].facts.spent
        /\ LockRead(factCache[i].facts.locked, factCache[i].at)

ReadsOK ==
    \A r \in Requests :
        /\ req[r].asked <= clock
        /\ req[r].pc = "read" => req[r].instance \in Instances
        /\ req[r].pc \notin {"idle", "read", "refused"} => req[r].account \in Accounts
        /\ req[r].spent # None => SpentBefore(req[r].asked) <= req[r].spent
        /\ req[r].fetched # None /\ req[r].fetched # lock => req[r].asked <= flippedAt
        /\ req[r].locked # None => LockRead(req[r].locked, req[r].asked)

BreakerInv ==
    /\ IsFiniteSet(usage)
    /\ flippedAt <= clock
    /\ LockCached /\ FactsCached /\ ReadsOK
    /\ BreakerIsHeeded

\* A message judged alone is the only one of its account, and has read what is stored;
\* while the row is calm there are no others.
JudgedAlone ==
    \A a \in Accounts : \A r \in Judging(a) :
        /\ req[r].strike.strikes < STRIKES_BEFORE_LOCK
        /\ req[r].alone => /\ Judging(a) = {r}
                           /\ strikes[a].strikes = req[r].strike.strikes
        /\ row[a].calm => req[r].alone

\* While messages are judged one by one and stored, nothing is owed from before the row.
RowIsOwed == \A a \in Accounts : row[a].calm => row[a].junk = row[a].owed

StrikesInv == JudgedAlone /\ RowIsOwed /\ StrikesFollowTheRow

AdmissionInv == TypeOK /\ BreakerInv /\ StrikesInv
=============================================================================
