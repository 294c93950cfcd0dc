-------------------------- MODULE MCSubscriptions --------------------------
(***************************************************************************)
(* Small instances of Subscriptions for TLC: two accounts, one purchase,   *)
(* and the notifications of one subscription's life.                       *)
(***************************************************************************)
EXTENDS SubscriptionProperties, TLC

CONSTANTS A, B, X, paid, c1

About(type, user, at, end) ==
    [type |-> type, user |-> user, at |-> at, end |-> end, txn |-> paid,
     from |-> {}, to |-> <<X, X>>]

Transfer(at, from, to) ==
    [type |-> "TRANSFER", user |-> None, at |-> at, end |-> None, txn |-> None,
     from |-> from, to |-> to]

\* A buys, is refunded, and the purchase moves to B's account; the first named destination is nobody's.
ConcurrentEvents == [bought |-> About("INITIAL_PURCHASE", A, 0, 3),
                     refunded |-> About("REFUND", A, 1, None),
                     moved |-> Transfer(1, {A, X}, <<X, B>>)]

\* A buys and the purchase moves to B, who renews it, cancels and is refunded. The purchase and the
\* move are answered promptly; the cancellation and the refund carry no expiry, and any of the
\* last three may come late.
LifeEvents == [bought |-> About("INITIAL_PURCHASE", A, 0, 2),
               moved |-> Transfer(1, {A}, <<B, X>>),
               cancelled |-> About("CANCELLATION", B, 2, None),
               renewed |-> About("RENEWAL", B, 2, 4),
               refunded |-> About("REFUND", B, 3, None)]

RacingEvents == [renewed |-> About("RENEWAL", A, 0, 3), refunded |-> About("REFUND", A, 1, None)]

LateRenewalEvents == [bought |-> About("INITIAL_PURCHASE", A, 0, 3),
                      renewed |-> About("RENEWAL", A, 1, 4),
                      moved |-> Transfer(2, {A}, <<B, X>>)]

\* What the theorems count on the store for is so of the life that the sequential run follows.
ASSUME LifeIsTold == Event = LifeEvents => EventsFollowOwner /\ EndsComeFirst

CONSTANTS r1, r2
TwoRequests == Permutations({r1, r2})

Codes1 == {c1}
ForA == [c \in {c1} |-> A]
ForB == [c \in {c1} |-> B]
NoDeadline == [c \in {c1} |-> None]
TermTwo == [c \in {c1} |-> 2]
NoCodes == {}
NoCodeFor == [c \in {} |-> A]
NoTerm == [c \in {} |-> 0]
=============================================================================
