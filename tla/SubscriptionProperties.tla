---------------------- MODULE SubscriptionProperties -----------------------
(***************************************************************************)
(* What the payments code is trusted for, stated over Subscriptions.       *)
(***************************************************************************)
EXTENDS Subscriptions

\* A store event is claimed by its ledger row, a code by the user who redeemed it.
Claimed ==
    {t \in Tokens : \/ t[1] = "store" /\ \E row \in ledger : row.key = t
                    \/ t[1] = "promo" /\ redeemed[t[2]] # None}

Claims == INSTANCE ClaimOnce WITH claimed <- Claimed

(* The ledger's unique event id and the conditional update of a code make  *)
(* every notification and every code change `subscriptions` at most once,  *)
(* and only after it was recorded, whatever is retried, duplicated, run at *)
(* the same time or cut short by a crash (webhook.ts, promo.ts).           *)
EffectAtMostOnce == Claims!Spec

Entitles(row) == row # None /\ row.status \in {"active", "grace", "cancelled"}

\* A ledger row that says so, or a code that was redeemed by that user.
HasTrace(u) ==
    \/ \E row \in ledger : row.user = u /\ row.says \in {"active", "grace", "cancelled"}
    \/ \E c \in Codes : redeemed[c] = u

(* No account is ever entitled without a trace of why.  Recording before   *)
(* writing is what keeps this through a crash.                             *)
EntitlementHasTrace == \A u \in Users : Entitles(sub[u]) => HasTrace(u)

-----------------------------------------------------------------------------
(* The inductive invariant behind the two. *)

AfterRecord == {"load", "write"} \cup TransferSteps
Deciding == {"record"} \cup AfterRecord

\* What a request has read is what its next statement needs.
RequestOK(q) ==
    /\ q.pc \in Deciding => q.ev \in EventIds /\ q.outcome \in Outcomes
    /\ q.pc = "record" /\ q.outcome = "applied" => q.user \in Users
    /\ q.pc \in AfterRecord => q.user \in Users
    /\ q.pc \in PromoSteps => q.code \in Codes /\ q.user \in Users

\* The request holds the claim on t and has not yet made its effect.
Pending(q, t) ==
    \/ q.pc \in {"load", "write", "readOrigins", "move"} /\ t = StoreKey(q.ev)
    \/ q.pc = "grant" /\ t = PromoKey(q.code)

ClaimsHeld ==
    /\ \A t \in Tokens : t \notin Claimed => effects[t] = 0
    /\ \A r \in Requests, t \in Tokens :
        Pending(proc[r], t) => t \in Claimed /\ effects[t] = 0
    /\ \A r, s \in Requests, t \in Tokens :
        Pending(proc[r], t) /\ Pending(proc[s], t) => r = s

\* The trace an entitlement is about to need is there before the entitlement.
TraceFirst ==
    \A r \in Requests :
        LET q == proc[r]
        IN  /\ q.pc \in {"load", "write"} =>
                \E row \in ledger : row.user = q.user /\ row.says = StatusOf(Event[q.ev].type)
            /\ q.pc \in {"readOrigins", "move"} =>
                \E row \in ledger : row.user = q.user /\ row.says = "active"
            /\ q.pc = "grant" => redeemed[q.code] = q.user

Typed == TypeOK /\ \A r \in Requests : RequestOK(proc[r])

-----------------------------------------------------------------------------
(* What holds of one request at a time. *)

Quiet == \A r \in Requests : proc[r].pc = "idle"

AppliedTo(u) == {row \in ledger : row.user = u /\ row.outcome = "applied"}

Newest(rows) == {row \in rows : \A other \in rows : other.at <= row.at}

\* A transfer checks staleness for its destination only, so an origin is left out.
NeverAnOrigin(u) == \A row \in AppliedTo(u) : row.key[1] # "from"

(* Delivery order is not event order: between requests an account's plan   *)
(* is what the newest entry applied to it says, so that a delayed RENEWAL  *)
(* does not bring back what a REFUND or a revoke took away.                *)
NewestEntrySays ==
    Quiet => \A u \in Users :
        NeverAnOrigin(u) /\ AppliedTo(u) # {} =>
            \E row \in Newest(AppliedTo(u)) :
                row.says = IF sub[u] = None THEN None ELSE sub[u].status

(* One payment funds one account: no two live rows carry the same purchase. *)
OnePurchaseOneAccount ==
    \A u, v \in Users :
        /\ Entitles(sub[u]) /\ Entitles(sub[v])
        /\ TxnOf(sub[u]) # None
        /\ TxnOf(sub[u]) = TxnOf(sub[v])
        => u = v

(* Null means "no end" to the resolver, so a live store row always carries *)
(* an end: neither an event without an expiry nor a transfer, which never  *)
(* carries one, may turn a paid month into unlimited access.               *)
NoEndlessStoreRow ==
    \A u \in Users : Entitles(sub[u]) /\ sub[u].source = "apple_iap" => sub[u].end # None

(* The undo gives back what the newest entry before the revokes said, for  *)
(* any number of revokes in a row, and "no row" where there was none.      *)
UndoRestoresWhatWas ==
    Quiet => \A u \in Users :
        NeverAnOrigin(u) /\ sub[u] # None /\ sub[u].status = "revoked" =>
            LET before == Newest({row \in AppliedTo(u) : row.says # "revoked"})
            IN  /\ CanReactivate(sub[u])
                /\ IF before = {} THEN sub[u].pre = "none"
                   ELSE \E row \in before :
                            sub[u].pre = IF row.says = None THEN "none" ELSE row.says

-----------------------------------------------------------------------------
(* The inductive invariant behind the two that hold between requests. *)

NewestSays(rows, says) == \E row \in Newest(rows) : row.says = says

Unrevoked(u) == {row \in AppliedTo(u) : row.says # "revoked"}

PlanOf(row) == IF row = None THEN None ELSE row.status

\* The plan that is left when every revoke of the row is undone.
PlanBeneath(row) ==
    IF row # None /\ row.status = "revoked"
    THEN IF row.pre = "none" THEN None ELSE row.pre
    ELSE PlanOf(row)

\* The row and its ledger agree, with the revokes and beneath them.
Agrees(u) ==
    /\ AppliedTo(u) # {} => NewestSays(AppliedTo(u), PlanOf(sub[u]))
    /\ IF Unrevoked(u) = {} THEN PlanBeneath(sub[u]) = None
       ELSE NewestSays(Unrevoked(u), PlanBeneath(sub[u]))

\* The accounts whose row and ledger a request has not both written yet.
HalfWritten(q) ==
    IF q.pc = "logOrigins" THEN q.left
    ELSE IF q.pc \in {"load", "write", "readOrigins", "move", "logPromo"} THEN {q.user}
    ELSE {}

OthersAgree ==
    \A u \in Users :
        NeverAnOrigin(u) /\ (\A r \in Requests : u \notin HalfWritten(proc[r])) => Agrees(u)

\* What a request has in hand is the newest word on its account.
HasTheNewest(q) ==
    /\ q.pc = "record" /\ q.outcome = "applied" =>
        \A row \in AppliedTo(q.user) : row.at <= Event[q.ev].at
    /\ q.pc \in {"load", "write"} => NewestSays(AppliedTo(q.user), StatusOf(Event[q.ev].type))
    /\ q.pc \in {"readOrigins", "move"} => NewestSays(AppliedTo(q.user), "active")
    /\ q.pc = "move" => q.left = {u \in FromUsers(Event[q.ev], q.user) : sub[u] # None}
    /\ q.pc \in PromoSteps => \A row \in AppliedTo(q.user) : row.at <= q.at
    /\ q.pc \in {"grant", "logPromo"} => redeemed[q.code] # None /\ ~Recorded(PromoKey(q.code))
    /\ q.pc = "logPromo" => PlanOf(sub[q.user]) = "active"

\* Nothing is dated after our clock, and nothing in hand is either.
NothingAhead ==
    /\ \A row \in ledger : row.at <= clock
    /\ \A r \in Requests :
        /\ proc[r].pc \in Deciding => Event[proc[r].ev].at <= clock
        /\ proc[r].pc \in PromoSteps => proc[r].at <= clock

\* What a row of the ledger says of its key.
KeysTell ==
    /\ \A row \in ledger, id \in EventIds, u \in Users :
        row.key = OriginKey(id, u) =>
            row.user = u /\ row.at = Event[id].at /\ row.outcome = "applied"
    /\ \A c \in Codes : Recorded(PromoKey(c)) => redeemed[c] # None

\* What a revoke remembers is never a revocation.
RevokesRemember ==
    \A u \in Users :
        sub[u] # None /\ sub[u].status = "revoked" => sub[u].pre \notin {None, "revoked"}

InTurn ==
    /\ OthersAgree /\ NothingAhead /\ KeysTell /\ RevokesRemember
    /\ \A r \in Requests : HasTheNewest(proc[r])

-----------------------------------------------------------------------------
(* What the store is counted on for, and the inductive invariants behind the last two. *)

\* What an event tells us about a plan: whose it is, or whose it is from now on.
Reports(id, u) == Event[id].type \in MappedTypes /\ Event[id].user = u

MovesTo(id, u) == Event[id].type = "TRANSFER" /\ IsDestination(Event[id], u)

Counts(id, u) == u \in Users /\ (Reports(id, u) \/ MovesTo(id, u))

KeepsLive(id) == StatusOf(Event[id].type) \in {"active", "grace"}

\* After event id, the row of u has an end.
Dates(id, u) == MovesTo(id, u) \/ (Reports(id, u) /\ Event[id].end # None)

DatedBefore(u, at) == \E id \in Prompt : Event[id].at < at /\ Dates(id, u)

\* An end comes first: where an event carries none, the account, or each that a purchase is
\* moved from, was promptly told of one before.
EndsComeFirst ==
    \A id \in EventIds, u \in Users :
        /\ Reports(id, u) /\ KeepsLive(id) /\ Event[id].end = None => DatedBefore(u, Event[id].at)
        /\ MovesTo(id, u) =>
               /\ FromUsers(Event[id], u) # {}
               /\ \A w \in FromUsers(Event[id], u) : DatedBefore(w, Event[id].at)

\* The account that each purchase belongs to, at any moment of our clock: None before it was
\* bought, or while it is a stranger's.
Owners == [Purchases -> [0..MaxClock -> Users \cup {None}]]

\* An event reports a purchase to the account it belongs to, not at the moment it is moved.
ReportsToOwner(o) ==
    \A id \in EventIds, u \in Users :
        Reports(id, u) /\ Event[id].at <= MaxClock =>
            LET e == Event[id]
            IN  /\ e.txn = None => ~KeepsLive(id)
                /\ e.txn # None =>
                       o[e.txn][e.at] = u /\ (e.at > 0 => o[e.txn][e.at - 1] \in {u, None})

\* A purchase changes hands by a transfer to one of ours, and transfers are promptly told.
MovesAreTold(o) ==
    /\ \A id \in EventIds, u \in Users :
           MovesTo(id, u) /\ Event[id].at <= MaxClock => id \in Prompt
    /\ \A p \in Purchases, t \in 1..MaxClock :
           o[p][t - 1] \notin {None, o[p][t]} =>
               /\ o[p][t] \in Users
               /\ \E id \in EventIds :
                      Event[id].at = t /\ MovesTo(id, o[p][t]) /\ o[p][t - 1] \in Event[id].from

\* After event id, the purchase that the row of u names is one it was told of then or later.
Names(id, u) == MovesTo(id, u) \/ (Reports(id, u) /\ Event[id].txn # None)

\* What u has had since `at` was not moved away before `until`.
HasKept(o, u, at, until) ==
    \A p \in Purchases, t \in at..(until - 1) : o[p][t] = u => o[p][until - 1] = u

\* A transfer moves all an account has, of which the account was promptly told.
MovesTakeAll(o) ==
    \A id \in EventIds, u \in Users :
        MovesTo(id, u) /\ Event[id].at <= MaxClock =>
            LET at == Event[id].at
            IN  \A w \in FromUsers(Event[id], u) :
                    /\ \A p \in Purchases :
                           o[p][at] # w /\ (at > 0 /\ o[p][at - 1] = w => o[p][at] = u)
                    /\ \E told \in Prompt :
                           /\ Event[told].at < at
                           /\ Names(told, w)
                           /\ HasKept(o, w, Event[told].at, at)

Belongs(o) == ReportsToOwner(o) /\ MovesAreTold(o) /\ MovesTakeAll(o)

Owner == CHOOSE o \in Owners : Belongs(o)

\* Every purchase belongs to one account at a time, and the store's events follow it.
EventsFollowOwner == \E o \in Owners : Belongs(o)

-----------------------------------------------------------------------------
(* What is told promptly has happened by the time anything later arrives. *)

Happened(id) == effects[StoreKey(id)] > 0

InHand(id) == \E r \in Requests : proc[r].pc \in AfterRecord /\ proc[r].ev = id

LoggedAt(u, at) == \E row \in AppliedTo(u) : row.at = at

NothingNewer(u, at) == \A row \in AppliedTo(u) : row.at <= at

EventsInTurn ==
    /\ \A id \in Prompt : Event[id].at < clock => id \in answered
    /\ \A id \in answered : Recorded(StoreKey(id))
    /\ \A id \in Prompt, u \in Users :
           Counts(id, u) /\ Recorded(StoreKey(id)) => Happened(id) \/ InHand(id)
    /\ \A id \in EventIds, u \in Users :
           Happened(id) /\ Counts(id, u) => Event[id].at <= clock /\ LoggedAt(u, Event[id].at)

\* What a request that handles an event knows.
HandlesInTurn(q) ==
    /\ q.pc \in Deciding => Event[q.ev].at <= clock
    /\ q.pc = "record" =>
           /\ q.outcome = "applied" => Counts(q.ev, q.user) /\ NothingNewer(q.user, Event[q.ev].at)
           /\ q.ev \in Prompt \ answered => \A u \in Users : Counts(q.ev, u) => q.outcome = "applied"
    /\ q.pc \in AfterRecord =>
           /\ q.ev \notin answered /\ Recorded(StoreKey(q.ev))
           /\ LoggedAt(q.user, Event[q.ev].at)
           /\ NothingNewer(q.user, Event[q.ev].at)
    /\ q.pc \in {"load", "write"} => Reports(q.ev, q.user)
    /\ q.pc \in TransferSteps => MovesTo(q.ev, q.user)
    /\ q.pc = "write" => q.row = sub[q.user]
    /\ q.pc = "logOrigins" => Happened(q.ev)

ToldInTurn == EventsInTurn /\ \A r \in Requests : HandlesInTurn(proc[r])

-----------------------------------------------------------------------------
(* The inductive invariant behind NoEndlessStoreRow *)

\* A row that entitles, or would if its revokes were undone.
EntitlesBeneath(row) ==
    /\ row # None
    /\ \/ Entitles(row)
       \/ row.status = "revoked" /\ row.pre \in {"active", "grace", "cancelled"}

\* It has an end then; and what only a revoke made has none.
HasItsEnd(row) ==
    row # None =>
        /\ EntitlesBeneath(row) => row.end # None
        /\ row.pre = "none" => row.end = None

EndsInTurn ==
    /\ \A u \in Users : HasItsEnd(sub[u])
    /\ \A id \in Prompt, u \in Users : Dates(id, u) /\ Happened(id) => EndOf(sub[u]) # None
    /\ \A r \in Requests : proc[r].pc = "move" => EndOf(proc[r].row) # None

-----------------------------------------------------------------------------
(* The inductive invariant behind OnePurchaseOneAccount *)

\* The transfer of p at this moment of the clock has been carried out.
HasMoved(p) ==
    \E id \in EventIds :
        /\ Event[id].at = clock /\ Happened(id)
        /\ MovesTo(id, Owner[p][clock]) /\ Owner[p][clock - 1] \in Event[id].from

\* The account that p belongs to as far as it has been told.
Holder(p) ==
    IF clock = 0 \/ Owner[p][clock - 1] = None \/ HasMoved(p)
    THEN Owner[p][clock] ELSE Owner[p][clock - 1]

\* An account's row entitles by a purchase only while the account holds it.
HoldersEntitled ==
    \A u \in Users, p \in Purchases : EntitlesBeneath(sub[u]) /\ sub[u].txn = p => Holder(p) = u

\* Whoever held p once holds it still, or has an entry that makes what was said then stale.
LostIsLogged ==
    \A p \in Purchases, t \in 0..(clock - 1) :
        LET u == Owner[p][t]
        IN  \/ u = None \/ Holder(p) = u
            \/ \E row \in AppliedTo(u) : row.at > t
            \/ \E r \in Requests :
                   proc[r].pc = "logOrigins" /\ u \in proc[r].left /\ Event[proc[r].ev].at > t

\* The purchase an account's row names is one it had at some moment from `at` on.
NamesItsOwn(u, at) ==
    /\ sub[u] # None /\ sub[u].pre # "none"
    /\ sub[u].txn # None => \E t \in at..clock : Owner[sub[u].txn][t] = u

NamesInTurn ==
    \A id \in Prompt, u \in Users :
        Happened(id) /\ Names(id, u)
            => NamesItsOwn(u, Event[id].at)

\* The origins as the transfer has read them.
OriginsRead(q) ==
    q.pc = "move" =>
        LET from == FromUsers(Event[q.ev], q.user)
        IN  /\ q.left = from /\ \A w \in from : sub[w] # None
            /\ q.row \in {sub[w] : w \in from} \/ (q.row = None /\ from = {})

OwnersInTurn ==
    /\ clock <= MaxClock
    /\ HoldersEntitled /\ LostIsLogged /\ NamesInTurn
    /\ \A r \in Requests : OriginsRead(proc[r])

-----------------------------------------------------------------------------
(* Without a crash, an event that is recorded as applied is applied. *)
AppliedTakesEffect ==
    \A id \in EventIds :
        (\E row \in ledger : row.key = StoreKey(id) /\ row.outcome = "applied")
            ~> effects[StoreKey(id)] = 1
=============================================================================
