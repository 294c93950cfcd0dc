--------------------------- MODULE Subscriptions ---------------------------
(***************************************************************************)
(* Every writer of the `subscriptions` table and of the                    *)
(* `subscription_events` ledger, step by step: the store's webhook, the    *)
(* transfer of a purchase between two accounts, the redemption of a promo  *)
(* code, and the admin's revoke and undo.                                  *)
(*                                                                         *)
(* A request is a serverless invocation.  It runs one database statement   *)
(* (or one transaction) per step and other requests run in between; it may *)
(* die between two steps (Crash), and the store then delivers the same     *)
(* event again.  The two transactions of the code are one step where all   *)
(* they read is what they lock or recompute in SQL; the transfer, which    *)
(* reads its origins without a lock, is two.                               *)
(***************************************************************************)
EXTENDS SubscriptionRules, FiniteSets

CONSTANTS
    Users,          \* users.id
    Strangers,      \* app user ids the server has no user for
    EventIds,       \* the store's event ids
    Event,          \* what each event says
    Codes,          \* promo codes
    BoundTo,        \* the user whose address a code was minted for
    Deadline,       \* expiresAt of a code, or None
    Term,           \* how long a redeemed code grants
    Requests,       \* invocations that may run at once
    Prompt,         \* events that are answered before our clock moves on; the others may be late
    AdminOn,        \* the accounts an admin looks at
    MaxClock,       \* bound: the last moment of our clock
    MaxFaults,      \* bound: crashes and lost best-effort inserts
    MaxDuplicates,  \* bound: deliveries of an event already answered or in flight
    MaxAdmin        \* bound: admin actions

EventTypes == MappedTypes \cup {"TRANSFER", "UNHANDLED"}

EventRecords ==
    [type : EventTypes, user : Users \cup Strangers \cup {None}, at : Nat,
     end : Nat \cup {None}, txn : Purchases \cup {None},
     from : SUBSET (Users \cup Strangers), to : [1..2 -> Users \cup Strangers]]

ASSUME EventAssumption ==
    /\ Event \in [EventIds -> EventRecords]
    /\ Users \cap Strangers = {}
    /\ None \notin Users \cup Strangers \cup EventIds \cup Codes \cup Purchases

ASSUME CodeAssumption ==
    /\ BoundTo \in [Codes -> Users]
    /\ Deadline \in [Codes -> Nat \cup {None}]
    /\ Term \in [Codes -> Nat]

ASSUME BoundAssumption ==
    /\ Prompt \subseteq EventIds
    /\ AdminOn \subseteq Users
    /\ {MaxClock, MaxFaults, MaxDuplicates, MaxAdmin} \subseteq Nat

VARIABLES
    sub,        \* user -> row of `subscriptions`, or None
    ledger,     \* rows of `subscription_events`
    redeemed,   \* code -> redeemedByUserId, or None
    proc,       \* request -> what it is doing and has read
    clock,      \* our clock; the store's timestamps are on the same axis
    answered,   \* events the store got a 200 for
    spent,      \* how much of each bound is used up
    effects     \* history: how often each event or code changed `subscriptions`

vars == <<sub, ledger, redeemed, proc, clock, answered, spent, effects>>

Ignored == {"ignored_stale", "ignored_unknown_type", "ignored_unknown_user"}
Outcomes == Ignored \cup {"applied"}

StoreKey(id) == <<"store", id>>
OriginKey(id, u) == <<"from", id, u>>
PromoKey(c) == <<"promo", c>>
AdminKey(n) == <<"admin", n>>
Keys == ({"store"} \X EventIds) \cup ({"from"} \X EventIds \X Users)
            \cup ({"promo"} \X Codes) \cup ({"admin"} \X Nat)

\* `says` is the status that the row's type and payload report, None when they report no plan.
LedgerRows == [key : Keys, user : Users \cup {None}, at : Nat, outcome : Outcomes,
               says : Statuses \cup {None}]

Entry(key, u, at, outcome, says) ==
    [key |-> key, user |-> u, at |-> at, outcome |-> outcome, says |-> says]

Recorded(key) == \E row \in ledger : row.key = key

\* insert ... on conflict (event_id) do nothing
InsertIfAbsent(row) == ledger' = IF Recorded(row.key) THEN ledger ELSE ledger \cup {row}

\* `from` and `left` are the origins of a transfer: their users, and those still to log.
Idle == [pc |-> "idle", ev |-> None, code |-> None, user |-> None, outcome |-> None,
         row |-> None, left |-> {}, at |-> 0]

WebhookSteps == {"record", "load", "write"}
TransferSteps == {"readOrigins", "move", "logOrigins"}
PromoSteps == {"checkLive", "claim", "grant", "logPromo"}

Procs == [pc : {"idle"} \cup WebhookSteps \cup TransferSteps \cup PromoSteps,
          ev : EventIds \cup {None}, code : Codes \cup {None}, user : Users \cup {None},
          outcome : Outcomes \cup {None}, row : Rows \cup {None},
          left : SUBSET Users, at : Nat]

Tokens == ({"store"} \X EventIds) \cup ({"promo"} \X Codes)

TypeOK ==
    /\ sub \in [Users -> Rows \cup {None}]
    /\ ledger \subseteq LedgerRows
    /\ redeemed \in [Codes -> Users \cup {None}]
    /\ proc \in [Requests -> Procs]
    /\ clock \in Nat
    /\ answered \subseteq EventIds
    /\ spent \in [{"faults", "duplicates", "admin"} -> Nat]
    /\ effects \in [Tokens -> Nat]

Init ==
    /\ sub = [u \in Users |-> None]
    /\ ledger = {}
    /\ redeemed = [c \in Codes |-> None]
    /\ proc = [r \in Requests |-> Idle]
    /\ clock = 0
    /\ answered = {}
    /\ spent = [b \in {"faults", "duplicates", "admin"} |-> 0]
    /\ effects = [t \in Tokens |-> 0]

Spend(bound, max) ==
    /\ spent[bound] < max
    /\ spent' = [spent EXCEPT ![bound] = @ + 1]

Took(token) == effects' = [effects EXCEPT ![token] = @ + 1]

Tick ==
    /\ clock < MaxClock
    /\ \A id \in Prompt : Event[id].at <= clock => id \in answered
    /\ clock' = clock + 1
    /\ UNCHANGED <<sub, ledger, redeemed, proc, answered, spent, effects>>

-----------------------------------------------------------------------------
(* The webhook *)

\* The first of transferred_to that is one of our users, or None when there is none.
IsDestination(e, u) ==
    IF e.to[1] \in Users THEN u = e.to[1]
    ELSE IF e.to[2] \in Users THEN u = e.to[2]
    ELSE u = None

\* findUserId, on app_user_id or for a transfer on transferred_to.
IsAddressee(e, u) ==
    IF e.type = "TRANSFER" THEN IsDestination(e, u)
    ELSE u = IF e.user \in Users THEN e.user ELSE None

\* Variant for the mutation runs: delivery order is taken for event order.
StaleUnchecked(e, u) == FALSE

\* Strictly older than the newest event applied for this user.
Stale(e, u) ==
    \E row \in ledger : row.user = u /\ row.outcome = "applied" /\ e.at < row.at

\* decideFromEvent, after the user was looked up.
DecideFromEvent(e, u) ==
    IF u = None THEN "ignored_unknown_user"
    ELSE IF e.type # "TRANSFER" /\ e.type \notin MappedTypes THEN "ignored_unknown_type"
    ELSE IF Stale(e, u) THEN "ignored_stale"
    ELSE "applied"

InFlight(id) == \E r \in Requests : proc[r].ev = id

Sent(id) == id \in answered \/ InFlight(id)

\* A delivery arrives: find the user, read the newest applied timestamp, decide.
ReceiveEvent(r, id) ==
    /\ proc[r].pc = "idle"
    /\ Event[id].at <= clock
    /\ IF Sent(id) THEN Spend("duplicates", MaxDuplicates) ELSE UNCHANGED spent
    /\ \E u \in Users \cup {None} :
        /\ IsAddressee(Event[id], u)
        /\ proc' = [proc EXCEPT ![r] =
                [Idle EXCEPT !.pc = "record", !.ev = id, !.user = u,
                             !.outcome = DecideFromEvent(Event[id], u)]]
    /\ UNCHANGED <<sub, ledger, redeemed, clock, answered, effects>>

Respond(r) ==
    /\ proc' = [proc EXCEPT ![r] = Idle]
    /\ answered' = answered \cup {proc[r].ev}

\* Variant for the mutation runs: a cancellation is recorded and then forgotten.
NextStepDropsCancellation(e) ==
    IF e.type = "TRANSFER" THEN "readOrigins"
    ELSE IF e.type = "CANCELLATION" THEN "idle" ELSE "load"

\* Where an applied event goes once this request has inserted its ledger row.
NextStep(e) == IF e.type = "TRANSFER" THEN "readOrigins" ELSE "load"

Says(e, outcome) ==
    IF outcome # "applied" THEN None
    ELSE IF e.type = "TRANSFER" THEN "active"
    ELSE StatusOf(e.type)

\* Variant for the mutation runs: the conflict on the event id goes unnoticed.
EndsWithDecision(p, key) == p.outcome # "applied"

\* The request ends here: a retry lost to the unique event id, or there is nothing to apply.
EndsHere(p, key) == Recorded(key) \/ p.outcome # "applied"

\* recordEvent, before anything is written.
RecordEvent(r) ==
    LET p == proc[r]
        e == Event[p.ev]
        row == Entry(StoreKey(p.ev), p.user, e.at, p.outcome, Says(e, p.outcome))
    IN  /\ p.pc = "record"
        /\ InsertIfAbsent(row)
        /\ IF EndsHere(p, row.key)
           THEN Respond(r)
           ELSE /\ proc' = [proc EXCEPT ![r].pc = NextStep(e)]
                /\ UNCHANGED answered
        /\ UNCHANGED <<sub, redeemed, clock, spent, effects>>

LoadExisting(r) ==
    /\ proc[r].pc = "load"
    /\ proc' = [proc EXCEPT ![r].row = sub[proc[r].user], ![r].pc = "write"]
    /\ UNCHANGED <<sub, ledger, redeemed, clock, answered, spent, effects>>

\* Variant for the mutation runs: the event's missing expiry is written as null.
EventRowAsSent(e, existing) ==
    UpsertedRow(StatusOf(e.type), "apple_iap", e.end, e.txn, AutoRenewOf(e.type))

\* The row an event leaves: what it does not carry is taken from the row as it was read.
EventRow(e, existing) ==
    UpsertedRow(StatusOf(e.type), "apple_iap", Coalesce(e.end, EndOf(existing)),
                Coalesce(e.txn, TxnOf(existing)), AutoRenewOf(e.type))

WriteSubscription(r) ==
    LET p == proc[r]
    IN  /\ p.pc = "write"
        /\ sub' = [sub EXCEPT ![p.user] = EventRow(Event[p.ev], p.row)]
        /\ Took(StoreKey(p.ev))
        /\ Respond(r)
        /\ UNCHANGED <<ledger, redeemed, clock, spent>>

-----------------------------------------------------------------------------
(* The transfer of a purchase *)

FromUsers(e, to) == (e.from \cap Users) \ {to}

\* The row the destination inherits from: a live one if there is any, else any at all.
\* The select has no ORDER BY, so which of several is the database's choice.
IsSource(origins, row) ==
    LET live == {u \in origins : IsLive(sub[u])}
    IN  IF live # {} THEN \E u \in live : row = sub[u]
        ELSE IF origins # {} THEN \E u \in origins : row = sub[u]
        ELSE row = None

\* The transaction's select. It locks nothing: under READ COMMITTED others may still write.
ReadOrigins(r) ==
    LET p == proc[r]
        origins == {u \in FromUsers(Event[p.ev], p.user) : sub[u] # None}
    IN  /\ p.pc = "readOrigins"
        /\ \E row \in {sub[u] : u \in origins} \cup {None} :
            /\ IsSource(origins, row)
            /\ proc' = [proc EXCEPT ![r].pc = "move", ![r].row = row, ![r].left = origins]
        /\ UNCHANGED <<sub, ledger, redeemed, clock, answered, spent, effects>>

\* Variant for the mutation runs: only auto-renew is turned off.
OriginKept(row) == [row EXCEPT !.autoRenew = FALSE]

ExpiredOrigin(row) == [row EXCEPT !.status = "expired", !.autoRenew = FALSE]

TransferredRow(source) ==
    UpsertedRow("active", "apple_iap", EndOf(source), TxnOf(source), TRUE)

\* The transaction's two writes and its commit: nothing to log ends the request.
MoveSubscription(r) ==
    LET p == proc[r]
        from == FromUsers(Event[p.ev], p.user)
    IN  /\ p.pc = "move"
        /\ sub' = [u \in Users |->
                CASE u = p.user -> TransferredRow(p.row)
                  [] u \in from /\ sub[u] # None -> ExpiredOrigin(sub[u])
                  [] OTHER -> sub[u]]
        /\ Took(StoreKey(p.ev))
        /\ IF p.left = {} THEN Respond(r)
           ELSE proc' = [proc EXCEPT ![r].pc = "logOrigins"] /\ UNCHANGED answered
        /\ UNCHANGED <<ledger, redeemed, clock, spent>>

\* One origin's own ledger row is dealt with; after the last one the request answers.
OriginLogged(r, u) ==
    IF proc[r].left = {u} THEN Respond(r)
    ELSE proc' = [proc EXCEPT ![r].left = @ \ {u}] /\ UNCHANGED answered

LogOrigin(r, u) ==
    LET p == proc[r]
    IN  /\ p.pc = "logOrigins"
        /\ u \in p.left
        /\ InsertIfAbsent(Entry(OriginKey(p.ev, u), u, Event[p.ev].at, "applied", "expired"))
        /\ OriginLogged(r, u)
        /\ UNCHANGED <<sub, redeemed, clock, spent, effects>>

\* The insert failed and the error is swallowed: `.catch(() => false)`.
LogOriginFails(r, u) ==
    /\ proc[r].pc = "logOrigins"
    /\ u \in proc[r].left
    /\ Spend("faults", MaxFaults)
    /\ OriginLogged(r, u)
    /\ UNCHANGED <<sub, ledger, redeemed, clock, effects>>

-----------------------------------------------------------------------------
(* Promo codes *)

\* decidePromoRedemption accepts. A refusal changes nothing and is not a step.
MayRedeem(c, u) ==
    /\ BoundTo[c] = u
    /\ redeemed[c] = None
    /\ Deadline[c] # None => clock < Deadline[c]

\* redeemPromoCode reads the code and decides; `now` is fixed here for the whole request.
\* claimPromoOnSignIn is the same call, on the user's oldest unspent code.
RedeemPromoCode(r, c) ==
    /\ proc[r].pc = "idle"
    /\ MayRedeem(c, BoundTo[c])
    /\ proc' = [proc EXCEPT ![r] = [Idle EXCEPT !.pc = "checkLive", !.code = c,
                                                !.user = BoundTo[c], !.at = clock]]
    /\ UNCHANGED <<sub, ledger, redeemed, clock, answered, spent, effects>>

CheckLiveApplePurchase(r) ==
    LET p == proc[r]
    IN  /\ p.pc = "checkLive"
        /\ proc' = [proc EXCEPT ![r] =
                IF HoldsLiveApplePurchase(sub[p.user], p.at) THEN Idle
                ELSE [p EXCEPT !.pc = "claim"]]
        /\ UNCHANGED <<sub, ledger, redeemed, clock, answered, spent, effects>>

\* Variant for the mutation runs: the claim leaves no trace of who claimed.
ClaimUnmarked(r) ==
    /\ proc[r].pc = "claim"
    /\ redeemed[proc[r].code] = None
    /\ proc' = [proc EXCEPT ![r].pc = "grant"]
    /\ UNCHANGED <<sub, ledger, redeemed, clock, answered, spent, effects>>

\* update ... where redeemed_at is null: the database decides who claims the code.
ClaimCode(r) ==
    LET p == proc[r]
    IN  /\ p.pc = "claim"
        /\ IF redeemed[p.code] = None
           THEN /\ redeemed' = [redeemed EXCEPT ![p.code] = p.user]
                /\ proc' = [proc EXCEPT ![r].pc = "grant"]
           ELSE /\ proc' = [proc EXCEPT ![r] = Idle]
                /\ UNCHANGED redeemed
        /\ UNCHANGED <<sub, ledger, clock, answered, spent, effects>>

GrantPromo(r) ==
    LET p == proc[r]
    IN  /\ p.pc = "grant"
        /\ sub' = [sub EXCEPT ![p.user] =
                UpsertedRow("active", "promo", p.at + Term[p.code], None, TRUE)]
        /\ Took(PromoKey(p.code))
        /\ proc' = [proc EXCEPT ![r].pc = "logPromo"]
        /\ UNCHANGED <<ledger, redeemed, clock, answered, spent>>

LogPromo(r) ==
    LET p == proc[r]
    IN  /\ p.pc = "logPromo"
        /\ InsertIfAbsent(Entry(PromoKey(p.code), p.user, p.at, "applied", "active"))
        /\ proc' = [proc EXCEPT ![r] = Idle]
        /\ UNCHANGED <<sub, redeemed, clock, answered, spent, effects>>

-----------------------------------------------------------------------------
(* The admin's break-glass: one transaction each *)

\* recordAdminSubscriptionAction
LogAdmin(u, says) ==
    ledger' = ledger \cup {Entry(AdminKey(spent["admin"]), u, clock, "applied", says)}

RevokeSubscription(r, u) ==
    /\ proc[r].pc = "idle"
    /\ Spend("admin", MaxAdmin)
    /\ sub' = [sub EXCEPT ![u] = RevokedRow(sub[u])]
    /\ LogAdmin(u, "revoked")
    /\ UNCHANGED <<redeemed, proc, clock, answered, effects>>

\* A refused undo changes nothing and is not a step.
ReactivateSubscription(r, u) ==
    /\ proc[r].pc = "idle"
    /\ CanReactivate(sub[u])
    /\ Spend("admin", MaxAdmin)
    /\ sub' = [sub EXCEPT ![u] = ReactivatedRow(sub[u])]
    /\ LogAdmin(u, IF sub[u].pre = "none" THEN None ELSE sub[u].pre)
    /\ UNCHANGED <<redeemed, proc, clock, answered, effects>>

-----------------------------------------------------------------------------
\* The invocation dies: what it committed stays, what it had read is gone.
Crash(r) ==
    /\ proc[r].pc # "idle"
    /\ Spend("faults", MaxFaults)
    /\ proc' = [proc EXCEPT ![r] = Idle]
    /\ UNCHANGED <<sub, ledger, redeemed, clock, answered, effects>>

\* A request that has begun goes on, one statement after the other.
Continue(r) ==
    \/ RecordEvent(r) \/ LoadExisting(r) \/ WriteSubscription(r)
    \/ ReadOrigins(r) \/ MoveSubscription(r)
    \/ \E u \in Users : LogOrigin(r, u)
    \/ CheckLiveApplePurchase(r) \/ ClaimCode(r) \/ GrantPromo(r) \/ LogPromo(r)

Next ==
    \/ Tick
    \/ \E r \in Requests :
        \/ Continue(r)
        \/ \E id \in EventIds : ReceiveEvent(r, id)
        \/ \E c \in Codes : RedeemPromoCode(r, c)
        \/ \E u \in AdminOn : RevokeSubscription(r, u) \/ ReactivateSubscription(r, u)
        \/ \E u \in Users : LogOriginFails(r, u)
        \/ Crash(r)

Spec == Init /\ [][Next]_vars

\* The platform runs what it has started, time passes, and the store repeats an
\* event until it is answered: strongly, because the platform starts an invocation
\* for it however often other requests take the ones modelled here.
Fairness ==
    /\ WF_vars(Tick)
    /\ \A r \in Requests : WF_vars(Continue(r))
    /\ \A id \in EventIds :
        SF_vars(~Sent(id) /\ \E r \in Requests : ReceiveEvent(r, id))

FairSpec == Spec /\ Fairness
=============================================================================
