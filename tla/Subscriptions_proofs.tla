------------------------ MODULE Subscriptions_proofs ------------------------
(***************************************************************************)
(* Proofs about Subscriptions for any number of accounts, events, codes    *)
(* and concurrent requests, and for any bounds.  The last four theorems    *)
(* are about requests one at a time that no crash cuts short; the last     *)
(* two of them also need the store to tell what they say it tells.         *)
(***************************************************************************)
EXTENDS SubscriptionProperties, TLAPS

(* The rows the upserts write are rows of the table. *)
LEMMA UpsertedRowType ==
    ASSUME NEW status \in Statuses, NEW source \in Sources, NEW end \in Nat \cup {None},
           NEW txn \in Purchases \cup {None}, NEW renew \in BOOLEAN
    PROVE  UpsertedRow(status, source, end, txn, renew) \in Rows
  BY DEF UpsertedRow, Rows

LEMMA StatusOfType == ASSUME NEW type PROVE StatusOf(type) \in Statuses
  BY DEF StatusOf, Statuses

(* What is taken from a row that may be absent is a column or null. *)
LEMMA ColumnType ==
    ASSUME NEW row \in Rows \cup {None}
    PROVE  EndOf(row) \in Nat \cup {None} /\ TxnOf(row) \in Purchases \cup {None}
  BY DEF EndOf, TxnOf, Rows

(* The row a store event leaves is a row of the table. *)
LEMMA EventRowType ==
    ASSUME NEW e \in EventRecords, NEW existing \in Rows \cup {None}
    PROVE  EventRow(e, existing) \in Rows
<1>1. StatusOf(e.type) \in Statuses
  BY StatusOfType
<1>2. AutoRenewOf(e.type) \in BOOLEAN
  BY DEF AutoRenewOf
<1>3. /\ Coalesce(e.end, EndOf(existing)) \in Nat \cup {None}
      /\ Coalesce(e.txn, TxnOf(existing)) \in Purchases \cup {None}
  BY ColumnType DEF Coalesce, EventRecords
<1> QED
  BY <1>1, <1>2, <1>3, UpsertedRowType DEF EventRow, Sources

LEMMA TransferredRowType ==
    ASSUME NEW source \in Rows \cup {None}
    PROVE  TransferredRow(source) \in Rows
  BY ColumnType, UpsertedRowType DEF TransferredRow, Statuses, Sources

LEMMA ExpiredOriginType == ASSUME NEW row \in Rows PROVE ExpiredOrigin(row) \in Rows
  BY DEF ExpiredOrigin, Rows, Statuses

(* A revoke and its undo keep to the table: the undo restores a status or removes the row. *)
LEMMA RevokedRowType ==
    ASSUME NEW row \in Rows \cup {None}
    PROVE  RevokedRow(row) \in Rows
<1>1. CASE row = None
  BY <1>1 DEF RevokedRow, Rows, Statuses, Sources
<1>2. CASE row # None
  <2>1. PreRevokeStatusFor(row) \in Statuses \cup {"none", None}
    BY <1>2 DEF PreRevokeStatusFor, Rows
  <2> QED
    BY <1>2, <2>1 DEF RevokedRow, Rows, Statuses
<1> QED
  BY <1>1, <1>2

LEMMA ReactivatedRowType ==
    ASSUME NEW row \in Rows \cup {None}, CanReactivate(row)
    PROVE  /\ ReactivatedRow(row) \in Rows \cup {None}
           /\ row.pre # "none" => row.pre \in Statuses
  BY DEF CanReactivate, ReactivatedRow, Rows

-----------------------------------------------------------------------------
(* Type correctness *)

LEMMA IdleType == Idle \in Procs /\ RequestOK(Idle)
  BY DEF Idle, Procs, RequestOK, Deciding, AfterRecord, WebhookSteps, TransferSteps, PromoSteps

(* A request that goes back to idle leaves the requests well typed. *)
LEMMA BackToIdle ==
    ASSUME Typed, NEW r \in Requests, proc' = [proc EXCEPT ![r] = Idle]
    PROVE  /\ proc' \in [Requests -> Procs]
           /\ \A s \in Requests : RequestOK(proc'[s])
  BY IdleType DEF Typed, TypeOK

(* So does a request whose new state is well typed. *)
LEMMA OneMoves ==
    ASSUME Typed, NEW r \in Requests, NEW q \in Procs, RequestOK(q),
           proc' = [proc EXCEPT ![r] = q]
    PROVE  /\ proc' \in [Requests -> Procs]
           /\ \A s \in Requests : RequestOK(proc'[s])
  BY DEF Typed, TypeOK

(* Answering keeps `answered` a set of events. *)
LEMMA RespondType ==
    ASSUME Typed, NEW r \in Requests, proc[r].ev \in EventIds, Respond(r)
    PROVE  /\ proc' \in [Requests -> Procs]
           /\ \A s \in Requests : RequestOK(proc'[s])
           /\ answered' \subseteq EventIds
  BY BackToIdle DEF Respond, Typed, TypeOK

(* The ledger only ever gains rows of its type. *)
LEMMA InsertType ==
    ASSUME Typed, NEW row \in LedgerRows, InsertIfAbsent(row)
    PROVE  ledger' \subseteq LedgerRows
  BY DEF Typed, TypeOK, InsertIfAbsent

LEMMA EntryType ==
    ASSUME NEW key \in Keys, NEW u \in Users \cup {None}, NEW at \in Nat,
           NEW outcome \in Outcomes, NEW says \in Statuses \cup {None}
    PROVE  Entry(key, u, at, outcome, says) \in LedgerRows
  BY DEF Entry, LedgerRows

LEMMA SpendType ==
    ASSUME Typed, NEW b \in {"faults", "duplicates", "admin"}, NEW max, Spend(b, max)
    PROVE  spent' \in [{"faults", "duplicates", "admin"} -> Nat]
  BY DEF Typed, TypeOK, Spend

LEMMA TookType ==
    ASSUME Typed, NEW t \in Tokens, Took(t)
    PROVE  effects' \in [Tokens -> Nat]
  BY DEF Typed, TypeOK, Took

LEMMA EventType ==
    ASSUME NEW id \in EventIds
    PROVE  Event[id] \in EventRecords /\ Event[id].at \in Nat
  BY EventAssumption DEF EventRecords

LEMMA DecisionType ==
    ASSUME NEW e, NEW u \in Users \cup {None}
    PROVE  /\ DecideFromEvent(e, u) \in Outcomes
           /\ DecideFromEvent(e, u) = "applied" => u \in Users
  BY DEF DecideFromEvent, Outcomes, Ignored

LEMMA SaysType == ASSUME NEW e, NEW o PROVE Says(e, o) \in Statuses \cup {None}
  BY StatusOfType DEF Says, Statuses

(* The fields of a request in the middle of its work. *)
LEMMA RequestFields ==
    ASSUME Typed, NEW r \in Requests
    PROVE  /\ proc[r] \in Procs
           /\ proc[r].pc \in Deciding => proc[r].ev \in EventIds /\ proc[r].outcome \in Outcomes
           /\ proc[r].pc = "record" /\ proc[r].outcome = "applied" => proc[r].user \in Users
           /\ proc[r].pc \in AfterRecord => proc[r].user \in Users
           /\ proc[r].pc \in PromoSteps => proc[r].code \in Codes /\ proc[r].user \in Users
           /\ proc[r].row \in Rows \cup {None}
           /\ proc[r].user \in Users \cup {None}
           /\ proc[r].at \in Nat
           /\ proc[r].left \subseteq Users
  BY DEF Typed, TypeOK, RequestOK, Procs

(* One step of a request advances its pc and keeps what the next step needs. *)
LEMMA Advance ==
    ASSUME Typed, NEW r \in Requests, NEW pc,
           \/ proc[r].pc \in Deciding /\ proc[r].user \in Users /\ pc \in AfterRecord
           \/ proc[r].pc \in PromoSteps /\ pc \in PromoSteps,
           proc' = [proc EXCEPT ![r].pc = pc]
    PROVE  /\ proc' \in [Requests -> Procs]
           /\ \A s \in Requests : RequestOK(proc'[s])
<1> DEFINE q == [proc[r] EXCEPT !.pc = pc]
<1>1. proc[r] \in Procs
  BY RequestFields
<1>2. q \in Procs
  BY <1>1 DEF Procs, AfterRecord, WebhookSteps, TransferSteps, PromoSteps
<1>3. RequestOK(q)
  BY <1>1, RequestFields
     DEF RequestOK, Procs, Deciding, AfterRecord, WebhookSteps, TransferSteps, PromoSteps
<1>4. proc' = [proc EXCEPT ![r] = q]
  BY <1>1 DEF Typed, TypeOK
<1> QED
  BY <1>2, <1>3, <1>4, OneMoves

(* Every action of a request keeps the state well typed. *)
LEMMA ReceiveEventTyped ==
    ASSUME Typed, NEW r \in Requests, NEW id \in EventIds, ReceiveEvent(r, id)
    PROVE  Typed'
<1>1. PICK u \in Users \cup {None} :
        proc' = [proc EXCEPT ![r] =
            [Idle EXCEPT !.pc = "record", !.ev = id, !.user = u,
                         !.outcome = DecideFromEvent(Event[id], u)]]
  BY DEF ReceiveEvent
<1> DEFINE q == [Idle EXCEPT !.pc = "record", !.ev = id, !.user = u,
                             !.outcome = DecideFromEvent(Event[id], u)]
<1>2. /\ DecideFromEvent(Event[id], u) \in Outcomes
      /\ DecideFromEvent(Event[id], u) = "applied" => u \in Users
  BY DecisionType
<1>3. q \in Procs /\ RequestOK(q)
  BY <1>2, IdleType DEF Idle, Procs, RequestOK, Deciding, AfterRecord, WebhookSteps,
     TransferSteps, PromoSteps
<1>4. spent' \in [{"faults", "duplicates", "admin"} -> Nat]
  BY SpendType DEF ReceiveEvent, Typed, TypeOK
<1> QED
  BY <1>1, <1>3, <1>4, OneMoves DEF Typed, TypeOK, ReceiveEvent

LEMMA RecordEventTyped ==
    ASSUME Typed, NEW r \in Requests, RecordEvent(r)
    PROVE  Typed'
<1> DEFINE q == proc[r]
           row == Entry(StoreKey(q.ev), q.user, Event[q.ev].at, q.outcome,
                        Says(Event[q.ev], q.outcome))
<1>1. /\ q.pc = "record" /\ q.ev \in EventIds /\ q.outcome \in Outcomes
      /\ q.outcome = "applied" => q.user \in Users
      /\ q.user \in Users \cup {None}
  BY RequestFields DEF RecordEvent, Deciding
<1>2. row \in LedgerRows
  <2>1. StoreKey(q.ev) \in Keys
    BY <1>1 DEF StoreKey, Keys
  <2> QED
    BY <1>1, <2>1, EventType, SaysType, EntryType
<1>3. ledger' \subseteq LedgerRows
  BY <1>2, InsertType DEF RecordEvent
<1>4. /\ proc' \in [Requests -> Procs]
      /\ \A s \in Requests : RequestOK(proc'[s])
      /\ answered' \subseteq EventIds
  <2>1. CASE EndsHere(q, row.key)
    <3>1. Respond(r)
      BY <2>1 DEF RecordEvent
    <3> QED
      BY <1>1, <3>1, RespondType
  <2>2. CASE ~EndsHere(q, row.key)
    <3>1. /\ proc' = [proc EXCEPT ![r].pc = NextStep(Event[q.ev])]
          /\ answered' = answered
      BY <2>2 DEF RecordEvent
    <3>2. q.user \in Users /\ q.pc \in Deciding
      BY <1>1, <2>2 DEF EndsHere, Deciding
    <3>3. NextStep(Event[q.ev]) \in AfterRecord
      BY DEF NextStep, AfterRecord, TransferSteps
    <3> QED
      BY <3>1, <3>2, <3>3, Advance DEF Typed, TypeOK
  <2> QED
    BY <2>1, <2>2
<1> QED
  BY <1>3, <1>4 DEF RecordEvent, Typed, TypeOK

LEMMA LoadExistingTyped ==
    ASSUME Typed, NEW r \in Requests, LoadExisting(r)
    PROVE  Typed'
<1> DEFINE q == [proc[r] EXCEPT !.row = sub[proc[r].user], !.pc = "write"]
<1>1. proc[r].pc = "load" /\ proc[r].user \in Users /\ proc[r] \in Procs
  BY RequestFields DEF LoadExisting, AfterRecord
<1>2. q \in Procs
  BY <1>1 DEF Procs, Typed, TypeOK, WebhookSteps
<1>3. RequestOK(q)
  BY <1>1, RequestFields
     DEF RequestOK, Procs, Deciding, AfterRecord, WebhookSteps, TransferSteps, PromoSteps
<1>4. proc' = [proc EXCEPT ![r] = q]
  BY <1>1 DEF LoadExisting, Typed, TypeOK
<1> QED
  BY <1>2, <1>3, <1>4, OneMoves DEF LoadExisting, Typed, TypeOK

LEMMA WriteSubscriptionTyped ==
    ASSUME Typed, NEW r \in Requests, WriteSubscription(r)
    PROVE  Typed'
<1>1. /\ proc[r].pc = "write" /\ proc[r].user \in Users /\ proc[r].ev \in EventIds
      /\ proc[r].row \in Rows \cup {None}
  BY RequestFields DEF WriteSubscription, AfterRecord, Deciding
<1>2. EventRow(Event[proc[r].ev], proc[r].row) \in Rows
  BY <1>1, EventType, EventRowType
<1>3. sub' \in [Users -> Rows \cup {None}]
  BY <1>1, <1>2 DEF WriteSubscription, Typed, TypeOK
<1>4. StoreKey(proc[r].ev) \in Tokens
  BY <1>1 DEF StoreKey, Tokens
<1>5. effects' \in [Tokens -> Nat]
  BY <1>4, TookType DEF WriteSubscription
<1>6. Respond(r)
  BY DEF WriteSubscription
<1> QED
  BY <1>1, <1>3, <1>5, <1>6, RespondType DEF WriteSubscription, Typed, TypeOK

LEMMA ReadOriginsTyped ==
    ASSUME Typed, NEW r \in Requests, ReadOrigins(r)
    PROVE  Typed'
<1> DEFINE origins == {u \in FromUsers(Event[proc[r].ev], proc[r].user) : sub[u] # None}
<1>1. /\ proc[r].pc = "readOrigins" /\ proc[r].user \in Users /\ proc[r] \in Procs
  BY RequestFields DEF ReadOrigins, AfterRecord, TransferSteps
<1>2. origins \subseteq Users
  BY DEF FromUsers
<1>3. PICK row \in {sub[u] : u \in origins} \cup {None} :
        proc' = [proc EXCEPT ![r].pc = "move", ![r].row = row, ![r].left = origins]
  BY DEF ReadOrigins
<1> DEFINE q == [proc[r] EXCEPT !.pc = "move", !.row = row, !.left = origins]
<1>4. row \in Rows \cup {None}
  BY <1>2 DEF Typed, TypeOK
<1>5. q \in Procs
  BY <1>1, <1>2, <1>4 DEF Procs, TransferSteps
<1>6. RequestOK(q)
  BY <1>1, RequestFields
     DEF RequestOK, Procs, Deciding, AfterRecord, WebhookSteps, TransferSteps, PromoSteps
<1>7. proc' = [proc EXCEPT ![r] = q]
  BY <1>1, <1>3 DEF Typed, TypeOK
<1> QED
  BY <1>5, <1>6, <1>7, OneMoves DEF ReadOrigins, Typed, TypeOK

LEMMA MoveSubscriptionTyped ==
    ASSUME Typed, NEW r \in Requests, MoveSubscription(r)
    PROVE  Typed'
<1> DEFINE q == proc[r]
<1>1. /\ q.pc = "move" /\ q.user \in Users /\ q.ev \in EventIds
      /\ q.row \in Rows \cup {None}
  BY RequestFields DEF MoveSubscription, AfterRecord, Deciding, TransferSteps
<1>2. sub' \in [Users -> Rows \cup {None}]
  <2>1. \A u \in Users : sub[u] # None => ExpiredOrigin(sub[u]) \in Rows
    BY ExpiredOriginType DEF Typed, TypeOK
  <2>2. TransferredRow(q.row) \in Rows
    BY <1>1, TransferredRowType
  <2>3. sub' = [u \in Users |->
                CASE u = q.user -> TransferredRow(q.row)
                  [] u \in FromUsers(Event[q.ev], q.user) /\ sub[u] # None -> ExpiredOrigin(sub[u])
                  [] OTHER -> sub[u]]
    BY DEF MoveSubscription
  <2>4. \A u \in Users : u \in FromUsers(Event[q.ev], q.user) => u # q.user
    BY DEF FromUsers
  <2>5. \A u \in Users : sub'[u] \in Rows \cup {None}
    BY <2>1, <2>2, <2>3, <2>4 DEF Typed, TypeOK
  <2> QED
    BY <2>3, <2>5
<1>3. effects' \in [Tokens -> Nat]
  BY <1>1, TookType DEF MoveSubscription, StoreKey, Tokens
<1>4. /\ proc' \in [Requests -> Procs]
      /\ \A s \in Requests : RequestOK(proc'[s])
      /\ answered' \subseteq EventIds
  <2>1. CASE q.left = {}
    BY <1>1, <2>1, RespondType DEF MoveSubscription
  <2>2. CASE q.left # {}
    <3>1. proc' = [proc EXCEPT ![r].pc = "logOrigins"] /\ answered' = answered
      BY <2>2 DEF MoveSubscription
    <3> QED
      BY <1>1, <3>1, Advance DEF Deciding, AfterRecord, TransferSteps, Typed, TypeOK
  <2> QED
    BY <2>1, <2>2
<1> QED
  BY <1>2, <1>3, <1>4 DEF MoveSubscription, Typed, TypeOK

LEMMA OriginLoggedTyped ==
    ASSUME Typed, NEW r \in Requests, NEW u \in Users,
           proc[r].pc = "logOrigins", OriginLogged(r, u)
    PROVE  /\ proc' \in [Requests -> Procs]
           /\ \A s \in Requests : RequestOK(proc'[s])
           /\ answered' \subseteq EventIds
<1>1. /\ proc[r].ev \in EventIds /\ proc[r] \in Procs
  BY RequestFields DEF Deciding, AfterRecord, TransferSteps
<1>2. CASE proc[r].left = {u}
  BY <1>1, <1>2, RespondType DEF OriginLogged
<1>3. CASE proc[r].left # {u}
  <2> DEFINE q == [proc[r] EXCEPT !.left = @ \ {u}]
  <2>1. q \in Procs
    BY <1>1 DEF Procs
  <2>2. RequestOK(q)
    BY <1>1, RequestFields
       DEF RequestOK, Procs, Deciding, AfterRecord, WebhookSteps, TransferSteps, PromoSteps
  <2>3. proc' = [proc EXCEPT ![r] = q] /\ answered' = answered
    BY <1>1, <1>3 DEF OriginLogged, Typed, TypeOK
  <2> QED
    BY <2>1, <2>2, <2>3, OneMoves DEF Typed, TypeOK
<1> QED
  BY <1>2, <1>3

LEMMA LogOriginTyped ==
    ASSUME Typed, NEW r \in Requests, NEW u \in Users, LogOrigin(r, u) \/ LogOriginFails(r, u)
    PROVE  Typed'
<1>1. proc[r].pc = "logOrigins" /\ OriginLogged(r, u)
  BY DEF LogOrigin, LogOriginFails
<1>2. proc[r].ev \in EventIds
  BY <1>1, RequestFields DEF Deciding, AfterRecord, TransferSteps
<1>3. /\ proc' \in [Requests -> Procs]
      /\ \A s \in Requests : RequestOK(proc'[s])
      /\ answered' \subseteq EventIds
  BY <1>1, OriginLoggedTyped
<1>4. CASE LogOrigin(r, u)
  <2>1. Entry(OriginKey(proc[r].ev, u), u, Event[proc[r].ev].at, "applied", "expired") \in LedgerRows
    <3>1. OriginKey(proc[r].ev, u) \in Keys
      BY <1>2 DEF OriginKey, Keys
    <3> QED
      BY <1>2, <3>1, EventType, EntryType DEF Outcomes, Statuses
  <2>2. ledger' \subseteq LedgerRows
    BY <1>4, <2>1, InsertType DEF LogOrigin
  <2> QED
    BY <1>3, <1>4, <2>2 DEF LogOrigin, Typed, TypeOK
<1>5. CASE LogOriginFails(r, u)
  BY <1>3, <1>5, SpendType DEF LogOriginFails, Typed, TypeOK
<1> QED
  BY <1>4, <1>5

LEMMA PromoTyped ==
    ASSUME Typed, NEW r \in Requests,
           \/ \E c \in Codes : RedeemPromoCode(r, c)
           \/ CheckLiveApplePurchase(r) \/ ClaimCode(r) \/ GrantPromo(r) \/ LogPromo(r)
    PROVE  Typed'
<1>1. ASSUME NEW c \in Codes, RedeemPromoCode(r, c) PROVE Typed'
  <2> DEFINE q == [Idle EXCEPT !.pc = "checkLive", !.code = c, !.user = BoundTo[c], !.at = clock]
  <2>1. q \in Procs /\ RequestOK(q)
    BY IdleType, CodeAssumption DEF Idle, Procs, RequestOK, Deciding, AfterRecord,
       WebhookSteps, TransferSteps, PromoSteps, Typed, TypeOK
  <2> QED
    BY <1>1, <2>1, OneMoves DEF RedeemPromoCode, Typed, TypeOK
<1>2. CASE CheckLiveApplePurchase(r)
  <2>1. proc[r].pc = "checkLive"
    BY <1>2 DEF CheckLiveApplePurchase
  <2>2. \/ proc' = [proc EXCEPT ![r] = Idle]
        \/ proc' = [proc EXCEPT ![r].pc = "claim"]
    BY <1>2 DEF CheckLiveApplePurchase
  <2>3. /\ proc' \in [Requests -> Procs]
        /\ \A s \in Requests : RequestOK(proc'[s])
    BY <2>1, <2>2, BackToIdle, Advance DEF PromoSteps
  <2> QED
    BY <1>2, <2>3 DEF CheckLiveApplePurchase, Typed, TypeOK
<1>3. CASE ClaimCode(r)
  <2>1. proc[r].pc = "claim" /\ proc[r].code \in Codes /\ proc[r].user \in Users
    BY <1>3, RequestFields DEF ClaimCode, PromoSteps
  <2>2. /\ proc' \in [Requests -> Procs]
        /\ \A s \in Requests : RequestOK(proc'[s])
    BY <1>3, <2>1, BackToIdle, Advance DEF ClaimCode, PromoSteps
  <2>3. redeemed' \in [Codes -> Users \cup {None}]
    BY <1>3, <2>1 DEF ClaimCode, Typed, TypeOK
  <2> QED
    BY <1>3, <2>2, <2>3 DEF ClaimCode, Typed, TypeOK
<1>4. CASE GrantPromo(r)
  <2>1. /\ proc[r].pc = "grant" /\ proc[r].code \in Codes /\ proc[r].user \in Users
        /\ proc[r].at \in Nat
    BY <1>4, RequestFields DEF GrantPromo, PromoSteps
  <2>2. /\ proc' \in [Requests -> Procs]
        /\ \A s \in Requests : RequestOK(proc'[s])
    BY <1>4, <2>1, Advance DEF GrantPromo, PromoSteps
  <2>3. proc[r].at + Term[proc[r].code] \in Nat
    BY <2>1, CodeAssumption
  <2>4. UpsertedRow("active", "promo", proc[r].at + Term[proc[r].code], None, TRUE) \in Rows
    BY <2>3, UpsertedRowType DEF Statuses, Sources
  <2>5. sub' \in [Users -> Rows \cup {None}]
    BY <1>4, <2>1, <2>4 DEF GrantPromo, Typed, TypeOK
  <2>6. effects' \in [Tokens -> Nat]
    BY <1>4, <2>1, TookType DEF GrantPromo, PromoKey, Tokens
  <2> QED
    BY <1>4, <2>2, <2>5, <2>6 DEF GrantPromo, Typed, TypeOK
<1>5. CASE LogPromo(r)
  <2>1. /\ proc[r].pc = "logPromo" /\ proc[r].code \in Codes /\ proc[r].user \in Users
        /\ proc[r].at \in Nat
    BY <1>5, RequestFields DEF LogPromo, PromoSteps
  <2>2. Entry(PromoKey(proc[r].code), proc[r].user, proc[r].at, "applied", "active") \in LedgerRows
    <3>1. PromoKey(proc[r].code) \in Keys
      BY <2>1 DEF PromoKey, Keys
    <3> QED
      BY <2>1, <3>1, EntryType DEF Outcomes, Statuses
  <2>3. ledger' \subseteq LedgerRows
    BY <1>5, <2>2, InsertType DEF LogPromo
  <2>4. /\ proc' \in [Requests -> Procs]
        /\ \A s \in Requests : RequestOK(proc'[s])
    BY <1>5, BackToIdle DEF LogPromo
  <2> QED
    BY <1>5, <2>3, <2>4 DEF LogPromo, Typed, TypeOK
<1> QED
  BY <1>1, <1>2, <1>3, <1>4, <1>5

LEMMA AdminTyped ==
    ASSUME Typed, NEW r \in Requests, NEW u \in AdminOn,
           RevokeSubscription(r, u) \/ ReactivateSubscription(r, u)
    PROVE  Typed'
<1>1. u \in Users /\ sub[u] \in Rows \cup {None}
  BY BoundAssumption DEF Typed, TypeOK
<1>2. spent' \in [{"faults", "duplicates", "admin"} -> Nat]
  BY SpendType DEF RevokeSubscription, ReactivateSubscription
<1>3. ASSUME NEW says \in Statuses \cup {None}, LogAdmin(u, says)
      PROVE  ledger' \subseteq LedgerRows
  <2>1. AdminKey(spent["admin"]) \in Keys
    BY DEF AdminKey, Keys, Typed, TypeOK
  <2>2. Entry(AdminKey(spent["admin"]), u, clock, "applied", says) \in LedgerRows
    BY <1>1, <2>1, EntryType DEF Outcomes, Typed, TypeOK
  <2> QED
    BY <1>3, <2>2 DEF LogAdmin, Typed, TypeOK
<1>4. CASE RevokeSubscription(r, u)
  <2>1. RevokedRow(sub[u]) \in Rows
    BY <1>1, RevokedRowType
  <2>2. ledger' \subseteq LedgerRows
    BY <1>3, <1>4 DEF RevokeSubscription, Statuses
  <2> QED
    BY <1>1, <1>2, <1>4, <2>1, <2>2 DEF RevokeSubscription, Typed, TypeOK
<1>5. CASE ReactivateSubscription(r, u)
  <2>1. /\ ReactivatedRow(sub[u]) \in Rows \cup {None}
        /\ sub[u].pre # "none" => sub[u].pre \in Statuses
    BY <1>1, <1>5, ReactivatedRowType DEF ReactivateSubscription
  <2>2. ledger' \subseteq LedgerRows
    BY <1>3, <1>5, <2>1 DEF ReactivateSubscription
  <2> QED
    BY <1>1, <1>2, <1>5, <2>1, <2>2 DEF ReactivateSubscription, Typed, TypeOK
<1> QED
  BY <1>4, <1>5

LEMMA TypedInit == Init => Typed
<1> SUFFICES ASSUME Init PROVE Typed
  OBVIOUS
<1>1. proc \in [Requests -> Procs] /\ \A r \in Requests : RequestOK(proc[r])
  BY IdleType DEF Init
<1> QED
  BY <1>1 DEF Init, Typed, TypeOK

LEMMA TypedNext == Typed /\ [Next]_vars => Typed'
<1> SUFFICES ASSUME Typed, [Next]_vars PROVE Typed'
  OBVIOUS
<1>1. CASE Tick
  BY <1>1 DEF Tick, Typed, TypeOK
<1>2. ASSUME NEW r \in Requests, Continue(r) PROVE Typed'
  BY <1>2, RecordEventTyped, LoadExistingTyped, WriteSubscriptionTyped, ReadOriginsTyped,
     MoveSubscriptionTyped, LogOriginTyped, PromoTyped DEF Continue
<1>3. ASSUME NEW r \in Requests, NEW id \in EventIds, ReceiveEvent(r, id) PROVE Typed'
  BY <1>3, ReceiveEventTyped
<1>4. ASSUME NEW r \in Requests, NEW c \in Codes, RedeemPromoCode(r, c) PROVE Typed'
  BY <1>4, PromoTyped
<1>5. ASSUME NEW r \in Requests, NEW u \in AdminOn,
             RevokeSubscription(r, u) \/ ReactivateSubscription(r, u)
      PROVE  Typed'
  BY <1>5, AdminTyped
<1>6. ASSUME NEW r \in Requests, NEW u \in Users, LogOriginFails(r, u) PROVE Typed'
  BY <1>6, LogOriginTyped
<1>7. ASSUME NEW r \in Requests, Crash(r) PROVE Typed'
  <2>1. /\ proc' \in [Requests -> Procs]
        /\ \A s \in Requests : RequestOK(proc'[s])
    BY <1>7, BackToIdle DEF Crash
  <2>2. spent' \in [{"faults", "duplicates", "admin"} -> Nat]
    BY <1>7, SpendType DEF Crash
  <2> QED
    BY <1>7, <2>1, <2>2 DEF Crash, Typed, TypeOK
<1>8. CASE UNCHANGED vars
  BY <1>8 DEF vars, Typed, TypeOK, RequestOK
<1> QED
  BY <1>1, <1>2, <1>3, <1>4, <1>5, <1>6, <1>7, <1>8 DEF Next

(* Every state has the type of the tables, and every request in progress has read what its *)
(* next statement needs.                                                                   *)
THEOREM TypeCorrect == Spec => []TypeOK
<1>1. Typed => TypeOK
  BY DEF Typed
<1> QED
  BY <1>1, TypedInit, TypedNext, PTL DEF Spec

-----------------------------------------------------------------------------
(* At most one effect per event and per code *)

\* The three things a step may do to a claim: nothing, make it, or use it up.
NoNewPending(s) == \A t \in Tokens : Pending(proc'[s], t) => Pending(proc[s], t)

Neutral ==
    /\ Claimed' = Claimed /\ effects' = effects
    /\ \A s \in Requests : NoNewPending(s)

Claiming ==
    \E r \in Requests, t0 \in Tokens :
        /\ t0 \notin Claimed /\ Claimed' = Claimed \cup {t0} /\ effects' = effects
        /\ \A t \in Tokens : Pending(proc'[r], t) => t = t0
        /\ \A s \in Requests \ {r} : NoNewPending(s)

Effecting ==
    \E r \in Requests, t0 \in Tokens :
        /\ Pending(proc[r], t0) /\ Claimed' = Claimed /\ Took(t0)
        /\ \A t \in Tokens : ~Pending(proc'[r], t)
        /\ \A s \in Requests \ {r} : NoNewPending(s)

LEMMA IdleHoldsNothing == \A t : ~Pending(Idle, t)
  BY DEF Pending, Idle

LEMMA OthersKeep ==
    ASSUME Typed, NEW r \in Requests, NEW q, proc' = [proc EXCEPT ![r] = q]
    PROVE  \A s \in Requests \ {r} : NoNewPending(s)
  BY DEF Typed, TypeOK, NoNewPending

LEMMA ToIdle ==
    ASSUME Typed, NEW r \in Requests, proc' = [proc EXCEPT ![r] = Idle]
    PROVE  /\ \A t \in Tokens : ~Pending(proc'[r], t)
           /\ \A s \in Requests : NoNewPending(s)
<1>1. proc'[r] = Idle
  BY DEF Typed, TypeOK
<1> QED
  BY <1>1, IdleHoldsNothing, OthersKeep DEF NoNewPending

LEMMA SameTablesSameClaims ==
    ASSUME ledger' = ledger, redeemed' = redeemed
    PROVE  Claimed' = Claimed
  BY DEF Claimed

(* A ledger row that is not about a store event claims nothing. *)
LEMMA OtherRowClaimsNothing ==
    ASSUME NEW row, row.key[1] # "store", redeemed' = redeemed,
           ledger' = ledger \/ ledger' = ledger \cup {row}
    PROVE  Claimed' = Claimed
<1>1. \A t \in Tokens : t[1] = "store" => row.key # t
  OBVIOUS
<1> QED
  BY <1>1 DEF Claimed

LEMMA RecordEventKind ==
    ASSUME Typed, NEW r \in Requests, RecordEvent(r)
    PROVE  Neutral \/ Claiming
<1> DEFINE q == proc[r]
           t0 == StoreKey(q.ev)
           row == Entry(t0, q.user, Event[q.ev].at, q.outcome, Says(Event[q.ev], q.outcome))
<1>1. q.pc = "record" /\ q.ev \in EventIds /\ q \in Procs
  BY RequestFields DEF RecordEvent, Deciding
<1>2. t0 \in Tokens /\ row.key = t0 /\ t0[1] = "store"
  BY <1>1 DEF StoreKey, Tokens, Entry
<1>3. effects' = effects /\ redeemed' = redeemed /\ InsertIfAbsent(row)
  BY DEF RecordEvent
<1>4. CASE Recorded(t0)
  <2>1. ledger' = ledger /\ proc' = [proc EXCEPT ![r] = Idle]
    BY <1>2, <1>3, <1>4 DEF RecordEvent, InsertIfAbsent, EndsHere, Respond
  <2> QED
    BY <1>3, <2>1, ToIdle, SameTablesSameClaims DEF Neutral
<1>5. CASE ~Recorded(t0)
  <2>1. ledger' = ledger \cup {row}
    BY <1>2, <1>3, <1>5 DEF InsertIfAbsent
  <2>2. t0 \notin Claimed
    BY <1>2, <1>5 DEF Claimed, Recorded
  <2>3. Claimed' = Claimed \cup {t0}
    <3>1. \A t \in Tokens : (\E x \in ledger' : x.key = t)
                               <=> (\E x \in ledger : x.key = t) \/ t = t0
      BY <1>2, <2>1
    <3> QED
      BY <1>2, <1>3, <3>1 DEF Claimed
  <2>4. \A t \in Tokens : Pending(proc'[r], t) => t = t0
    <3>1. CASE proc' = [proc EXCEPT ![r] = Idle]
      BY <3>1, ToIdle
    <3>2. CASE proc' = [proc EXCEPT ![r].pc = NextStep(Event[q.ev])]
      <4>1. proc'[r].ev = q.ev /\ proc'[r].pc = NextStep(Event[q.ev])
        BY <1>1, <3>2 DEF Procs, Typed, TypeOK
      <4> QED
        BY <4>1 DEF Pending, NextStep
    <3> QED
      BY <3>1, <3>2 DEF RecordEvent, Respond
  <2>5. \A s \in Requests \ {r} : NoNewPending(s)
    <3>1. CASE proc' = [proc EXCEPT ![r] = Idle]
      BY <3>1, ToIdle
    <3>2. CASE proc' = [proc EXCEPT ![r].pc = NextStep(Event[q.ev])]
      BY <3>2, OthersKeep
    <3> QED
      BY <3>1, <3>2 DEF RecordEvent, Respond
  <2> QED
    BY <1>2, <1>3, <2>2, <2>3, <2>4, <2>5 DEF Claiming
<1> QED
  BY <1>4, <1>5

LEMMA WriteKind ==
    ASSUME Typed, NEW r \in Requests, WriteSubscription(r) \/ MoveSubscription(r)
    PROVE  Effecting
<1> DEFINE t0 == StoreKey(proc[r].ev)
<1>1. /\ proc[r].pc \in {"write", "move"} /\ proc[r].ev \in EventIds /\ proc[r] \in Procs
  BY RequestFields DEF WriteSubscription, MoveSubscription, Deciding, AfterRecord, TransferSteps
<1>2. t0 \in Tokens /\ Pending(proc[r], t0)
  BY <1>1 DEF StoreKey, Tokens, Pending
<1>3. Took(t0) /\ Claimed' = Claimed
  BY SameTablesSameClaims DEF WriteSubscription, MoveSubscription
<1>4. CASE proc' = [proc EXCEPT ![r] = Idle]
  BY <1>2, <1>3, <1>4, ToIdle DEF Effecting
<1>5. CASE proc' = [proc EXCEPT ![r].pc = "logOrigins"]
  <2>1. proc'[r].pc = "logOrigins"
    BY <1>1, <1>5 DEF Procs, Typed, TypeOK
  <2>2. \A t \in Tokens : ~Pending(proc'[r], t)
    BY <2>1 DEF Pending
  <2> QED
    BY <1>2, <1>3, <1>5, <2>2, OthersKeep DEF Effecting
<1> QED
  BY <1>4, <1>5 DEF WriteSubscription, MoveSubscription, Respond

(* Reading on keeps the claim a request holds. *)
LEMMA ReadOn ==
    ASSUME Typed, NEW r \in Requests, NEW q, proc' = [proc EXCEPT ![r] = q],
           q.ev = proc[r].ev, q.pc \in {"write", "move"},
           proc[r].pc \in {"load", "readOrigins"}
    PROVE  \A s \in Requests : NoNewPending(s)
<1>1. proc'[r] = q
  BY DEF Typed, TypeOK
<1>2. NoNewPending(r)
  BY <1>1 DEF NoNewPending, Pending
<1> QED
  BY <1>2, OthersKeep

LEMMA ReadKind ==
    ASSUME Typed, NEW r \in Requests, LoadExisting(r) \/ ReadOrigins(r)
    PROVE  Neutral
<1>1. Claimed' = Claimed /\ effects' = effects
  BY SameTablesSameClaims DEF LoadExisting, ReadOrigins
<1>2. proc[r] \in Procs
  BY RequestFields
<1>3. CASE LoadExisting(r)
  <2> DEFINE q == [proc[r] EXCEPT !.row = sub[proc[r].user], !.pc = "write"]
  <2>1. proc' = [proc EXCEPT ![r] = q]
    BY <1>2, <1>3 DEF LoadExisting, Typed, TypeOK
  <2>2. q.ev = proc[r].ev /\ q.pc = "write"
    BY <1>2 DEF Procs
  <2> QED
    BY <1>1, <1>3, <2>1, <2>2, ReadOn DEF Neutral, LoadExisting
<1>4. CASE ReadOrigins(r)
  <2>1. PICK row, left :
          proc' = [proc EXCEPT ![r].pc = "move", ![r].row = row, ![r].left = left]
    BY <1>4 DEF ReadOrigins
  <2> DEFINE q == [proc[r] EXCEPT !.pc = "move", !.row = row, !.left = left]
  <2>2. proc' = [proc EXCEPT ![r] = q]
    BY <1>2, <2>1 DEF Typed, TypeOK
  <2>3. q.ev = proc[r].ev /\ q.pc = "move"
    BY <1>2 DEF Procs
  <2> QED
    BY <1>1, <1>4, <2>2, <2>3, ReadOn DEF Neutral, ReadOrigins
<1> QED
  BY <1>3, <1>4

(* Steps that leave every claim as it is: arrivals, the origins' ledger rows, the checks of a *)
(* promo code, the admin and a crash.                                                         *)
LEMMA StartKind ==
    ASSUME Typed, NEW r \in Requests, NEW q,
           proc' = [proc EXCEPT ![r] = q],
           q.pc \notin {"load", "write", "readOrigins", "move", "grant"},
           Claimed' = Claimed, effects' = effects
    PROVE  Neutral
<1>1. proc'[r] = q
  BY DEF Typed, TypeOK
<1>2. NoNewPending(r)
  BY <1>1 DEF NoNewPending, Pending
<1> QED
  BY <1>2, OthersKeep DEF Neutral

LEMMA ReceiveKind ==
    ASSUME Typed, NEW r \in Requests, NEW id \in EventIds, ReceiveEvent(r, id)
    PROVE  Neutral
<1>1. PICK u : proc' = [proc EXCEPT ![r] =
            [Idle EXCEPT !.pc = "record", !.ev = id, !.user = u,
                         !.outcome = DecideFromEvent(Event[id], u)]]
  BY DEF ReceiveEvent
<1> DEFINE q == [Idle EXCEPT !.pc = "record", !.ev = id, !.user = u,
                             !.outcome = DecideFromEvent(Event[id], u)]
<1>2. q.pc = "record"
  BY DEF Idle
<1> QED
  BY <1>1, <1>2, StartKind, SameTablesSameClaims DEF ReceiveEvent

LEMMA LogOriginKind ==
    ASSUME Typed, NEW r \in Requests, NEW u \in Users, LogOrigin(r, u) \/ LogOriginFails(r, u)
    PROVE  Neutral
<1> DEFINE row == Entry(OriginKey(proc[r].ev, u), u, Event[proc[r].ev].at, "applied", "expired")
<1>1. proc[r].pc = "logOrigins" /\ OriginLogged(r, u) /\ effects' = effects /\ redeemed' = redeemed
  BY DEF LogOrigin, LogOriginFails
<1>2. row.key[1] # "store"
  BY DEF Entry, OriginKey
<1>3. ledger' = ledger \/ ledger' = ledger \cup {row}
  BY DEF LogOrigin, LogOriginFails, InsertIfAbsent
<1>4. Claimed' = Claimed
  BY <1>1, <1>2, <1>3, OtherRowClaimsNothing
<1>5. CASE proc' = [proc EXCEPT ![r] = Idle]
  BY <1>1, <1>4, <1>5, ToIdle DEF Neutral
<1>6. CASE proc' = [proc EXCEPT ![r].left = @ \ {u}]
  <2> DEFINE q == [proc[r] EXCEPT !.left = @ \ {u}]
  <2>1. proc' = [proc EXCEPT ![r] = q] /\ q.pc = "logOrigins"
    BY <1>1, <1>6, RequestFields DEF Procs, Typed, TypeOK
  <2> QED
    BY <1>1, <1>4, <2>1, StartKind
<1> QED
  BY <1>1, <1>5, <1>6 DEF OriginLogged, Respond

LEMMA ClaimCodeKind ==
    ASSUME Typed, NEW r \in Requests, ClaimCode(r)
    PROVE  Neutral \/ Claiming
<1> DEFINE c == proc[r].code
           t0 == PromoKey(c)
<1>1. /\ proc[r].pc = "claim" /\ c \in Codes /\ proc[r].user \in Users /\ proc[r] \in Procs
  BY RequestFields DEF ClaimCode, PromoSteps
<1>2. effects' = effects /\ ledger' = ledger
  BY DEF ClaimCode
<1>3. CASE redeemed[c] # None
  <2>1. redeemed' = redeemed /\ proc' = [proc EXCEPT ![r] = Idle]
    BY <1>3 DEF ClaimCode
  <2> QED
    BY <1>2, <2>1, ToIdle, SameTablesSameClaims DEF Neutral
<1>4. CASE redeemed[c] = None
  <2>1. /\ redeemed' = [redeemed EXCEPT ![c] = proc[r].user]
        /\ proc' = [proc EXCEPT ![r].pc = "grant"]
    BY <1>4 DEF ClaimCode
  <2>2. t0 \in Tokens /\ t0[1] = "promo" /\ t0[2] = c
    BY <1>1 DEF PromoKey, Tokens
  <2>3. t0 \notin Claimed
    BY <1>4, <2>2 DEF Claimed
  <2>4. proc[r].user # None
    BY <1>1, EventAssumption
  <2>5. Claimed' = Claimed \cup {t0}
    <3>1. \A t \in Tokens : t[1] = "promo" =>
            (redeemed'[t[2]] # None <=> redeemed[t[2]] # None \/ t = t0)
      BY <1>1, <2>1, <2>2, <2>4 DEF Tokens, PromoKey, Typed, TypeOK
    <3> QED
      BY <1>2, <2>2, <3>1 DEF Claimed
  <2>6. \A t \in Tokens : Pending(proc'[r], t) => t = t0
    <3>1. proc'[r].pc = "grant" /\ proc'[r].code = c
      BY <1>1, <2>1 DEF Procs, Typed, TypeOK
    <3> QED
      BY <3>1 DEF Pending
  <2> QED
    BY <1>2, <2>1, <2>2, <2>3, <2>5, <2>6, OthersKeep DEF Claiming
<1> QED
  BY <1>3, <1>4

LEMMA GrantKind ==
    ASSUME Typed, NEW r \in Requests, GrantPromo(r)
    PROVE  Effecting
<1> DEFINE t0 == PromoKey(proc[r].code)
<1>1. proc[r].pc = "grant" /\ proc[r].code \in Codes /\ proc[r] \in Procs
  BY RequestFields DEF GrantPromo, PromoSteps
<1>2. t0 \in Tokens /\ Pending(proc[r], t0)
  BY <1>1 DEF PromoKey, Tokens, Pending
<1>3. Took(t0) /\ Claimed' = Claimed /\ proc' = [proc EXCEPT ![r].pc = "logPromo"]
  BY SameTablesSameClaims DEF GrantPromo
<1>4. proc'[r].pc = "logPromo"
  BY <1>1, <1>3 DEF Procs, Typed, TypeOK
<1>5. \A t \in Tokens : ~Pending(proc'[r], t)
  BY <1>4 DEF Pending
<1> QED
  BY <1>2, <1>3, <1>5, OthersKeep DEF Effecting

LEMMA PromoReadKind ==
    ASSUME Typed, NEW r \in Requests,
           \/ \E c \in Codes : RedeemPromoCode(r, c)
           \/ CheckLiveApplePurchase(r) \/ LogPromo(r)
    PROVE  Neutral
<1>1. ASSUME NEW c \in Codes, RedeemPromoCode(r, c) PROVE Neutral
  <2> DEFINE q == [Idle EXCEPT !.pc = "checkLive", !.code = c, !.user = BoundTo[c], !.at = clock]
  <2>1. q.pc = "checkLive"
    BY DEF Idle
  <2> QED
    BY <1>1, <2>1, StartKind, SameTablesSameClaims DEF RedeemPromoCode
<1>2. CASE CheckLiveApplePurchase(r)
  <2>1. Claimed' = Claimed /\ effects' = effects
    BY <1>2, SameTablesSameClaims DEF CheckLiveApplePurchase
  <2>2. CASE proc' = [proc EXCEPT ![r] = Idle]
    BY <2>1, <2>2, ToIdle DEF Neutral
  <2>3. CASE proc' = [proc EXCEPT ![r] = [proc[r] EXCEPT !.pc = "claim"]]
    <3>1. [proc[r] EXCEPT !.pc = "claim"].pc = "claim"
      BY RequestFields DEF Procs
    <3> QED
      BY <2>1, <2>3, <3>1, StartKind
  <2> QED
    BY <1>2, <2>2, <2>3 DEF CheckLiveApplePurchase
<1>3. CASE LogPromo(r)
  <2> DEFINE row == Entry(PromoKey(proc[r].code), proc[r].user, proc[r].at, "applied", "active")
  <2>1. row.key[1] # "store"
    BY DEF Entry, PromoKey
  <2>2. Claimed' = Claimed
    BY <1>3, <2>1, OtherRowClaimsNothing DEF LogPromo, InsertIfAbsent
  <2> QED
    BY <1>3, <2>2, ToIdle DEF LogPromo, Neutral
<1> QED
  BY <1>1, <1>2, <1>3

LEMMA StillKind ==
    ASSUME Typed, proc' = proc, Claimed' = Claimed, effects' = effects
    PROVE  Neutral
  BY DEF Neutral, NoNewPending

LEMMA AdminKind ==
    ASSUME Typed, NEW r \in Requests, NEW u \in AdminOn,
           RevokeSubscription(r, u) \/ ReactivateSubscription(r, u)
    PROVE  Neutral
<1>1. PICK says : LogAdmin(u, says)
  BY DEF RevokeSubscription, ReactivateSubscription
<1> DEFINE row == Entry(AdminKey(spent["admin"]), u, clock, "applied", says)
<1>2. row.key[1] # "store"
  BY DEF Entry, AdminKey
<1>3. redeemed' = redeemed /\ proc' = proc /\ effects' = effects
  BY DEF RevokeSubscription, ReactivateSubscription
<1>4. Claimed' = Claimed
  BY <1>1, <1>2, <1>3, OtherRowClaimsNothing DEF LogAdmin
<1> QED
  BY <1>3, <1>4, StillKind

LEMMA StepKind == Typed /\ [Next]_vars => Neutral \/ Claiming \/ Effecting
<1> SUFFICES ASSUME Typed, [Next]_vars PROVE Neutral \/ Claiming \/ Effecting
  OBVIOUS
<1>1. CASE Tick
  BY <1>1, StillKind, SameTablesSameClaims DEF Tick
<1>2. ASSUME NEW r \in Requests, Continue(r) PROVE Neutral \/ Claiming \/ Effecting
  BY <1>2, RecordEventKind, ReadKind, WriteKind, LogOriginKind, PromoReadKind, ClaimCodeKind,
     GrantKind DEF Continue
<1>3. ASSUME NEW r \in Requests, NEW id \in EventIds, ReceiveEvent(r, id) PROVE Neutral
  BY <1>3, ReceiveKind
<1>4. ASSUME NEW r \in Requests, NEW c \in Codes, RedeemPromoCode(r, c) PROVE Neutral
  BY <1>4, PromoReadKind
<1>5. ASSUME NEW r \in Requests, NEW u \in AdminOn,
             RevokeSubscription(r, u) \/ ReactivateSubscription(r, u)
      PROVE  Neutral
  BY <1>5, AdminKind
<1>6. ASSUME NEW r \in Requests, NEW u \in Users, LogOriginFails(r, u) PROVE Neutral
  BY <1>6, LogOriginKind
<1>7. ASSUME NEW r \in Requests, Crash(r) PROVE Neutral
  BY <1>7, ToIdle, SameTablesSameClaims DEF Crash, Neutral
<1>8. CASE UNCHANGED vars
  BY <1>8, StillKind, SameTablesSameClaims DEF vars
<1> QED
  BY <1>1, <1>2, <1>3, <1>4, <1>5, <1>6, <1>7, <1>8 DEF Next

LEMMA ClaimsHeldInit == Init => ClaimsHeld
<1> SUFFICES ASSUME Init PROVE ClaimsHeld
  OBVIOUS
<1>1. \A r \in Requests, t \in Tokens : ~Pending(proc[r], t)
  BY IdleHoldsNothing DEF Init
<1> QED
  BY <1>1 DEF Init, ClaimsHeld

LEMMA ClaimsHeldNext == Typed /\ ClaimsHeld /\ [Next]_vars => ClaimsHeld'
<1> SUFFICES ASSUME Typed, ClaimsHeld, [Next]_vars PROVE ClaimsHeld'
  OBVIOUS
<1>1. CASE Neutral
  BY <1>1 DEF Neutral, NoNewPending, ClaimsHeld
<1>2. CASE Claiming
  <2>1. PICK r \in Requests, t0 \in Tokens :
        /\ t0 \notin Claimed /\ Claimed' = Claimed \cup {t0} /\ effects' = effects
        /\ \A t \in Tokens : Pending(proc'[r], t) => t = t0
        /\ \A s \in Requests \ {r} : NoNewPending(s)
    BY <1>2 DEF Claiming
  <2>2. \A s \in Requests \ {r} : ~Pending(proc'[s], t0)
    BY <2>1 DEF ClaimsHeld, NoNewPending
  <2> QED
    BY <2>1, <2>2 DEF ClaimsHeld, NoNewPending
<1>3. CASE Effecting
  <2>1. PICK r \in Requests, t0 \in Tokens :
        /\ Pending(proc[r], t0) /\ Claimed' = Claimed /\ Took(t0)
        /\ \A t \in Tokens : ~Pending(proc'[r], t)
        /\ \A s \in Requests \ {r} : NoNewPending(s)
    BY <1>3 DEF Effecting
  <2>2. t0 \in Claimed
    BY <2>1 DEF ClaimsHeld
  <2>3. \A t \in Tokens : t # t0 => effects'[t] = effects[t]
    BY <2>1 DEF Took, Typed, TypeOK
  <2>4. \A s \in Requests : ~Pending(proc'[s], t0)
    BY <2>1 DEF ClaimsHeld, NoNewPending
  <2> QED
    BY <2>1, <2>2, <2>3, <2>4 DEF ClaimsHeld, NoNewPending
<1> QED
  BY <1>1, <1>2, <1>3, StepKind

(* However deliveries are repeated, interleaved and cut short, every step on the real tables *)
(* is a claim, an effect or nothing in the abstract specification.                           *)
THEOREM ClaimsRefined == Spec => EffectAtMostOnce
<1>1. Init => Claims!Init
  <2> SUFFICES ASSUME Init PROVE Claims!Init
    OBVIOUS
  <2>1. \A t \in Tokens : t[1] = "promo" => t[2] \in Codes
    BY DEF Tokens
  <2>2. Claimed = {}
    BY <2>1 DEF Init, Claimed
  <2> QED
    BY <2>2 DEF Init, Claims!Init
<1>2. Typed /\ ClaimsHeld /\ [Next]_vars => [Claims!Next]_<<Claimed, effects>>
  <2> SUFFICES ASSUME Typed, ClaimsHeld, [Next]_vars
               PROVE  Claims!Next \/ (Claimed' = Claimed /\ effects' = effects)
    OBVIOUS
  <2>1. CASE Neutral
    BY <2>1 DEF Neutral
  <2>2. CASE Claiming
    BY <2>2 DEF Claiming, Claims!Next, Claims!Claim
  <2>3. CASE Effecting
    <3>1. PICK t0 \in Tokens : \E r \in Requests :
            Pending(proc[r], t0) /\ Claimed' = Claimed /\ Took(t0)
      BY <2>3 DEF Effecting
    <3>2. t0 \in Claimed /\ effects[t0] = 0
      BY <3>1 DEF ClaimsHeld
    <3>3. effects' = [effects EXCEPT ![t0] = 1]
      BY <3>1, <3>2 DEF Took
    <3> QED
      BY <3>1, <3>2, <3>3 DEF Claims!Next, Claims!Effect
  <2> QED
    BY <2>1, <2>2, <2>3, StepKind
<1> QED
  BY <1>1, <1>2, TypedInit, TypedNext, ClaimsHeldInit, ClaimsHeldNext, PTL
     DEF Spec, EffectAtMostOnce, Claims!Spec

-----------------------------------------------------------------------------
(* Every entitlement has a trace *)

(* The ledger is append-only and a redeemed code stays redeemed by the same user. *)
LEMMA TracesStay ==
    ASSUME Typed, [Next]_vars
    PROVE  /\ ledger \subseteq ledger'
           /\ \A c \in Codes : redeemed[c] # None => redeemed'[c] = redeemed[c]
<1>1. ASSUME NEW r \in Requests, Continue(r)
      PROVE  /\ ledger \subseteq ledger'
             /\ \A c \in Codes : redeemed[c] # None => redeemed'[c] = redeemed[c]
  <2>1. CASE RecordEvent(r)
    BY <2>1 DEF RecordEvent, InsertIfAbsent
  <2>2. CASE \/ LoadExisting(r) \/ WriteSubscription(r) \/ ReadOrigins(r)
             \/ MoveSubscription(r) \/ CheckLiveApplePurchase(r) \/ GrantPromo(r)
    BY <2>2 DEF LoadExisting, WriteSubscription, ReadOrigins, MoveSubscription,
       CheckLiveApplePurchase, GrantPromo
  <2>3. CASE \E u \in Users : LogOrigin(r, u)
    BY <2>3 DEF LogOrigin, InsertIfAbsent
  <2>4. CASE ClaimCode(r)
    BY <2>4 DEF ClaimCode, Typed, TypeOK
  <2>5. CASE LogPromo(r)
    BY <2>5 DEF LogPromo, InsertIfAbsent
  <2> QED
    BY <1>1, <2>1, <2>2, <2>3, <2>4, <2>5 DEF Continue
<1>2. ASSUME NEW r \in Requests, NEW u \in AdminOn,
             RevokeSubscription(r, u) \/ ReactivateSubscription(r, u)
      PROVE  ledger \subseteq ledger' /\ redeemed' = redeemed
  BY <1>2 DEF RevokeSubscription, ReactivateSubscription, LogAdmin
<1> QED
  BY <1>1, <1>2 DEF Next, Tick, ReceiveEvent, RedeemPromoCode, LogOriginFails, Crash, vars

LEMMA TraceStays ==
    ASSUME Typed, [Next]_vars, NEW u \in Users, HasTrace(u)
    PROVE  HasTrace(u)'
<1>1. None \notin Users
  BY EventAssumption
<1> QED
  BY <1>1, TracesStay DEF HasTrace

(* A request that has not moved, or has only gone idle, still has the trace it needs. *)
LEMMA TraceFirstKept ==
    ASSUME Typed, TraceFirst, [Next]_vars, NEW s \in Requests,
           \/ proc'[s] = proc[s]
           \/ proc'[s].pc \notin {"load", "write", "readOrigins", "move", "grant"}
           \/ /\ proc[s].pc \in {"load", "readOrigins"}
              /\ proc'[s].pc = IF proc[s].pc = "load" THEN "write" ELSE "move"
              /\ proc'[s].user = proc[s].user /\ proc'[s].ev = proc[s].ev
    PROVE  LET q == proc'[s]
           IN  /\ q.pc \in {"load", "write"} =>
                   \E row \in ledger' : row.user = q.user /\ row.says = StatusOf(Event[q.ev].type)
               /\ q.pc \in {"readOrigins", "move"} =>
                   \E row \in ledger' : row.user = q.user /\ row.says = "active"
               /\ q.pc = "grant" => redeemed'[q.code] = q.user
<1>1. ledger \subseteq ledger'
  BY TracesStay
<1>2. proc[s].pc = "grant" => /\ proc[s].code \in Codes /\ proc[s].user # None
                              /\ redeemed[proc[s].code] = proc[s].user
  BY RequestFields, EventAssumption DEF PromoSteps, TraceFirst
<1>3. proc[s].pc = "grant" => redeemed'[proc[s].code] = proc[s].user
  BY <1>2, TracesStay
<1>4. proc[s].pc \in {"load", "write"} =>
        \E row \in ledger' : row.user = proc[s].user /\ row.says = StatusOf(Event[proc[s].ev].type)
  BY <1>1 DEF TraceFirst
<1>5. proc[s].pc \in {"readOrigins", "move"} =>
        \E row \in ledger' : row.user = proc[s].user /\ row.says = "active"
  BY <1>1 DEF TraceFirst
<1> QED
  BY <1>3, <1>4, <1>5

(* The event a request has just recorded is in the ledger under its user. *)
LEMMA RecordedFirst ==
    ASSUME Typed, NEW r \in Requests, RecordEvent(r), proc'[r].pc \notin {"idle"}
    PROVE  LET q == proc'[r]
           IN  /\ q.pc \notin {"write", "move", "grant"}
               /\ q.pc = "load" =>
                   \E row \in ledger' : row.user = q.user /\ row.says = StatusOf(Event[q.ev].type)
               /\ q.pc = "readOrigins" =>
                   \E row \in ledger' : row.user = q.user /\ row.says = "active"
<1> DEFINE p0 == proc[r]
           e == Event[p0.ev]
           row == Entry(StoreKey(p0.ev), p0.user, e.at, p0.outcome, Says(e, p0.outcome))
<1>1. proc[r] \in Procs
  BY RequestFields
<1>2. ~EndsHere(p0, row.key)
  <2>1. Respond(r) => proc'[r] = Idle
    BY DEF Respond, Typed, TypeOK
  <2> QED
    BY <2>1 DEF RecordEvent, Idle
<1>3. /\ proc' = [proc EXCEPT ![r].pc = NextStep(e)]
      /\ p0.outcome = "applied" /\ ~Recorded(row.key)
  BY <1>2 DEF RecordEvent, EndsHere
<1>4. row \in ledger'
  BY <1>3 DEF RecordEvent, InsertIfAbsent
<1>5. proc'[r].pc = NextStep(e) /\ proc'[r].user = p0.user /\ proc'[r].ev = p0.ev
  BY <1>1, <1>3 DEF Procs, Typed, TypeOK
<1>6. row.user = p0.user /\ row.says = Says(e, "applied")
  BY <1>3 DEF Entry
<1> QED
  BY <1>4, <1>5, <1>6 DEF Says, NextStep

(* What each action does to the requests, as far as TraceFirst can tell. *)
LEMMA RequestsMove ==
    ASSUME Typed, [Next]_vars, NEW s \in Requests
    PROVE  \/ proc'[s] = proc[s]
           \/ proc'[s].pc \notin {"load", "write", "readOrigins", "move", "grant"}
           \/ /\ proc[s].pc \in {"load", "readOrigins"}
              /\ proc'[s].pc = IF proc[s].pc = "load" THEN "write" ELSE "move"
              /\ proc'[s].user = proc[s].user /\ proc'[s].ev = proc[s].ev
           \/ RecordEvent(s)
           \/ ClaimCode(s)
<1> DEFINE Goal ==
           \/ proc'[s] = proc[s]
           \/ proc'[s].pc \notin {"load", "write", "readOrigins", "move", "grant"}
           \/ /\ proc[s].pc \in {"load", "readOrigins"}
              /\ proc'[s].pc = IF proc[s].pc = "load" THEN "write" ELSE "move"
              /\ proc'[s].user = proc[s].user /\ proc'[s].ev = proc[s].ev
           \/ RecordEvent(s)
           \/ ClaimCode(s)
<1>1. \A r \in Requests : proc[r] \in Procs
  BY DEF Typed, TypeOK
<1>2. Idle.pc = "idle"
  BY DEF Idle
<1>3. ASSUME NEW r \in Requests, Continue(r) PROVE Goal
  <2>1. CASE LoadExisting(r)
    BY <1>1, <2>1 DEF LoadExisting, Procs, Typed, TypeOK
  <2>2. CASE ReadOrigins(r)
    <3>1. PICK row, left :
            proc' = [proc EXCEPT ![r].pc = "move", ![r].row = row, ![r].left = left]
      BY <2>2 DEF ReadOrigins
    <3>2. CASE s = r
      <4>1. /\ proc'[s].pc = "move"
            /\ proc'[s].user = proc[s].user /\ proc'[s].ev = proc[s].ev
        BY <1>1, <3>1, <3>2 DEF Procs, Typed, TypeOK
      <4> QED
        BY <2>2, <3>2, <4>1 DEF ReadOrigins
    <3>3. CASE s # r
      BY <3>1, <3>3 DEF Typed, TypeOK
    <3> QED
      BY <3>2, <3>3
  <2>3. CASE WriteSubscription(r)
    BY <1>2, <2>3 DEF WriteSubscription, Respond, Typed, TypeOK
  <2>4. CASE MoveSubscription(r)
    <3>1. \/ proc' = [proc EXCEPT ![r] = Idle]
          \/ proc' = [proc EXCEPT ![r].pc = "logOrigins"]
      BY <2>4 DEF MoveSubscription, Respond
    <3> QED
      BY <1>1, <1>2, <3>1 DEF Procs, Typed, TypeOK
  <2>5. ASSUME NEW u \in Users, LogOrigin(r, u) PROVE Goal
    <3>1. /\ proc[r].pc = "logOrigins"
          /\ \/ proc' = [proc EXCEPT ![r] = Idle]
             \/ proc' = [proc EXCEPT ![r].left = @ \ {u}]
      BY <2>5 DEF LogOrigin, OriginLogged, Respond
    <3> QED
      BY <1>1, <1>2, <3>1 DEF Procs, Typed, TypeOK
  <2>6. CASE CheckLiveApplePurchase(r) \/ GrantPromo(r) \/ LogPromo(r)
    <3>1. \/ proc' = [proc EXCEPT ![r] = Idle]
          \/ proc' = [proc EXCEPT ![r] = [proc[r] EXCEPT !.pc = "claim"]]
          \/ proc' = [proc EXCEPT ![r].pc = "logPromo"]
      BY <2>6 DEF CheckLiveApplePurchase, GrantPromo, LogPromo
    <3>2. [proc[r] EXCEPT !.pc = "claim"].pc = "claim"
      BY <1>1 DEF Procs
    <3> QED
      BY <1>1, <1>2, <3>1, <3>2 DEF Procs, Typed, TypeOK
  <2>7. CASE RecordEvent(r)
    BY <1>2, <2>7 DEF RecordEvent, Respond, Typed, TypeOK
  <2>8. CASE ClaimCode(r)
    BY <1>2, <2>8 DEF ClaimCode, Typed, TypeOK
  <2> QED
    BY <1>3, <2>1, <2>2, <2>3, <2>4, <2>5, <2>6, <2>7, <2>8 DEF Continue
<1>4. ASSUME NEW r \in Requests, NEW id \in EventIds, ReceiveEvent(r, id) PROVE Goal
  BY <1>4 DEF ReceiveEvent, Idle, Typed, TypeOK
<1>5. ASSUME NEW r \in Requests, NEW c \in Codes, RedeemPromoCode(r, c) PROVE Goal
  BY <1>5 DEF RedeemPromoCode, Idle, Typed, TypeOK
<1>6. ASSUME NEW r \in Requests, NEW u \in Users, LogOriginFails(r, u) PROVE Goal
  <2>1. /\ proc[r].pc = "logOrigins"
        /\ \/ proc' = [proc EXCEPT ![r] = Idle]
           \/ proc' = [proc EXCEPT ![r].left = @ \ {u}]
    BY <1>6 DEF LogOriginFails, OriginLogged, Respond
  <2> QED
    BY <1>1, <1>2, <2>1 DEF Procs, Typed, TypeOK
<1>7. ASSUME NEW r \in Requests, Crash(r) PROVE Goal
  BY <1>2, <1>7 DEF Crash, Typed, TypeOK
<1> QED
  BY <1>3, <1>4, <1>5, <1>6, <1>7
     DEF Next, Tick, RevokeSubscription, ReactivateSubscription, vars

LEMMA TraceFirstNext == Typed /\ TraceFirst /\ [Next]_vars => TraceFirst'
<1> SUFFICES ASSUME Typed, TraceFirst, [Next]_vars, NEW s \in Requests
             PROVE  LET q == proc'[s]
                    IN  /\ q.pc \in {"load", "write"} =>
                            \E row \in ledger' : /\ row.user = q.user
                                                 /\ row.says = StatusOf(Event[q.ev].type)
                        /\ q.pc \in {"readOrigins", "move"} =>
                            \E row \in ledger' : row.user = q.user /\ row.says = "active"
                        /\ q.pc = "grant" => redeemed'[q.code] = q.user
  BY DEF TraceFirst
<1>1. CASE RecordEvent(s)
  <2>1. CASE proc'[s].pc = "idle"
    BY <2>1
  <2>2. CASE proc'[s].pc # "idle"
    BY <1>1, <2>2, RecordedFirst
  <2> QED
    BY <2>1, <2>2
<1>2. CASE ClaimCode(s)
  <2>1. proc[s] \in Procs /\ proc[s].code \in Codes
    BY <1>2, RequestFields DEF ClaimCode, PromoSteps
  <2>2. CASE redeemed[proc[s].code] = None
    <3>1. /\ redeemed'[proc[s].code] = proc[s].user
          /\ proc'[s].pc = "grant" /\ proc'[s].code = proc[s].code /\ proc'[s].user = proc[s].user
      BY <1>2, <2>1, <2>2 DEF ClaimCode, Procs, Typed, TypeOK
    <3> QED
      BY <3>1
  <2>3. CASE redeemed[proc[s].code] # None
    <3>1. proc'[s].pc = "idle"
      BY <1>2, <2>3 DEF ClaimCode, Idle, Typed, TypeOK
    <3> QED
      BY <3>1
  <2> QED
    BY <2>2, <2>3
<1>3. CASE ~RecordEvent(s) /\ ~ClaimCode(s)
  BY <1>3, RequestsMove, TraceFirstKept
<1> QED
  BY <1>1, <1>2, <1>3

(* Every write that entitles an account finds its trace in place. *)
LEMMA EntitlementHasTraceNext ==
    Typed /\ TraceFirst /\ EntitlementHasTrace /\ [Next]_vars => EntitlementHasTrace'
<1> SUFFICES ASSUME Typed, TraceFirst, EntitlementHasTrace, [Next]_vars,
                    NEW u \in Users, Entitles(sub'[u])
             PROVE  HasTrace(u)'
  BY DEF EntitlementHasTrace, Entitles
<1>1. CASE Entitles(sub[u])
  BY <1>1, TraceStays DEF EntitlementHasTrace
<1>2. CASE ~Entitles(sub[u])
  <2>1. sub'[u] # sub[u]
    BY <1>2 DEF Entitles
  <2>2. ASSUME NEW r \in Requests, WriteSubscription(r) PROVE HasTrace(u)
    <3> DEFINE e == Event[proc[r].ev]
    <3>1. u = proc[r].user /\ sub'[u] = EventRow(e, proc[r].row)
      BY <2>1, <2>2 DEF WriteSubscription, Typed, TypeOK
    <3>2. sub'[u].status = StatusOf(e.type)
      BY <3>1 DEF EventRow, UpsertedRow
    <3>3. \E row \in ledger : row.user = u /\ row.says = StatusOf(e.type)
      BY <2>2, <3>1 DEF TraceFirst, WriteSubscription
    <3> QED
      BY <3>2, <3>3 DEF Entitles, HasTrace
  <2>3. ASSUME NEW r \in Requests, MoveSubscription(r) PROVE HasTrace(u)
    <3>1. \/ u = proc[r].user
          \/ u # proc[r].user /\ sub[u] # None /\ sub'[u] = ExpiredOrigin(sub[u])
      BY <2>1, <2>3 DEF MoveSubscription
    <3>2. sub[u] # None => ExpiredOrigin(sub[u]).status = "expired"
      BY DEF ExpiredOrigin, Rows, Typed, TypeOK
    <3>3. u = proc[r].user
      BY <3>1, <3>2 DEF Entitles
    <3> QED
      BY <2>3, <3>3 DEF TraceFirst, MoveSubscription, HasTrace
  <2>4. ASSUME NEW r \in Requests, GrantPromo(r) PROVE HasTrace(u)
    <3>1. u = proc[r].user /\ proc[r].code \in Codes
      BY <2>1, <2>4, RequestFields DEF GrantPromo, PromoSteps, Typed, TypeOK
    <3> QED
      BY <2>4, <3>1 DEF TraceFirst, GrantPromo, HasTrace
  <2>5. ASSUME NEW r \in Requests, NEW v \in AdminOn, RevokeSubscription(r, v)
        PROVE  FALSE
    <3>1. u = v /\ sub'[u] = RevokedRow(sub[u])
      BY <2>1, <2>5, BoundAssumption DEF RevokeSubscription, Typed, TypeOK
    <3>2. RevokedRow(sub[u]).status = "revoked"
      BY DEF RevokedRow, Rows, Typed, TypeOK
    <3> QED
      BY <3>1, <3>2 DEF Entitles
  <2>6. ASSUME NEW r \in Requests, NEW v \in AdminOn, ReactivateSubscription(r, v)
        PROVE  HasTrace(u)'
    <3>1. u = v /\ sub'[u] = ReactivatedRow(sub[u]) /\ sub[u] \in Rows
      BY <2>1, <2>6, BoundAssumption DEF ReactivateSubscription, CanReactivate, Typed, TypeOK
    <3>2. sub[u].pre # "none" /\ sub'[u].status = sub[u].pre
      BY <3>1 DEF ReactivatedRow, Entitles, Rows
    <3> DEFINE row == Entry(AdminKey(spent["admin"]), u, clock, "applied", sub[u].pre)
    <3>3. row \in ledger'
      BY <2>6, <3>1, <3>2 DEF ReactivateSubscription, LogAdmin
    <3>4. row.user = u /\ row.says \in {"active", "grace", "cancelled"}
      BY <3>2 DEF Entry, Entitles
    <3> QED
      BY <3>3, <3>4 DEF HasTrace
  <2>7. \/ \E r \in Requests : WriteSubscription(r) \/ MoveSubscription(r) \/ GrantPromo(r)
        \/ \E r \in Requests, v \in AdminOn :
            RevokeSubscription(r, v) \/ ReactivateSubscription(r, v)
    BY <2>1 DEF Next, Continue, Tick, ReceiveEvent, RecordEvent, LoadExisting, ReadOrigins,
       LogOrigin, LogOriginFails, RedeemPromoCode, CheckLiveApplePurchase, ClaimCode, LogPromo,
       Crash, vars
  <2> QED
    BY <2>2, <2>3, <2>4, <2>5, <2>6, <2>7, TraceStays
<1> QED
  BY <1>1, <1>2

(* No interleaving, retry or crash leaves an account entitled without a ledger row or a *)
(* redeemed code that says why.                                                         *)
THEOREM NoEntitlementWithoutTrace == Spec => []EntitlementHasTrace
<1>1. Init => TraceFirst /\ EntitlementHasTrace
  BY DEF Init, TraceFirst, EntitlementHasTrace, Entitles, Idle
<1> QED
  BY <1>1, TypedInit, TypedNext, TraceFirstNext, EntitlementHasTraceNext, PTL DEF Spec

-----------------------------------------------------------------------------
(* Between requests a row says what its newest entry says *)

(* No event sets a revocation: only the admin does. *)
LEMMA NoEventRevokes == ASSUME NEW type PROVE StatusOf(type) # "revoked"
  BY DEF StatusOf

(* Null is not a status, not the mark of a missing row, and not a row. *)
LEMMA NullIsNoStatus == None \notin Statuses /\ None # "none" /\ None \notin Rows
  BY NoneIsNull

(* A row dated no earlier than the others is the newest once it is added. *)
LEMMA NewestIsNew ==
    ASSUME NEW rows, NEW x, x.at \in Nat, \A row \in rows : row.at <= x.at
    PROVE  NewestSays(rows \cup {x}, x.says)
  BY DEF NewestSays, Newest

(* An insert shows in the entries of its account and in no other's. *)
LEMMA InsertShows ==
    ASSUME NEW x, ledger' = ledger \cup {x}, NEW u
    PROVE  /\ x.user = u /\ x.outcome = "applied" => AppliedTo(u)' = AppliedTo(u) \cup {x}
           /\ ~(x.user = u /\ x.outcome = "applied") => AppliedTo(u)' = AppliedTo(u)
  BY DEF AppliedTo

(* What an account's entries and row say changes only with them. *)
LEMMA SameEntriesAgree ==
    ASSUME NEW u, AppliedTo(u)' = AppliedTo(u), sub'[u] = sub[u], Agrees(u)
    PROVE  Agrees(u)'
<1>1. Unrevoked(u)' = Unrevoked(u)
  BY DEF Unrevoked
<1> QED
  BY <1>1 DEF Agrees, NewestSays, Newest

(* The newest entry is also the newest beneath the revokes, unless it is one. *)
LEMMA NewestBeneath ==
    ASSUME NEW u, NEW says, says # "revoked", NewestSays(AppliedTo(u), says)
    PROVE  Unrevoked(u) # {} /\ NewestSays(Unrevoked(u), says)
  BY DEF NewestSays, Newest, Unrevoked

(* A row that was written as its newest entry says agrees with its ledger. *)
LEMMA WrittenAgrees ==
    ASSUME NEW u, NEW says, says # "revoked", NewestSays(AppliedTo(u), says), PlanOf(sub[u]) = says
    PROVE  Agrees(u)
<1>1. Unrevoked(u) # {} /\ NewestSays(Unrevoked(u), says)
  BY NewestBeneath
<1>2. PlanBeneath(sub[u]) = says
  BY DEF PlanBeneath, PlanOf
<1> QED
  BY <1>1, <1>2 DEF Agrees

(* The same after a step. *)
LEMMA WrittenAgreesNext ==
    ASSUME NEW u, NEW says, says # "revoked", NewestSays(AppliedTo(u)', says), PlanOf(sub'[u]) = says
    PROVE  Agrees(u)'
<1>1. Unrevoked(u)' # {} /\ NewestSays(Unrevoked(u)', says)
  BY DEF NewestSays, Newest, Unrevoked
<1>2. PlanBeneath(sub'[u]) = says
  BY DEF PlanBeneath, PlanOf
<1> QED
  BY <1>1, <1>2 DEF Agrees

(* The ledger only grows, so an account that was an origin stays one. *)
LEMMA OnceAnOrigin ==
    ASSUME ledger \subseteq ledger', NEW u, NeverAnOrigin(u)'
    PROVE  NeverAnOrigin(u)
  BY DEF NeverAnOrigin, AppliedTo

(* The plans of the rows the code writes. *)
LEMMA PlansWritten ==
    /\ \A e \in EventRecords, existing \in Rows \cup {None} :
        PlanOf(EventRow(e, existing)) = StatusOf(e.type)
    /\ \A source \in Rows \cup {None} : PlanOf(TransferredRow(source)) = "active"
    /\ \A end \in Nat : PlanOf(UpsertedRow("active", "promo", end, None, TRUE)) = "active"
<1>1. ASSUME NEW row \in Rows PROVE PlanOf(row) = row.status
  BY NullIsNoStatus DEF PlanOf
<1>2. ASSUME NEW e \in EventRecords, NEW existing \in Rows \cup {None}
      PROVE  PlanOf(EventRow(e, existing)) = StatusOf(e.type)
  BY <1>1, EventRowType DEF EventRow, UpsertedRow
<1>3. ASSUME NEW source \in Rows \cup {None} PROVE PlanOf(TransferredRow(source)) = "active"
  BY <1>1, TransferredRowType DEF TransferredRow, UpsertedRow
<1>4. ASSUME NEW end \in Nat
      PROVE  PlanOf(UpsertedRow("active", "promo", end, None, TRUE)) = "active"
  <2>1. UpsertedRow("active", "promo", end, None, TRUE) \in Rows
    BY UpsertedRowType DEF Statuses, Sources
  <2> QED
    BY <1>1, <2>1 DEF UpsertedRow
<1> QED
  BY <1>2, <1>3, <1>4

(* With one request, what it does is all that happens. *)
LEMMA OneRequestAgrees ==
    ASSUME NEW r, Requests = {r}
    PROVE  /\ OthersAgree <=> \A u \in Users :
                NeverAnOrigin(u) /\ u \notin HalfWritten(proc[r]) => Agrees(u)
           /\ OthersAgree' <=> \A u \in Users :
                NeverAnOrigin(u)' /\ u \notin HalfWritten(proc'[r]) => Agrees(u)'
  BY DEF OthersAgree, HalfWritten

(* An account that a step leaves alone goes on agreeing with its ledger. *)
LEMMA LeftAlone ==
    ASSUME NEW r, Requests = {r}, OthersAgree, NEW u \in Users, ledger \subseteq ledger',
           AppliedTo(u)' = AppliedTo(u), sub'[u] = sub[u], u \notin HalfWritten(proc[r]),
           NeverAnOrigin(u)'
    PROVE  Agrees(u)'
<1>1. NeverAnOrigin(u)
  BY OnceAnOrigin
<1>2. Agrees(u)
  BY <1>1, OneRequestAgrees
<1> QED
  BY <1>2, SameEntriesAgree

(* A step that only reads, or only moves the clock, keeps the invariant if what the request *)
(* has in hand is as the invariant says.                                                    *)
LEMMA ReadingKeeps ==
    ASSUME Typed, InTurn, NEW r, Requests = {r}, ledger' = ledger, sub' = sub, redeemed' = redeemed,
           clock' \in Nat, clock <= clock',
           HalfWritten(proc[r]) \subseteq HalfWritten(proc'[r]),
           proc'[r].pc \in Deciding => Event[proc'[r].ev].at <= clock',
           proc'[r].pc \in PromoSteps => proc'[r].at <= clock',
           HasTheNewest(proc[r])'
    PROVE  InTurn'
<1>1. OthersAgree'
  <2>1. \A u \in Users : AppliedTo(u)' = AppliedTo(u) /\ sub'[u] = sub[u]
    BY DEF AppliedTo
  <2> QED
    BY <2>1, LeftAlone, OneRequestAgrees DEF InTurn
<1>2. NothingAhead'
  BY DEF InTurn, NothingAhead, Typed, TypeOK, LedgerRows
<1>3. KeysTell' /\ RevokesRemember'
  BY DEF InTurn, KeysTell, RevokesRemember, Recorded
<1> QED
  BY <1>1, <1>2, <1>3 DEF InTurn

(* Our clock only moves on. *)
LEMMA TickInTurn ==
    ASSUME Typed, InTurn, NEW r, Requests = {r}, Tick
    PROVE  InTurn'
<1>1. clock' \in Nat /\ clock <= clock' /\ proc' = proc
  BY DEF Tick, Typed, TypeOK
<1>2. proc[r].pc \in Deciding => Event[proc[r].ev].at <= clock'
  <2>1. proc[r].pc \in Deciding => Event[proc[r].ev].at <= clock /\ Event[proc[r].ev].at \in Nat
    BY RequestFields, EventType DEF InTurn, NothingAhead
  <2> QED
    BY <1>1, <2>1 DEF Typed, TypeOK
<1>3. proc[r].pc \in PromoSteps => proc[r].at <= clock'
  <2>1. proc[r].pc \in PromoSteps => proc[r].at <= clock /\ proc[r].at \in Nat
    BY RequestFields DEF InTurn, NothingAhead
  <2> QED
    BY <1>1, <2>1 DEF Typed, TypeOK
<1>4. HasTheNewest(proc[r])'
  BY <1>1 DEF InTurn, HasTheNewest, Tick, AppliedTo, NewestSays, Newest, Recorded, PlanOf, FromUsers
<1> QED
  BY <1>1, <1>2, <1>3, <1>4, ReadingKeeps DEF Tick

(* An event that is not stale is as new as any entry of its account. *)
LEMMA ReceiveInTurn ==
    ASSUME Typed, InTurn, NEW r, Requests = {r}, NEW id \in EventIds, ReceiveEvent(r, id)
    PROVE  InTurn'
<1>1. PICK u \in Users \cup {None} :
        proc' = [proc EXCEPT ![r] =
            [Idle EXCEPT !.pc = "record", !.ev = id, !.user = u,
                         !.outcome = DecideFromEvent(Event[id], u)]]
  BY DEF ReceiveEvent
<1>2. /\ proc'[r].pc = "record" /\ proc'[r].ev = id /\ proc'[r].user = u
      /\ proc'[r].outcome = DecideFromEvent(Event[id], u)
  BY <1>1 DEF Typed, TypeOK, Idle
<1>3. HalfWritten(proc[r]) \subseteq HalfWritten(proc'[r])
  BY DEF ReceiveEvent, HalfWritten
<1>4. ASSUME proc'[r].outcome = "applied"
      PROVE  \A row \in AppliedTo(u) : row.at <= Event[id].at
  <2>1. ~Stale(Event[id], u)
    BY <1>2, <1>4 DEF DecideFromEvent
  <2>2. \A row \in AppliedTo(u) : row.at \in Nat /\ ~(Event[id].at < row.at)
    BY <2>1 DEF Stale, AppliedTo, Typed, TypeOK, LedgerRows
  <2> QED
    BY <2>2, EventType
<1>5. HasTheNewest(proc[r])'
  BY <1>2, <1>4 DEF HasTheNewest, ReceiveEvent, AppliedTo, PromoSteps
<1> QED
  BY <1>2, <1>3, <1>5, ReadingKeeps DEF ReceiveEvent, Typed, TypeOK, PromoSteps

(* What was read of the row does not matter: the ledger already decides the plan. *)
LEMMA LoadInTurn ==
    ASSUME Typed, InTurn, NEW r, Requests = {r}, LoadExisting(r)
    PROVE  InTurn'
<1>1. /\ proc'[r].pc = "write" /\ proc'[r].ev = proc[r].ev /\ proc'[r].user = proc[r].user
      /\ proc[r].pc = "load"
  BY RequestFields DEF LoadExisting, Typed, TypeOK, Procs
<1>2. HalfWritten(proc[r]) \subseteq HalfWritten(proc'[r])
  BY <1>1 DEF HalfWritten
<1>3. Event[proc[r].ev].at <= clock
  BY <1>1 DEF InTurn, NothingAhead, Deciding, AfterRecord
<1>4. NewestSays(AppliedTo(proc[r].user), StatusOf(Event[proc[r].ev].type))
  BY <1>1 DEF InTurn, HasTheNewest
<1>5. HasTheNewest(proc[r])'
  BY <1>1, <1>4 DEF HasTheNewest, LoadExisting, AppliedTo, PromoSteps, NewestSays, Newest
<1> QED
  BY <1>1, <1>2, <1>3, <1>5, ReadingKeeps DEF LoadExisting, Typed, TypeOK, PromoSteps

(* The origins that were read are the ones the move will expire. *)
LEMMA ReadOriginsInTurn ==
    ASSUME Typed, InTurn, NEW r, Requests = {r}, ReadOrigins(r)
    PROVE  InTurn'
<1> DEFINE origins == {u \in FromUsers(Event[proc[r].ev], proc[r].user) : sub[u] # None}
<1>1. PICK row : proc' = [proc EXCEPT ![r].pc = "move", ![r].row = row, ![r].left = origins]
  BY DEF ReadOrigins
<1>2. /\ proc'[r].pc = "move" /\ proc'[r].ev = proc[r].ev /\ proc'[r].user = proc[r].user
      /\ proc'[r].left = origins /\ proc[r].pc = "readOrigins"
  BY <1>1, RequestFields DEF ReadOrigins, Typed, TypeOK, Procs
<1>3. HalfWritten(proc[r]) \subseteq HalfWritten(proc'[r])
  BY <1>2 DEF HalfWritten
<1>4. Event[proc[r].ev].at <= clock
  BY <1>2 DEF InTurn, NothingAhead, Deciding, AfterRecord, TransferSteps
<1>5. NewestSays(AppliedTo(proc[r].user), "active")
  BY <1>2 DEF InTurn, HasTheNewest
<1>6. HasTheNewest(proc[r])'
  BY <1>2, <1>5 DEF HasTheNewest, ReadOrigins, AppliedTo, PromoSteps, NewestSays, Newest
<1>7. /\ ledger' = ledger /\ sub' = sub /\ redeemed' = redeemed
      /\ clock' = clock /\ clock \in Nat
  BY DEF ReadOrigins, Typed, TypeOK
<1> QED
  BY <1>2, <1>3, <1>4, <1>6, <1>7, ReadingKeeps DEF PromoSteps

(* A redemption is dated when it begins, after every entry of the account. *)
LEMMA RedeemInTurn ==
    ASSUME Typed, InTurn, NEW r, Requests = {r}, NEW c \in Codes, RedeemPromoCode(r, c)
    PROVE  InTurn'
<1>1. /\ proc'[r].pc = "checkLive" /\ proc'[r].at = clock
      /\ proc[r].pc = "idle"
  BY DEF RedeemPromoCode, Typed, TypeOK, Idle
<1>2. HalfWritten(proc[r]) \subseteq HalfWritten(proc'[r])
  BY <1>1 DEF HalfWritten
<1>3. HasTheNewest(proc[r])'
  BY <1>1 DEF HasTheNewest, RedeemPromoCode, AppliedTo, InTurn, NothingAhead
<1> QED
  BY <1>1, <1>2, <1>3, ReadingKeeps
     DEF RedeemPromoCode, Typed, TypeOK, Deciding, AfterRecord, TransferSteps

(* The check for a live purchase reads, and may end the request. *)
LEMMA CheckLiveInTurn ==
    ASSUME Typed, InTurn, NEW r, Requests = {r}, CheckLiveApplePurchase(r)
    PROVE  InTurn'
<1>1. /\ proc[r].pc = "checkLive"
      /\ \/ proc'[r].pc = "idle"
         \/ proc'[r].pc = "claim" /\ proc'[r].at = proc[r].at /\ proc'[r].user = proc[r].user
  BY RequestFields DEF CheckLiveApplePurchase, Typed, TypeOK, Idle, Procs
<1>2. HalfWritten(proc[r]) \subseteq HalfWritten(proc'[r])
  BY <1>1 DEF HalfWritten
<1>3. \A row \in AppliedTo(proc[r].user) : row.at <= proc[r].at
  BY <1>1 DEF InTurn, HasTheNewest, PromoSteps
<1>4. proc[r].at <= clock
  BY <1>1 DEF InTurn, NothingAhead, PromoSteps
<1>5. HasTheNewest(proc[r])'
  BY <1>1, <1>3 DEF HasTheNewest, CheckLiveApplePurchase, AppliedTo, PromoSteps
<1> QED
  BY <1>1, <1>2, <1>4, <1>5, ReadingKeeps
     DEF CheckLiveApplePurchase, Typed, TypeOK, Deciding, AfterRecord, TransferSteps, PromoSteps

(* A step that writes leaves every other account alone. *)
LEMMA WritingKeeps ==
    ASSUME Typed, InTurn, NEW r, Requests = {r}, NEW u, ledger \subseteq ledger',
           \A v \in Users \ {u} : /\ AppliedTo(v)' = AppliedTo(v) /\ sub'[v] = sub[v]
                                  /\ v \in HalfWritten(proc[r]) => v \in HalfWritten(proc'[r]),
           u \in Users /\ NeverAnOrigin(u)' /\ u \notin HalfWritten(proc'[r]) => Agrees(u)'
    PROVE  OthersAgree'
<1>1. ASSUME NEW v \in Users, v # u, NeverAnOrigin(v)', v \notin HalfWritten(proc'[r])
      PROVE  Agrees(v)'
  BY <1>1, LeftAlone DEF InTurn
<1> QED
  BY <1>1, OneRequestAgrees

(* An entry that is not dated ahead keeps the ledger so. *)
LEMMA NothingAheadKept ==
    ASSUME Typed, InTurn, NEW r, Requests = {r}, clock' = clock,
           \/ ledger' = ledger
           \/ \E x : ledger' = ledger \cup {x} /\ x.at <= clock,
           proc'[r].pc \in Deciding => proc[r].pc \in Deciding /\ proc'[r].ev = proc[r].ev,
           proc'[r].pc \in PromoSteps => proc[r].pc \in PromoSteps /\ proc'[r].at = proc[r].at
    PROVE  NothingAhead'
  BY DEF InTurn, NothingAhead

(* So does an entry whose key tells the truth. *)
LEMMA KeysTellKept ==
    ASSUME InTurn, NEW x, ledger' = ledger \/ ledger' = ledger \cup {x},
           \A id \in EventIds, u \in Users :
               x.key = OriginKey(id, u) =>
                   x.user = u /\ x.at = Event[id].at /\ x.outcome = "applied",
           \A c \in Codes : /\ x.key = PromoKey(c) => redeemed[c] # None
                            /\ redeemed[c] # None => redeemed'[c] # None
    PROVE  KeysTell'
  BY DEF InTurn, KeysTell, Recorded

(* The keys of the four kinds of entry differ. *)
LEMMA KeysApart ==
    \A x, y, z :
        /\ StoreKey(x)[1] = "store" /\ OriginKey(x, y)[1] = "from"
        /\ PromoKey(x)[1] = "promo" /\ AdminKey(x)[1] = "admin"
        /\ StoreKey(x) # OriginKey(y, z) /\ StoreKey(x) # PromoKey(y)
        /\ AdminKey(x) # OriginKey(y, z) /\ AdminKey(x) # PromoKey(y)
        /\ PromoKey(x) # OriginKey(y, z)
<1>1. \A x, y : /\ StoreKey(x)[1] = "store" /\ OriginKey(x, y)[1] = "from"
                /\ PromoKey(x)[1] = "promo" /\ AdminKey(x)[1] = "admin"
  BY DEF StoreKey, OriginKey, PromoKey, AdminKey
<1> QED
  BY <1>1

(* An applied event is recorded as the newest entry; any other changes no account. *)
LEMMA RecordInTurn ==
    ASSUME Typed, InTurn, NEW r, Requests = {r}, RecordEvent(r)
    PROVE  InTurn'
<1> DEFINE q == proc[r]
           e == Event[q.ev]
           row == Entry(StoreKey(q.ev), q.user, e.at, q.outcome, Says(e, q.outcome))
<1>1. /\ q.pc = "record" /\ q.ev \in EventIds /\ q \in Procs /\ e \in EventRecords /\ e.at \in Nat
      /\ q.outcome = "applied" => q.user \in Users
  BY RequestFields, EventType DEF RecordEvent, Deciding
<1>2. /\ row.key = StoreKey(q.ev) /\ row.user = q.user /\ row.at = e.at
      /\ row.outcome = q.outcome /\ row.says = Says(e, q.outcome)
  BY DEF Entry
<1>3. ledger' = ledger \/ ledger' = ledger \cup {row}
  BY DEF RecordEvent, InsertIfAbsent
<1>4. /\ sub' = sub /\ redeemed' = redeemed /\ clock' = clock
  BY DEF RecordEvent
<1>5. e.at <= clock
  BY <1>1 DEF InTurn, NothingAhead, Deciding
<1>6. KeysTell' /\ RevokesRemember'
  <2>1. \A id \in EventIds, u \in Users : row.key # OriginKey(id, u)
    BY <1>2, KeysApart
  <2>2. \A c \in Codes : row.key # PromoKey(c)
    BY <1>2, KeysApart
  <2>3. KeysTell'
    BY <1>3, <1>4, <2>1, <2>2, KeysTellKept
  <2> QED
    BY <1>4, <2>3 DEF InTurn, RevokesRemember
<1>7. CASE EndsHere(q, row.key)
  <2>1. proc'[r] = Idle
    BY <1>7 DEF RecordEvent, Respond, Typed, TypeOK
  <2>2. HalfWritten(proc'[r]) = {} /\ HalfWritten(proc[r]) = {}
    BY <1>1, <2>1 DEF HalfWritten, Idle
  <2>3. \A v \in Users : AppliedTo(v)' = AppliedTo(v)
    <3>1. CASE Recorded(row.key)
      BY <3>1, <1>2 DEF RecordEvent, InsertIfAbsent, AppliedTo
    <3>2. CASE q.outcome # "applied"
      <4>1. row.outcome # "applied"
        BY <3>2, <1>2
      <4> QED
        BY <1>3, <4>1 DEF AppliedTo
    <3> QED
      BY <1>7, <3>1, <3>2 DEF EndsHere
  <2>4. OthersAgree'
    BY <1>3, <1>4, <2>2, <2>3, LeftAlone, OneRequestAgrees DEF InTurn
  <2>5. NothingAhead'
    BY <1>2, <1>3, <1>4, <1>5, <2>1, NothingAheadKept
       DEF Idle, Deciding, AfterRecord, TransferSteps, PromoSteps
  <2>6. HasTheNewest(proc[r])'
    BY <2>1 DEF HasTheNewest, Idle, PromoSteps
  <2> QED
    BY <1>6, <2>4, <2>5, <2>6 DEF InTurn
<1>8. CASE ~EndsHere(q, row.key)
  <2>1. /\ proc'[r].pc = NextStep(e) /\ proc'[r].ev = q.ev /\ proc'[r].user = q.user
    BY <1>1, <1>8 DEF RecordEvent, Typed, TypeOK, Procs
  <2>2. ledger' = ledger \cup {row} /\ row.outcome = "applied" /\ q.user \in Users
    BY <1>1, <1>2, <1>8 DEF RecordEvent, InsertIfAbsent, EndsHere
  <2>3. HalfWritten(proc'[r]) = {q.user} /\ HalfWritten(proc[r]) = {}
    BY <1>1, <2>1 DEF HalfWritten, NextStep
  <2>4. \A v \in Users \ {q.user} : AppliedTo(v)' = AppliedTo(v)
    BY <1>2, <2>2 DEF AppliedTo
  <2>5. OthersAgree'
    BY <1>4, <2>2, <2>3, <2>4, WritingKeeps
  <2>6. NothingAhead'
    BY <1>1, <1>2, <1>4, <1>5, <2>1, <2>2, NothingAheadKept DEF Deciding, NextStep, PromoSteps
  <2> PICK u \in Users : u = q.user
    BY <2>2
  <2>7. NewestSays(AppliedTo(u)', row.says)
    <3>1. AppliedTo(u)' = AppliedTo(u) \cup {row}
      BY <1>2, <2>2, InsertShows
    <3>2. \A other \in AppliedTo(u) : other.at <= row.at
      BY <1>1, <1>2, <2>2 DEF InTurn, HasTheNewest
    <3> QED
      BY <1>1, <1>2, <3>1, <3>2, NewestIsNew
  <2>8. HasTheNewest(proc[r])'
    <3>1. CASE e.type = "TRANSFER"
      <4>1. row.says = "active" /\ proc'[r].pc = "readOrigins"
        BY <1>2, <2>1, <2>2, <3>1 DEF Says, NextStep
      <4> QED
        BY <2>1, <2>7, <4>1 DEF HasTheNewest, PromoSteps, NewestSays, Newest
    <3>2. CASE e.type # "TRANSFER"
      <4>1. row.says = StatusOf(e.type) /\ proc'[r].pc = "load"
        BY <1>2, <2>1, <2>2, <3>2 DEF Says, NextStep
      <4> QED
        BY <2>1, <2>7, <4>1 DEF HasTheNewest, PromoSteps, NewestSays, Newest
    <3> QED
      BY <3>1, <3>2
  <2> QED
    BY <1>6, <2>5, <2>6, <2>8 DEF InTurn
<1> QED
  BY <1>7, <1>8

(* The row is written as the entry that was recorded for it says. *)
LEMMA WriteInTurn ==
    ASSUME Typed, InTurn, NEW r, Requests = {r}, WriteSubscription(r)
    PROVE  InTurn'
<1> DEFINE q == proc[r]
           e == Event[q.ev]
<1>1. /\ q.pc = "write" /\ q.ev \in EventIds /\ q.user \in Users
      /\ e \in EventRecords /\ q.row \in Rows \cup {None}
  BY RequestFields, EventType DEF WriteSubscription, Deciding, AfterRecord
<1>2. /\ proc'[r] = Idle /\ ledger' = ledger /\ redeemed' = redeemed /\ clock' = clock
      /\ sub' = [sub EXCEPT ![q.user] = EventRow(e, q.row)]
  BY DEF WriteSubscription, Respond, Typed, TypeOK
<1>3. HalfWritten(proc'[r]) = {} /\ HalfWritten(proc[r]) = {q.user}
  BY <1>1, <1>2 DEF HalfWritten, Idle
<1>4. PlanOf(sub'[q.user]) = StatusOf(e.type)
  BY <1>1, <1>2, PlansWritten DEF Typed, TypeOK
<1> PICK u \in Users : u = q.user
  BY <1>1
<1>5. Agrees(u)'
  <2>1. NewestSays(AppliedTo(u), StatusOf(e.type))
    BY <1>1 DEF InTurn, HasTheNewest
  <2>2. AppliedTo(u)' = AppliedTo(u)
    BY <1>2 DEF AppliedTo
  <2> QED
    BY <1>4, <2>1, <2>2, NoEventRevokes, WrittenAgreesNext
<1>6. OthersAgree'
  <2>1. \A v \in Users \ {u} : AppliedTo(v)' = AppliedTo(v) /\ sub'[v] = sub[v]
    BY <1>2 DEF AppliedTo, Typed, TypeOK
  <2> QED
    BY <1>2, <1>3, <1>5, <2>1, WritingKeeps
<1>7. NothingAhead'
  BY <1>2, NothingAheadKept DEF Idle, Deciding, AfterRecord, TransferSteps, PromoSteps
<1>8. KeysTell'
  BY <1>2 DEF InTurn, KeysTell, Recorded
<1>9. RevokesRemember'
  BY <1>2, <1>4, NoEventRevokes DEF InTurn, RevokesRemember, PlanOf, Typed, TypeOK
<1>10. HasTheNewest(proc[r])'
  BY <1>2 DEF HasTheNewest, Idle, PromoSteps
<1> QED
  BY <1>6, <1>7, <1>8, <1>9, <1>10 DEF InTurn

(* The move writes the destination as its entry says and leaves the origins half written. *)
LEMMA MoveInTurn ==
    ASSUME Typed, InTurn, NEW r, Requests = {r}, MoveSubscription(r)
    PROVE  InTurn'
<1> DEFINE q == proc[r]
           from == FromUsers(Event[q.ev], q.user)
<1>1. /\ q.pc = "move" /\ q.ev \in EventIds /\ q.user \in Users /\ q \in Procs
      /\ q.row \in Rows \cup {None}
  BY RequestFields DEF MoveSubscription, Deciding, AfterRecord, TransferSteps
<1>2. q.left = {u \in from : sub[u] # None} /\ q.user \notin from /\ from \subseteq Users
  BY <1>1 DEF InTurn, HasTheNewest, FromUsers
<1>3. ledger' = ledger /\ redeemed' = redeemed /\ clock' = clock
  BY DEF MoveSubscription
<1> PICK u \in Users : u = q.user
  BY <1>1
<1>4. sub' = [v \in Users |->
                CASE v = u -> TransferredRow(q.row)
                  [] v \in from /\ sub[v] # None -> ExpiredOrigin(sub[v])
                  [] OTHER -> sub[v]]
  BY DEF MoveSubscription
<1>5. /\ PlanOf(sub'[u]) = "active"
      /\ \A v \in Users : v # u /\ v \notin q.left => sub'[v] = sub[v]
      /\ \A v \in q.left : sub'[v] = ExpiredOrigin(sub[v])
  <2>1. sub'[u] = TransferredRow(q.row)
    BY <1>2, <1>4
  <2>2. PlanOf(sub'[u]) = "active"
    BY <1>1, <2>1, PlansWritten
  <2> QED
    BY <1>2, <1>4, <2>2
<1>6. /\ HalfWritten(proc[r]) = {u} /\ HalfWritten(proc'[r]) = q.left
      /\ proc'[r].pc \in {"idle", "logOrigins"}
      /\ proc'[r].pc = "logOrigins" => proc'[r].ev = q.ev
  <2>1. CASE q.left = {}
    <3>1. proc'[r] = Idle
      BY <2>1 DEF MoveSubscription, Respond, Typed, TypeOK
    <3> QED
      BY <1>1, <2>1, <3>1 DEF HalfWritten, Idle
  <2>2. CASE q.left # {}
    <3>1. proc'[r].pc = "logOrigins" /\ proc'[r].left = q.left /\ proc'[r].ev = q.ev
      BY <1>1, <2>2 DEF MoveSubscription, Typed, TypeOK, Procs
    <3> QED
      BY <1>1, <3>1 DEF HalfWritten
  <2> QED
    BY <2>1, <2>2
<1>7. \A v \in Users : AppliedTo(v)' = AppliedTo(v)
  BY <1>3 DEF AppliedTo
<1>8. Agrees(u)'
  <2>1. NewestSays(AppliedTo(u), "active")
    BY <1>1 DEF InTurn, HasTheNewest
  <2> QED
    BY <1>5, <1>7, <2>1, WrittenAgreesNext
<1>9. OthersAgree'
  <2>1. ASSUME NEW v \in Users, NeverAnOrigin(v)', v \notin HalfWritten(proc'[r])
        PROVE  Agrees(v)'
    <3>1. CASE v = u
      BY <1>8, <3>1
    <3>2. CASE v # u
      BY <1>3, <1>5, <1>6, <1>7, <2>1, <3>2, LeftAlone DEF InTurn
    <3> QED
      BY <3>1, <3>2
  <2> QED
    BY <2>1, OneRequestAgrees
<1>10. NothingAhead'
  BY <1>1, <1>3, <1>6, NothingAheadKept DEF Deciding, AfterRecord, TransferSteps, PromoSteps
<1>11. KeysTell'
  BY <1>3 DEF InTurn, KeysTell, Recorded
<1>12. RevokesRemember'
  <2>1. sub'[u] # None => sub'[u].status # "revoked"
    BY <1>5 DEF PlanOf
  <2>2. \A v \in q.left : sub'[v].status = "expired"
    <3>1. \A row \in Rows : ExpiredOrigin(row).status = "expired"
      BY DEF ExpiredOrigin, Rows
    <3>2. \A v \in q.left : v \in Users /\ sub[v] \in Rows
      BY <1>2 DEF Typed, TypeOK
    <3> QED
      BY <1>5, <3>1, <3>2
  <2>3. \A v \in Users : v # u /\ v \notin q.left => sub'[v] = sub[v]
    BY <1>5
  <2> QED
    BY <2>1, <2>2, <2>3 DEF InTurn, RevokesRemember
<1>13. HasTheNewest(proc[r])'
  BY <1>6 DEF HasTheNewest, PromoSteps
<1> QED
  BY <1>9, <1>10, <1>11, <1>12, <1>13 DEF InTurn

(* Once it is logged, an origin is an origin for good. *)
LEMMA LogOriginInTurn ==
    ASSUME Typed, InTurn, NEW r, Requests = {r}, NEW u \in Users, LogOrigin(r, u)
    PROVE  InTurn'
<1> DEFINE q == proc[r]
           row == Entry(OriginKey(q.ev, u), u, Event[q.ev].at, "applied", "expired")
<1>1. /\ q.pc = "logOrigins" /\ q.ev \in EventIds /\ u \in q.left /\ q \in Procs
  BY RequestFields DEF LogOrigin, Deciding, AfterRecord, TransferSteps
<1>2. /\ row.key = OriginKey(q.ev, u) /\ row.user = u /\ row.at = Event[q.ev].at
      /\ row.outcome = "applied"
  BY DEF Entry
<1>3. /\ ledger' = ledger \/ ledger' = ledger \cup {row}
      /\ \E x \in ledger' : x.key = row.key
      /\ ledger \subseteq ledger'
  BY DEF LogOrigin, InsertIfAbsent, Recorded
<1>4. sub' = sub /\ redeemed' = redeemed /\ clock' = clock
  BY DEF LogOrigin
<1>5. KeysTell'
  <2>1. \A c \in Codes : row.key # PromoKey(c)
    BY <1>2, KeysApart
  <2>2. \A id \in EventIds, v \in Users :
            row.key = OriginKey(id, v) => row.user = v /\ row.at = Event[id].at
    <3>1. \A id, v : OriginKey(id, v)[2] = id /\ OriginKey(id, v)[3] = v
      BY DEF OriginKey
    <3> QED
      BY <1>2, <3>1
  <2> QED
    BY <1>2, <1>3, <1>4, <2>1, <2>2, KeysTellKept
<1>6. ~NeverAnOrigin(u)'
  <2>1. PICK x \in ledger' : x.key = row.key
    BY <1>3
  <2>2. x.user = u /\ x.outcome = "applied"
    BY <1>1, <1>2, <1>5, <2>1 DEF KeysTell
  <2>3. x.key[1] = "from"
    BY <1>2, <2>1, KeysApart
  <2> QED
    BY <2>1, <2>2, <2>3 DEF NeverAnOrigin, AppliedTo
<1>7. /\ HalfWritten(proc[r]) \subseteq HalfWritten(proc'[r]) \cup {u}
      /\ proc'[r].pc \in {"idle", "logOrigins"}
      /\ proc'[r].pc = "logOrigins" => proc'[r].ev = q.ev
  <2>1. CASE q.left = {u}
    <3>1. proc'[r] = Idle
      BY <2>1 DEF LogOrigin, OriginLogged, Respond, Typed, TypeOK
    <3> QED
      BY <1>1, <2>1, <3>1 DEF HalfWritten, Idle
  <2>2. CASE q.left # {u}
    <3>1. proc'[r].pc = "logOrigins" /\ proc'[r].left = q.left \ {u} /\ proc'[r].ev = q.ev
      BY <1>1, <2>2 DEF LogOrigin, OriginLogged, Typed, TypeOK, Procs
    <3> QED
      BY <1>1, <3>1 DEF HalfWritten
  <2> QED
    BY <2>1, <2>2
<1>8. OthersAgree'
  <2>1. \A v \in Users \ {u} : AppliedTo(v)' = AppliedTo(v) /\ sub'[v] = sub[v]
    BY <1>2, <1>3, <1>4 DEF AppliedTo
  <2> QED
    BY <1>3, <1>6, <1>7, <2>1, WritingKeeps
<1>9. NothingAhead'
  <2>1. row.at <= clock
    BY <1>1, <1>2 DEF InTurn, NothingAhead, Deciding, AfterRecord, TransferSteps
  <2> QED
    BY <1>1, <1>3, <1>4, <1>7, <2>1, NothingAheadKept DEF Deciding, AfterRecord, TransferSteps, PromoSteps
<1>10. RevokesRemember'
  BY <1>4 DEF InTurn, RevokesRemember
<1>11. HasTheNewest(proc[r])'
  BY <1>7 DEF HasTheNewest, PromoSteps
<1> QED
  BY <1>5, <1>8, <1>9, <1>10, <1>11 DEF InTurn

(* A code that is free to claim has no entry yet. *)
LEMMA ClaimInTurn ==
    ASSUME Typed, InTurn, NEW r, Requests = {r}, ClaimCode(r)
    PROVE  InTurn'
<1> DEFINE q == proc[r]
<1>1. q.pc = "claim" /\ q.code \in Codes /\ q.user \in Users /\ q \in Procs /\ q.user # None
  BY RequestFields, EventAssumption DEF ClaimCode, PromoSteps
<1>2. ledger' = ledger /\ sub' = sub /\ clock' = clock
  BY DEF ClaimCode
<1>3. \/ proc'[r].pc = "idle"
      \/ /\ proc'[r].pc = "grant" /\ proc'[r].user = q.user /\ proc'[r].at = q.at
         /\ proc'[r].code = q.code /\ redeemed[q.code] = None
         /\ redeemed'[q.code] # None
  BY <1>1 DEF ClaimCode, Typed, TypeOK, Procs, Idle
<1>4. \A c \in Codes : redeemed[c] # None => redeemed'[c] # None
  BY <1>1 DEF ClaimCode, Typed, TypeOK
<1>5. OthersAgree'
  <2>1. HalfWritten(proc[r]) = {}
    BY <1>1 DEF HalfWritten
  <2>2. \A v \in Users : AppliedTo(v)' = AppliedTo(v) /\ sub'[v] = sub[v]
    BY <1>2 DEF AppliedTo
  <2> QED
    BY <1>2, <2>1, <2>2, LeftAlone, OneRequestAgrees DEF InTurn
<1>6. NothingAhead'
  BY <1>1, <1>2, <1>3, NothingAheadKept DEF Deciding, AfterRecord, TransferSteps, PromoSteps
<1>7. KeysTell'
  BY <1>2, <1>4 DEF InTurn, KeysTell, Recorded
<1>8. RevokesRemember'
  BY <1>2 DEF InTurn, RevokesRemember
<1>9. HasTheNewest(proc[r])'
  <2>1. \A row \in AppliedTo(q.user) : row.at <= q.at
    BY <1>1 DEF InTurn, HasTheNewest, PromoSteps
  <2>2. redeemed[q.code] = None => ~Recorded(PromoKey(q.code))
    BY <1>1 DEF InTurn, KeysTell
  <2> QED
    BY <1>2, <1>3, <2>1, <2>2 DEF HasTheNewest, PromoSteps, AppliedTo, Recorded
<1> QED
  BY <1>5, <1>6, <1>7, <1>8, <1>9 DEF InTurn

(* The grant writes the row first; its entry, dated when the code was read, is then the newest. *)
LEMMA GrantInTurn ==
    ASSUME Typed, InTurn, NEW r, Requests = {r}, GrantPromo(r)
    PROVE  InTurn'
<1> DEFINE q == proc[r]
<1>1. q.pc = "grant" /\ q.code \in Codes /\ q.user \in Users /\ q \in Procs /\ q.at \in Nat
  BY RequestFields DEF GrantPromo, PromoSteps
<1>2. /\ ledger' = ledger /\ redeemed' = redeemed /\ clock' = clock
      /\ sub' = [sub EXCEPT ![q.user] =
            UpsertedRow("active", "promo", q.at + Term[q.code], None, TRUE)]
  BY DEF GrantPromo
<1>3. /\ proc'[r].pc = "logPromo" /\ proc'[r].user = q.user /\ proc'[r].at = q.at
      /\ proc'[r].code = q.code
  BY <1>1 DEF GrantPromo, Typed, TypeOK, Procs
<1>4. PlanOf(sub'[q.user]) = "active"
  <2>1. q.at + Term[q.code] \in Nat
    BY <1>1, CodeAssumption
  <2> QED
    BY <1>1, <1>2, <2>1, PlansWritten DEF Typed, TypeOK
<1>5. OthersAgree'
  <2>1. HalfWritten(proc[r]) = {} /\ HalfWritten(proc'[r]) = {q.user}
    BY <1>1, <1>3 DEF HalfWritten
  <2>2. \A v \in Users \ {q.user} : AppliedTo(v)' = AppliedTo(v) /\ sub'[v] = sub[v]
    BY <1>2 DEF AppliedTo, Typed, TypeOK
  <2> QED
    BY <1>2, <2>1, <2>2, WritingKeeps
<1>6. NothingAhead'
  BY <1>1, <1>2, <1>3, NothingAheadKept DEF Deciding, AfterRecord, TransferSteps, PromoSteps
<1>7. KeysTell'
  BY <1>2 DEF InTurn, KeysTell, Recorded
<1>8. RevokesRemember'
  <2>1. \A v \in Users : v # q.user => sub'[v] = sub[v]
    BY <1>2 DEF Typed, TypeOK
  <2>2. sub'[q.user] # None => sub'[q.user].status # "revoked"
    BY <1>4 DEF PlanOf
  <2> QED
    BY <2>1, <2>2 DEF InTurn, RevokesRemember
<1>9. HasTheNewest(proc[r])'
  <2>1. (\A row \in AppliedTo(q.user) : row.at <= q.at) /\ ~Recorded(PromoKey(q.code))
    BY <1>1 DEF InTurn, HasTheNewest, PromoSteps
  <2>2. redeemed[q.code] # None
    BY <1>1 DEF InTurn, HasTheNewest
  <2> QED
    BY <1>2, <1>3, <1>4, <2>1, <2>2 DEF HasTheNewest, PromoSteps, AppliedTo, Recorded
<1> QED
  BY <1>5, <1>6, <1>7, <1>8, <1>9 DEF InTurn

(* The entry of a redemption is new and says what the grant wrote. *)
LEMMA LogPromoInTurn ==
    ASSUME Typed, InTurn, NEW r, Requests = {r}, LogPromo(r)
    PROVE  InTurn'
<1> DEFINE q == proc[r]
           row == Entry(PromoKey(q.code), q.user, q.at, "applied", "active")
<1>1. q.pc = "logPromo" /\ q.code \in Codes /\ q.user \in Users /\ q \in Procs /\ q.at \in Nat
  BY RequestFields DEF LogPromo, PromoSteps
<1>2. /\ row.key = PromoKey(q.code) /\ row.user = q.user /\ row.at = q.at
      /\ row.outcome = "applied" /\ row.says = "active"
  BY DEF Entry
<1>3. /\ ~Recorded(PromoKey(q.code)) /\ PlanOf(sub[q.user]) = "active"
      /\ \A x \in AppliedTo(q.user) : x.at <= q.at
  BY <1>1 DEF InTurn, HasTheNewest, PromoSteps
<1>4. /\ ledger' = ledger \cup {row} /\ sub' = sub /\ redeemed' = redeemed /\ clock' = clock
      /\ proc'[r] = Idle
  BY <1>2, <1>3 DEF LogPromo, InsertIfAbsent, Typed, TypeOK
<1> PICK u \in Users : u = q.user
  BY <1>1
<1>5. Agrees(u)'
  <2>1. AppliedTo(u)' = AppliedTo(u) \cup {row}
    BY <1>2, <1>4, InsertShows
  <2>2. NewestSays(AppliedTo(u)', row.says)
    BY <1>1, <1>2, <1>3, <2>1, NewestIsNew
  <2> QED
    BY <1>2, <1>3, <1>4, <2>2, WrittenAgreesNext
<1>6. OthersAgree'
  <2>1. HalfWritten(proc'[r]) = {} /\ HalfWritten(proc[r]) = {u}
    BY <1>1, <1>4 DEF HalfWritten, Idle
  <2>2. \A v \in Users \ {u} : AppliedTo(v)' = AppliedTo(v) /\ sub'[v] = sub[v]
    BY <1>2, <1>4 DEF AppliedTo
  <2> QED
    BY <1>4, <1>5, <2>1, <2>2, WritingKeeps
<1>7. NothingAhead'
  <2>1. row.at <= clock
    BY <1>1, <1>2 DEF InTurn, NothingAhead, PromoSteps
  <2> QED
    BY <1>4, <2>1, NothingAheadKept DEF Idle, Deciding, AfterRecord, TransferSteps, PromoSteps
<1>8. KeysTell'
  <2>1. \A id \in EventIds, v \in Users : row.key # OriginKey(id, v)
    BY <1>2, KeysApart
  <2>2. redeemed[q.code] # None
    BY <1>1 DEF InTurn, HasTheNewest
  <2>3. \A c \in Codes : row.key = PromoKey(c) => redeemed[c] # None
    <3>1. \A c : PromoKey(c)[2] = c
      BY DEF PromoKey
    <3> QED
      BY <1>2, <2>2, <3>1
  <2> QED
    BY <1>4, <2>1, <2>3, KeysTellKept
<1>9. RevokesRemember'
  BY <1>4 DEF InTurn, RevokesRemember
<1>10. HasTheNewest(proc[r])'
  BY <1>4 DEF HasTheNewest, Idle, PromoSteps
<1> QED
  BY <1>6, <1>7, <1>8, <1>9, <1>10 DEF InTurn

(* What the admin's two writes do to a row: a revoke covers the plan beneath, an undo lays it bare. *)
LEMMA RevokedRowIs ==
    ASSUME NEW row \in Rows \cup {None}, row # None /\ row.status = "revoked" => row.pre \notin {None, "revoked"}
    PROVE  /\ RevokedRow(row) # None /\ RevokedRow(row).status = "revoked"
           /\ RevokedRow(row).pre \notin {None, "revoked"}
           /\ PlanBeneath(RevokedRow(row)) = PlanBeneath(row)
<1>1. RevokedRow(row) \in Rows /\ RevokedRow(row) # None
  BY RevokedRowType, NullIsNoStatus
<1>2. CASE row = None
  BY <1>1, <1>2, NullIsNoStatus DEF RevokedRow, PlanBeneath, PlanOf
<1>3. CASE row # None
  <2>1. /\ RevokedRow(row).status = "revoked" /\ RevokedRow(row).pre = PreRevokeStatusFor(row)
    BY <1>3 DEF RevokedRow, Rows
  <2>2. row.status \in Statuses /\ row.status # "none" /\ row.status # None
    BY <1>3, NullIsNoStatus DEF Rows, Statuses
  <2>3. PreRevokeStatusFor(row) = IF row.status = "revoked" THEN row.pre ELSE row.status
    BY <1>3 DEF PreRevokeStatusFor
  <2> QED
    BY <1>1, <1>3, <2>1, <2>2, <2>3 DEF PlanBeneath, PlanOf
<1> QED
  BY <1>2, <1>3

LEMMA ReactivatedRowIs ==
    ASSUME NEW row \in Rows \cup {None}, CanReactivate(row)
    PROVE  /\ PlanOf(ReactivatedRow(row)) = PlanBeneath(row)
           /\ PlanBeneath(row) = IF row.pre = "none" THEN None ELSE row.pre
<1>1. row # None /\ row \in Rows /\ row.status = "revoked"
  BY DEF CanReactivate
<1>2. CASE row.pre = "none"
  BY <1>1, <1>2 DEF ReactivatedRow, PlanOf, PlanBeneath
<1>3. CASE row.pre # "none"
  <2>1. ReactivatedRow(row) # None /\ ReactivatedRow(row).status = row.pre
    <3>1. ReactivatedRow(row) \in Rows \cup {None} /\ row.pre \in Statuses
      BY <1>3, ReactivatedRowType
    <3>2. ReactivatedRow(row) = [row EXCEPT !.status = row.pre, !.revoked = FALSE, !.pre = None]
      BY <1>3 DEF ReactivatedRow
    <3>3. ReactivatedRow(row) \in Rows
      BY <1>1, <3>1, <3>2 DEF Rows
    <3> QED
      BY <1>1, <3>2, <3>3, NullIsNoStatus DEF Rows
  <2> QED
    BY <1>1, <1>3, <2>1 DEF PlanOf, PlanBeneath
<1> QED
  BY <1>2, <1>3

(* The parts of the invariant an admin's transaction does not endanger. *)
LEMMA AdminKeeps ==
    ASSUME Typed, InTurn, NEW r, Requests = {r}, NEW u \in Users, NEW says,
           proc[r].pc = "idle", LogAdmin(u, says),
           redeemed' = redeemed, proc' = proc, clock' = clock,
           \A v \in Users \ {u} : sub'[v] = sub[v],
           Agrees(u) /\ NeverAnOrigin(u)' => Agrees(u)',
           sub'[u] # None /\ sub'[u].status = "revoked" => sub'[u].pre \notin {None, "revoked"}
    PROVE  InTurn'
<1> DEFINE row == Entry(AdminKey(spent["admin"]), u, clock, "applied", says)
<1>1. /\ ledger' = ledger \cup {row} /\ row.key = AdminKey(spent["admin"])
      /\ row.user = u /\ row.at = clock
  BY DEF LogAdmin, Entry
<1>2. HalfWritten(proc[r]) = {} /\ HalfWritten(proc'[r]) = {}
  BY DEF HalfWritten
<1>3. OthersAgree'
  <2>1. \A v \in Users \ {u} : AppliedTo(v)' = AppliedTo(v)
    BY <1>1 DEF AppliedTo
  <2>2. NeverAnOrigin(u)' => Agrees(u)'
    BY <1>1, <1>2, OnceAnOrigin, OneRequestAgrees DEF InTurn
  <2> QED
    BY <1>1, <1>2, <2>1, <2>2, WritingKeeps
<1>4. NothingAhead'
  BY <1>1, NothingAheadKept DEF Deciding, AfterRecord, TransferSteps, PromoSteps, Typed, TypeOK
<1>5. KeysTell'
  <2>1. /\ \A id \in EventIds, v \in Users : row.key # OriginKey(id, v)
        /\ \A c \in Codes : row.key # PromoKey(c)
    BY <1>1, KeysApart
  <2> QED
    BY <1>1, <2>1, KeysTellKept
<1>6. RevokesRemember'
  BY DEF InTurn, RevokesRemember
<1>7. HasTheNewest(proc[r])'
  BY DEF HasTheNewest, PromoSteps
<1> QED
  BY <1>3, <1>4, <1>5, <1>6, <1>7 DEF InTurn

(* What a transaction of the admin adds to an account's entries. *)
LEMMA AdminEntry ==
    ASSUME Typed, InTurn, NEW u \in Users, NEW says, LogAdmin(u, says)
    PROVE  \E row : /\ AppliedTo(u)' = AppliedTo(u) \cup {row} /\ row.says = says
                    /\ NewestSays(AppliedTo(u)', says)
<1> DEFINE row == Entry(AdminKey(spent["admin"]), u, clock, "applied", says)
<1>1. /\ ledger' = ledger \cup {row} /\ row.user = u /\ row.outcome = "applied"
      /\ row.at = clock /\ row.says = says /\ clock \in Nat
  BY DEF LogAdmin, Entry, Typed, TypeOK
<1>2. AppliedTo(u)' = AppliedTo(u) \cup {row}
  BY <1>1, InsertShows
<1>3. \A other \in AppliedTo(u) : other.at <= row.at
  BY <1>1 DEF InTurn, NothingAhead, AppliedTo
<1>4. NewestSays(AppliedTo(u) \cup {row}, row.says)
  BY <1>1, <1>3, NewestIsNew
<1> QED
  BY <1>1, <1>2, <1>4

(* A revoke adds a newest entry and leaves what lies beneath. *)
LEMMA RevokeInTurn ==
    ASSUME Typed, InTurn, NEW r, Requests = {r}, NEW u \in AdminOn, RevokeSubscription(r, u)
    PROVE  InTurn'
<1>1. u \in Users /\ sub[u] \in Rows \cup {None}
  BY BoundAssumption DEF Typed, TypeOK
<1>2. /\ proc[r].pc = "idle" /\ LogAdmin(u, "revoked")
      /\ redeemed' = redeemed /\ proc' = proc /\ clock' = clock
      /\ sub'[u] = RevokedRow(sub[u]) /\ \A v \in Users \ {u} : sub'[v] = sub[v]
  BY <1>1 DEF RevokeSubscription, Typed, TypeOK
<1>3. /\ sub'[u] # None /\ sub'[u].status = "revoked"
      /\ sub'[u].pre \notin {None, "revoked"} /\ PlanBeneath(sub'[u]) = PlanBeneath(sub[u])
  BY <1>1, <1>2, RevokedRowIs DEF InTurn, RevokesRemember
<1>4. ASSUME Agrees(u) PROVE Agrees(u)'
  <2>1. PICK row : /\ AppliedTo(u)' = AppliedTo(u) \cup {row} /\ row.says = "revoked"
                   /\ NewestSays(AppliedTo(u)', "revoked")
    BY <1>1, <1>2, AdminEntry
  <2>2. Unrevoked(u)' = Unrevoked(u)
    BY <2>1 DEF Unrevoked
  <2>3. PlanOf(sub'[u]) = "revoked"
    BY <1>3 DEF PlanOf
  <2>4. NewestSays(AppliedTo(u), PlanOf(sub[u]))' <=> NewestSays(AppliedTo(u)', "revoked")
    BY <2>3 DEF NewestSays, Newest
  <2>5. IF Unrevoked(u)' = {} THEN PlanBeneath(sub'[u]) = None
        ELSE NewestSays(Unrevoked(u)', PlanBeneath(sub'[u]))
    BY <1>3, <1>4, <2>2 DEF Agrees
  <2> QED
    BY <2>1, <2>3, <2>5 DEF Agrees
<1> QED
  BY <1>1, <1>2, <1>3, <1>4, AdminKeeps

(* An undo writes the plan beneath, and an entry that says so. *)
LEMMA ReactivateInTurn ==
    ASSUME Typed, InTurn, NEW r, Requests = {r}, NEW u \in AdminOn, ReactivateSubscription(r, u)
    PROVE  InTurn'
<1>1. u \in Users /\ sub[u] \in Rows \cup {None} /\ CanReactivate(sub[u])
  BY BoundAssumption DEF ReactivateSubscription, Typed, TypeOK
<1> DEFINE says == IF sub[u].pre = "none" THEN None ELSE sub[u].pre
<1>2. /\ proc[r].pc = "idle" /\ LogAdmin(u, says)
      /\ redeemed' = redeemed /\ proc' = proc /\ clock' = clock
      /\ sub'[u] = ReactivatedRow(sub[u]) /\ \A v \in Users \ {u} : sub'[v] = sub[v]
  BY <1>1 DEF ReactivateSubscription, Typed, TypeOK
<1>3. PlanOf(sub'[u]) = says
  BY <1>1, <1>2, ReactivatedRowIs
<1>4. says # "revoked"
  BY <1>1, NullIsNoStatus DEF CanReactivate, InTurn, RevokesRemember, Statuses
<1>5. Agrees(u)'
  <2> HIDE DEF says
  <2>1. NewestSays(AppliedTo(u)', says)
    BY <1>1, <1>2, AdminEntry
  <2> QED
    BY <1>3, <1>4, <2>1, WrittenAgreesNext
<1>6. sub'[u] = None \/ sub'[u].status # "revoked"
  BY <1>3, <1>4 DEF PlanOf
<1> HIDE DEF says
<1> QED
  BY <1>1, <1>2, <1>5, <1>6, AdminKeeps

(* The empty tables agree. *)
LEMMA InTurnInit == ASSUME NEW r, Requests = {r}, Init PROVE InTurn
<1>1. proc[r] = Idle /\ ledger = {} /\ clock = 0
  BY DEF Init
<1>2. \A u \in Users : Agrees(u)
  BY <1>1 DEF Init, Agrees, AppliedTo, Unrevoked, PlanBeneath, PlanOf
<1>3. HasTheNewest(proc[r])
  BY <1>1 DEF HasTheNewest, Idle, PromoSteps
<1>4. OthersAgree /\ KeysTell
  BY <1>1, <1>2 DEF OthersAgree, KeysTell, Recorded
<1>5. NothingAhead
  BY <1>1 DEF NothingAhead, Idle, Deciding, AfterRecord, TransferSteps, PromoSteps
<1> QED
  BY <1>3, <1>4, <1>5 DEF Init, InTurn, RevokesRemember

(* With one request that never dies, every step keeps the invariant. *)
LEMMA InTurnNext ==
    ASSUME NEW r, Requests = {r}, MaxFaults = 0, Typed, InTurn, [Next]_vars
    PROVE  InTurn'
<1>1. ASSUME Spend("faults", MaxFaults) PROVE FALSE
  BY <1>1 DEF Spend, Typed, TypeOK
<1>2. CASE Continue(r)
  BY <1>2, RecordInTurn, LoadInTurn, WriteInTurn, ReadOriginsInTurn, MoveInTurn,
     LogOriginInTurn, CheckLiveInTurn, ClaimInTurn, GrantInTurn, LogPromoInTurn DEF Continue
<1>3. ASSUME NEW id \in EventIds, ReceiveEvent(r, id) PROVE InTurn'
  BY <1>3, ReceiveInTurn
<1>4. ASSUME NEW c \in Codes, RedeemPromoCode(r, c) PROVE InTurn'
  BY <1>4, RedeemInTurn
<1>5. ASSUME NEW u \in AdminOn, RevokeSubscription(r, u) \/ ReactivateSubscription(r, u)
      PROVE  InTurn'
  BY <1>5, RevokeInTurn, ReactivateInTurn
<1>6. ASSUME NEW u \in Users, LogOriginFails(r, u) PROVE FALSE
  BY <1>1, <1>6 DEF LogOriginFails
<1>7. CASE Crash(r)
  BY <1>1, <1>7 DEF Crash
<1>8. CASE UNCHANGED vars
  <2>1. HalfWritten(proc[r]) \subseteq HalfWritten(proc'[r])
    BY <1>8 DEF vars
  <2>2. HasTheNewest(proc[r])'
    BY <1>8 DEF vars, InTurn, HasTheNewest, AppliedTo, NewestSays, Newest, Recorded, PlanOf
  <2> QED
    BY <1>8, <2>1, <2>2, ReadingKeeps DEF vars, InTurn, NothingAhead, Typed, TypeOK
<1> QED
  BY <1>2, <1>3, <1>4, <1>5, <1>6, <1>7, <1>8, TickInTurn DEF Next

(* Between requests every account that was never an origin agrees with its ledger. *)
LEMMA InTurnSays ==
    ASSUME NEW r, Requests = {r}, Typed, InTurn
    PROVE  NewestEntrySays /\ UndoRestoresWhatWas
<1>1. ASSUME Quiet, NEW u \in Users, NeverAnOrigin(u) PROVE Agrees(u)
  <2>1. HalfWritten(proc[r]) = {}
    BY <1>1 DEF Quiet, HalfWritten
  <2> QED
    BY <1>1, <2>1, OneRequestAgrees DEF InTurn
<1>2. NewestEntrySays
  BY <1>1 DEF NewestEntrySays, Agrees, NewestSays, PlanOf
<1>3. UndoRestoresWhatWas
  <2> SUFFICES ASSUME Quiet, NEW u \in Users, NeverAnOrigin(u), sub[u] # None,
                      sub[u].status = "revoked"
               PROVE  /\ CanReactivate(sub[u])
                      /\ IF Newest(Unrevoked(u)) = {} THEN sub[u].pre = "none"
                         ELSE \E row \in Newest(Unrevoked(u)) :
                                sub[u].pre = IF row.says = None THEN "none" ELSE row.says
    BY DEF UndoRestoresWhatWas, Unrevoked
  <2>1. sub[u].pre # None /\ PlanBeneath(sub[u]) = IF sub[u].pre = "none" THEN None ELSE sub[u].pre
    BY DEF InTurn, RevokesRemember, PlanBeneath
  <2>2. CanReactivate(sub[u])
    BY <2>1 DEF CanReactivate
  <2>3. CASE Unrevoked(u) = {}
    BY <1>1, <2>1, <2>2, <2>3 DEF Agrees, Newest
  <2>4. CASE Unrevoked(u) # {}
    <3>1. PICK row \in Newest(Unrevoked(u)) : row.says = PlanBeneath(sub[u])
      BY <1>1, <2>4 DEF Agrees, NewestSays
    <3>2. sub[u].pre = IF row.says = None THEN "none" ELSE row.says
      BY <2>1, <3>1
    <3> QED
      BY <2>2, <3>1, <3>2
  <2> QED
    BY <2>3, <2>4
<1> QED
  BY <1>2, <1>3

(* When deliveries are handled one at a time and no request dies, an account's plan is what the *)
(* newest entry applied to it says, in whatever order the store's events arrive.                *)
THEOREM PlanFollowsLedger ==
    ASSUME NEW r, Requests = {r}, MaxFaults = 0
    PROVE  Spec => []NewestEntrySays
<1>1. Init => Typed /\ InTurn
  BY TypedInit, InTurnInit
<1>2. Typed /\ InTurn /\ [Next]_vars => (Typed /\ InTurn)'
  BY TypedNext, InTurnNext
<1>3. Typed /\ InTurn => NewestEntrySays
  BY InTurnSays
<1> QED
  BY <1>1, <1>2, <1>3, PTL DEF Spec

(* Under the same conditions an undo gives back what the newest entry before the revokes said, *)
(* however many revokes came one after the other.                                              *)
THEOREM UndoRestores ==
    ASSUME NEW r, Requests = {r}, MaxFaults = 0
    PROVE  Spec => []UndoRestoresWhatWas
<1>1. Init => Typed /\ InTurn
  BY TypedInit, InTurnInit
<1>2. Typed /\ InTurn /\ [Next]_vars => (Typed /\ InTurn)'
  BY TypedNext, InTurnNext
<1>3. Typed /\ InTurn => UndoRestoresWhatWas
  BY InTurnSays
<1> QED
  BY <1>1, <1>2, <1>3, PTL DEF Spec

-----------------------------------------------------------------------------
(* What is told promptly has happened by the time anything later arrives *)

(* An event is about one account of ours at most. *)
LEMMA OneAddressee ==
    ASSUME NEW id \in EventIds, NEW u \in Users \cup {None}, IsAddressee(Event[id], u)
    PROVE  /\ \A v : Counts(id, v) => v = u
           /\ DecideFromEvent(Event[id], u) = "applied" => Counts(id, u)
<1>1. "TRANSFER" \notin MappedTypes
  BY DEF MappedTypes, PurchaseTypes
<1>2. ASSUME NEW v, Counts(id, v) PROVE v = u
  <2>1. CASE MovesTo(id, v)
    BY <2>1 DEF MovesTo, IsAddressee, IsDestination
  <2>2. CASE Reports(id, v)
    BY <1>1, <1>2, <2>2 DEF Counts, Reports, IsAddressee
  <2> QED
    BY <1>2, <2>1, <2>2 DEF Counts
<1>3. ASSUME DecideFromEvent(Event[id], u) = "applied" PROVE Counts(id, u)
  <2>1. u \in Users /\ (Event[id].type = "TRANSFER" \/ Event[id].type \in MappedTypes)
    BY <1>3 DEF DecideFromEvent
  <2>2. CASE Event[id].type = "TRANSFER"
    BY <2>1, <2>2 DEF Counts, MovesTo, IsAddressee
  <2>3. CASE Event[id].type # "TRANSFER"
    <3>1. u = Event[id].user
      BY <2>1, <2>3, EventAssumption DEF IsAddressee
    <3> QED
      BY <2>1, <2>3, <3>1 DEF Counts, Reports
  <2> QED
    BY <2>2, <2>3
<1> QED
  BY <1>2, <1>3

(* The keys of different events differ. *)
LEMMA StoreKeysDiffer == \A x, y : StoreKey(x) = StoreKey(y) => x = y
<1>1. \A x : StoreKey(x)[2] = x
  BY DEF StoreKey
<1> QED
  BY <1>1

(* What has been logged stays so. *)
LEMMA LogsStay ==
    ASSUME ledger \subseteq ledger', NEW u, NEW at
    PROVE  /\ LoggedAt(u, at) => LoggedAt(u, at)'
           /\ \A key : Recorded(key) => Recorded(key)'
  BY DEF LoggedAt, AppliedTo, Recorded

(* A step that neither records nor applies an event of the store. *)
LEMMA EventsKept ==
    ASSUME EventsInTurn, ledger \subseteq ledger', clock' = clock, answered \subseteq answered',
           \A id \in answered' : id \in answered \/ Recorded(StoreKey(id)),
           \A id \in EventIds : /\ Recorded(StoreKey(id))' => Recorded(StoreKey(id))
                                /\ Happened(id)' <=> Happened(id)
                                /\ InHand(id) => InHand(id)' \/ Happened(id)
    PROVE  EventsInTurn'
<1>1. Prompt \subseteq EventIds
  BY BoundAssumption
<1>2. \A id \in Prompt : Event[id].at < clock' => id \in answered'
  BY DEF EventsInTurn
<1>3. \A id \in answered' : Recorded(StoreKey(id))'
  BY LogsStay DEF EventsInTurn
<1>4. \A id \in Prompt, u \in Users :
          Counts(id, u) /\ Recorded(StoreKey(id))' => Happened(id)' \/ InHand(id)'
  BY <1>1 DEF EventsInTurn
<1>5. \A id \in EventIds, u \in Users :
          Happened(id)' /\ Counts(id, u) => Event[id].at <= clock' /\ LoggedAt(u, Event[id].at)'
  BY LogsStay DEF EventsInTurn
<1> QED
  BY <1>2, <1>3, <1>4, <1>5 DEF EventsInTurn, Counts, Reports, MovesTo

(* An insert under another key records no event of the store. *)
LEMMA OtherKeys ==
    ASSUME NEW x, \A id : x.key # StoreKey(id),
           ledger' = ledger \/ ledger' = ledger \cup {x}
    PROVE  \A id \in EventIds : Recorded(StoreKey(id))' => Recorded(StoreKey(id))
  BY DEF Recorded

(* An effect of one token is none of another. *)
LEMMA OtherTokens ==
    ASSUME Typed, NEW t \in Tokens, Took(t), NEW id \in EventIds, t # StoreKey(id)
    PROVE  Happened(id)' <=> Happened(id)
<1>1. StoreKey(id) \in Tokens
  BY DEF StoreKey, Tokens
<1> QED
  BY <1>1 DEF Took, Happened, Typed, TypeOK

(* The effect of an event has happened. *)
LEMMA EffectHappens ==
    ASSUME Typed, NEW id \in EventIds, Took(StoreKey(id))
    PROVE  /\ Happened(id)'
           /\ \A other \in EventIds : Happened(other)' => Happened(other) \/ other = id
           /\ \A other \in EventIds : Happened(other) => Happened(other)'
<1>1. \A x \in EventIds : StoreKey(x) \in Tokens
  BY DEF StoreKey, Tokens
<1>2. \A x \in EventIds : effects[StoreKey(x)] \in Nat
  BY <1>1 DEF Typed, TypeOK
<1>3. effects'[StoreKey(id)] = effects[StoreKey(id)] + 1
  BY <1>1 DEF Took, Typed, TypeOK
<1>4. \A x \in EventIds : x # id => effects'[StoreKey(x)] = effects[StoreKey(x)]
  BY <1>1, StoreKeysDiffer DEF Took, Typed, TypeOK
<1> QED
  BY <1>2, <1>3, <1>4 DEF Happened

(* With one request, what is in hand is what it works on. *)
LEMMA OneInHand ==
    ASSUME NEW r, Requests = {r}, NEW id
    PROVE  /\ InHand(id) <=> proc[r].pc \in AfterRecord /\ proc[r].ev = id
           /\ InHand(id)' <=> proc'[r].pc \in AfterRecord /\ proc'[r].ev = id
           /\ ToldInTurn <=> EventsInTurn /\ HandlesInTurn(proc[r])
           /\ ToldInTurn' <=> EventsInTurn' /\ HandlesInTurn(proc[r])'
  BY DEF InHand, ToldInTurn

(* A request that is not about an event has nothing to know of one. *)
LEMMA NothingToHandle ==
    ASSUME NEW r, proc'[r].pc \in {"idle"} \cup PromoSteps
    PROVE  HandlesInTurn(proc[r])'
  BY DEF HandlesInTurn, Deciding, AfterRecord, TransferSteps, PromoSteps

(* Our clock waits for what is told promptly. *)
LEMMA TickTold ==
    ASSUME Typed, ToldInTurn, NEW r, Requests = {r}, Tick
    PROVE  ToldInTurn'
<1>1. /\ clock \in Nat /\ clock' = clock + 1 /\ proc' = proc /\ ledger' = ledger /\ sub' = sub
      /\ answered' = answered /\ effects' = effects
      /\ \A id \in Prompt : Event[id].at <= clock => id \in answered
  BY DEF Tick, Typed, TypeOK
<1>2. EventsInTurn /\ HandlesInTurn(proc[r])
  BY OneInHand
<1>3. \A id \in EventIds : Event[id].at \in Nat
  BY EventType
<1>4. EventsInTurn'
  <2>1. \A id \in Prompt : Event[id].at < clock' => id \in answered'
    <3>1. \A id \in Prompt : Event[id].at < clock' => Event[id].at <= clock
      BY <1>1, <1>3, BoundAssumption
    <3> QED
      BY <1>1, <3>1
  <2>2. \A id \in EventIds, u \in Users :
            Happened(id)' /\ Counts(id, u) => Event[id].at <= clock' /\ LoggedAt(u, Event[id].at)'
    <3>1. \A id \in EventIds, u \in Users :
              Happened(id) /\ Counts(id, u) => Event[id].at <= clock /\ LoggedAt(u, Event[id].at)
      BY <1>2 DEF EventsInTurn
    <3>2. \A id \in EventIds : Happened(id)' <=> Happened(id)
      BY <1>1 DEF Happened
    <3>3. \A u, at : LoggedAt(u, at)' <=> LoggedAt(u, at)
      BY <1>1 DEF LoggedAt, AppliedTo
    <3>4. \A id \in EventIds : Event[id].at <= clock => Event[id].at <= clock'
      BY <1>1, <1>3
    <3> QED
      BY <3>1, <3>2, <3>3, <3>4
  <2>3. \A id \in answered' : Recorded(StoreKey(id))'
    BY <1>1, <1>2 DEF EventsInTurn, Recorded
  <2>4. \A id \in Prompt, u \in Users :
            Counts(id, u) /\ Recorded(StoreKey(id))' => Happened(id)' \/ InHand(id)'
    BY <1>1, <1>2 DEF EventsInTurn, Recorded, Happened, InHand
  <2> QED
    BY <2>1, <2>2, <2>3, <2>4 DEF EventsInTurn, Counts, Reports, MovesTo
<1>5. HandlesInTurn(proc[r])'
  <2>1. proc[r].pc \in Deciding => Event[proc[r].ev].at <= clock'
    <3>1. proc[r].pc \in Deciding => Event[proc[r].ev].at <= clock /\ proc[r].ev \in EventIds
      BY <1>2, RequestFields DEF HandlesInTurn
    <3> QED
      BY <1>1, <1>3, <3>1
  <2> QED
    BY <1>1, <1>2, <2>1 DEF HandlesInTurn, LoggedAt, NothingNewer, AppliedTo, Recorded, Happened,
       Counts, Reports, MovesTo
<1> QED
  BY <1>4, <1>5, OneInHand

(* A prompt event that was not answered is not stale: nothing in the ledger is newer. *)
LEMMA ReceiveTold ==
    ASSUME Typed, InTurn, ToldInTurn, NEW r, Requests = {r}, NEW id \in EventIds, ReceiveEvent(r, id)
    PROVE  ToldInTurn'
<1>1. PICK u \in Users \cup {None} :
        /\ IsAddressee(Event[id], u)
        /\ proc' = [proc EXCEPT ![r] =
            [Idle EXCEPT !.pc = "record", !.ev = id, !.user = u,
                         !.outcome = DecideFromEvent(Event[id], u)]]
  BY DEF ReceiveEvent
<1>2. /\ proc'[r].pc = "record" /\ proc'[r].ev = id /\ proc'[r].user = u
      /\ proc'[r].outcome = DecideFromEvent(Event[id], u)
  BY <1>1 DEF Typed, TypeOK, Idle
<1>3. /\ proc[r].pc = "idle" /\ Event[id].at <= clock /\ clock' = clock /\ ledger' = ledger
      /\ answered' = answered /\ effects' = effects /\ clock \in Nat /\ Event[id].at \in Nat
  BY EventType DEF ReceiveEvent, Typed, TypeOK
<1>4. EventsInTurn /\ EventsInTurn'
  <2>1. EventsInTurn
    BY OneInHand
  <2>2. \A x \in EventIds : ~InHand(x)
    BY <1>3, OneInHand DEF AfterRecord, TransferSteps
  <2> QED
    BY <1>3, <2>1, <2>2, EventsKept DEF Recorded, Happened
<1>5. ASSUME proc'[r].outcome = "applied" PROVE Counts(id, u) /\ NothingNewer(u, Event[id].at)
  <2>1. Counts(id, u)
    BY <1>1, <1>2, <1>5, OneAddressee
  <2>2. ~Stale(Event[id], u)
    BY <1>2, <1>5 DEF DecideFromEvent
  <2>3. \A row \in AppliedTo(u) : row.at \in Nat /\ ~(Event[id].at < row.at)
    BY <2>2 DEF Stale, AppliedTo, Typed, TypeOK, LedgerRows
  <2> QED
    BY <1>3, <2>1, <2>3 DEF NothingNewer
<1>6. ASSUME id \in Prompt \ answered, NEW v \in Users, Counts(id, v)
      PROVE  proc'[r].outcome = "applied"
  <2>1. v = u /\ u # None
    BY <1>1, <1>6, OneAddressee, EventAssumption
  <2>2. Event[id].at = clock
    BY <1>3, <1>4, <1>6 DEF EventsInTurn
  <2>3. ~Stale(Event[id], u)
    <3>1. \A row \in ledger : row.at <= clock /\ row.at \in Nat
      BY DEF InTurn, NothingAhead, Typed, TypeOK, LedgerRows
    <3> QED
      BY <1>3, <2>2, <3>1 DEF Stale
  <2>4. Event[id].type = "TRANSFER" \/ Event[id].type \in MappedTypes
    BY <1>6 DEF Counts, Reports, MovesTo
  <2> QED
    BY <1>2, <2>1, <2>3, <2>4 DEF DecideFromEvent
<1>7. HandlesInTurn(proc[r])'
  <2>1. NothingNewer(u, Event[id].at)' <=> NothingNewer(u, Event[id].at)
    BY <1>3 DEF NothingNewer, AppliedTo
  <2> QED
    BY <1>2, <1>3, <1>5, <1>6, <2>1
       DEF HandlesInTurn, Counts, Reports, MovesTo, AfterRecord, TransferSteps
<1> QED
  BY <1>4, <1>7, OneInHand

(* The first to record an event holds it until the event is answered. *)
LEMMA RecordTold ==
    ASSUME Typed, InTurn, ToldInTurn, NEW r, Requests = {r}, RecordEvent(r)
    PROVE  ToldInTurn'
<1>1. /\ proc[r].pc = "record" /\ proc[r].ev \in EventIds /\ proc[r] \in Procs
      /\ Event[proc[r].ev].at \in Nat
      /\ proc[r].outcome = "applied" => proc[r].user \in Users
  BY RequestFields, EventType DEF RecordEvent, Deciding
<1> PICK q : q = proc[r]
  OBVIOUS
<1> DEFINE e == Event[q.ev]
           row == Entry(StoreKey(q.ev), q.user, e.at, q.outcome, Says(e, q.outcome))
<1>2. /\ row.key = StoreKey(q.ev) /\ row.user = q.user /\ row.at = e.at /\ row.outcome = q.outcome
  BY DEF Entry
<1>3. /\ clock' = clock /\ effects' = effects
      /\ ledger' = IF Recorded(row.key) THEN ledger ELSE ledger \cup {row}
  BY DEF RecordEvent, InsertIfAbsent
<1>4. EventsInTurn /\ HandlesInTurn(q)
  BY OneInHand
<1>5. /\ \A x \in EventIds : Happened(x)' <=> Happened(x)
      /\ \A x \in EventIds : ~InHand(x)
  BY <1>1, <1>3, OneInHand DEF Happened, AfterRecord, TransferSteps
<1> HIDE DEF row
<1>6. /\ Recorded(StoreKey(q.ev))' /\ ledger \subseteq ledger'
      /\ \A x \in EventIds : Recorded(StoreKey(x))' => Recorded(StoreKey(x)) \/ x = q.ev
      /\ \A key : Recorded(key) => Recorded(key)'
      /\ \A u, at : LoggedAt(u, at) => LoggedAt(u, at)'
  <2>1. ledger \subseteq ledger' /\ (Recorded(row.key) => ledger' = ledger)
    BY <1>3
  <2>2. \A x \in ledger' : x \in ledger \/ x = row
    BY <1>3
  <2>3. Recorded(row.key) \/ row \in ledger'
    BY <1>3
  <2>4. Recorded(StoreKey(q.ev))'
    BY <1>2, <2>1, <2>3 DEF Recorded
  <2>5. \A x : Recorded(StoreKey(x))' => Recorded(StoreKey(x)) \/ x = q.ev
    BY <1>2, <2>2, StoreKeysDiffer DEF Recorded
  <2> QED
    BY <2>1, <2>4, <2>5, LogsStay
<1>7. CASE EndsHere(q, row.key)
  <2>1. proc'[r] = Idle /\ answered' = answered \cup {q.ev}
    BY <1>7 DEF RecordEvent, Respond, Typed, TypeOK, row
  <2>2. EventsInTurn'
    <3>1. \A id \in Prompt : Event[id].at < clock' => id \in answered'
      BY <1>3, <1>4, <2>1 DEF EventsInTurn
    <3>2. \A id \in answered' : Recorded(StoreKey(id))'
      BY <1>4, <1>6, <2>1 DEF EventsInTurn
    <3>3. ASSUME NEW id \in Prompt, NEW u \in Users, Counts(id, u), Recorded(StoreKey(id))'
          PROVE  Happened(id)'
      <4>1. CASE Recorded(StoreKey(id))
        BY <1>4, <1>5, <3>3, <4>1, BoundAssumption DEF EventsInTurn
      <4>2. CASE ~Recorded(StoreKey(id))
        <5>1. id = q.ev /\ id \notin answered
          BY <1>4, <1>6, <3>3, <4>2, BoundAssumption DEF EventsInTurn
        <5>2. q.outcome # "applied"
          BY <1>2, <1>7, <4>2, <5>1 DEF EndsHere
        <5> QED
          BY <1>1, <1>4, <3>3, <5>1, <5>2 DEF HandlesInTurn
      <4> QED
        BY <4>1, <4>2
    <3>4. \A id \in EventIds, u \in Users :
              Happened(id)' /\ Counts(id, u) => Event[id].at <= clock' /\ LoggedAt(u, Event[id].at)'
      BY <1>3, <1>4, <1>5, <1>6 DEF EventsInTurn
    <3> QED
      BY <3>1, <3>2, <3>3, <3>4 DEF EventsInTurn, Counts, Reports, MovesTo
  <2>3. HandlesInTurn(proc[r])'
    BY <2>1, NothingToHandle DEF Idle
  <2> QED
    BY <2>2, <2>3, OneInHand
<1>8. CASE ~EndsHere(q, row.key)
  <2>1. /\ proc'[r].pc = NextStep(e) /\ proc'[r].ev = q.ev /\ proc'[r].user = q.user
        /\ answered' = answered
    BY <1>1, <1>8 DEF RecordEvent, Typed, TypeOK, Procs, row
  <2>2. /\ ledger' = ledger \cup {row} /\ q.outcome = "applied"
        /\ ~Recorded(StoreKey(q.ev))
    BY <1>2, <1>3, <1>8 DEF EndsHere
  <2> PICK u \in Users : u = q.user
    BY <1>1, <2>2
  <2>3. /\ q.ev \notin answered /\ Counts(q.ev, u) /\ NothingNewer(u, e.at)
        /\ e.at <= clock
    BY <1>1, <1>4, <2>2 DEF EventsInTurn, HandlesInTurn, Deciding
  <2>4. proc'[r].pc \in AfterRecord /\ proc'[r].pc \in {"load", "readOrigins"}
    BY <2>1 DEF NextStep, AfterRecord, TransferSteps
  <2>5. InHand(q.ev)'
    BY <2>1, <2>4, OneInHand
  <2>6. EventsInTurn'
    <3>1. \A id \in Prompt : Event[id].at < clock' => id \in answered'
      BY <1>3, <1>4, <2>1 DEF EventsInTurn
    <3>2. \A id \in answered' : Recorded(StoreKey(id))'
      BY <1>4, <1>6, <2>1 DEF EventsInTurn
    <3>3. ASSUME NEW id \in Prompt, NEW v \in Users, Counts(id, v), Recorded(StoreKey(id))'
          PROVE  Happened(id)' \/ InHand(id)'
      <4>1. CASE id = q.ev
        <5>1. proc'[r].ev = id /\ proc'[r].pc \in AfterRecord
          BY <2>1, <2>4, <4>1
        <5> QED
          BY <5>1, OneInHand
      <4>2. CASE id # q.ev
        BY <1>4, <1>5, <1>6, <3>3, <4>2, BoundAssumption DEF EventsInTurn
      <4> QED
        BY <4>1, <4>2
    <3>4. \A id \in EventIds, v \in Users :
              Happened(id)' /\ Counts(id, v) => Event[id].at <= clock' /\ LoggedAt(v, Event[id].at)'
      BY <1>3, <1>4, <1>5, <1>6 DEF EventsInTurn
    <3> QED
      BY <3>1, <3>2, <3>3, <3>4 DEF EventsInTurn, Counts, Reports, MovesTo
  <2>7. AppliedTo(u)' = AppliedTo(u) \cup {row}
    BY <1>2, <2>2, InsertShows
  <2>8. LoggedAt(u, e.at)' /\ NothingNewer(u, e.at)'
    BY <1>1, <1>2, <2>3, <2>7 DEF LoggedAt, NothingNewer
  <2>9. /\ proc'[r].pc = "load" => Reports(q.ev, u)
        /\ proc'[r].pc = "readOrigins" => MovesTo(q.ev, u)
    <3>1. e.type = "TRANSFER" => proc'[r].pc = "readOrigins"
      BY <2>1 DEF NextStep
    <3>2. e.type # "TRANSFER" => proc'[r].pc = "load"
      BY <2>1 DEF NextStep
    <3>3. "TRANSFER" \notin MappedTypes
      BY DEF MappedTypes, PurchaseTypes
    <3> QED
      BY <2>3, <3>1, <3>2, <3>3 DEF Counts, Reports, MovesTo
  <2>10. HandlesInTurn(proc[r])'
    BY <1>1, <1>3, <1>6, <2>1, <2>3, <2>4, <2>8, <2>9
       DEF HandlesInTurn, TransferSteps, Counts, Reports, MovesTo
  <2> QED
    BY <2>6, <2>10, OneInHand
<1> QED
  BY <1>7, <1>8

(* An event that counts for an account counts for no other. *)
LEMMA OneCounts ==
    ASSUME NEW id, NEW u, NEW v, Counts(id, u), Counts(id, v)
    PROVE  u = v
<1>1. "TRANSFER" \notin MappedTypes
  BY DEF MappedTypes, PurchaseTypes
<1> QED
  BY <1>1 DEF Counts, Reports, MovesTo, IsDestination

(* An event takes effect in the request that recorded it. *)
LEMMA EffectTold ==
    ASSUME Typed, ToldInTurn, NEW r, Requests = {r}, proc[r].pc \in AfterRecord,
           Took(StoreKey(proc[r].ev)), ledger' = ledger, clock' = clock,
           answered' = answered \/ answered' = answered \cup {proc[r].ev}
    PROVE  EventsInTurn'
<1> PICK q : q = proc[r]
  OBVIOUS
<1>1. q.ev \in EventIds /\ q.user \in Users /\ Prompt \subseteq EventIds
  BY RequestFields, BoundAssumption DEF Deciding
<1>2. EventsInTurn /\ HandlesInTurn(q)
  BY OneInHand
<1>3. /\ Counts(q.ev, q.user) /\ LoggedAt(q.user, Event[q.ev].at) /\ Recorded(StoreKey(q.ev))
      /\ Event[q.ev].at <= clock
  BY <1>1, <1>2 DEF HandlesInTurn, AfterRecord, TransferSteps, Counts, Deciding
<1>4. /\ \A x \in EventIds : Happened(x)' => Happened(x) \/ x = q.ev
      /\ \A x \in EventIds : Happened(x) => Happened(x)'
      /\ Happened(q.ev)'
  BY <1>1, EffectHappens
<1>5. /\ \A key : Recorded(key)' <=> Recorded(key)
      /\ \A u, at : LoggedAt(u, at)' <=> LoggedAt(u, at)
  BY DEF Recorded, LoggedAt, AppliedTo
<1>6. \A x \in EventIds : InHand(x) => x = q.ev
  BY OneInHand
<1>7. \A id \in Prompt : Event[id].at < clock' => id \in answered'
  BY <1>2 DEF EventsInTurn
<1>8. \A id \in answered' : Recorded(StoreKey(id))'
  BY <1>2, <1>3, <1>5 DEF EventsInTurn
<1>9. \A id \in Prompt, u \in Users :
          Counts(id, u) /\ Recorded(StoreKey(id))' => Happened(id)' \/ InHand(id)'
  BY <1>1, <1>2, <1>4, <1>5, <1>6 DEF EventsInTurn
<1>10. ASSUME NEW id \in EventIds, NEW u \in Users, Happened(id)', Counts(id, u)
       PROVE  Event[id].at <= clock' /\ LoggedAt(u, Event[id].at)'
  <2>1. CASE Happened(id)
    BY <1>2, <1>5, <1>10, <2>1 DEF EventsInTurn
  <2>2. CASE id = q.ev
    <3>1. u = q.user
      BY <1>3, <1>10, <2>2, OneCounts
    <3> QED
      BY <1>3, <1>5, <2>2, <3>1
  <2> QED
    BY <1>4, <1>10, <2>1, <2>2
<1> QED
  BY <1>7, <1>8, <1>9, <1>10 DEF EventsInTurn, Counts, Reports, MovesTo

(* The write finds the row as the load left it. *)
LEMMA LoadTold ==
    ASSUME Typed, ToldInTurn, NEW r, Requests = {r}, LoadExisting(r)
    PROVE  ToldInTurn'
<1> PICK q : q = proc[r]
  OBVIOUS
<1>1. /\ q.pc = "load" /\ clock' = clock /\ ledger' = ledger /\ answered' = answered
      /\ effects' = effects /\ sub' = sub /\ q \in Procs
  BY RequestFields DEF LoadExisting
<1>2. proc'[r].pc = "write" /\ proc'[r].ev = q.ev /\ proc'[r].user = q.user /\ proc'[r].row = sub[q.user]
  BY <1>1 DEF LoadExisting, Typed, TypeOK, Procs
<1>3. EventsInTurn /\ HandlesInTurn(q)
  BY OneInHand
<1>4. \A id : InHand(id) => InHand(id)'
  BY <1>1, <1>2, OneInHand DEF AfterRecord
<1>5. EventsInTurn'
  BY <1>1, <1>3, <1>4, EventsKept DEF Recorded, Happened, EventsInTurn
<1>6. HandlesInTurn(proc[r])'
  BY <1>1, <1>2, <1>3
     DEF HandlesInTurn, Deciding, AfterRecord, TransferSteps, Counts, Reports, MovesTo,
         LoggedAt, NothingNewer, AppliedTo, Recorded, Happened
<1> QED
  BY <1>5, <1>6, OneInHand

(* Reading the origins changes nothing that was told. *)
LEMMA ReadOriginsTold ==
    ASSUME Typed, ToldInTurn, NEW r, Requests = {r}, ReadOrigins(r)
    PROVE  ToldInTurn'
<1> PICK q : q = proc[r]
  OBVIOUS
<1>1. /\ q.pc = "readOrigins" /\ clock' = clock /\ ledger' = ledger /\ answered' = answered
      /\ effects' = effects /\ sub' = sub /\ q \in Procs
  BY RequestFields DEF ReadOrigins
<1>2. proc'[r].pc = "move" /\ proc'[r].ev = q.ev /\ proc'[r].user = q.user
  BY <1>1 DEF ReadOrigins, Typed, TypeOK, Procs
<1>3. EventsInTurn /\ HandlesInTurn(q)
  BY OneInHand
<1>4. \A id : InHand(id) => InHand(id)'
  BY <1>1, <1>2, OneInHand DEF AfterRecord, TransferSteps
<1>5. EventsInTurn'
  BY <1>1, <1>3, <1>4, EventsKept DEF Recorded, Happened, EventsInTurn
<1>6. HandlesInTurn(proc[r])'
  BY <1>1, <1>2, <1>3
     DEF HandlesInTurn, Deciding, AfterRecord, TransferSteps, Counts, Reports, MovesTo,
         LoggedAt, NothingNewer, AppliedTo, Recorded, Happened
<1> QED
  BY <1>5, <1>6, OneInHand

(* The write is the effect of the event, and its answer. *)
LEMMA WriteTold ==
    ASSUME Typed, ToldInTurn, NEW r, Requests = {r}, WriteSubscription(r)
    PROVE  ToldInTurn'
<1>1. EventsInTurn'
  BY EffectTold DEF WriteSubscription, Respond, AfterRecord
<1>2. proc'[r] = Idle
  BY DEF WriteSubscription, Respond, Typed, TypeOK
<1>3. HandlesInTurn(proc[r])'
  BY <1>2, NothingToHandle DEF Idle
<1> QED
  BY <1>1, <1>3, OneInHand

(* The move is the effect of a transfer, which stays in hand while it has origins to log. *)
LEMMA MoveTold ==
    ASSUME Typed, ToldInTurn, NEW r, Requests = {r}, MoveSubscription(r)
    PROVE  ToldInTurn'
<1> PICK q : q = proc[r]
  OBVIOUS
<1>1. /\ q.pc = "move" /\ clock' = clock /\ ledger' = ledger /\ q \in Procs /\ q.ev \in EventIds
  BY RequestFields DEF MoveSubscription, Deciding, AfterRecord, TransferSteps
<1>2. EventsInTurn'
  <2>1. answered' = answered \/ answered' = answered \cup {proc[r].ev}
    BY DEF MoveSubscription, Respond
  <2> QED
    BY <2>1, EffectTold DEF MoveSubscription, AfterRecord, TransferSteps
<1>3. CASE q.left = {}
  <2>1. proc'[r] = Idle
    BY <1>3 DEF MoveSubscription, Respond, Typed, TypeOK
  <2>2. HandlesInTurn(proc[r])'
    BY <2>1, NothingToHandle DEF Idle
  <2> QED
    BY <1>2, <2>2, OneInHand
<1>4. CASE q.left # {}
  <2>1. /\ proc'[r].pc = "logOrigins" /\ proc'[r].ev = q.ev /\ proc'[r].user = q.user
        /\ answered' = answered
    BY <1>1, <1>4 DEF MoveSubscription, Typed, TypeOK, Procs
  <2>2. EventsInTurn /\ HandlesInTurn(q)
    BY OneInHand
  <2>3. Happened(q.ev)'
    BY <1>1, EffectHappens DEF MoveSubscription
  <2>4. HandlesInTurn(proc[r])'
    BY <1>1, <2>1, <2>2, <2>3
       DEF HandlesInTurn, Deciding, AfterRecord, TransferSteps, Counts, Reports, MovesTo,
           LoggedAt, NothingNewer, AppliedTo, Recorded, Happened
  <2> QED
    BY <1>2, <2>4, OneInHand
<1> QED
  BY <1>3, <1>4

(* Until its last origin is logged a transfer that has happened is not answered. *)
LEMMA LogOriginTold ==
    ASSUME Typed, ToldInTurn, NEW r, Requests = {r}, NEW u \in Users, LogOrigin(r, u)
    PROVE  ToldInTurn'
<1> PICK q : q = proc[r]
  OBVIOUS
<1>1. /\ q.pc = "logOrigins" /\ clock' = clock /\ effects' = effects /\ q \in Procs
      /\ q.ev \in EventIds /\ Event[q.ev].at \in Nat /\ q.user \in Users
  BY RequestFields, EventType DEF LogOrigin, Deciding, AfterRecord, TransferSteps
<1>2. EventsInTurn /\ HandlesInTurn(q)
  BY OneInHand
<1>3. /\ Happened(q.ev) /\ Recorded(StoreKey(q.ev)) /\ q.ev \notin answered
      /\ LoggedAt(q.user, Event[q.ev].at) /\ NothingNewer(q.user, Event[q.ev].at)
      /\ MovesTo(q.ev, q.user) /\ Event[q.ev].at <= clock
  BY <1>1, <1>2 DEF HandlesInTurn, AfterRecord, TransferSteps, Deciding
<1> PICK x : x = Entry(OriginKey(q.ev, u), u, Event[q.ev].at, "applied", "expired")
  OBVIOUS
<1>4. /\ x.key = OriginKey(q.ev, u) /\ x.at = Event[q.ev].at
      /\ ledger' = ledger \/ ledger' = ledger \cup {x}
  BY DEF LogOrigin, InsertIfAbsent, Entry
<1>5. \A id : x.key # StoreKey(id)
  BY <1>4, KeysApart
<1>6. \A id \in EventIds : Recorded(StoreKey(id))' => Recorded(StoreKey(id))
  BY <1>4, <1>5, OtherKeys
<1>7. /\ ledger \subseteq ledger' /\ \A key : Recorded(key) => Recorded(key)'
      /\ LoggedAt(q.user, Event[q.ev].at)'
  BY <1>3, <1>4, LogsStay
<1>8. NothingNewer(q.user, Event[q.ev].at)'
  BY <1>1, <1>3, <1>4 DEF NothingNewer, AppliedTo
<1>9. \A id : InHand(id) => id = q.ev
  BY OneInHand
<1>10. CASE q.left = {u}
  <2>1. proc'[r] = Idle /\ answered' = answered \cup {q.ev}
    BY <1>10 DEF LogOrigin, OriginLogged, Respond, Typed, TypeOK
  <2>2. \A id \in answered' : id \in answered \/ Recorded(StoreKey(id))
    BY <1>3, <2>1
  <2>3. EventsInTurn'
    BY <1>1, <1>2, <1>3, <1>6, <1>7, <1>9, <2>1, <2>2, EventsKept DEF Happened
  <2>4. HandlesInTurn(proc[r])'
    BY <2>1, NothingToHandle DEF Idle
  <2> QED
    BY <2>3, <2>4, OneInHand
<1>11. CASE q.left # {u}
  <2>1. /\ proc'[r].pc = "logOrigins" /\ proc'[r].ev = q.ev /\ proc'[r].user = q.user
        /\ answered' = answered
    BY <1>1, <1>11 DEF LogOrigin, OriginLogged, Typed, TypeOK, Procs
  <2>2. \A id : InHand(id) => InHand(id)'
    BY <1>1, <2>1, OneInHand
  <2>3. EventsInTurn'
    BY <1>1, <1>2, <1>6, <1>7, <2>1, <2>2, EventsKept DEF Happened
  <2>4. HandlesInTurn(proc[r])'
    BY <1>1, <1>3, <1>7, <1>8, <2>1
       DEF HandlesInTurn, Deciding, AfterRecord, TransferSteps, Counts, Reports, MovesTo, Happened
  <2> QED
    BY <2>3, <2>4, OneInHand
<1> QED
  BY <1>10, <1>11

(* A step that is about no event of the store. *)
LEMMA AsideTold ==
    ASSUME Typed, ToldInTurn, NEW r, Requests = {r}, clock' = clock, answered' = answered,
           proc[r].pc \notin AfterRecord, proc'[r].pc \in {"idle"} \cup PromoSteps,
           NEW x, \A id : x.key # StoreKey(id), ledger' = ledger \/ ledger' = ledger \cup {x},
           effects' = effects \/ \E c \in Codes : Took(PromoKey(c))
    PROVE  ToldInTurn'
<1>1. \A id \in EventIds : Happened(id)' <=> Happened(id)
  <2>1. CASE effects' = effects
    BY <2>1 DEF Happened
  <2>2. CASE \E c \in Codes : Took(PromoKey(c))
    <3> PICK c \in Codes : Took(PromoKey(c))
      BY <2>2
    <3>1. PromoKey(c) \in Tokens /\ \A id : PromoKey(c) # StoreKey(id)
      BY KeysApart DEF PromoKey, Tokens
    <3> QED
      BY <3>1, OtherTokens
  <2> QED
    BY <2>1, <2>2
<1>2. \A id : ~InHand(id)
  BY OneInHand
<1>3. EventsInTurn'
  BY <1>1, <1>2, OneInHand, OtherKeys, EventsKept
<1> QED
  BY <1>3, NothingToHandle, OneInHand

(* A promo code is no event of the store. *)
LEMMA PromoTold ==
    ASSUME Typed, ToldInTurn, NEW r, Requests = {r},
           \/ \E c \in Codes : RedeemPromoCode(r, c)
           \/ CheckLiveApplePurchase(r) \/ ClaimCode(r) \/ GrantPromo(r) \/ LogPromo(r)
    PROVE  ToldInTurn'
<1> PICK q : q = proc[r]
  OBVIOUS
<1>1. q \in Procs /\ q.pc \in {"idle"} \cup PromoSteps
  BY RequestFields
     DEF RedeemPromoCode, CheckLiveApplePurchase, ClaimCode, GrantPromo, LogPromo, PromoSteps
<1>2. q.pc \in PromoSteps => q.code \in Codes
  BY RequestFields
<1>3. clock' = clock /\ answered' = answered
  BY DEF RedeemPromoCode, CheckLiveApplePurchase, ClaimCode, GrantPromo, LogPromo
<1>4. proc'[r].pc \in {"idle"} \cup PromoSteps
  <2>1. ASSUME NEW c \in Codes, RedeemPromoCode(r, c) PROVE proc'[r].pc = "checkLive"
    BY <2>1 DEF RedeemPromoCode, Idle, Typed, TypeOK
  <2>2. ASSUME CheckLiveApplePurchase(r) PROVE proc'[r].pc \in {"idle", "claim"}
    BY <1>1, <2>2 DEF CheckLiveApplePurchase, Idle, Typed, TypeOK, Procs
  <2>3. ASSUME ClaimCode(r) PROVE proc'[r].pc \in {"idle", "grant"}
    BY <1>1, <2>3 DEF ClaimCode, Idle, Typed, TypeOK, Procs
  <2>4. ASSUME GrantPromo(r) PROVE proc'[r].pc = "logPromo"
    BY <1>1, <2>4 DEF GrantPromo, Typed, TypeOK, Procs
  <2>5. ASSUME LogPromo(r) PROVE proc'[r].pc = "idle"
    BY <2>5 DEF LogPromo, Idle, Typed, TypeOK
  <2> QED
    BY <2>1, <2>2, <2>3, <2>4, <2>5 DEF PromoSteps
<1>5. effects' = effects \/ \E c \in Codes : Took(PromoKey(c))
  BY <1>2 DEF RedeemPromoCode, CheckLiveApplePurchase, ClaimCode, GrantPromo, LogPromo, PromoSteps
<1>6. PICK x : x = Entry(PromoKey(q.code), q.user, q.at, "applied", "active")
  OBVIOUS
<1>7. ledger' = ledger \/ ledger' = ledger \cup {x}
  BY <1>6 DEF RedeemPromoCode, CheckLiveApplePurchase, ClaimCode, GrantPromo, LogPromo, InsertIfAbsent
<1>8. \A id : x.key # StoreKey(id)
  BY <1>6, KeysApart DEF Entry
<1>9. q.pc \notin AfterRecord
  BY <1>1 DEF AfterRecord, TransferSteps, PromoSteps
<1> QED
  BY <1>3, <1>4, <1>5, <1>7, <1>8, <1>9, AsideTold

(* Neither is what an admin does. *)
LEMMA AdminTold ==
    ASSUME Typed, ToldInTurn, NEW r, Requests = {r}, NEW u \in AdminOn,
           RevokeSubscription(r, u) \/ ReactivateSubscription(r, u)
    PROVE  ToldInTurn'
<1>1. /\ proc[r].pc = "idle" /\ proc' = proc /\ clock' = clock /\ answered' = answered
      /\ effects' = effects
  BY DEF RevokeSubscription, ReactivateSubscription
<1>2. PICK says : LogAdmin(u, says)
  BY DEF RevokeSubscription, ReactivateSubscription
<1>3. PICK x : x = Entry(AdminKey(spent["admin"]), u, clock, "applied", says)
  OBVIOUS
<1>4. ledger' = ledger \cup {x}
  BY <1>2, <1>3 DEF LogAdmin
<1>5. \A id : x.key # StoreKey(id)
  <2>1. x.key = AdminKey(spent["admin"])
    BY <1>3 DEF Entry
  <2>2. AdminKey(spent["admin"])[1] = "admin" /\ \A id : StoreKey(id)[1] = "store"
    BY KeysApart
  <2> QED
    BY <2>1, <2>2
<1>6. proc[r].pc \notin AfterRecord
  BY <1>1 DEF AfterRecord, TransferSteps
<1> QED
  BY <1>1, <1>4, <1>5, <1>6, AsideTold

(* At first nothing was told, and nothing has happened. *)
LEMMA ToldInit == ASSUME NEW r, Requests = {r}, Init PROVE ToldInTurn
<1>1. proc[r] = Idle
  BY DEF Init
<1>2. HandlesInTurn(proc[r])
  BY <1>1 DEF HandlesInTurn, Idle, Deciding, AfterRecord, TransferSteps
<1>3. \A id \in EventIds : ~Happened(id)
  BY DEF Init, Happened, Tokens, StoreKey
<1>4. \A key : ~Recorded(key)
  BY DEF Init, Recorded
<1>5. \A id \in Prompt : Event[id].at \in Nat
  BY EventType, BoundAssumption
<1>6. EventsInTurn
  BY <1>3, <1>4, <1>5 DEF EventsInTurn, Init
<1> QED
  BY <1>2, <1>6, OneInHand

(* Every step of a server that crashes at no point keeps the events in turn. *)
LEMMA ToldNext ==
    ASSUME NEW r, Requests = {r}, MaxFaults = 0, Typed, InTurn, ToldInTurn, [Next]_vars
    PROVE  ToldInTurn'
<1>1. ASSUME Spend("faults", MaxFaults) PROVE FALSE
  BY <1>1 DEF Spend, Typed, TypeOK
<1>2. CASE Continue(r)
  BY <1>2, RecordTold, LoadTold, WriteTold, ReadOriginsTold, MoveTold, LogOriginTold, PromoTold
     DEF Continue
<1>3. ASSUME NEW id \in EventIds, ReceiveEvent(r, id) PROVE ToldInTurn'
  BY <1>3, ReceiveTold
<1>4. ASSUME NEW c \in Codes, RedeemPromoCode(r, c) PROVE ToldInTurn'
  BY <1>4, PromoTold
<1>5. ASSUME NEW u \in AdminOn, RevokeSubscription(r, u) \/ ReactivateSubscription(r, u)
      PROVE  ToldInTurn'
  BY <1>5, AdminTold
<1>6. ASSUME NEW u \in Users, LogOriginFails(r, u) PROVE FALSE
  BY <1>1, <1>6 DEF LogOriginFails
<1>7. CASE Crash(r)
  BY <1>1, <1>7 DEF Crash
<1>8. CASE UNCHANGED vars
  BY <1>8
     DEF vars, ToldInTurn, EventsInTurn, HandlesInTurn, Happened, InHand, Recorded, LoggedAt,
         NothingNewer, AppliedTo, Counts, Reports, MovesTo
<1> QED
  BY <1>2, <1>3, <1>4, <1>5, <1>6, <1>7, <1>8, TickTold DEF Next

-----------------------------------------------------------------------------
(* No row without an end *)

(* What was promptly told of a moment before ours has happened. *)
LEMMA ToldHasHappened ==
    ASSUME ToldInTurn, NEW r, Requests = {r}, NEW id \in Prompt, NEW u, Counts(id, u),
           Event[id].at < clock
    PROVE  Happened(id) /\ id \in answered
<1>1. EventsInTurn /\ HandlesInTurn(proc[r])
  BY OneInHand
<1>2. id \in answered /\ Recorded(StoreKey(id)) /\ u \in Users
  BY <1>1 DEF EventsInTurn, Counts
<1>3. ~InHand(id)
  BY <1>1, <1>2, OneInHand DEF HandlesInTurn
<1> QED
  BY <1>1, <1>2, <1>3 DEF EventsInTurn

(* A row keeps its end when its purchase is moved away, when it is revoked and when that is undone. *)
LEMMA RowsKeepEnds ==
    /\ \A row \in Rows : HasItsEnd(row) =>
           HasItsEnd(ExpiredOrigin(row)) /\ EndOf(ExpiredOrigin(row)) = EndOf(row)
    /\ \A row \in Rows \cup {None} : HasItsEnd(row) =>
           HasItsEnd(RevokedRow(row)) /\ EndOf(RevokedRow(row)) = EndOf(row)
    /\ \A row \in Rows \cup {None} : HasItsEnd(row) /\ CanReactivate(row) =>
           HasItsEnd(ReactivatedRow(row)) /\ EndOf(ReactivatedRow(row)) = EndOf(row)
<1>1. ASSUME NEW row \in Rows, HasItsEnd(row)
      PROVE  HasItsEnd(ExpiredOrigin(row)) /\ EndOf(ExpiredOrigin(row)) = EndOf(row)
  <2>1. /\ ExpiredOrigin(row) \in Rows /\ ExpiredOrigin(row).status = "expired"
        /\ ExpiredOrigin(row).end = row.end /\ ExpiredOrigin(row).pre = row.pre
    BY DEF ExpiredOrigin, Rows, Statuses
  <2> QED
    BY <1>1, <2>1, NullIsNoStatus DEF HasItsEnd, EntitlesBeneath, Entitles, EndOf
<1>2. ASSUME NEW row \in Rows \cup {None}, HasItsEnd(row)
      PROVE  HasItsEnd(RevokedRow(row)) /\ EndOf(RevokedRow(row)) = EndOf(row)
  <2>1. RevokedRow(row) \in Rows
    BY RevokedRowType
  <2>2. RevokedRow(row) # None
    BY <2>1, NullIsNoStatus
  <2>3. CASE row = None
    <3>1. RevokedRow(row).status = "revoked" /\ RevokedRow(row).pre = "none" /\ RevokedRow(row).end = None
      BY <2>3 DEF RevokedRow
    <3> QED
      BY <2>2, <2>3, <3>1 DEF HasItsEnd, EntitlesBeneath, Entitles, EndOf
  <2>4. CASE row # None
    <3>1. /\ RevokedRow(row).status = "revoked" /\ RevokedRow(row).end = row.end
          /\ RevokedRow(row).pre = IF row.status = "revoked" THEN row.pre ELSE row.status
          /\ row.status \in Statuses
      BY <2>4 DEF RevokedRow, PreRevokeStatusFor, Rows
    <3> QED
      BY <1>2, <2>2, <2>4, <3>1 DEF HasItsEnd, EntitlesBeneath, Entitles, EndOf, Statuses
  <2> QED
    BY <2>3, <2>4
<1>3. ASSUME NEW row \in Rows \cup {None}, HasItsEnd(row), CanReactivate(row)
      PROVE  HasItsEnd(ReactivatedRow(row)) /\ EndOf(ReactivatedRow(row)) = EndOf(row)
  <2>1. row \in Rows /\ row # None /\ row.status = "revoked"
    BY <1>3 DEF CanReactivate
  <2>2. CASE row.pre = "none"
    BY <1>3, <2>1, <2>2 DEF HasItsEnd, ReactivatedRow, EndOf
  <2>3. CASE row.pre # "none"
    <3>1. /\ ReactivatedRow(row).status = row.pre /\ ReactivatedRow(row).end = row.end
          /\ ReactivatedRow(row).pre = None
      BY <2>1, <2>3 DEF ReactivatedRow, Rows
    <3>2. ReactivatedRow(row) \in Rows
      BY <1>3, <2>1, <2>3, ReactivatedRowType DEF ReactivatedRow, Rows
    <3> QED
      BY <1>3, <2>1, <3>1, <3>2, NullIsNoStatus DEF HasItsEnd, EntitlesBeneath, Entitles, EndOf, Statuses
  <2> QED
    BY <2>2, <2>3
<1> QED
  BY <1>1, <1>2, <1>3

(* A row that no revoke made has its end if it has any, or does not entitle. *)
LEMMA UpsertedEnds ==
    ASSUME NEW row \in Rows, row.pre = None, row.end # None \/ row.status \in {"expired", "refunded"}
    PROVE  HasItsEnd(row) /\ EndOf(row) = row.end
  BY NullIsNoStatus DEF HasItsEnd, EntitlesBeneath, Entitles, EndOf

(* A step that leaves an end where there was one, and of which no event dates a row. *)
LEMMA EndsStay ==
    ASSUME EndsInTurn, NEW r, Requests = {r},
           \A u \in Users : /\ HasItsEnd(sub'[u])
                            /\ EndOf(sub[u]) # None => EndOf(sub'[u]) # None,
           \A id \in EventIds, u \in Users :
               Dates(id, u) /\ Happened(id)' => Happened(id) \/ EndOf(sub'[u]) # None,
           proc'[r].pc = "move" => EndOf(proc'[r].row) # None
    PROVE  EndsInTurn'
<1>1. \A id \in Prompt, u \in Users : Dates(id, u) /\ Happened(id)' => EndOf(sub'[u]) # None
  BY BoundAssumption DEF EndsInTurn
<1> QED
  BY <1>1 DEF EndsInTurn, HasItsEnd, EntitlesBeneath, Entitles, Dates, Reports, MovesTo, EndOf

(* Only writes touch ends. *)
LEMMA EndsUntouched ==
    ASSUME EndsInTurn, NEW r, Requests = {r}, sub' = sub,
           \A id \in EventIds : Happened(id)' => Happened(id),
           proc'[r].pc = "move" => EndOf(proc'[r].row) # None
    PROVE  EndsInTurn'
BY EndsStay DEF EndsInTurn

(* An event with no end for a live plan finds one in the row. *)
LEMMA WriteEnds ==
    ASSUME EndsComeFirst, Typed, ToldInTurn, EndsInTurn, NEW r, Requests = {r}, WriteSubscription(r)
    PROVE  EndsInTurn'
<1> PICK q : q = proc[r]
  OBVIOUS
<1>1. q.pc = "write" /\ q.ev \in EventIds /\ q.user \in Users /\ q.pc \in Deciding
  BY RequestFields DEF WriteSubscription, Deciding, AfterRecord
<1> DEFINE e == Event[q.ev]
           u == q.user
           row == EventRow(e, sub[u])
<1>2. /\ q.row = sub[u] /\ Reports(q.ev, u) /\ e.at <= clock
  BY <1>1, OneInHand DEF HandlesInTurn
<1>3. sub' = [sub EXCEPT ![u] = row] /\ proc'[r] = Idle /\ Took(StoreKey(q.ev))
  BY <1>2 DEF WriteSubscription, Respond, Typed, TypeOK
<1>4. /\ e \in EventRecords /\ sub[u] \in Rows \cup {None} /\ row \in Rows
  BY <1>1, EventType, EventRowType DEF Typed, TypeOK
<1>5. Coalesce(e.end, EndOf(sub[u])) # None \/ StatusOf(e.type) \in {"expired", "refunded"}
  <2>1. SUFFICES ASSUME e.end = None, KeepsLive(q.ev) PROVE EndOf(sub[u]) # None
    BY DEF Coalesce, KeepsLive, StatusOf
  <2>2. DatedBefore(u, e.at)
    BY <1>1, <1>2, <2>1 DEF EndsComeFirst
  <2>3. PICK d \in Prompt : Event[d].at < e.at /\ Dates(d, u)
    BY <2>2 DEF DatedBefore
  <2>4. Event[d].at < clock /\ Counts(d, u)
    BY <1>1, <1>2, <2>3, EventType, BoundAssumption DEF Dates, Counts, Typed, TypeOK
  <2> QED
    BY <1>1, <2>3, <2>4, ToldHasHappened DEF EndsInTurn
<1>6. HasItsEnd(row) /\ EndOf(row) = Coalesce(e.end, EndOf(sub[u]))
  <2>1. /\ row.pre = None /\ row.end = Coalesce(e.end, EndOf(sub[u]))
        /\ row.status = StatusOf(e.type)
    BY DEF EventRow, UpsertedRow
  <2> HIDE DEF row
  <2> QED
    BY <1>4, <1>5, <2>1, UpsertedEnds
<1> HIDE DEF row
<1>7. \A v \in Users : sub'[v] = IF v = u THEN row ELSE sub[v]
  BY <1>1, <1>3 DEF Typed, TypeOK
<1>8. \A v \in Users : HasItsEnd(sub'[v]) /\ (EndOf(sub[v]) # None => EndOf(sub'[v]) # None)
  BY <1>6, <1>7 DEF EndsInTurn, Coalesce
<1>9. ASSUME NEW id \in EventIds, NEW v \in Users, Dates(id, v), Happened(id)'
      PROVE  Happened(id) \/ EndOf(sub'[v]) # None
  <2>1. Happened(id) \/ id = q.ev
    BY <1>1, <1>3, <1>9, EffectHappens
  <2>2. ASSUME id = q.ev PROVE EndOf(sub'[v]) # None
    <3>1. v = u
      BY <1>1, <1>2, <1>9, <2>2, OneCounts DEF Dates, Counts
    <3>2. e.end # None
      BY <1>2, <1>9, <2>2 DEF Dates, Reports, MovesTo, MappedTypes, PurchaseTypes
    <3> QED
      BY <1>1, <1>6, <1>7, <3>1, <3>2 DEF Coalesce
  <2> QED
    BY <2>1, <2>2
<1> QED
  BY <1>3, <1>8, <1>9, EndsStay DEF Idle

(* A transfer takes its end from an account that was told of one. *)
LEMMA ReadOriginsEnds ==
    ASSUME EndsComeFirst, Typed, ToldInTurn, EndsInTurn, NEW r, Requests = {r}, ReadOrigins(r)
    PROVE  EndsInTurn'
<1> PICK q : q = proc[r]
  OBVIOUS
<1>1. q.pc = "readOrigins" /\ q.ev \in EventIds /\ q.user \in Users /\ q.pc \in Deciding /\ q \in Procs
  BY RequestFields DEF ReadOrigins, Deciding, AfterRecord, TransferSteps
<1> DEFINE e == Event[q.ev]
           from == FromUsers(e, q.user)
           origins == {u \in from : sub[u] # None}
<1>2. MovesTo(q.ev, q.user) /\ e.at <= clock /\ e.at \in Nat
  BY <1>1, OneInHand, EventType DEF HandlesInTurn, TransferSteps
<1>3. ASSUME NEW w \in from PROVE EndOf(sub[w]) # None
  <2>1. w \in Users
    BY <1>3 DEF FromUsers
  <2>2. PICK d \in Prompt : Event[d].at < e.at /\ Dates(d, w)
    BY <1>1, <1>2, <1>3 DEF EndsComeFirst, DatedBefore
  <2>3. Event[d].at < clock /\ Counts(d, w)
    BY <1>2, <2>1, <2>2, EventType, BoundAssumption DEF Dates, Counts, Typed, TypeOK
  <2> QED
    BY <2>1, <2>2, <2>3, ToldHasHappened DEF EndsInTurn
<1>4. origins # {}
  <2>1. from # {}
    BY <1>1, <1>2 DEF EndsComeFirst
  <2> QED
    BY <1>3, <2>1 DEF EndOf
<1>5. PICK row : /\ IsSource(origins, row)
                 /\ proc' = [proc EXCEPT ![r].pc = "move", ![r].row = row, ![r].left = origins]
  BY DEF ReadOrigins
<1>6. PICK w \in origins : row = sub[w]
  BY <1>4, <1>5 DEF IsSource
<1>7. proc'[r].row = row
  BY <1>1, <1>5 DEF Typed, TypeOK, Procs
<1>8. EndOf(proc'[r].row) # None
  BY <1>3, <1>6, <1>7
<1> QED
  BY <1>8, EndsUntouched DEF ReadOrigins, Happened

(* The destination of a transfer takes over an end, and its origins keep theirs. *)
LEMMA MoveEnds ==
    ASSUME Typed, ToldInTurn, EndsInTurn, NEW r, Requests = {r}, MoveSubscription(r)
    PROVE  EndsInTurn'
<1> PICK q : q = proc[r]
  OBVIOUS
<1>1. /\ q.pc = "move" /\ q.ev \in EventIds /\ q.user \in Users /\ q \in Procs
      /\ q.row \in Rows \cup {None}
  BY RequestFields DEF MoveSubscription, Deciding, AfterRecord, TransferSteps
<1>2. EndOf(q.row) # None /\ MovesTo(q.ev, q.user)
  BY <1>1, OneInHand DEF EndsInTurn, HandlesInTurn, TransferSteps
<1> DEFINE from == FromUsers(Event[q.ev], q.user)
<1>3. /\ Took(StoreKey(q.ev))
      /\ sub' = [u \in Users |->
            CASE u = q.user -> TransferredRow(q.row)
              [] u \in from /\ sub[u] # None -> ExpiredOrigin(sub[u])
              [] OTHER -> sub[u]]
  BY DEF MoveSubscription
<1>4. proc'[r].pc # "move"
  BY <1>1 DEF MoveSubscription, Respond, Idle, Typed, TypeOK, Procs
<1>5. \A u \in Users : \/ u = q.user /\ sub'[u] = TransferredRow(q.row)
                       \/ sub[u] \in Rows /\ sub'[u] = ExpiredOrigin(sub[u])
                       \/ sub'[u] = sub[u]
  BY <1>3 DEF FromUsers, Typed, TypeOK
<1>6. HasItsEnd(TransferredRow(q.row)) /\ EndOf(TransferredRow(q.row)) # None
  <2>1. TransferredRow(q.row) \in Rows
    BY <1>1, TransferredRowType
  <2>2. TransferredRow(q.row).pre = None /\ TransferredRow(q.row).end = EndOf(q.row)
    BY DEF TransferredRow, UpsertedRow
  <2> QED
    BY <1>2, <2>1, <2>2, UpsertedEnds
<1>7. \A u \in Users : HasItsEnd(sub'[u]) /\ (EndOf(sub[u]) # None => EndOf(sub'[u]) # None)
  BY <1>5, <1>6, RowsKeepEnds DEF EndsInTurn
<1>8. ASSUME NEW id \in EventIds, NEW u \in Users, Dates(id, u), Happened(id)'
      PROVE  Happened(id) \/ EndOf(sub'[u]) # None
  <2>1. Happened(id) \/ id = q.ev
    BY <1>1, <1>3, <1>8, EffectHappens
  <2>2. ASSUME id = q.ev PROVE u = q.user
    BY <1>1, <1>2, <1>8, <2>2, OneCounts DEF Dates, Counts
  <2>3. sub'[q.user] = TransferredRow(q.row)
    BY <1>1, <1>3 DEF FromUsers
  <2> QED
    BY <1>6, <2>1, <2>2, <2>3
<1> QED
  BY <1>4, <1>7, <1>8, EndsStay

(* A promo grant has an end. *)
LEMMA GrantEnds ==
    ASSUME Typed, EndsInTurn, NEW r, Requests = {r}, GrantPromo(r)
    PROVE  EndsInTurn'
<1> PICK q : q = proc[r]
  OBVIOUS
<1>1. q.pc = "grant" /\ q.code \in Codes /\ q.user \in Users /\ q.at \in Nat /\ q \in Procs
  BY RequestFields DEF GrantPromo, PromoSteps
<1> DEFINE row == UpsertedRow("active", "promo", q.at + Term[q.code], None, TRUE)
<1>2. q.at + Term[q.code] \in Nat
  BY <1>1, CodeAssumption
<1>3. row \in Rows
  BY <1>2, UpsertedRowType DEF Statuses, Sources
<1>4. HasItsEnd(row) /\ EndOf(row) # None
  <2>1. q.at + Term[q.code] # None
    BY <1>2, NoneIsNull
  <2>2. row.pre = None /\ row.end = q.at + Term[q.code]
    BY DEF UpsertedRow
  <2> HIDE DEF row
  <2> QED
    BY <1>3, <2>1, <2>2, UpsertedEnds
<1> HIDE DEF row
<1>5. sub' = [sub EXCEPT ![q.user] = row] /\ Took(PromoKey(q.code)) /\ proc'[r].pc = "logPromo"
  BY <1>1 DEF GrantPromo, row, Typed, TypeOK, Procs
<1>6. \A u \in Users : sub'[u] = row \/ sub'[u] = sub[u]
  BY <1>5 DEF Typed, TypeOK
<1>7. \A id \in EventIds : Happened(id)' => Happened(id)
  <2>1. PromoKey(q.code) \in Tokens /\ \A id : PromoKey(q.code) # StoreKey(id)
    BY <1>1, KeysApart DEF PromoKey, Tokens
  <2> QED
    BY <1>5, <2>1, OtherTokens
<1> QED
  BY <1>4, <1>5, <1>6, <1>7, EndsStay DEF EndsInTurn

(* A revoke and its undo touch no end. *)
LEMMA AdminEnds ==
    ASSUME Typed, EndsInTurn, NEW r, Requests = {r}, NEW u \in AdminOn,
           RevokeSubscription(r, u) \/ ReactivateSubscription(r, u)
    PROVE  EndsInTurn'
<1>1. /\ proc[r].pc = "idle" /\ proc' = proc /\ effects' = effects /\ u \in Users
      /\ sub[u] \in Rows \cup {None}
  BY BoundAssumption DEF RevokeSubscription, ReactivateSubscription, Typed, TypeOK
<1>2. PICK row : /\ sub' = [sub EXCEPT ![u] = row]
                 /\ HasItsEnd(row) /\ EndOf(row) = EndOf(sub[u])
  <2>1. CASE RevokeSubscription(r, u)
    BY <1>1, <2>1, RowsKeepEnds DEF RevokeSubscription, EndsInTurn
  <2>2. CASE ReactivateSubscription(r, u)
    BY <1>1, <2>2, RowsKeepEnds DEF ReactivateSubscription, EndsInTurn
  <2> QED
    BY <2>1, <2>2
<1>3. \A v \in Users : sub'[v] = IF v = u THEN row ELSE sub[v]
  BY <1>2 DEF Typed, TypeOK
<1> QED
  BY <1>1, <1>2, <1>3, EndsStay DEF EndsInTurn, Happened

(* At first there is no row. *)
LEMMA EndsInit == ASSUME NEW r, Requests = {r}, Init PROVE EndsInTurn
<1>1. \A u \in Users : sub[u] = None
  BY DEF Init
<1>2. proc[r].pc = "idle"
  BY DEF Init, Idle
<1>3. \A id \in Prompt : ~Happened(id)
  BY BoundAssumption DEF Init, Happened, Tokens, StoreKey
<1> QED
  BY <1>1, <1>2, <1>3 DEF EndsInTurn, HasItsEnd

(* Every step keeps the ends, where an end comes first. *)
LEMMA EndsNext ==
    ASSUME NEW r, Requests = {r}, MaxFaults = 0, EndsComeFirst,
           Typed, ToldInTurn, EndsInTurn, [Next]_vars
    PROVE  EndsInTurn'
<1>1. ASSUME Spend("faults", MaxFaults) PROVE FALSE
  BY <1>1 DEF Spend, Typed, TypeOK
<1> PICK q : q = proc[r]
  OBVIOUS
<1>2. q \in Procs
  BY RequestFields
<1>3. ASSUME NEW p, p.pc # "move", proc' = [proc EXCEPT ![r] = p] PROVE proc'[r].pc # "move"
  BY <1>3 DEF Typed, TypeOK
<1>4. ASSUME effects' = effects, sub' = sub, proc'[r].pc # "move" PROVE EndsInTurn'
  BY <1>4, EndsUntouched DEF Happened
<1>5. CASE Continue(r)
  <2>1. CASE RecordEvent(r)
    <3>1. proc'[r].pc # "move"
      BY <1>2, <2>1 DEF RecordEvent, Respond, NextStep, Idle, Typed, TypeOK, Procs
    <3> QED
      BY <1>4, <2>1, <3>1 DEF RecordEvent
  <2>2. CASE LoadExisting(r)
    <3>1. proc'[r].pc # "move"
      BY <1>2, <2>2 DEF LoadExisting, Typed, TypeOK, Procs
    <3> QED
      BY <1>4, <2>2, <3>1 DEF LoadExisting
  <2>3. ASSUME NEW u \in Users, LogOrigin(r, u) PROVE EndsInTurn'
    <3>1. proc'[r].pc # "move"
      BY <1>2, <2>3 DEF LogOrigin, OriginLogged, Respond, Idle, Typed, TypeOK, Procs
    <3> QED
      BY <1>4, <2>3, <3>1 DEF LogOrigin
  <2>4. CASE CheckLiveApplePurchase(r)
    <3>1. proc'[r].pc # "move"
      BY <1>2, <2>4 DEF CheckLiveApplePurchase, Idle, Typed, TypeOK, Procs
    <3> QED
      BY <1>4, <2>4, <3>1 DEF CheckLiveApplePurchase
  <2>5. CASE ClaimCode(r)
    <3>1. proc'[r].pc # "move"
      BY <1>2, <2>5 DEF ClaimCode, Idle, Typed, TypeOK, Procs
    <3> QED
      BY <1>4, <2>5, <3>1 DEF ClaimCode
  <2>6. CASE LogPromo(r)
    <3>1. proc'[r].pc # "move"
      BY <2>6 DEF LogPromo, Idle, Typed, TypeOK
    <3> QED
      BY <1>4, <2>6, <3>1 DEF LogPromo
  <2> QED
    BY <1>5, <2>1, <2>2, <2>3, <2>4, <2>5, <2>6, WriteEnds, ReadOriginsEnds, MoveEnds, GrantEnds
       DEF Continue
<1>6. ASSUME NEW id \in EventIds, ReceiveEvent(r, id) PROVE EndsInTurn'
  <2>1. proc'[r].pc # "move"
    BY <1>6 DEF ReceiveEvent, Idle, Typed, TypeOK
  <2> QED
    BY <1>4, <1>6, <2>1 DEF ReceiveEvent
<1>7. ASSUME NEW c \in Codes, RedeemPromoCode(r, c) PROVE EndsInTurn'
  <2>1. proc'[r].pc # "move"
    BY <1>7 DEF RedeemPromoCode, Idle, Typed, TypeOK
  <2> QED
    BY <1>4, <1>7, <2>1 DEF RedeemPromoCode
<1>8. ASSUME NEW u \in AdminOn, RevokeSubscription(r, u) \/ ReactivateSubscription(r, u)
      PROVE  EndsInTurn'
  BY <1>8, AdminEnds
<1>9. ASSUME NEW u \in Users, LogOriginFails(r, u) PROVE FALSE
  BY <1>1, <1>9 DEF LogOriginFails
<1>10. CASE Crash(r)
  BY <1>1, <1>10 DEF Crash
<1>11. ASSUME Tick \/ UNCHANGED vars PROVE EndsInTurn'
  BY <1>11, EndsUntouched DEF Tick, vars, Happened, EndsInTurn
<1> QED
  BY <1>5, <1>6, <1>7, <1>8, <1>9, <1>10, <1>11 DEF Next

(* NoEndlessStoreRow: null means "no end" to the resolver, and no live row from the      *)
(* store is without one, where an account's row was told of an end before anything came  *)
(* that carries none (webhook.ts, one request and no crash between its statements).      *)
THEOREM NoRowIsEndless ==
    ASSUME NEW r, Requests = {r}, MaxFaults = 0, EndsComeFirst
    PROVE  Spec => []NoEndlessStoreRow
<1> DEFINE Inv == Typed /\ InTurn /\ ToldInTurn /\ EndsInTurn
<1>1. Init => Inv
  BY TypedInit, InTurnInit, ToldInit, EndsInit
<1>2. Inv /\ [Next]_vars => Inv'
  BY TypedNext, InTurnNext, ToldNext, EndsNext
<1>3. Inv => NoEndlessStoreRow
  BY DEF EndsInTurn, HasItsEnd, EntitlesBeneath, Entitles, NoEndlessStoreRow
<1> QED
  BY <1>1, <1>2, <1>3, PTL DEF Spec

-----------------------------------------------------------------------------
(* One purchase, one account *)

(* Some account of a purchase the events follow, at every moment of our clock. *)
LEMMA OwnerIs ==
    ASSUME EventsFollowOwner
    PROVE  Belongs(Owner) /\ \A p \in Purchases, t \in 0..MaxClock : Owner[p][t] \in Users \cup {None}
<1>1. Owner \in Owners /\ Belongs(Owner)
  BY DEF EventsFollowOwner, Owner
<1> QED
  BY <1>1 DEF Owners

(* Only a transfer at this moment of the clock changes who holds a purchase. *)
LEMMA HoldersStay ==
    ASSUME clock' = clock, NEW p,
           \A id \in EventIds : Event[id].type = "TRANSFER" => (Happened(id)' <=> Happened(id))
    PROVE  Holder(p)' = Holder(p)
<1>1. HasMoved(p)' <=> HasMoved(p)
  BY DEF HasMoved, MovesTo
<1> QED
  BY <1>1 DEF Holder

(* A step of one request that moves no purchase, and writes no row that entitles by another. *)
LEMMA OwnersStay ==
    ASSUME Typed, OwnersInTurn, NEW r, Requests = {r}, clock' = clock, ledger \subseteq ledger',
           proc[r].pc # "logOrigins", OriginsRead(proc[r])',
           \A id \in EventIds : Happened(id)' <=> Happened(id),
           \A u \in Users :
               /\ EntitlesBeneath(sub'[u]) /\ sub'[u].txn # None =>
                      EntitlesBeneath(sub[u]) /\ sub'[u].txn = sub[u].txn
               /\ sub[u] # None /\ sub[u].pre # "none" =>
                      sub'[u] # None /\ sub'[u].pre # "none" /\ sub'[u].txn \in {None, sub[u].txn}
    PROVE  OwnersInTurn'
<1>1. \A p : Holder(p)' = Holder(p)
  BY HoldersStay
<1>2. HoldersEntitled'
  <2>1. ASSUME NEW u \in Users, NEW p \in Purchases, EntitlesBeneath(sub'[u]), sub'[u].txn = p
        PROVE  Holder(p)' = u
    <3>1. EntitlesBeneath(sub[u]) /\ sub[u].txn = p
      BY <2>1, EventAssumption
    <3> QED
      BY <1>1, <3>1 DEF OwnersInTurn, HoldersEntitled
  <2> QED
    BY <2>1 DEF HoldersEntitled, EntitlesBeneath, Entitles
<1>3. LostIsLogged'
  <2>1. ASSUME NEW p \in Purchases, NEW t \in 0..(clock - 1), Owner[p][t] # None,
               Holder(p) # Owner[p][t]
        PROVE  \E row \in AppliedTo(Owner[p][t])' : row.at > t
    BY <2>1 DEF OwnersInTurn, LostIsLogged, AppliedTo
  <2> QED
    BY <1>1, <2>1 DEF LostIsLogged
<1>4. NamesInTurn'
  <2>1. ASSUME NEW u \in Users, NEW at, NamesItsOwn(u, at) PROVE NamesItsOwn(u, at)'
    BY <2>1 DEF NamesItsOwn
  <2> QED
    BY <2>1, BoundAssumption DEF OwnersInTurn, NamesInTurn
<1> QED
  BY <1>2, <1>3, <1>4 DEF OwnersInTurn

(* The step changes no row, and brings a transfer no nearer to its origins. *)
LEMMA OwnersUntouched ==
    ASSUME Typed, OwnersInTurn, NEW r, Requests = {r}, clock' = clock, ledger \subseteq ledger', sub' = sub,
           \A id \in EventIds : Happened(id)' <=> Happened(id),
           proc[r].pc # "logOrigins", OriginsRead(proc[r])'
    PROVE  OwnersInTurn'
BY OwnersStay

(* By the time our clock moves on, whoever a purchase belongs to holds it. *)
LEMMA TransfersAreDone ==
    ASSUME EventsFollowOwner, Typed, ToldInTurn, OwnersInTurn, NEW r, Requests = {r}, Tick,
           NEW p \in Purchases
    PROVE  Holder(p) = Owner[p][clock] /\ (Holder(p) # None => Holder(p)' = Holder(p))
<1> PICK now : now = clock
  OBVIOUS
<1>1. /\ now \in 0..MaxClock /\ now + 1 \in 0..MaxClock /\ clock' = now + 1
      /\ effects' = effects
      /\ \A id \in Prompt : Event[id].at <= now => id \in answered
  BY BoundAssumption DEF Tick, Typed, TypeOK
<1>2. EventsInTurn /\ HandlesInTurn(proc[r])
  BY OneInHand
<1>3. Belongs(Owner) /\ \A t \in 0..MaxClock : Owner[p][t] \in Users \cup {None}
  BY OwnerIs
<1>4. ASSUME NEW t \in 1..MaxClock, Owner[p][t - 1] \notin {None, Owner[p][t]}
      PROVE  /\ Owner[p][t] \in Users
             /\ \E id \in Prompt :
                    Event[id].at = t /\ MovesTo(id, Owner[p][t]) /\ Owner[p][t - 1] \in Event[id].from
  BY <1>3, <1>4 DEF Belongs, MovesAreTold
<1>5. ASSUME now > 0, Owner[p][now - 1] \notin {None, Owner[p][now]} PROVE HasMoved(p)
  <2>1. PICK id \in Prompt : /\ Event[id].at = now /\ MovesTo(id, Owner[p][now])
                             /\ Owner[p][now - 1] \in Event[id].from
    BY <1>1, <1>4, <1>5
  <2>2. Owner[p][now] \in Users
    BY <1>1, <1>4, <1>5
  <2>3. id \in answered /\ Recorded(StoreKey(id))
    BY <1>1, <1>2, <2>1 DEF EventsInTurn
  <2>4. Happened(id)
    BY <1>2, <2>1, <2>2, <2>3, OneInHand DEF EventsInTurn, HandlesInTurn, Counts
  <2> QED
    BY <2>1, <2>4, BoundAssumption DEF HasMoved
<1>6. Holder(p) = Owner[p][now]
  BY <1>1, <1>5 DEF Holder
<1>7. ASSUME Owner[p][now] # None PROVE Holder(p)' = Owner[p][now]
  <2>1. CASE Owner[p][now + 1] = Owner[p][now]
    BY <1>1, <1>7, <2>1 DEF Holder
  <2>2. CASE Owner[p][now + 1] # Owner[p][now]
    <3>1. Owner[p][now + 1] \in Users
      BY <1>1, <1>4, <1>7, <2>2
    <3>2. ~HasMoved(p)'
      <4>1. SUFFICES ASSUME NEW id \in EventIds, Event[id].at = now + 1, Happened(id),
                            MovesTo(id, Owner[p][now + 1])
                     PROVE  FALSE
        BY <1>1 DEF HasMoved, Happened
      <4>2. Event[id].at <= now
        BY <1>2, <3>1, <4>1 DEF EventsInTurn, Counts
      <4> QED
        BY <1>1, <4>1, <4>2
    <3>3. Holder(p)' = Owner[p][now]
      BY <1>1, <1>7, <3>2 DEF Holder
    <3> QED
      BY <3>3
  <2> QED
    BY <2>1, <2>2
<1> QED
  BY <1>6, <1>7

(* Time passes, and every purchase changes to who it belongs to. *)
LEMMA TickOwners ==
    ASSUME EventsFollowOwner, Typed, ToldInTurn, OwnersInTurn, NEW r, Requests = {r}, Tick
    PROVE  OwnersInTurn'
<1>1. /\ clock \in Nat /\ clock' = clock + 1 /\ clock' <= MaxClock
      /\ sub' = sub /\ ledger' = ledger /\ proc' = proc /\ effects' = effects
  BY BoundAssumption DEF Tick, Typed, TypeOK
<1>2. \A p \in Purchases : Holder(p) = Owner[p][clock] /\ (Holder(p) # None => Holder(p)' = Holder(p))
  BY TransfersAreDone
<1>3. HoldersEntitled'
  <2>1. ASSUME NEW u \in Users, NEW p \in Purchases, EntitlesBeneath(sub[u]), sub[u].txn = p
        PROVE  Holder(p)' = u
    <3>1. Holder(p) = u /\ u # None
      BY <2>1, EventAssumption DEF OwnersInTurn, HoldersEntitled
    <3> QED
      BY <1>2, <3>1
  <2> QED
    BY <1>1, <2>1 DEF HoldersEntitled, EntitlesBeneath, Entitles
<1>4. LostIsLogged'
  <2>1. ASSUME NEW p \in Purchases, NEW t \in 0..clock, Owner[p][t] # None,
               Holder(p)' # Owner[p][t]
        PROVE  \/ \E row \in AppliedTo(Owner[p][t]) : row.at > t
               \/ \E s \in Requests :
                      proc[s].pc = "logOrigins" /\ Owner[p][t] \in proc[s].left /\ Event[proc[s].ev].at > t
    <3>1. t \in 0..(clock - 1) /\ Holder(p) # Owner[p][t]
      BY <1>1, <1>2, <2>1
    <3> QED
      BY <2>1, <3>1 DEF OwnersInTurn, LostIsLogged
  <2>2. 0..(clock' - 1) = 0..clock
    BY <1>1
  <2> QED
    BY <1>1, <2>1, <2>2 DEF LostIsLogged, AppliedTo
<1>5. NamesInTurn'
  <2>1. ASSUME NEW u, NEW at \in Nat, NamesItsOwn(u, at) PROVE NamesItsOwn(u, at)'
    BY <1>1, <2>1 DEF NamesItsOwn
  <2>2. \A id \in Prompt : Event[id].at \in Nat
    BY EventType, BoundAssumption
  <2> QED
    BY <1>1, <2>1, <2>2 DEF OwnersInTurn, NamesInTurn, Happened
<1>6. \A s \in Requests : OriginsRead(proc[s])'
  BY <1>1 DEF OwnersInTurn, OriginsRead
<1> QED
  BY <1>1, <1>3, <1>4, <1>5, <1>6 DEF OwnersInTurn

(* What an event reports the account still holds, unless it is told of something later. *)
LEMMA ReportedIsHeld ==
    ASSUME EventsFollowOwner, Typed, ToldInTurn, OwnersInTurn, NEW r, Requests = {r},
           proc[r].pc = "write", Event[proc[r].ev].txn # None
    PROVE  LET e == Event[proc[r].ev]
           IN  Owner[e.txn][e.at] = proc[r].user /\ Holder(e.txn) = proc[r].user
<1> PICK q : q = proc[r]
  OBVIOUS
<1>1. q.pc = "write" /\ q.ev \in EventIds /\ q.user \in Users
  BY RequestFields DEF Deciding, AfterRecord
<1> DEFINE e == Event[q.ev]
           u == q.user
           p == e.txn
<1>2. Reports(q.ev, u) /\ e.at <= clock /\ NothingNewer(u, e.at)
  BY <1>1, OneInHand DEF HandlesInTurn, AfterRecord, Deciding
<1>3. /\ e.at \in 0..clock /\ clock \in 0..MaxClock /\ p \in Purchases /\ u # None
      /\ e.at <= MaxClock
  BY <1>1, <1>2, EventType, EventAssumption, BoundAssumption
     DEF OwnersInTurn, Typed, TypeOK, EventRecords
<1>4. Owner[p][e.at] = u /\ (e.at > 0 => Owner[p][e.at - 1] \in {u, None})
  BY <1>1, <1>2, <1>3, OwnerIs DEF Belongs, ReportsToOwner
<1>5. CASE e.at = clock
  BY <1>3, <1>4, <1>5 DEF Holder
<1>6. CASE e.at # clock
  <2>1. e.at \in 0..(clock - 1)
    BY <1>3, <1>6
  <2>2. ~ \E row \in AppliedTo(u) : row.at > e.at
    <3>1. \A row \in AppliedTo(u) : row.at \in Nat /\ row.at <= e.at
      BY <1>2 DEF NothingNewer, AppliedTo, Typed, TypeOK, LedgerRows
    <3> QED
      BY <1>3, <3>1
  <2>3. ~ \E s \in Requests : proc[s].pc = "logOrigins"
    BY <1>1
  <2> QED
    BY <1>3, <1>4, <2>1, <2>2, <2>3 DEF OwnersInTurn, LostIsLogged
<1> QED
  BY <1>4, <1>5, <1>6

(* An event is written for the account that holds the purchase it reports. *)
LEMMA WriteOwners ==
    ASSUME EventsFollowOwner, Typed, ToldInTurn, OwnersInTurn, NEW r, Requests = {r},
           WriteSubscription(r)
    PROVE  OwnersInTurn'
<1> PICK q : q = proc[r]
  OBVIOUS
<1>1. q.pc = "write" /\ q.ev \in EventIds /\ q.user \in Users /\ q.pc \in Deciding
  BY RequestFields DEF WriteSubscription, Deciding, AfterRecord
<1> DEFINE e == Event[q.ev]
           u == q.user
           row == EventRow(e, sub[u])
<1>2. /\ q.row = sub[u] /\ Reports(q.ev, u) /\ e.at <= clock /\ NothingNewer(u, e.at)
  BY <1>1, OneInHand DEF HandlesInTurn, AfterRecord
<1>3. /\ sub' = [sub EXCEPT ![u] = row] /\ proc'[r] = Idle /\ Took(StoreKey(q.ev))
      /\ clock' = clock /\ ledger' = ledger
  BY <1>2 DEF WriteSubscription, Respond, Typed, TypeOK
<1>4. /\ e \in EventRecords /\ sub[u] \in Rows \cup {None} /\ row \in Rows
      /\ clock \in 0..MaxClock /\ e.at \in 0..clock
  BY <1>1, <1>2, EventType, EventRowType, BoundAssumption DEF OwnersInTurn, Typed, TypeOK
<1>5. /\ row.status = StatusOf(e.type) /\ row.txn = Coalesce(e.txn, TxnOf(sub[u])) /\ row.pre = None
  BY DEF EventRow, UpsertedRow
<1> HIDE DEF row
<1>6. \A v \in Users : sub'[v] = IF v = u THEN row ELSE sub[v]
  BY <1>1, <1>3 DEF Typed, TypeOK
<1>7. \A p : Holder(p)' = Holder(p)
  <2>1. e.type # "TRANSFER"
    BY <1>2 DEF Reports, MappedTypes, PurchaseTypes
  <2>2. \A id \in EventIds : Event[id].type = "TRANSFER" => (Happened(id)' <=> Happened(id))
    BY <1>1, <1>3, <2>1, EffectHappens
  <2> QED
    BY <1>3, <2>2, HoldersStay
<1>8. HoldersEntitled'
  <2>1. ASSUME EntitlesBeneath(row) PROVE e.txn # None /\ row.txn = e.txn
    <3>1. KeepsLive(q.ev)
      BY <1>5, <2>1, NullIsNoStatus DEF EntitlesBeneath, Entitles, KeepsLive, StatusOf
    <3>2. e.at <= MaxClock
      BY <1>4, BoundAssumption
    <3>3. e.txn # None
      BY <1>1, <1>2, <3>1, <3>2, OwnerIs DEF Belongs, ReportsToOwner
    <3> QED
      BY <1>5, <3>3 DEF Coalesce
  <2>2. ASSUME NEW v \in Users, NEW p \in Purchases, EntitlesBeneath(sub'[v]), sub'[v].txn = p
        PROVE  Holder(p) = v
    <3>1. CASE v = u
      BY <1>1, <1>6, <2>1, <2>2, <3>1, ReportedIsHeld
    <3>2. CASE v # u
      BY <1>6, <2>2, <3>2 DEF OwnersInTurn, HoldersEntitled
    <3> QED
      BY <3>1, <3>2
  <2> QED
    BY <1>7, <2>2 DEF HoldersEntitled, EntitlesBeneath, Entitles
<1>9. LostIsLogged'
  BY <1>1, <1>3, <1>7 DEF OwnersInTurn, LostIsLogged, AppliedTo
<1>10. NamesInTurn'
  <2>1. SUFFICES ASSUME NEW id \in Prompt, NEW v \in Users, Happened(id)', Names(id, v)
                 PROVE  /\ sub'[v] # None /\ sub'[v].pre # "none"
                        /\ sub'[v].txn # None =>
                               \E t \in Event[id].at..clock : Owner[sub'[v].txn][t] = v
    BY <1>3 DEF NamesInTurn, NamesItsOwn
  <2>2. id \in EventIds /\ (Happened(id) \/ id = q.ev) /\ Counts(id, v)
    BY <1>1, <1>3, <2>1, EffectHappens, BoundAssumption DEF Names, Counts
  <2>3. Happened(id) => NamesItsOwn(v, Event[id].at)
    BY <2>1 DEF OwnersInTurn, NamesInTurn
  <2>4. CASE v # u
    <3>1. Happened(id)
      BY <1>1, <1>2, <2>2, <2>4, OneCounts DEF Counts
    <3> QED
      BY <1>6, <2>3, <2>4, <3>1 DEF NamesItsOwn
  <2>5. CASE v = u
    <3>1. sub'[v] = row /\ row # None /\ row.pre # "none"
      BY <1>1, <1>4, <1>5, <1>6, <2>5, NullIsNoStatus
    <3>2. CASE e.txn # None
      <4>1. row.txn = e.txn
        BY <1>5, <3>2 DEF Coalesce
      <4>2. Owner[e.txn][e.at] = u
        BY <1>1, <3>2, ReportedIsHeld
      <4>3. Event[id].at <= e.at
        <5>1. CASE Happened(id)
          BY <1>2, <2>2, <2>5, <5>1, OneInHand DEF EventsInTurn, LoggedAt, NothingNewer
        <5>2. CASE id = q.ev
          BY <1>4, <5>2
        <5> QED
          BY <2>2, <5>1, <5>2
      <4>4. e.at \in Event[id].at..clock
        BY <1>4, <2>2, <4>3, EventType DEF Typed, TypeOK
      <4> QED
        BY <2>5, <3>1, <4>1, <4>2, <4>4
    <3>3. CASE e.txn = None
      <4>1. Happened(id)
        <5>1. ~Names(q.ev, u)
          BY <1>2, <3>3 DEF Names, Reports, MovesTo, MappedTypes, PurchaseTypes
        <5> QED
          BY <2>1, <2>2, <2>5, <5>1
      <4>2. NamesItsOwn(u, Event[id].at)
        BY <2>3, <2>5, <4>1
      <4>3. row.txn = sub[u].txn
        BY <1>5, <3>3, <4>2 DEF Coalesce, TxnOf, NamesItsOwn
      <4> QED
        BY <2>5, <3>1, <4>2, <4>3 DEF NamesItsOwn
    <3> QED
      BY <3>2, <3>3
  <2> QED
    BY <2>4, <2>5
<1>11. OriginsRead(proc[r])'
  BY <1>3 DEF OriginsRead, Idle
<1> QED
  BY <1>3, <1>8, <1>9, <1>10, <1>11 DEF OwnersInTurn

(* Every account a purchase is moved from has a row, whose purchase it owned until now. *)
LEMMA OriginsOwned ==
    ASSUME EventsFollowOwner, Typed, ToldInTurn, OwnersInTurn, NEW r, Requests = {r},
           proc[r].pc \in {"readOrigins", "move"}, NEW w \in FromUsers(Event[proc[r].ev], proc[r].user)
    PROVE  /\ sub[w] # None
           /\ \A p \in Purchases : Event[proc[r].ev].at = clock /\ sub[w].txn = p =>
                  clock > 0 /\ Owner[p][clock - 1] = w /\ Owner[p][clock] = proc[r].user
<1> PICK q : q = proc[r]
  OBVIOUS
<1>1. q.ev \in EventIds /\ q.user \in Users /\ w \in Users
  BY RequestFields DEF Deciding, AfterRecord, TransferSteps, FromUsers
<1> DEFINE e == Event[q.ev]
<1>2. MovesTo(q.ev, q.user) /\ e.at <= clock
  BY OneInHand DEF HandlesInTurn, AfterRecord, Deciding, TransferSteps
<1>3. clock \in 0..MaxClock /\ e.at \in 0..clock /\ e.at <= MaxClock
  BY <1>1, <1>2, EventType, BoundAssumption DEF OwnersInTurn, Typed, TypeOK
<1>4. /\ \A p \in Purchases :
             Owner[p][e.at] # w /\ (e.at > 0 /\ Owner[p][e.at - 1] = w => Owner[p][e.at] = q.user)
      /\ \E told \in Prompt :
             Event[told].at < e.at /\ Names(told, w) /\ HasKept(Owner, w, Event[told].at, e.at)
  <2>1. MovesTakeAll(Owner) /\ w \in FromUsers(e, q.user)
    BY OwnerIs DEF Belongs
  <2> QED
    BY <1>1, <1>2, <1>3, <2>1 DEF MovesTakeAll
<1>5. PICK told \in Prompt :
          Event[told].at < e.at /\ Names(told, w) /\ HasKept(Owner, w, Event[told].at, e.at)
  BY <1>4
<1>6. Event[told].at \in Nat /\ Event[told].at < clock
  BY <1>3, <1>5, EventType, BoundAssumption
<1>7. NamesItsOwn(w, Event[told].at)
  <2>1. Counts(told, w)
    BY <1>1, <1>5 DEF Names, Counts
  <2>2. Happened(told)
    BY <1>6, <2>1, ToldHasHappened
  <2> QED
    BY <1>1, <1>5, <2>2 DEF OwnersInTurn, NamesInTurn
<1>8. ASSUME NEW p \in Purchases, e.at = clock, sub[w].txn = p
      PROVE  clock > 0 /\ Owner[p][clock - 1] = w /\ Owner[p][clock] = q.user
  <2>1. PICK t \in Event[told].at..clock : Owner[p][t] = w
    BY <1>7, <1>8, EventAssumption DEF NamesItsOwn
  <2>2. t # clock
    BY <1>4, <1>8, <2>1
  <2>3. t \in Event[told].at..(e.at - 1) /\ clock > 0
    BY <1>3, <1>6, <1>8, <2>1, <2>2
  <2>4. Owner[p][e.at - 1] = w
    BY <1>5, <2>1, <2>3 DEF HasKept
  <2> QED
    BY <1>4, <1>8, <2>3, <2>4
<1> QED
  BY <1>7, <1>8 DEF NamesItsOwn

(* Every account that a transfer names as an origin has a row. *)
LEMMA ReadOriginsOwners ==
    ASSUME EventsFollowOwner, Typed, ToldInTurn, OwnersInTurn, NEW r, Requests = {r}, ReadOrigins(r)
    PROVE  OwnersInTurn'
<1> PICK q : q = proc[r]
  OBVIOUS
<1>1. q.pc = "readOrigins" /\ q \in Procs
  BY RequestFields DEF ReadOrigins
<1> DEFINE from == FromUsers(Event[q.ev], q.user)
           origins == {u \in from : sub[u] # None}
<1>2. \A w \in from : sub[w] # None
  BY <1>1, OriginsOwned
<1>3. PICK row : /\ IsSource(origins, row)
                 /\ proc' = [proc EXCEPT ![r].pc = "move", ![r].row = row, ![r].left = origins]
  BY DEF ReadOrigins
<1>4. /\ proc'[r].row = row /\ proc'[r].left = origins /\ proc'[r].ev = q.ev
      /\ proc'[r].user = q.user
  BY <1>1, <1>3 DEF Typed, TypeOK, Procs
<1>5. origins = from
  BY <1>2
<1>6. row \in {sub[w] : w \in from} \/ (row = None /\ from = {})
  BY <1>3, <1>5 DEF IsSource
<1>7. OriginsRead(proc[r])'
  BY <1>2, <1>4, <1>5, <1>6 DEF OriginsRead, ReadOrigins
<1> QED
  BY <1>1, <1>7, OwnersUntouched DEF ReadOrigins, Happened

(* A transfer is carried out at its moment: who holds what an origin had changes with it. *)
LEMMA MoveMoves ==
    ASSUME EventsFollowOwner, Typed, ToldInTurn, OwnersInTurn, NEW r, Requests = {r},
           MoveSubscription(r)
    PROVE  LET q == proc[r]
               from == FromUsers(Event[q.ev], q.user)
           IN  /\ Event[q.ev].at = clock
               /\ \A p \in Purchases :
                      /\ Holder(p)' # Holder(p) => Holder(p) \in from /\ Holder(p)' = q.user
                      /\ \A w \in from : sub[w].txn = p =>
                             Holder(p)' = q.user /\ Owner[p][clock] = q.user
<1> PICK q : q = proc[r]
  OBVIOUS
<1>1. q.pc = "move" /\ q.ev \in EventIds /\ q.user \in Users /\ clock' = clock
      /\ Took(StoreKey(q.ev))
  BY RequestFields DEF MoveSubscription, Deciding, AfterRecord, TransferSteps
<1> DEFINE e == Event[q.ev]
           from == FromUsers(e, q.user)
<1>2. MovesTo(q.ev, q.user) /\ e.at <= clock /\ q.ev \notin answered
  BY <1>1, OneInHand DEF HandlesInTurn, AfterRecord, Deciding, TransferSteps
<1>3. clock \in 0..MaxClock /\ e.at \in 0..clock /\ e.at <= MaxClock
  BY <1>1, <1>2, EventType, BoundAssumption DEF OwnersInTurn, Typed, TypeOK
<1>4. e.at = clock
  <2>1. MovesAreTold(Owner)
    BY OwnerIs DEF Belongs
  <2>2. q.ev \in Prompt
    BY <1>1, <1>2, <1>3, <2>1 DEF MovesAreTold
  <2>3. ~(e.at < clock)
    BY <1>2, <2>2, OneInHand DEF EventsInTurn
  <2> QED
    BY <1>3, <2>3
<1>5. /\ Happened(q.ev)' /\ \A id \in EventIds : Happened(id) => Happened(id)'
      /\ \A id \in EventIds : Happened(id)' => Happened(id) \/ id = q.ev
  BY <1>1, EffectHappens
<1>6. \A u : MovesTo(q.ev, u) => u = q.user
  BY <1>1, <1>2 DEF MovesTo, IsDestination
<1>7. ASSUME NEW p \in Purchases, Holder(p)' # Holder(p)
      PROVE  Holder(p) \in from /\ Holder(p)' = q.user
  <2>1. /\ clock > 0 /\ Owner[p][clock - 1] # None /\ HasMoved(p)' /\ ~HasMoved(p)
    <3>1. HasMoved(p) => HasMoved(p)'
      BY <1>1, <1>5 DEF HasMoved, MovesTo
    <3> QED
      BY <1>1, <1>3, <1>7, <3>1 DEF Holder
  <2>2. Holder(p) = Owner[p][clock - 1] /\ Holder(p)' = Owner[p][clock]
    BY <1>1, <1>3, <2>1 DEF Holder
  <2>3. MovesTo(q.ev, Owner[p][clock]) /\ Owner[p][clock - 1] \in e.from
    <3>1. PICK id \in EventIds : /\ Event[id].at = clock /\ Happened(id)'
                                 /\ MovesTo(id, Owner[p][clock]) /\ Owner[p][clock - 1] \in Event[id].from
      BY <1>1, <2>1 DEF HasMoved, MovesTo
    <3>2. ~Happened(id)
      BY <2>1, <3>1 DEF HasMoved
    <3> QED
      BY <1>5, <3>1, <3>2
  <2>4. Owner[p][clock] = q.user
    BY <1>6, <2>3
  <2>5. Owner[p][clock - 1] \in Users
    <3>1. clock - 1 \in 0..MaxClock
      BY <1>3, <2>1, BoundAssumption
    <3> QED
      BY <2>1, <3>1, OwnerIs
  <2> QED
    BY <1>7, <2>2, <2>3, <2>4, <2>5 DEF FromUsers
<1>8. ASSUME NEW p \in Purchases, NEW w \in from, sub[w].txn = p
      PROVE  Holder(p)' = q.user /\ Owner[p][clock] = q.user
  <2>1. clock > 0 /\ Owner[p][clock - 1] = w /\ Owner[p][clock] = q.user
    BY <1>1, <1>4, <1>8, OriginsOwned
  <2>2. HasMoved(p)'
    BY <1>1, <1>2, <1>4, <1>5, <1>8, <2>1 DEF HasMoved, FromUsers, MovesTo
  <2> QED
    BY <1>1, <2>1, <2>2 DEF Holder
<1> QED
  BY <1>4, <1>7, <1>8

(* A transfer moves the row with the purchase, and leaves the loss to be logged. *)
LEMMA MoveOwners ==
    ASSUME EventsFollowOwner, Typed, ToldInTurn, OwnersInTurn, NEW r, Requests = {r},
           MoveSubscription(r)
    PROVE  OwnersInTurn'
<1> PICK q : q = proc[r]
  OBVIOUS
<1>1. /\ q.pc = "move" /\ q.ev \in EventIds /\ q.user \in Users /\ q \in Procs
      /\ q.row \in Rows \cup {None}
  BY RequestFields DEF MoveSubscription, Deciding, AfterRecord, TransferSteps
<1> DEFINE from == FromUsers(Event[q.ev], q.user)
           new == TransferredRow(q.row)
<1>2. /\ Took(StoreKey(q.ev)) /\ clock' = clock /\ ledger' = ledger
      /\ sub' = [u \in Users |->
            CASE u = q.user -> new
              [] u \in from /\ sub[u] # None -> ExpiredOrigin(sub[u])
              [] OTHER -> sub[u]]
  BY DEF MoveSubscription
<1>3. MovesTo(q.ev, q.user) /\ clock \in 0..MaxClock
  BY <1>1, OneInHand, BoundAssumption DEF HandlesInTurn, TransferSteps, OwnersInTurn, Typed, TypeOK
<1>4. /\ Event[q.ev].at = clock
      /\ \A p \in Purchases :
             /\ Holder(p)' # Holder(p) => Holder(p) \in from /\ Holder(p)' = q.user
             /\ \A w \in from : sub[w].txn = p => Holder(p)' = q.user /\ Owner[p][clock] = q.user
  BY MoveMoves
<1>5. /\ q.left = from /\ \A w \in from : sub[w] # None
      /\ q.row \in {sub[w] : w \in from} \/ q.row = None
  BY <1>1 DEF OwnersInTurn, OriginsRead
<1>6. /\ new \in Rows /\ new # None /\ new.pre = None /\ new.txn = TxnOf(q.row)
  BY <1>1, TransferredRowType, NullIsNoStatus DEF TransferredRow, UpsertedRow
<1>7. ASSUME NEW p \in Purchases, new.txn = p PROVE Holder(p)' = q.user /\ Owner[p][clock] = q.user
  <2>1. q.row # None /\ q.row.txn = p
    BY <1>6, <1>7, EventAssumption DEF TxnOf
  <2> QED
    BY <1>4, <1>5, <2>1
<1> HIDE DEF new
<1>8. ASSUME NEW u \in Users
      PROVE  \/ u = q.user /\ sub'[u] = new
             \/ u # q.user /\ u \in from /\ sub'[u] = ExpiredOrigin(sub[u]) /\ sub[u] \in Rows
             \/ u # q.user /\ u \notin from /\ sub'[u] = sub[u]
  BY <1>2, <1>5 DEF FromUsers, Typed, TypeOK
<1>9. \A row \in Rows : /\ ExpiredOrigin(row) \in Rows /\ ExpiredOrigin(row).status = "expired"
                        /\ ExpiredOrigin(row).txn = row.txn /\ ExpiredOrigin(row).pre = row.pre
  BY DEF ExpiredOrigin, Rows, Statuses
<1>10. HoldersEntitled'
  <2>1. ASSUME NEW u \in Users, NEW p \in Purchases, EntitlesBeneath(sub'[u]), sub'[u].txn = p
        PROVE  Holder(p)' = u
    <3>1. CASE u = q.user
      BY <1>7, <1>8, <2>1, <3>1
    <3>2. CASE u # q.user /\ u \in from
      BY <1>8, <1>9, <2>1, <3>2 DEF EntitlesBeneath, Entitles
    <3>3. CASE u # q.user /\ u \notin from
      <4>1. Holder(p) = u
        BY <1>8, <2>1, <3>3 DEF OwnersInTurn, HoldersEntitled
      <4> QED
        BY <1>4, <3>3, <4>1
    <3> QED
      BY <3>1, <3>2, <3>3
  <2> QED
    BY <2>1 DEF HoldersEntitled, EntitlesBeneath, Entitles
<1>11. LostIsLogged'
  <2>1. SUFFICES ASSUME NEW p \in Purchases, NEW t \in 0..(clock - 1), Owner[p][t] # None,
                        Holder(p)' # Owner[p][t]
                 PROVE  \/ \E row \in AppliedTo(Owner[p][t]) : row.at > t
                        \/ /\ proc'[r].pc = "logOrigins" /\ Owner[p][t] \in proc'[r].left
                           /\ Event[proc'[r].ev].at > t
    BY <1>2 DEF LostIsLogged, AppliedTo
  <2>2. CASE Holder(p) # Owner[p][t]
    BY <1>1, <2>1, <2>2 DEF OwnersInTurn, LostIsLogged
  <2>3. CASE Holder(p) = Owner[p][t]
    <3>1. Owner[p][t] \in q.left
      BY <1>4, <1>5, <2>1, <2>3
    <3>2. proc' = [proc EXCEPT ![r].pc = "logOrigins"]
      BY <3>1 DEF MoveSubscription
    <3>3. proc'[r].pc = "logOrigins" /\ proc'[r].left = q.left /\ proc'[r].ev = q.ev
      BY <1>1, <3>2 DEF Typed, TypeOK, Procs
    <3>4. clock > t
      BY <1>3
    <3> QED
      BY <1>4, <3>1, <3>3, <3>4
  <2> QED
    BY <2>2, <2>3
<1>12. NamesInTurn'
  <2>1. SUFFICES ASSUME NEW id \in Prompt, NEW u \in Users, Happened(id)', Names(id, u)
                 PROVE  /\ sub'[u] # None /\ sub'[u].pre # "none"
                        /\ sub'[u].txn # None =>
                               \E t \in Event[id].at..clock : Owner[sub'[u].txn][t] = u
    BY <1>2 DEF NamesInTurn, NamesItsOwn
  <2>2. id \in EventIds /\ (Happened(id) \/ id = q.ev) /\ Counts(id, u) /\ Counts(q.ev, q.user)
    BY <1>1, <1>2, <1>3, <2>1, EffectHappens, BoundAssumption DEF Names, Counts
  <2>3. Happened(id) => NamesItsOwn(u, Event[id].at)
    BY <2>1 DEF OwnersInTurn, NamesInTurn
  <2>4. CASE u = q.user
    <3>1. Event[id].at <= clock /\ Event[id].at \in Nat
      <4>1. CASE Happened(id)
        BY <2>2, <4>1, EventType, OneInHand DEF EventsInTurn
      <4>2. CASE id = q.ev
        BY <1>3, <1>4, <4>2
      <4> QED
        BY <2>2, <4>1, <4>2
    <3>2. sub'[u] = new /\ new # None /\ new.pre # "none"
      BY <1>6, <1>8, <2>4, NullIsNoStatus
    <3>3. ASSUME new.txn # None PROVE Owner[new.txn][clock] = u
      <4>1. new.txn \in Purchases
        BY <1>6, <3>3 DEF Rows
      <4> QED
        BY <1>7, <2>4, <4>1
    <3>4. clock \in Event[id].at..clock
      BY <1>3, <3>1
    <3> QED
      BY <3>2, <3>3, <3>4
  <2>5. CASE u # q.user
    <3>1. Happened(id)
      BY <2>2, <2>5, OneCounts
    <3>2. NamesItsOwn(u, Event[id].at)
      BY <2>3, <3>1
    <3>3. CASE u \in from
      <4>1. /\ sub'[u] = ExpiredOrigin(sub[u]) /\ sub'[u] \in Rows /\ sub'[u].txn = sub[u].txn
            /\ sub'[u].pre = sub[u].pre
        BY <1>8, <1>9, <2>5, <3>3
      <4> QED
        BY <3>2, <4>1, NullIsNoStatus DEF NamesItsOwn
    <3>4. CASE u \notin from
      BY <1>8, <2>5, <3>2, <3>4 DEF NamesItsOwn
    <3> QED
      BY <3>3, <3>4
  <2> QED
    BY <2>4, <2>5
<1>13. OriginsRead(proc[r])'
  <2>1. proc'[r].pc # "move"
    BY <1>1 DEF MoveSubscription, Respond, Idle, Typed, TypeOK, Procs
  <2> QED
    BY <2>1 DEF OriginsRead
<1> QED
  BY <1>2, <1>3, <1>10, <1>11, <1>12, <1>13 DEF OwnersInTurn

(* An origin leaves the transfer's hands with an entry as late as the transfer. *)
LEMMA LogOriginOwners ==
    ASSUME Typed, InTurn, InTurn', OwnersInTurn, NEW r, Requests = {r}, NEW w \in Users,
           LogOrigin(r, w)
    PROVE  OwnersInTurn'
<1> PICK q : q = proc[r]
  OBVIOUS
<1>1. q.pc = "logOrigins" /\ q.ev \in EventIds /\ w \in q.left /\ q \in Procs
  BY RequestFields DEF LogOrigin, Deciding, AfterRecord, TransferSteps
<1> PICK new : new = Entry(OriginKey(q.ev, w), w, Event[q.ev].at, "applied", "expired")
  OBVIOUS
<1>2. new.key = OriginKey(q.ev, w)
  BY DEF Entry
<1>3. /\ ledger \subseteq ledger' /\ \E x \in ledger' : x.key = OriginKey(q.ev, w)
      /\ sub' = sub /\ effects' = effects /\ clock' = clock
  <2>1. ledger' = IF Recorded(OriginKey(q.ev, w)) THEN ledger ELSE ledger \cup {new}
    BY <1>2 DEF LogOrigin, InsertIfAbsent
  <2> QED
    BY <1>2, <2>1 DEF LogOrigin, Recorded
<1>4. \E x \in AppliedTo(w)' : x.at = Event[q.ev].at
  <2>1. PICK x \in ledger' : x.key = OriginKey(q.ev, w)
    BY <1>3
  <2>2. x.user = w /\ x.at = Event[q.ev].at /\ x.outcome = "applied"
    BY <1>1, <2>1 DEF InTurn, KeysTell
  <2> QED
    BY <2>1, <2>2 DEF AppliedTo
<1>5. /\ proc'[r].pc \in {"idle", "logOrigins"}
      /\ \A u \in q.left \ {w} : /\ proc'[r].pc = "logOrigins" /\ u \in proc'[r].left
                                 /\ proc'[r].ev = q.ev
  <2>1. CASE q.left = {w}
    <3>1. proc'[r] = Idle
      BY <2>1 DEF LogOrigin, OriginLogged, Respond, Typed, TypeOK
    <3> QED
      BY <2>1, <3>1 DEF Idle
  <2>2. CASE q.left # {w}
    BY <1>1, <2>2 DEF LogOrigin, OriginLogged, Typed, TypeOK, Procs
  <2> QED
    BY <2>1, <2>2
<1>6. \A p : Holder(p)' = Holder(p)
  BY <1>3, HoldersStay DEF Happened
<1>7. HoldersEntitled'
  BY <1>3, <1>6 DEF OwnersInTurn, HoldersEntitled, EntitlesBeneath, Entitles
<1>8. LostIsLogged'
  <2>1. SUFFICES ASSUME NEW p \in Purchases, NEW t \in 0..(clock - 1), Owner[p][t] # None,
                        Holder(p) # Owner[p][t]
                 PROVE  \/ \E row \in AppliedTo(Owner[p][t])' : row.at > t
                        \/ /\ proc'[r].pc = "logOrigins" /\ Owner[p][t] \in proc'[r].left
                           /\ Event[proc'[r].ev].at > t
    BY <1>3, <1>6 DEF LostIsLogged
  <2>2. \/ \E row \in AppliedTo(Owner[p][t]) : row.at > t
        \/ Owner[p][t] \in q.left /\ Event[q.ev].at > t
    BY <2>1 DEF OwnersInTurn, LostIsLogged
  <2>3. CASE \E row \in AppliedTo(Owner[p][t]) : row.at > t
    BY <1>3, <2>3 DEF AppliedTo
  <2>4. CASE Owner[p][t] \in q.left /\ Event[q.ev].at > t
    BY <1>4, <1>5, <2>4
  <2> QED
    BY <2>2, <2>3, <2>4
<1>9. NamesInTurn'
  BY <1>3 DEF OwnersInTurn, NamesInTurn, NamesItsOwn, Happened
<1>10. OriginsRead(proc[r])'
  BY <1>5 DEF OriginsRead
<1> QED
  BY <1>3, <1>7, <1>8, <1>9, <1>10 DEF OwnersInTurn

(* A promo grant names no purchase. *)
LEMMA GrantOwners ==
    ASSUME Typed, OwnersInTurn, NEW r, Requests = {r}, GrantPromo(r)
    PROVE  OwnersInTurn'
<1> PICK q : q = proc[r]
  OBVIOUS
<1>1. q.pc = "grant" /\ q.code \in Codes /\ q.user \in Users /\ q.at \in Nat /\ q \in Procs
  BY RequestFields DEF GrantPromo, PromoSteps
<1> DEFINE row == UpsertedRow("active", "promo", q.at + Term[q.code], None, TRUE)
<1>2. row \in Rows
  <2>1. q.at + Term[q.code] \in Nat
    BY <1>1, CodeAssumption
  <2> QED
    BY <2>1, UpsertedRowType DEF Statuses, Sources
<1>3. row # None /\ row.pre = None /\ row.txn = None
  BY <1>2, NullIsNoStatus DEF UpsertedRow
<1> HIDE DEF row
<1>4. /\ sub' = [sub EXCEPT ![q.user] = row] /\ Took(PromoKey(q.code)) /\ proc'[r].pc = "logPromo"
      /\ clock' = clock /\ ledger' = ledger
  BY <1>1 DEF GrantPromo, row, Typed, TypeOK, Procs
<1>5. \A u \in Users : sub'[u] = row \/ sub'[u] = sub[u]
  BY <1>4 DEF Typed, TypeOK
<1>6. \A id \in EventIds : Happened(id)' <=> Happened(id)
  <2>1. PromoKey(q.code) \in Tokens /\ \A id : PromoKey(q.code) # StoreKey(id)
    BY <1>1, KeysApart DEF PromoKey, Tokens
  <2> QED
    BY <1>4, <2>1, OtherTokens
<1>7. OriginsRead(proc[r])'
  BY <1>4 DEF OriginsRead
<1>8. \A u \in Users :
          /\ EntitlesBeneath(sub'[u]) /\ sub'[u].txn # None =>
                 EntitlesBeneath(sub[u]) /\ sub'[u].txn = sub[u].txn
          /\ sub[u] # None /\ sub[u].pre # "none" =>
                 sub'[u] # None /\ sub'[u].pre # "none" /\ sub'[u].txn \in {None, sub[u].txn}
  BY <1>3, <1>5, NullIsNoStatus
<1> QED
  BY <1>1, <1>4, <1>6, <1>7, <1>8, OwnersStay

(* A revoke and its undo leave the purchase a row names, and entitle by no other. *)
LEMMA AdminRows ==
    /\ \A row \in Rows \cup {None} :
           /\ EntitlesBeneath(RevokedRow(row)) =>
                  EntitlesBeneath(row) /\ RevokedRow(row).txn = row.txn
           /\ row # None /\ row.pre # "none" =>
                  /\ RevokedRow(row) # None /\ RevokedRow(row).pre # "none"
                  /\ RevokedRow(row).txn = row.txn
    /\ \A row \in Rows \cup {None} : CanReactivate(row) =>
           /\ EntitlesBeneath(ReactivatedRow(row)) =>
                  EntitlesBeneath(row) /\ ReactivatedRow(row).txn = row.txn
           /\ row # None /\ row.pre # "none" =>
                  /\ ReactivatedRow(row) # None /\ ReactivatedRow(row).pre # "none"
                  /\ ReactivatedRow(row).txn = row.txn
<1>1. ASSUME NEW row \in Rows \cup {None}
      PROVE  /\ EntitlesBeneath(RevokedRow(row)) =>
                    EntitlesBeneath(row) /\ RevokedRow(row).txn = row.txn
             /\ row # None /\ row.pre # "none" =>
                    /\ RevokedRow(row) # None /\ RevokedRow(row).pre # "none"
                    /\ RevokedRow(row).txn = row.txn
  <2>1. RevokedRow(row) \in Rows /\ RevokedRow(row) # None
    BY RevokedRowType, NullIsNoStatus
  <2>2. CASE row = None
    <3>1. RevokedRow(row).status = "revoked" /\ RevokedRow(row).pre = "none"
      BY <2>2 DEF RevokedRow
    <3> QED
      BY <2>2, <3>1 DEF EntitlesBeneath, Entitles
  <2>3. CASE row # None
    <3>1. /\ RevokedRow(row).status = "revoked" /\ RevokedRow(row).txn = row.txn
          /\ RevokedRow(row).pre = IF row.status = "revoked" THEN row.pre ELSE row.status
          /\ row.status \in Statuses
      BY <2>3 DEF RevokedRow, PreRevokeStatusFor, Rows
    <3> QED
      BY <2>1, <2>3, <3>1 DEF EntitlesBeneath, Entitles, Statuses
  <2> QED
    BY <2>2, <2>3
<1>2. ASSUME NEW row \in Rows \cup {None}, CanReactivate(row)
      PROVE  /\ EntitlesBeneath(ReactivatedRow(row)) =>
                    EntitlesBeneath(row) /\ ReactivatedRow(row).txn = row.txn
             /\ row # None /\ row.pre # "none" =>
                    /\ ReactivatedRow(row) # None /\ ReactivatedRow(row).pre # "none"
                    /\ ReactivatedRow(row).txn = row.txn
  <2>1. row \in Rows /\ row # None /\ row.status = "revoked"
    BY <1>2 DEF CanReactivate
  <2>2. CASE row.pre = "none"
    BY <2>2 DEF ReactivatedRow, EntitlesBeneath, Entitles
  <2>3. CASE row.pre # "none"
    <3>1. /\ ReactivatedRow(row).status = row.pre /\ ReactivatedRow(row).txn = row.txn
          /\ ReactivatedRow(row).pre = None
      BY <2>1, <2>3 DEF ReactivatedRow, Rows
    <3>2. ReactivatedRow(row) \in Rows
      BY <1>2, <2>1, <2>3, ReactivatedRowType DEF ReactivatedRow, Rows
    <3> QED
      BY <2>1, <2>3, <3>1, <3>2, NullIsNoStatus DEF EntitlesBeneath, Entitles, Statuses
  <2> QED
    BY <2>2, <2>3
<1> QED
  BY <1>1, <1>2

(* What an admin does moves no purchase. *)
LEMMA AdminOwners ==
    ASSUME Typed, OwnersInTurn, NEW r, Requests = {r}, NEW u \in AdminOn,
           RevokeSubscription(r, u) \/ ReactivateSubscription(r, u)
    PROVE  OwnersInTurn'
<1>1. /\ proc[r].pc = "idle" /\ proc' = proc /\ effects' = effects /\ clock' = clock /\ u \in Users
      /\ sub[u] \in Rows \cup {None} /\ ledger \subseteq ledger'
  BY BoundAssumption DEF RevokeSubscription, ReactivateSubscription, LogAdmin, Typed, TypeOK
<1>2. PICK row :
          /\ sub' = [sub EXCEPT ![u] = row]
          /\ EntitlesBeneath(row) => EntitlesBeneath(sub[u]) /\ row.txn = sub[u].txn
          /\ sub[u] # None /\ sub[u].pre # "none" =>
                 row # None /\ row.pre # "none" /\ row.txn = sub[u].txn
  <2>1. CASE RevokeSubscription(r, u)
    BY <1>1, <2>1, AdminRows DEF RevokeSubscription
  <2>2. CASE ReactivateSubscription(r, u)
    BY <1>1, <2>2, AdminRows DEF ReactivateSubscription
  <2> QED
    BY <2>1, <2>2
<1>3. \A v \in Users : sub'[v] = IF v = u THEN row ELSE sub[v]
  BY <1>2 DEF Typed, TypeOK
<1>4. OriginsRead(proc[r])'
  BY <1>1 DEF OriginsRead
<1>5. \A v \in Users :
          /\ EntitlesBeneath(sub'[v]) /\ sub'[v].txn # None =>
                 EntitlesBeneath(sub[v]) /\ sub'[v].txn = sub[v].txn
          /\ sub[v] # None /\ sub[v].pre # "none" =>
                 sub'[v] # None /\ sub'[v].pre # "none" /\ sub'[v].txn \in {None, sub[v].txn}
  BY <1>2, <1>3
<1>6. \A id \in EventIds : Happened(id)' <=> Happened(id)
  BY <1>1 DEF Happened
<1> QED
  BY <1>1, <1>4, <1>5, <1>6, OwnersStay

(* At first no row entitles, and no purchase was lost. *)
LEMMA OwnersInit == ASSUME NEW r, Requests = {r}, Init PROVE OwnersInTurn
<1>1. \A u \in Users : sub[u] = None
  BY DEF Init
<1>2. proc[r].pc = "idle" /\ clock = 0 /\ 0 <= MaxClock
  BY BoundAssumption DEF Init, Idle
<1>3. \A id \in Prompt : ~Happened(id)
  BY BoundAssumption DEF Init, Happened, Tokens, StoreKey
<1>4. LostIsLogged
  BY <1>2 DEF LostIsLogged
<1> QED
  BY <1>1, <1>2, <1>3, <1>4
     DEF OwnersInTurn, HoldersEntitled, EntitlesBeneath, Entitles, NamesInTurn, OriginsRead

(* Every step keeps the owners, where the events follow them. *)
LEMMA OwnersNext ==
    ASSUME NEW r, Requests = {r}, MaxFaults = 0, EventsFollowOwner,
           Typed, InTurn, InTurn', ToldInTurn, OwnersInTurn, [Next]_vars
    PROVE  OwnersInTurn'
<1>1. ASSUME Spend("faults", MaxFaults) PROVE FALSE
  BY <1>1 DEF Spend, Typed, TypeOK
<1> PICK q : q = proc[r]
  OBVIOUS
<1>2. q \in Procs
  BY RequestFields
<1>3. ASSUME effects' = effects, sub' = sub, clock' = clock, ledger \subseteq ledger',
             q.pc # "logOrigins", proc'[r].pc # "move"
      PROVE  OwnersInTurn'
  BY <1>3, OwnersUntouched DEF Happened, OriginsRead
<1>4. ledger \subseteq ledger'
  BY TracesStay
<1>5. CASE Continue(r)
  <2>1. CASE RecordEvent(r)
    <3>1. proc'[r].pc # "move"
      BY <1>2, <2>1 DEF RecordEvent, Respond, NextStep, Idle, Typed, TypeOK, Procs
    <3> QED
      BY <1>3, <1>4, <2>1, <3>1 DEF RecordEvent
  <2>2. CASE LoadExisting(r)
    <3>1. proc'[r].pc # "move"
      BY <1>2, <2>2 DEF LoadExisting, Typed, TypeOK, Procs
    <3> QED
      BY <1>3, <1>4, <2>2, <3>1 DEF LoadExisting
  <2>3. CASE CheckLiveApplePurchase(r)
    <3>1. proc'[r].pc # "move"
      BY <1>2, <2>3 DEF CheckLiveApplePurchase, Idle, Typed, TypeOK, Procs
    <3> QED
      BY <1>3, <1>4, <2>3, <3>1 DEF CheckLiveApplePurchase
  <2>4. CASE ClaimCode(r)
    <3>1. proc'[r].pc # "move"
      BY <1>2, <2>4 DEF ClaimCode, Idle, Typed, TypeOK, Procs
    <3> QED
      BY <1>3, <1>4, <2>4, <3>1 DEF ClaimCode
  <2>5. CASE LogPromo(r)
    <3>1. proc'[r].pc # "move"
      BY <2>5 DEF LogPromo, Idle, Typed, TypeOK
    <3> QED
      BY <1>3, <1>4, <2>5, <3>1 DEF LogPromo
  <2> QED
    BY <1>5, <2>1, <2>2, <2>3, <2>4, <2>5, WriteOwners, ReadOriginsOwners, MoveOwners,
       LogOriginOwners, GrantOwners
       DEF Continue
<1>6. ASSUME NEW id \in EventIds, ReceiveEvent(r, id) PROVE OwnersInTurn'
  <2>1. proc'[r].pc # "move"
    BY <1>6 DEF ReceiveEvent, Idle, Typed, TypeOK
  <2> QED
    BY <1>3, <1>4, <1>6, <2>1 DEF ReceiveEvent
<1>7. ASSUME NEW c \in Codes, RedeemPromoCode(r, c) PROVE OwnersInTurn'
  <2>1. proc'[r].pc # "move"
    BY <1>7 DEF RedeemPromoCode, Idle, Typed, TypeOK
  <2> QED
    BY <1>3, <1>4, <1>7, <2>1 DEF RedeemPromoCode
<1>8. ASSUME NEW u \in AdminOn, RevokeSubscription(r, u) \/ ReactivateSubscription(r, u)
      PROVE  OwnersInTurn'
  BY <1>8, AdminOwners
<1>9. ASSUME NEW u \in Users, LogOriginFails(r, u) PROVE FALSE
  BY <1>1, <1>9 DEF LogOriginFails
<1>10. CASE Crash(r)
  BY <1>1, <1>10 DEF Crash
<1>11. CASE UNCHANGED vars
  BY <1>11 DEF vars, OwnersInTurn, HoldersEntitled, Holder, HasMoved, Happened, LostIsLogged, AppliedTo,
               NamesInTurn, NamesItsOwn, OriginsRead, EntitlesBeneath, Entitles
<1> QED
  BY <1>5, <1>6, <1>7, <1>8, <1>9, <1>10, <1>11, TickOwners DEF Next

(* OnePurchaseOneAccount: no two accounts are entitled by one purchase, where the purchase *)
(* belongs to one account at a time and the store's events follow it, transfers without    *)
(* delay (webhook.ts, one request and no crash between its statements).                    *)
THEOREM PurchasePaysOnce ==
    ASSUME NEW r, Requests = {r}, MaxFaults = 0, EventsFollowOwner
    PROVE  Spec => []OnePurchaseOneAccount
<1> DEFINE Inv == Typed /\ InTurn /\ ToldInTurn /\ OwnersInTurn
<1>1. Init => Inv
  BY TypedInit, InTurnInit, ToldInit, OwnersInit
<1>2. Inv /\ [Next]_vars => Inv'
  BY TypedNext, InTurnNext, ToldNext, OwnersNext
<1>3. Inv => OnePurchaseOneAccount
  <2>1. SUFFICES ASSUME Typed, HoldersEntitled, NEW u \in Users, NEW v \in Users,
                        Entitles(sub[u]), Entitles(sub[v]),
                        TxnOf(sub[u]) # None, TxnOf(sub[u]) = TxnOf(sub[v])
                 PROVE  u = v
    BY DEF OnePurchaseOneAccount, OwnersInTurn
  <2>2. PICK p \in Purchases : sub[u].txn = p /\ sub[v].txn = p
    BY <2>1 DEF Typed, TypeOK, Rows, TxnOf, Entitles
  <2> QED
    BY <2>1, <2>2 DEF HoldersEntitled, EntitlesBeneath, Entitles
<1> QED
  BY <1>1, <1>2, <1>3, PTL DEF Spec
=============================================================================
