------------------------- MODULE SubscriptionRules -------------------------
(***************************************************************************)
(* The pure rules about one row of `subscriptions`: what a store           *)
(* notification says the row should be, what a revoke must remember, what  *)
(* an undo restores and which rows a promo code may not overwrite.         *)
(* Dates are natural numbers; None stands for SQL null and for a missing   *)
(* row.  productId is left out: nothing that decides access reads it.      *)
(***************************************************************************)
EXTENDS Integers

CONSTANTS None, Purchases

Statuses == {"active", "grace", "cancelled", "expired", "refunded", "revoked"}
Sources == {"apple_iap", "promo", "admin"}

\* One row of the table. `txn` is originalTransactionId, the purchase that pays for the row.
Rows == [status : Statuses, source : Sources, end : Nat \cup {None},
         txn : Purchases \cup {None}, autoRenew : BOOLEAN,
         revoked : BOOLEAN, pre : Statuses \cup {"none", None}]

ASSUME NoneIsNull == None \notin Nat \cup Statuses \cup {"none"} \cup Rows

PurchaseTypes == {"INITIAL_PURCHASE", "RENEWAL", "PRODUCT_CHANGE", "UNCANCELLATION"}
MappedTypes == PurchaseTypes \cup {"CANCELLATION", "EXPIRATION", "BILLING_ISSUE", "REFUND"}

\* Variant for the mutation runs: the resolver's derived state is stored as a status.
StatusOfDerived(type) == IF type = "REFUND" THEN "refund_pending" ELSE "active"

\* TYPE_MAP. A cancellation leaves the row active and only turns auto-renew off.
StatusOf(type) ==
    CASE type = "EXPIRATION"    -> "expired"
      [] type = "BILLING_ISSUE" -> "grace"
      [] type = "REFUND"        -> "refunded"
      [] OTHER                  -> "active"

AutoRenewOf(type) == type \in PurchaseTypes \cup {"BILLING_ISSUE"}

\* The row every upsert leaves: all columns set, any revocation forgotten.
UpsertedRow(status, source, end, txn, autoRenew) ==
    [status |-> status, source |-> source, end |-> end, txn |-> txn,
     autoRenew |-> autoRenew, revoked |-> FALSE, pre |-> None]

\* `a ?? b`
Coalesce(a, b) == IF a = None THEN b ELSE a

\* A column of a row that may be absent.
EndOf(row) == IF row = None THEN None ELSE row.end
TxnOf(row) == IF row = None THEN None ELSE row.txn

IsLive(row) == row.status \in {"active", "grace"}

\* Variant for the mutation runs: a second revoke overwrites what the first remembered.
PreRevokeOverwritten(row) == IF row = None THEN "none" ELSE row.status

PreRevokeStatusFor(row) ==
    IF row = None THEN "none"
    ELSE IF row.status = "revoked" THEN row.pre
    ELSE row.status

RevokedRow(row) ==
    IF row = None
    THEN [status |-> "revoked", source |-> "admin", end |-> None, txn |-> None,
          autoRenew |-> TRUE, revoked |-> TRUE, pre |-> "none"]
    ELSE [row EXCEPT !.status = "revoked", !.revoked = TRUE, !.pre = PreRevokeStatusFor(row)]

\* planReactivation: the refusals, and the row an accepted one leaves.
CanReactivate(row) == row # None /\ row.status = "revoked" /\ row.pre # None

ReactivatedRow(row) ==
    IF row.pre = "none" THEN None
    ELSE [row EXCEPT !.status = row.pre, !.revoked = FALSE, !.pre = None]

\* A purchase the store still knows about, which a promo code must not overwrite.
HoldsLiveApplePurchase(row, now) ==
    /\ row # None
    /\ row.source = "apple_iap"
    /\ row.status \in {"active", "grace", "cancelled"}
    /\ row.end = None \/ row.end > now
=============================================================================
