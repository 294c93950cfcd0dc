------------------------ MODULE PennyTurnProperties ------------------------
(***************************************************************************)
(* What a driver who sends a message may count on, stated over PennyTurns. *)
(***************************************************************************)
EXTENDS PennyTurns

\* A turn is claimed by leaving the queue.
Claimed == {k \in Keys : status[k] \in {"running"} \cup Ended}

Turns == INSTANCE ClaimOnce WITH Tokens <- Keys, claimed <- Claimed

(* One send changes the trip at most once, and only after its turn was     *)
(* promoted, whoever posts it again, whichever request drains it, and      *)
(* whatever fails or dies in between (pennyTurns.ts, route.ts).            *)
AppliedAtMostOnce == Turns!Spec

\* The steps that touch the trip. The updates of the row itself come after them: one whose
\* answer is lost frees the slot before the request knows.
Works(r) == req[r].pc \in {"loop", "apply"}

(* The slot is a lock: two requests never work on turns of one trip at the *)
(* same time, though nothing but an index on a status column keeps them    *)
(* apart and every holder releases it by an unconditional update.          *)
OneTurnPerTrip ==
    \A r, s \in Requests :
        Works(r) /\ Works(s) /\ TripOf[req[r].key] = TripOf[req[s].key] => r = s

(* What the transcript says was done was done: a turn recorded as done has *)
(* been applied to its trip.                                               *)
DoneMeansApplied == \A k \in Keys : status[k] = "done" => effects[k] = 1

(* No wakeup is lost between a promotion that finds the slot taken and the *)
(* holder's last look at the queue: while nothing fails, dies or reaches   *)
(* the bound of the drain, every queued turn comes to an end.              *)
NoForgottenTurn ==
    \A k \in Keys :
        status[k] = "queued" ~> (status[k] \in Ended \/ mishaps > 0 \/ capped)

-----------------------------------------------------------------------------
(* The inductive invariant behind the first three. *)

Holds(r) == req[r].pc \in HolderSteps

\* The request has claimed the slot and has not yet changed the trip.
BeforeEffect(r) == req[r].pc \in {"consent", "refuse", "loop", "apply"}

HeldByOne == \A r, s \in Requests : Holds(r) /\ Holds(s) /\ req[r].key = req[s].key => r = s

SlotHeld ==
    \A r \in Requests :
        /\ Holds(r) => req[r].key \in Claimed
        /\ BeforeEffect(r) => status[req[r].key] = "running"

OneRunning ==
    \A j, k \in Keys :
        status[j] = "running" /\ status[k] = "running" /\ TripOf[j] = TripOf[k] => j = k

EffectsMatch ==
    /\ \A k \in Keys : k \notin Claimed => effects[k] = 0
    /\ \A r \in Requests :
        /\ BeforeEffect(r) => effects[req[r].key] = 0
        /\ At(r, "markDone") => effects[req[r].key] = 1

TurnsInv == HeldByOne /\ SlotHeld /\ OneRunning /\ EffectsMatch /\ DoneMeansApplied

-----------------------------------------------------------------------------
(* What the comments say and the code does not keep. *)

Looping(k) == k \in lingering \/ \E r \in Requests : At(r, "loop") /\ req[r].key = k

(* "Two concurrent sends on one trip must not both start a replan — that   *)
(* is two tool-use loops writing the same itinerary": of one trip at most  *)
(* one tool loop runs (pennyTurns.test.ts).                                *)
OneLoopPerTrip ==
    \A j, k \in Keys : Looping(j) /\ Looping(k) /\ TripOf[j] = TripOf[k] => j = k
=============================================================================
