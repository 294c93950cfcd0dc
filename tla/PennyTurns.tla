----------------------------- MODULE PennyTurns -----------------------------
(***************************************************************************)
(* The durable chat turn: a send becomes a row of `penny_turns`, competes  *)
(* for its trip's one running slot, runs the model's tool loop, applies    *)
(* what the loop decided, and is recorded as done or as an error.  A send  *)
(* that finds the slot taken stays queued, and the request that holds the  *)
(* slot drains it when its own turn is over.                               *)
(*                                                                         *)
(* A request is a serverless invocation and takes one database statement   *)
(* per step.  A send whose connection drops may be posted again under the  *)
(* same idempotency key.  A send under a key of another user or trip is    *)
(* refused with a 409, changes nothing and is left out.                    *)
(***************************************************************************)
EXTENDS Integers, Sequences, FiniteSets

CONSTANTS
    None,
    Keys,        \* idempotency keys: one per send, and so one per turn
    Trips,
    TripOf,      \* the trip a send is about
    Requests,    \* invocations that may run at once
    MaxDrain,    \* MAX_DRAIN_TURNS
    Mishaps,     \* what may go wrong: some of "failed", "crashed", "killed"
    MaxMishaps   \* bound: how often anything goes wrong

ASSUME KeyAssumption == TripOf \in [Keys -> Trips] /\ None \notin Keys
ASSUME LimitAssumption ==
    /\ MaxDrain \in Nat /\ MaxMishaps \in Nat
    /\ Mishaps \subseteq {"failed", "crashed", "killed"}

VARIABLES
    status,     \* key -> the status of its row, or "absent"
    created,    \* keys in the order of created_at
    req,        \* request -> what it is doing, for which turn
    lingering,  \* turns whose tool loop was given up on but still runs
    mishaps,    \* how often something went wrong
    capped,     \* history: a drain stopped at its bound
    effects     \* history: how often each turn was applied to its trip

vars == <<status, created, req, lingering, mishaps, capped, effects>>

Ended == {"done", "error"}
Statuses == {"absent", "queued", "running"} \cup Ended

\* The steps between accepting a send and claiming the slot for it.
AcceptSteps == {"insert", "bubble", "promote"}
\* The steps of a request that holds the slot for its turn.
HolderSteps == {"consent", "refuse", "loop", "apply", "markDone", "markError"}
Steps == {"idle", "drain", "claim"} \cup AcceptSteps \cup HolderSteps

\* `drained` counts the rounds of the drain loop, `key` is the turn at hand.
Idle == [pc |-> "idle", key |-> None, drained |-> 0]

Reqs == [pc : Steps, key : Keys \cup {None}, drained : 0..MaxDrain]

TypeOK ==
    /\ status \in [Keys -> Statuses]
    /\ created \in Seq(Keys)
    /\ req \in [Requests -> Reqs]
    /\ \A r \in Requests : req[r].pc # "idle" => req[r].key \in Keys
    /\ lingering \subseteq Keys
    /\ mishaps \in Nat
    /\ capped \in BOOLEAN
    /\ effects \in [Keys -> Nat]

Init ==
    /\ status = [k \in Keys |-> "absent"]
    /\ created = <<>>
    /\ req = [r \in Requests |-> Idle]
    /\ lingering = {}
    /\ mishaps = 0
    /\ capped = FALSE
    /\ effects = [k \in Keys |-> 0]

At(r, pc) == req[r].pc = pc
Go(r, pc) == req' = [req EXCEPT ![r].pc = pc]
Leave(r) == req' = [req EXCEPT ![r] = Idle]
SetStatus(k, s) == status' = [status EXCEPT ![k] = s]

Mishap(kind) ==
    /\ kind \in Mishaps
    /\ mishaps < MaxMishaps
    /\ mishaps' = mishaps + 1

-----------------------------------------------------------------------------
(* Accepting a send *)

\* getTurnByKeyForUser, and again at the head of createTurn: no row for the key. A known
\* key is answered with its row, changes nothing and is not a step; a second post of the
\* same key may get here before the first has inserted.
PostNew(r, k) ==
    /\ At(r, "idle")
    /\ status[k] = "absent"
    /\ req' = [req EXCEPT ![r] = [pc |-> "insert", key |-> k, drained |-> 0]]
    /\ UNCHANGED <<status, created, lingering, mishaps, capped, effects>>

\* insert ... on conflict (idempotency_key) do nothing: the loser is answered with the row.
CreateTurn(r) ==
    LET k == req[r].key
    IN  /\ At(r, "insert")
        /\ IF status[k] = "absent"
           THEN /\ SetStatus(k, "queued")
                /\ created' = Append(created, k)
                /\ Go(r, "bubble")
           ELSE Leave(r) /\ UNCHANGED <<status, created>>
        /\ UNCHANGED <<lingering, mishaps, capped, effects>>

\* addChatMessage: the user's own bubble.
SaveBubble(r) ==
    /\ At(r, "bubble")
    /\ Go(r, "promote")
    /\ UNCHANGED <<status, created, lingering, mishaps, capped, effects>>

\* Variant for the mutation runs: the update has lost its status guard.
PromotableWhateverStatus(k) ==
    \A j \in Keys : TripOf[j] = TripOf[k] => status[j] # "running"

\* Variant for the mutation runs: the partial unique index is not there.
PromotableWithoutIndex(k) == status[k] = "queued"

\* The status guard of the update, and the partial unique index on running turns.
Promotable(k) ==
    /\ status[k] = "queued"
    /\ \A j \in Keys : TripOf[j] = TripOf[k] => status[j] # "running"

\* promoteTurnToRunning, then on with `next`; whoever gets null stops here.
PromoteTurn(r, next) ==
    IF Promotable(req[r].key)
    THEN SetStatus(req[r].key, "running") /\ Go(r, next)
    ELSE Leave(r) /\ UNCHANGED status

PromoteOwn(r) ==
    /\ At(r, "promote")
    /\ PromoteTurn(r, "loop")
    /\ UNCHANGED <<created, lingering, mishaps, capped, effects>>

-----------------------------------------------------------------------------
(* runTurnWork *)

LoopFinishes(r) ==
    /\ At(r, "loop")
    /\ Go(r, "apply")
    /\ UNCHANGED <<status, created, lingering, mishaps, capped, effects>>

LoopThrows(r) ==
    /\ At(r, "loop")
    /\ Go(r, "markError")
    /\ UNCHANGED <<status, created, lingering, mishaps, capped, effects>>

\* Promise.race: the budget is over and rejects. Nothing stops the loop that lost.
LoopTimesOut(r) ==
    /\ At(r, "loop")
    /\ Go(r, "markError")
    /\ lingering' = lingering \cup {req[r].key}
    /\ UNCHANGED <<status, created, mishaps, capped, effects>>

LingeringLoopEnds(k) ==
    /\ k \in lingering
    /\ lingering' = lingering \ {k}
    /\ UNCHANGED <<status, created, req, mishaps, capped, effects>>

\* The validated actions are dispatched, the schedule is rebuilt, the reply is saved.
ApplyActions(r) ==
    /\ At(r, "apply")
    /\ effects' = [effects EXCEPT ![req[r].key] = @ + 1]
    /\ Go(r, "markDone")
    /\ UNCHANGED <<status, created, lingering, mishaps, capped>>

\* Variant for the mutation runs: what threw is swallowed and the turn is marked done.
AfterThrowMarkDone == "markDone"

\* The catch of runTurnWork.
AfterThrow == "markError"

\* A statement throws before anything was dispatched, or after all of it was.
ApplyThrows(r) ==
    /\ At(r, "apply")
    /\ Mishap("failed")
    /\ \/ UNCHANGED effects
       \/ effects' = [effects EXCEPT ![req[r].key] = @ + 1]
    /\ Go(r, AfterThrow)
    /\ UNCHANGED <<status, created, lingering, capped>>

MarkTurnDone(r) ==
    /\ At(r, "markDone")
    /\ SetStatus(req[r].key, "done")
    /\ Go(r, "drain")
    /\ UNCHANGED <<created, lingering, mishaps, capped, effects>>

\* The update throws: it did not commit, or it did and its answer was lost.
MarkTurnDoneThrows(r) ==
    /\ At(r, "markDone")
    /\ Mishap("failed")
    /\ UNCHANGED status \/ SetStatus(req[r].key, "done")
    /\ Go(r, "markError")
    /\ UNCHANGED <<created, lingering, capped, effects>>

\* Variant for the mutation runs: a turn that failed leaves its queue behind.
MarkTurnErrorAndStop(r) ==
    /\ At(r, "markError")
    /\ SetStatus(req[r].key, "error")
    /\ Leave(r)
    /\ UNCHANGED <<created, lingering, mishaps, capped, effects>>

MarkTurnError(r) ==
    /\ At(r, "markError")
    /\ SetStatus(req[r].key, "error")
    /\ Go(r, "drain")
    /\ UNCHANGED <<created, lingering, mishaps, capped, effects>>

\* The update fails and the error is swallowed: the row keeps its status, the drain goes on.
MarkTurnErrorFails(r) ==
    /\ At(r, "markError")
    /\ Mishap("failed")
    /\ Go(r, "drain")
    /\ UNCHANGED <<status, created, lingering, capped, effects>>

-----------------------------------------------------------------------------
(* drainQueuedTurns *)

Queued(trip) == {i \in DOMAIN created : TripOf[created[i]] = trip /\ status[created[i]] = "queued"}

IsOldestQueued(k, trip) ==
    \E i \in Queued(trip) : created[i] = k /\ \A j \in Queued(trip) : i <= j

\* Variant for the mutation runs: one round too many.
MayDrainOnceMore(q) == q.drained <= MaxDrain

MayDrain(q) == q.drained < MaxDrain

\* claimNextQueuedTurn reads its candidate; there is none, and the request ends.
FindNothingQueued(r) ==
    /\ At(r, "drain")
    /\ MayDrain(req[r])
    /\ Queued(TripOf[req[r].key]) = {}
    /\ Leave(r)
    /\ UNCHANGED <<status, created, lingering, mishaps, capped, effects>>

FindQueued(r, k) ==
    /\ At(r, "drain")
    /\ MayDrain(req[r])
    /\ IsOldestQueued(k, TripOf[req[r].key])
    /\ req' = [req EXCEPT ![r] = [pc |-> "claim", key |-> k, drained |-> @.drained + 1]]
    /\ UNCHANGED <<status, created, lingering, mishaps, capped, effects>>

\* The loop has had its rounds: what is queued by now waits for another turn's drain.
StopDraining(r) ==
    /\ At(r, "drain")
    /\ ~MayDrain(req[r])
    /\ Leave(r)
    /\ capped' = TRUE
    /\ UNCHANGED <<status, created, lingering, mishaps, effects>>

ClaimQueuedTurn(r) ==
    /\ At(r, "claim")
    /\ PromoteTurn(r, "consent")
    /\ UNCHANGED <<created, lingering, mishaps, capped, effects>>

\* requireAiConsent for the turn's own user. Consent is never withdrawn, so only a
\* failing lookup refuses.
ConsentGiven(r) ==
    /\ At(r, "consent")
    /\ Go(r, "loop")
    /\ UNCHANGED <<status, created, lingering, mishaps, capped, effects>>

ConsentThrows(r) ==
    /\ At(r, "consent")
    /\ Mishap("failed")
    /\ Go(r, "refuse")
    /\ UNCHANGED <<status, created, lingering, capped, effects>>

RefuseTurn(r) ==
    /\ At(r, "refuse")
    /\ SetStatus(req[r].key, "error")
    /\ Go(r, "drain")
    /\ UNCHANGED <<created, lingering, mishaps, capped, effects>>

-----------------------------------------------------------------------------
\* A statement outside runTurnWork throws: the error ends the request.
RequestThrows(r) ==
    /\ req[r].pc \in AcceptSteps \cup {"drain", "claim", "refuse"}
    /\ Mishap("failed")
    /\ Leave(r)
    /\ UNCHANGED <<status, created, lingering, capped, effects>>

\* The process dies at any point.
Crash(r) ==
    /\ ~At(r, "idle")
    /\ Mishap("crashed")
    /\ Leave(r)
    /\ UNCHANGED <<status, created, lingering, capped, effects>>

\* The platform ends an invocation after maxDuration. The budget of one loop keeps the
\* request's own turn within it; the drain runs on what is left.
HardKill(r) ==
    /\ req[r].drained > 0 \/ At(r, "drain")
    /\ Mishap("killed")
    /\ Leave(r)
    /\ UNCHANGED <<status, created, lingering, capped, effects>>

Continue(r) ==
    \/ CreateTurn(r) \/ SaveBubble(r) \/ PromoteOwn(r)
    \/ LoopFinishes(r) \/ LoopThrows(r) \/ LoopTimesOut(r)
    \/ ApplyActions(r) \/ MarkTurnDone(r) \/ MarkTurnError(r)
    \/ FindNothingQueued(r) \/ (\E k \in Keys : FindQueued(r, k)) \/ StopDraining(r)
    \/ ClaimQueuedTurn(r) \/ ConsentGiven(r) \/ RefuseTurn(r)

GoWrong(r) ==
    \/ ApplyThrows(r) \/ MarkTurnDoneThrows(r) \/ MarkTurnErrorFails(r) \/ ConsentThrows(r)
    \/ RequestThrows(r) \/ Crash(r) \/ HardKill(r)

Next ==
    \/ \E r \in Requests :
        \/ \E k \in Keys : PostNew(r, k)
        \/ Continue(r)
        \/ GoWrong(r)
    \/ \E k \in Keys : LingeringLoopEnds(k)

Spec == Init /\ [][Next]_vars

\* The platform goes on running what it has started, and the budget bounds a loop.
Fairness == \A r \in Requests : WF_vars(Continue(r))

FairSpec == Spec /\ Fairness
=============================================================================
