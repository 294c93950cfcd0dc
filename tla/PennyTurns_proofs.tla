------------------------- MODULE PennyTurns_proofs -------------------------
(***************************************************************************)
(* Proofs about PennyTurns for any number of sends, trips and concurrent   *)
(* requests, for any bound of the drain and any number of mishaps.         *)
(***************************************************************************)
EXTENDS PennyTurnProperties, TLAPS

-----------------------------------------------------------------------------
(* Type correctness *)

(* The two ways a request moves: to another step of the same turn, or to idle. *)
LEMMA GoType ==
    ASSUME TypeOK, NEW r \in Requests, NEW pc \in Steps, Go(r, pc),
           pc # "idle", ~At(r, "idle")
    PROVE  /\ req' \in [Requests -> Reqs]
           /\ \A s \in Requests : req'[s].pc # "idle" => req'[s].key \in Keys
  BY DEF TypeOK, Reqs, Go, At

LEMMA LeaveType ==
    ASSUME TypeOK, NEW r \in Requests, Leave(r)
    PROVE  /\ req' \in [Requests -> Reqs]
           /\ \A s \in Requests : req'[s].pc # "idle" => req'[s].key \in Keys
  BY LimitAssumption DEF TypeOK, Reqs, Leave, Idle, Steps

LEMMA SetStatusType ==
    ASSUME TypeOK, NEW k \in Keys, NEW s \in Statuses, SetStatus(k, s)
    PROVE  status' \in [Keys -> Statuses]
  BY DEF TypeOK, SetStatus

LEMMA StepNames ==
    /\ AcceptSteps \cup HolderSteps \cup {"drain", "claim"} \subseteq Steps
    /\ "idle" \notin AcceptSteps \cup HolderSteps \cup {"drain", "claim"}
    /\ AfterThrow = "markError"
    /\ {"queued", "running", "done", "error"} \subseteq Statuses
  BY DEF Steps, AcceptSteps, HolderSteps, AfterThrow, Statuses, Ended

(* A promotion leaves the types alone, whether it wins the slot or not. *)
LEMMA PromoteType ==
    ASSUME TypeOK, NEW r \in Requests, NEW next \in HolderSteps,
           PromoteTurn(r, next), ~At(r, "idle")
    PROVE  /\ status' \in [Keys -> Statuses]
           /\ req' \in [Requests -> Reqs]
           /\ \A s \in Requests : req'[s].pc # "idle" => req'[s].key \in Keys
<1>1. CASE Promotable(req[r].key)
  <2>1. SetStatus(req[r].key, "running") /\ Go(r, next)
    BY <1>1 DEF PromoteTurn
  <2>2. req[r].key \in Keys
    BY DEF TypeOK, At
  <2> QED
    BY <2>1, <2>2, StepNames, GoType, SetStatusType
<1>2. CASE ~Promotable(req[r].key)
  <2>1. Leave(r) /\ UNCHANGED status
    BY <1>2 DEF PromoteTurn
  <2> QED
    BY <2>1, LeaveType DEF TypeOK
<1> QED
  BY <1>1, <1>2

(* Accepting a send keeps the types. *)
LEMMA AcceptType ==
    ASSUME TypeOK, NEW r \in Requests,
           (\E k \in Keys : PostNew(r, k)) \/ CreateTurn(r) \/ SaveBubble(r) \/ PromoteOwn(r)
    PROVE  TypeOK'
<1>1. ASSUME NEW k \in Keys, PostNew(r, k) PROVE TypeOK'
  <2>1. DEFINE q == [pc |-> "insert", key |-> k, drained |-> 0]
  <2>2. q \in Reqs
    BY LimitAssumption DEF Reqs, Steps, AcceptSteps
  <2>4. req' = [req EXCEPT ![r] = q]
    BY <1>1 DEF PostNew
  <2> HIDE DEF q
  <2>5. req' \in [Requests -> Reqs]
    BY <2>2, <2>4 DEF TypeOK
  <2>6. q.key = k
    BY DEF q
  <2>7. \A s \in Requests : req'[s].pc # "idle" => req'[s].key \in Keys
    BY <2>4, <2>6 DEF TypeOK
  <2> QED
    BY <1>1, <2>5, <2>7 DEF PostNew, TypeOK
<1>2. CASE CreateTurn(r)
  <2>1. ~At(r, "idle") /\ req[r].key \in Keys
    BY <1>2 DEF CreateTurn, At, TypeOK
  <2>2. CASE status[req[r].key] = "absent"
    <3>1. /\ SetStatus(req[r].key, "queued")
          /\ created' = Append(created, req[r].key)
          /\ Go(r, "bubble")
          /\ UNCHANGED <<lingering, mishaps, capped, effects>>
      BY <1>2, <2>2 DEF CreateTurn
    <3>2. "bubble" \in Steps /\ "queued" \in Statuses
      BY StepNames DEF AcceptSteps
    <3>3. created' \in Seq(Keys)
      BY <2>1, <3>1 DEF TypeOK
    <3> QED
      BY <2>1, <3>1, <3>2, <3>3, GoType, SetStatusType DEF TypeOK
  <2>3. CASE status[req[r].key] # "absent"
    <3>1. Leave(r) /\ UNCHANGED <<status, created, lingering, mishaps, capped, effects>>
      BY <1>2, <2>3 DEF CreateTurn
    <3> QED
      BY <3>1, LeaveType DEF TypeOK
  <2> QED
    BY <2>2, <2>3
<1>3. CASE SaveBubble(r)
  <2>1. "promote" \in Steps /\ ~At(r, "idle")
    BY <1>3, StepNames DEF AcceptSteps, SaveBubble, At
  <2> QED
    BY <1>3, <2>1, GoType DEF SaveBubble, TypeOK
<1>4. CASE PromoteOwn(r)
  <2>1. "loop" \in HolderSteps /\ ~At(r, "idle")
    BY <1>4 DEF HolderSteps, PromoteOwn, At
  <2> QED
    BY <1>4, <2>1, PromoteType DEF PromoteOwn, TypeOK
<1> QED
  BY <1>1, <1>2, <1>3, <1>4

\* The steps of runTurnWork.
Working(r) ==
    \/ LoopFinishes(r) \/ LoopThrows(r) \/ LoopTimesOut(r)
    \/ ApplyActions(r) \/ ApplyThrows(r)
    \/ MarkTurnDone(r) \/ MarkTurnDoneThrows(r) \/ MarkTurnError(r) \/ MarkTurnErrorFails(r)

(* Running a turn keeps the types: the request stays at its turn. *)
LEMMA WorkType == ASSUME TypeOK, NEW r \in Requests, Working(r) PROVE TypeOK'
<1>1. ~At(r, "idle") /\ req[r].key \in Keys
  BY DEF Working, LoopFinishes, LoopThrows, LoopTimesOut, ApplyActions, ApplyThrows, MarkTurnDone,
         MarkTurnDoneThrows, MarkTurnError, MarkTurnErrorFails, At, TypeOK
<1>2. \E pc \in {"apply", "markError", "markDone", "drain"} : Go(r, pc)
  BY StepNames DEF Working, LoopFinishes, LoopThrows, LoopTimesOut, ApplyActions, ApplyThrows,
         MarkTurnDone, MarkTurnDoneThrows, MarkTurnError, MarkTurnErrorFails
<1>3. /\ req' \in [Requests -> Reqs]
      /\ \A s \in Requests : req'[s].pc # "idle" => req'[s].key \in Keys
  <2>1. {"apply", "markError", "markDone", "drain"} \subseteq Steps
    BY DEF Steps, HolderSteps
  <2>2. PICK pc \in {"apply", "markError", "markDone", "drain"} : Go(r, pc)
    BY <1>2
  <2> QED
    BY <1>1, <2>1, <2>2, GoType
<1>4. status' \in [Keys -> Statuses]
  <2>1. UNCHANGED status \/ \E s \in {"done", "error"} : SetStatus(req[r].key, s)
    BY DEF Working, LoopFinishes, LoopThrows, LoopTimesOut, ApplyActions, ApplyThrows,
           MarkTurnDone, MarkTurnDoneThrows, MarkTurnError, MarkTurnErrorFails
  <2> QED
    BY <1>1, <2>1, StepNames, SetStatusType DEF TypeOK
<1>5. effects' \in [Keys -> Nat]
  <2>1. UNCHANGED effects \/ effects' = [effects EXCEPT ![req[r].key] = @ + 1]
    BY DEF Working, LoopFinishes, LoopThrows, LoopTimesOut, ApplyActions, ApplyThrows,
           MarkTurnDone, MarkTurnDoneThrows, MarkTurnError, MarkTurnErrorFails
  <2>2. CASE effects' = [effects EXCEPT ![req[r].key] = @ + 1]
    <3>1. effects[req[r].key] + 1 \in Nat
      BY <1>1 DEF TypeOK
    <3> QED
      BY <1>1, <2>2, <3>1 DEF TypeOK
  <2> QED
    BY <2>1, <2>2 DEF TypeOK
<1>6. lingering' \subseteq Keys
  BY <1>1 DEF Working, LoopFinishes, LoopThrows, LoopTimesOut, ApplyActions, ApplyThrows,
         MarkTurnDone, MarkTurnDoneThrows, MarkTurnError, MarkTurnErrorFails, TypeOK
<1>7. mishaps' \in Nat /\ UNCHANGED <<created, capped>>
  BY DEF Working, LoopFinishes, LoopThrows, LoopTimesOut, ApplyActions, ApplyThrows,
         MarkTurnDone, MarkTurnDoneThrows, MarkTurnError, MarkTurnErrorFails, Mishap, TypeOK
<1> QED
  BY <1>3, <1>4, <1>5, <1>6, <1>7 DEF TypeOK

\* The steps of drainQueuedTurns.
Draining(r) ==
    \/ FindNothingQueued(r) \/ (\E k \in Keys : FindQueued(r, k)) \/ StopDraining(r)
    \/ ClaimQueuedTurn(r) \/ ConsentGiven(r) \/ ConsentThrows(r) \/ RefuseTurn(r)

(* So does the drain, which moves on to another turn at most MaxDrain times. *)
LEMMA DrainType == ASSUME TypeOK, NEW r \in Requests, Draining(r) PROVE TypeOK'
<1>1. ~At(r, "idle") /\ req[r].key \in Keys /\ req[r].drained \in 0..MaxDrain
  BY DEF Draining, FindNothingQueued, FindQueued, StopDraining, ClaimQueuedTurn, ConsentGiven,
         ConsentThrows, RefuseTurn, At, TypeOK, Reqs
<1>2. CASE FindNothingQueued(r) \/ StopDraining(r)
  <2>1. Leave(r) /\ UNCHANGED <<status, created, lingering, mishaps, effects>> /\ capped' \in BOOLEAN
    BY <1>2 DEF FindNothingQueued, StopDraining, TypeOK
  <2> QED
    BY <2>1, LeaveType DEF TypeOK
<1>3. ASSUME NEW k \in Keys, FindQueued(r, k) PROVE TypeOK'
  <2> DEFINE q == [pc |-> "claim", key |-> k, drained |-> req[r].drained + 1]
  <2>1. req[r].drained + 1 \in 0..MaxDrain
    BY <1>1, <1>3, LimitAssumption DEF FindQueued, MayDrain
  <2>2. q \in Reqs /\ q.key = k
    BY <2>1 DEF Reqs, Steps
  <2>3. req' = [req EXCEPT ![r] = q]
    BY <1>3 DEF FindQueued, TypeOK
  <2> HIDE DEF q
  <2>4. /\ req' \in [Requests -> Reqs]
        /\ \A s \in Requests : req'[s].pc # "idle" => req'[s].key \in Keys
    BY <2>2, <2>3 DEF TypeOK
  <2> QED
    BY <1>3, <2>4 DEF FindQueued, TypeOK
<1>4. CASE ClaimQueuedTurn(r)
  <2>1. "consent" \in HolderSteps
    BY DEF HolderSteps
  <2> QED
    BY <1>1, <1>4, <2>1, PromoteType DEF ClaimQueuedTurn, TypeOK
<1>5. CASE ConsentGiven(r) \/ ConsentThrows(r)
  <2>1. /\ Go(r, "loop") \/ Go(r, "refuse")
        /\ mishaps' \in Nat
        /\ UNCHANGED <<status, created, lingering, capped, effects>>
    BY <1>5 DEF ConsentGiven, ConsentThrows, Mishap, TypeOK
  <2>2. {"loop", "refuse"} \subseteq Steps
    BY DEF Steps, HolderSteps
  <2> QED
    BY <1>1, <2>1, <2>2, GoType DEF TypeOK
<1>6. CASE RefuseTurn(r)
  <2>1. SetStatus(req[r].key, "error") /\ Go(r, "drain") /\ "drain" \in Steps
    BY <1>6, StepNames DEF RefuseTurn
  <2> QED
    BY <1>1, <1>6, <2>1, StepNames, GoType, SetStatusType DEF RefuseTurn, TypeOK
<1> QED
  BY <1>2, <1>3, <1>4, <1>5, <1>6 DEF Draining

\* The ways a request ends before its work does.
Ending(r) == RequestThrows(r) \/ Crash(r) \/ HardKill(r)

LEMMA EndsType == ASSUME TypeOK, NEW r \in Requests, Ending(r) PROVE TypeOK'
<1>1. Leave(r) /\ mishaps' \in Nat /\ UNCHANGED <<status, created, lingering, capped, effects>>
  BY DEF Ending, RequestThrows, Crash, HardKill, Mishap, TypeOK
<1> QED
  BY <1>1, LeaveType DEF TypeOK

(* Every step of the system is one of these. *)
LEMMA NextSteps ==
    ASSUME Next
    PROVE  \/ \E r \in Requests :
               \/ (\E k \in Keys : PostNew(r, k)) \/ CreateTurn(r) \/ SaveBubble(r) \/ PromoteOwn(r)
               \/ Working(r) \/ Draining(r) \/ Ending(r)
           \/ \E k \in Keys : LingeringLoopEnds(k)
  BY DEF Next, Continue, GoWrong, Working, Draining, Ending

LEMMA TypeStep == TypeOK /\ [Next]_vars => TypeOK'
<1> SUFFICES ASSUME TypeOK, [Next]_vars PROVE TypeOK'
  OBVIOUS
<1>1. CASE UNCHANGED vars
  BY <1>1 DEF vars, TypeOK
<1>2. CASE Next
  <2>1. ASSUME NEW k \in Keys, LingeringLoopEnds(k) PROVE TypeOK'
    BY <2>1 DEF LingeringLoopEnds, TypeOK
  <2> QED
    BY <1>2, <2>1, NextSteps, AcceptType, WorkType, DrainType, EndsType
<1> QED
  BY <1>1, <1>2

LEMMA TypeInit == Init => TypeOK
<1> SUFFICES ASSUME Init PROVE TypeOK
  OBVIOUS
<1>1. Idle \in Reqs /\ Idle.pc = "idle"
  BY LimitAssumption DEF Idle, Reqs, Steps
<1> HIDE DEF Idle
<1>2. /\ req \in [Requests -> Reqs]
      /\ \A r \in Requests : req[r].pc # "idle" => req[r].key \in Keys
  BY <1>1 DEF Init
<1>3. created \in Seq(Keys) /\ status \in [Keys -> Statuses] /\ effects \in [Keys -> Nat]
  BY DEF Init, Statuses
<1> QED
  BY <1>2, <1>3 DEF Init, TypeOK

(* Whatever is posted, drained or lost, every request keeps to the program  *)
(* of route.ts and every row to the statuses of penny_turns.               *)
THEOREM TurnsTypeCorrect == Spec => []TypeOK
  BY TypeInit, TypeStep, PTL DEF Spec

-----------------------------------------------------------------------------
(* The slot and the effects *)

LEMMA StepKinds ==
    ASSUME NEW r \in Requests
    PROVE  /\ BeforeEffect(r) => Holds(r)
           /\ \A pc \in HolderSteps : At(r, pc) => Holds(r)
           /\ Works(r) => BeforeEffect(r)
           /\ At(r, "markDone") \/ At(r, "markError") => ~BeforeEffect(r)
  BY DEF BeforeEffect, Holds, HolderSteps, At, Works

(* A request that holds nothing afterwards disturbs nothing. *)
LEMMA StaysOut ==
    ASSUME TypeOK, TurnsInv, NEW r \in Requests, NEW q, q.pc \notin HolderSteps,
           req' = [req EXCEPT ![r] = q], UNCHANGED <<status, effects>>
    PROVE  TurnsInv'
<1>1. ~Holds(r)' /\ ~BeforeEffect(r)' /\ ~At(r, "markDone")'
  BY DEF TypeOK, Holds, BeforeEffect, HolderSteps, At
<1>2. ASSUME NEW s \in Requests, s # r PROVE req'[s] = req[s]
  BY <1>2 DEF TypeOK
<1>3. HeldByOne'
  BY <1>1, <1>2 DEF TurnsInv, HeldByOne, Holds
<1>4. SlotHeld'
  BY <1>1, <1>2 DEF TurnsInv, SlotHeld, Holds, BeforeEffect, Claimed
<1>5. EffectsMatch'
  BY <1>1, <1>2 DEF TurnsInv, EffectsMatch, BeforeEffect, At, Claimed
<1> QED
  BY <1>3, <1>4, <1>5 DEF TurnsInv, OneRunning, DoneMeansApplied

LEMMA GoesOut ==
    ASSUME TypeOK, TurnsInv, NEW r \in Requests, NEW pc, pc \notin HolderSteps,
           Go(r, pc), UNCHANGED <<status, effects>>
    PROVE  TurnsInv'
<1>1. PICK q : q = [req[r] EXCEPT !.pc = pc]
  OBVIOUS
<1>2. q.pc = pc
  BY <1>1 DEF TypeOK, Reqs
<1>3. req' = [req EXCEPT ![r] = q]
  BY <1>1 DEF Go, TypeOK
<1> QED
  BY <1>2, <1>3, StaysOut

LEMMA LeavesSlot ==
    ASSUME TypeOK, TurnsInv, NEW r \in Requests, Leave(r), UNCHANGED <<status, effects>>
    PROVE  TurnsInv'
<1>1. Idle.pc \notin HolderSteps
  BY DEF Idle, HolderSteps
<1> QED
  BY <1>1, StaysOut DEF Leave

(* What every step of a holder leaves of the other requests and of its own turn. *)
LEMMA GoKeeps ==
    ASSUME TypeOK, NEW r \in Requests, NEW pc, Go(r, pc)
    PROVE  /\ \A s \in Requests : req'[s].key = req[s].key
           /\ \A s \in Requests \ {r} : req'[s] = req[s]
           /\ req'[r].pc = pc
  BY DEF TypeOK, Reqs, Go

(* A holder that goes on with its turn, nothing else changing. *)
LEMMA GoesOn ==
    ASSUME TypeOK, TurnsInv, NEW r \in Requests, Holds(r),
           NEW pc \in {"loop", "refuse", "apply", "markError"}, Go(r, pc),
           pc # "markError" => BeforeEffect(r),
           UNCHANGED <<status, effects>>
    PROVE  TurnsInv'
<1>1. Holds(r)' /\ ~At(r, "markDone")'
  BY GoKeeps DEF Holds, HolderSteps, At
<1>2. BeforeEffect(r)' => BeforeEffect(r)
  BY GoKeeps DEF BeforeEffect
<1>3. HeldByOne'
  BY <1>1, GoKeeps DEF TurnsInv, HeldByOne, Holds
<1>4. SlotHeld'
  BY <1>1, <1>2, GoKeeps DEF TurnsInv, SlotHeld, Holds, BeforeEffect, Claimed
<1>5. EffectsMatch'
  BY <1>1, <1>2, GoKeeps DEF TurnsInv, EffectsMatch, BeforeEffect, At, Claimed
<1> QED
  BY <1>3, <1>4, <1>5 DEF TurnsInv, OneRunning, DoneMeansApplied

(* A new row is queued, and nobody holds or has applied it. *)
LEMMA CreateKeeps ==
    ASSUME TypeOK, TurnsInv, NEW r \in Requests, CreateTurn(r)
    PROVE  TurnsInv'
<1> DEFINE k == req[r].key
<1>1. CASE status[k] = "absent"
  <2>1. k \in Keys /\ ~Holds(r)
    BY DEF CreateTurn, At, TypeOK, Holds, HolderSteps
  <2>2. SetStatus(k, "queued") /\ Go(r, "bubble") /\ UNCHANGED effects
    BY <1>1 DEF CreateTurn
  <2>3. \A s \in Requests : Holds(s)' => Holds(s) /\ req'[s] = req[s]
    BY <2>2, GoKeeps DEF Holds, HolderSteps
  <2>4. \A s \in Requests : BeforeEffect(s)' => BeforeEffect(s) /\ req'[s] = req[s]
    BY <2>2, GoKeeps DEF BeforeEffect
  <2>5. \A s \in Requests : At(s, "markDone")' => At(s, "markDone") /\ req'[s] = req[s]
    BY <2>2, GoKeeps DEF At
  <2>6. /\ Claimed' = Claimed
        /\ \A j \in Keys, s \in {"running", "done"} : status'[j] = s <=> status[j] = s
    BY <1>1, <2>1, <2>2 DEF Claimed, SetStatus, TypeOK, Ended
  <2>7. HeldByOne'
    BY <2>3 DEF TurnsInv, HeldByOne
  <2>8. SlotHeld'
    <3>1. \A s \in Requests : BeforeEffect(s) => req[s].key \in Keys
      BY StepKinds DEF TypeOK, Holds, HolderSteps
    <3> QED
      BY <2>3, <2>4, <2>6, <3>1 DEF TurnsInv, SlotHeld
  <2>9. OneRunning'
    BY <2>6 DEF TurnsInv, OneRunning
  <2>10. EffectsMatch' /\ DoneMeansApplied'
    BY <2>2, <2>4, <2>5, <2>6 DEF TurnsInv, EffectsMatch, DoneMeansApplied
  <2> QED
    BY <2>7, <2>8, <2>9, <2>10 DEF TurnsInv
<1>2. CASE status[k] # "absent"
  BY <1>2, LeavesSlot DEF CreateTurn
<1> QED
  BY <1>1, <1>2

(* Who wins the slot is alone with it: its turn was queued and none of its trip was running. *)
LEMMA PromoteKeeps ==
    ASSUME TypeOK, TurnsInv, NEW r \in Requests, ~Holds(r), ~At(r, "idle"),
           NEW next \in {"loop", "consent"}, PromoteTurn(r, next), UNCHANGED effects
    PROVE  TurnsInv'
<1> DEFINE k == req[r].key
<1>1. CASE Promotable(k)
  <2>1. k \in Keys /\ status[k] = "queued" /\ k \notin Claimed
    BY <1>1 DEF Promotable, At, TypeOK, Claimed, Ended
  <2>2. SetStatus(k, "running") /\ Go(r, next)
    BY <1>1 DEF PromoteTurn
  <2>3. status' = [status EXCEPT ![k] = "running"] /\ status'[k] = "running"
    BY <2>1, <2>2 DEF SetStatus, TypeOK
  <2>4. Claimed' = Claimed \cup {k}
    BY <2>1, <2>3 DEF Claimed, TypeOK
  <2>5. \A s \in Requests : Holds(s) => req[s].key # k
    BY <2>1 DEF TurnsInv, SlotHeld
  <2>6. HeldByOne'
    BY <2>2, <2>5, GoKeeps DEF TurnsInv, HeldByOne, Holds
  <2>7. SlotHeld'
    <3>1. \A s \in Requests \ {r} : BeforeEffect(s)' => status'[req'[s].key] = "running"
      <4> SUFFICES ASSUME NEW s \in Requests \ {r}, BeforeEffect(s)'
                   PROVE  status'[req'[s].key] = "running"
        OBVIOUS
      <4>1. req'[s] = req[s] /\ BeforeEffect(s)
        BY <2>2, GoKeeps DEF BeforeEffect
      <4>2. req[s].key \in Keys /\ req[s].key # k /\ status[req[s].key] = "running"
        BY <2>5, <4>1, StepKinds DEF TurnsInv, SlotHeld, Claimed
      <4> QED
        BY <2>1, <2>3, <4>1, <4>2 DEF TypeOK
    <3>2. BeforeEffect(r)' => status'[req'[r].key] = "running"
      BY <2>2, <2>3, GoKeeps
    <3>3. \A s \in Requests : Holds(s)' => req'[s].key \in Claimed'
      BY <2>2, <2>4, GoKeeps DEF TurnsInv, SlotHeld, Holds
    <3> QED
      BY <3>1, <3>2, <3>3 DEF SlotHeld
  <2>8. OneRunning'
    BY <1>1, <2>1, <2>3 DEF TurnsInv, OneRunning, Promotable, TypeOK
  <2>9. EffectsMatch'
    <3>1. \A j \in Keys : j \notin Claimed' => effects'[j] = 0
      BY <2>4 DEF TurnsInv, EffectsMatch
    <3>2. \A s \in Requests : BeforeEffect(s)' => effects'[req'[s].key] = 0
      BY <2>1, <2>2, GoKeeps DEF TurnsInv, EffectsMatch, BeforeEffect
    <3>3. \A s \in Requests : At(s, "markDone")' => effects'[req'[s].key] = 1
      BY <2>2, GoKeeps DEF TurnsInv, EffectsMatch, At
    <3> QED
      BY <3>1, <3>2, <3>3 DEF EffectsMatch
  <2>10. DoneMeansApplied'
    BY <2>1, <2>3 DEF TurnsInv, DoneMeansApplied, TypeOK
  <2> QED
    BY <2>6, <2>7, <2>8, <2>9, <2>10 DEF TurnsInv
<1>2. CASE ~Promotable(k)
  BY <1>2, LeavesSlot DEF PromoteTurn
<1> QED
  BY <1>1, <1>2

(* The effect: the turn's first, while its request alone holds the slot. *)
LEMMA ApplyKeeps ==
    ASSUME TypeOK, TurnsInv, NEW r \in Requests, At(r, "apply"),
           NEW pc \in {"markDone", "markError"}, Go(r, pc), UNCHANGED status,
           effects' = [effects EXCEPT ![req[r].key] = @ + 1]
    PROVE  /\ TurnsInv'
           /\ req[r].key \in Claimed /\ effects[req[r].key] = 0
<1> DEFINE k == req[r].key
<1>1. BeforeEffect(r) /\ Holds(r)
  BY StepKinds DEF At, BeforeEffect
<1>2. k \in Claimed /\ k \in Keys /\ status[k] = "running" /\ effects[k] = 0
  BY <1>1 DEF TurnsInv, SlotHeld, EffectsMatch, Claimed
<1>3. effects'[k] = 1 /\ \A j \in Keys : j # k => effects'[j] = effects[j]
  BY <1>2 DEF TypeOK
<1>4. \A s \in Requests \ {r} : Holds(s) => req[s].key # k /\ req[s].key \in Keys
  BY <1>1 DEF TurnsInv, HeldByOne, SlotHeld, Claimed
<1>5. HeldByOne'
  BY <1>1, GoKeeps DEF TurnsInv, HeldByOne, Holds
<1>6. SlotHeld'
  BY <1>1, GoKeeps DEF TurnsInv, SlotHeld, Holds, BeforeEffect, Claimed
<1>7. EffectsMatch'
  <2>1. \A j \in Keys : j \notin Claimed' => effects'[j] = 0
    BY <1>2, <1>3 DEF TurnsInv, EffectsMatch, Claimed
  <2>2. ASSUME NEW s \in Requests
        PROVE  /\ BeforeEffect(s)' => effects'[req'[s].key] = 0
               /\ At(s, "markDone")' => effects'[req'[s].key] = 1
    <3>1. CASE s = r
      BY <1>3, <3>1, GoKeeps DEF BeforeEffect
    <3>2. CASE s # r
      <4>1. req'[s] = req[s]
        BY <3>2, GoKeeps
      <4>2. BeforeEffect(s) \/ At(s, "markDone") => req[s].key # k /\ req[s].key \in Keys
        BY <1>4, <3>2, StepKinds DEF HolderSteps
      <4> QED
        BY <1>3, <4>1, <4>2 DEF TurnsInv, EffectsMatch, BeforeEffect, At
    <3> QED
      BY <3>1, <3>2
  <2> QED
    BY <2>1, <2>2 DEF EffectsMatch
<1>8. OneRunning' /\ DoneMeansApplied'
  BY <1>2, <1>3 DEF TurnsInv, OneRunning, DoneMeansApplied
<1> QED
  BY <1>2, <1>5, <1>6, <1>7, <1>8 DEF TurnsInv

(* The end of a turn: only its own holder writes it, so no other request loses the slot. *)
LEMMA EndKeeps ==
    ASSUME TypeOK, TurnsInv, NEW r \in Requests, Holds(r),
           NEW s \in Ended, SetStatus(req[r].key, s), UNCHANGED effects,
           NEW pc \in {"drain", "markError"}, Go(r, pc),
           s = "done" => effects[req[r].key] = 1
    PROVE  TurnsInv' /\ Claimed' = Claimed
<1> DEFINE k == req[r].key
<1>1. k \in Claimed /\ k \in Keys
  BY DEF TurnsInv, SlotHeld, Claimed
<1>2. status'[k] = s /\ \A j \in Keys : j # k => status'[j] = status[j]
  BY <1>1 DEF SetStatus, TypeOK
<1>3. s # "running" /\ s # "queued" /\ s # "absent"
  BY DEF Ended
<1>4. Claimed' = Claimed
  BY <1>1, <1>2, <1>3 DEF Claimed
<1>5. ~BeforeEffect(r)' /\ ~At(r, "markDone")'
  BY GoKeeps DEF BeforeEffect, At
<1>6. HeldByOne'
  BY GoKeeps DEF TurnsInv, HeldByOne, Holds
<1>7. SlotHeld'
  <2>1. ASSUME NEW q \in Requests, BeforeEffect(q)' PROVE status'[req'[q].key] = "running"
    <3>1. q # r /\ req'[q] = req[q] /\ BeforeEffect(q)
      BY <1>5, <2>1, GoKeeps DEF BeforeEffect
    <3>2. req[q].key # k /\ req[q].key \in Keys
      BY <3>1, StepKinds DEF TurnsInv, HeldByOne, SlotHeld, Claimed
    <3> QED
      BY <1>2, <3>1, <3>2 DEF TurnsInv, SlotHeld
  <2>2. \A q \in Requests : Holds(q)' => req'[q].key \in Claimed'
    BY <1>1, <1>4, GoKeeps DEF TurnsInv, SlotHeld, Holds
  <2> QED
    BY <2>1, <2>2 DEF SlotHeld
<1>8. OneRunning'
  BY <1>2, <1>3 DEF TurnsInv, OneRunning
<1>9. EffectsMatch'
  <2>1. \A q \in Requests : BeforeEffect(q)' => BeforeEffect(q)
    BY <1>5, GoKeeps DEF BeforeEffect
  <2>2. \A q \in Requests : At(q, "markDone")' => At(q, "markDone")
    BY <1>5, GoKeeps DEF At
  <2> QED
    BY <1>4, <2>1, <2>2, GoKeeps DEF TurnsInv, EffectsMatch
<1>10. DoneMeansApplied'
  BY <1>2 DEF TurnsInv, DoneMeansApplied
<1> QED
  BY <1>4, <1>6, <1>7, <1>8, <1>9, <1>10 DEF TurnsInv

(* Every step of a turn keeps the invariant and is a step of ClaimOnce or none. *)
LEMMA WorkKeeps == ASSUME TypeOK, TurnsInv, NEW r \in Requests, Working(r) PROVE TurnsInv'
<1>1. CASE LoopFinishes(r) \/ LoopThrows(r) \/ LoopTimesOut(r)
  <2>1. /\ Go(r, "apply") \/ Go(r, "markError")
        /\ UNCHANGED <<status, effects>>
        /\ Holds(r) /\ BeforeEffect(r)
    BY <1>1 DEF LoopFinishes, LoopThrows, LoopTimesOut, At, Holds, BeforeEffect, HolderSteps
  <2> QED
    BY <2>1, GoesOn
<1>2. CASE ApplyActions(r)
  BY <1>2, ApplyKeeps DEF ApplyActions
<1>3. CASE ApplyThrows(r)
  <2>1. /\ At(r, "apply") /\ Go(r, "markError") /\ UNCHANGED status /\ Holds(r)
        /\ UNCHANGED effects \/ effects' = [effects EXCEPT ![req[r].key] = @ + 1]
    BY <1>3 DEF ApplyThrows, AfterThrow, At, Holds, HolderSteps
  <2> QED
    BY <2>1, ApplyKeeps, GoesOn
<1>4. CASE MarkTurnDone(r) \/ MarkTurnDoneThrows(r)
  <2>1. /\ Holds(r) /\ effects[req[r].key] = 1 /\ UNCHANGED effects
        /\ \/ SetStatus(req[r].key, "done") /\ (Go(r, "drain") \/ Go(r, "markError"))
           \/ UNCHANGED status /\ Go(r, "markError")
    BY <1>4 DEF MarkTurnDone, MarkTurnDoneThrows, At, Holds, HolderSteps, TurnsInv, EffectsMatch
  <2>2. "done" \in Ended
    BY DEF Ended
  <2> QED
    BY <2>1, <2>2, EndKeeps, GoesOn
<1>5. CASE MarkTurnError(r)
  <2>1. Holds(r) /\ SetStatus(req[r].key, "error") /\ Go(r, "drain") /\ UNCHANGED effects
    BY <1>5 DEF MarkTurnError, At, Holds, HolderSteps
  <2>2. "error" \in Ended
    BY DEF Ended
  <2> QED
    BY <2>1, <2>2, EndKeeps
<1>6. CASE MarkTurnErrorFails(r)
  <2>1. Go(r, "drain") /\ UNCHANGED <<status, effects>> /\ "drain" \notin HolderSteps
    BY <1>6 DEF MarkTurnErrorFails, HolderSteps
  <2> QED
    BY <2>1, GoesOut
<1> QED
  BY <1>1, <1>2, <1>3, <1>4, <1>5, <1>6 DEF Working

LEMMA DrainKeeps == ASSUME TypeOK, TurnsInv, NEW r \in Requests, Draining(r) PROVE TurnsInv'
<1>1. CASE FindNothingQueued(r) \/ StopDraining(r)
  BY <1>1, LeavesSlot DEF FindNothingQueued, StopDraining
<1>2. ASSUME NEW k \in Keys, FindQueued(r, k) PROVE TurnsInv'
  <2>1. PICK q : q = [pc |-> "claim", key |-> k, drained |-> req[r].drained + 1]
    OBVIOUS
  <2>2. q.pc \notin HolderSteps
    BY <2>1 DEF HolderSteps
  <2>3. req' = [req EXCEPT ![r] = q]
    BY <1>2, <2>1 DEF FindQueued, TypeOK
  <2> QED
    BY <1>2, <2>2, <2>3, StaysOut DEF FindQueued
<1>3. CASE ClaimQueuedTurn(r)
  <2>1. ~Holds(r) /\ ~At(r, "idle")
    BY <1>3 DEF ClaimQueuedTurn, At, Holds, HolderSteps
  <2> QED
    BY <1>3, <2>1, PromoteKeeps DEF ClaimQueuedTurn
<1>4. CASE ConsentGiven(r) \/ ConsentThrows(r)
  <2>1. /\ Go(r, "loop") \/ Go(r, "refuse")
        /\ UNCHANGED <<status, effects>>
        /\ Holds(r) /\ BeforeEffect(r)
    BY <1>4 DEF ConsentGiven, ConsentThrows, At, Holds, BeforeEffect, HolderSteps
  <2> QED
    BY <2>1, GoesOn
<1>5. CASE RefuseTurn(r)
  <2>1. Holds(r) /\ SetStatus(req[r].key, "error") /\ Go(r, "drain") /\ UNCHANGED effects
    BY <1>5 DEF RefuseTurn, At, Holds, HolderSteps
  <2>2. "error" \in Ended
    BY DEF Ended
  <2> QED
    BY <2>1, <2>2, EndKeeps
<1> QED
  BY <1>1, <1>2, <1>3, <1>4, <1>5 DEF Draining

LEMMA AcceptKeeps ==
    ASSUME TypeOK, TurnsInv, NEW r \in Requests,
           (\E k \in Keys : PostNew(r, k)) \/ CreateTurn(r) \/ SaveBubble(r) \/ PromoteOwn(r)
    PROVE  TurnsInv'
<1>1. ASSUME NEW k \in Keys, PostNew(r, k) PROVE TurnsInv'
  <2>1. PICK q : q = [pc |-> "insert", key |-> k, drained |-> 0]
    OBVIOUS
  <2>2. q.pc \notin HolderSteps
    BY <2>1 DEF HolderSteps
  <2> QED
    BY <1>1, <2>1, <2>2, StaysOut DEF PostNew
<1>2. CASE CreateTurn(r)
  BY <1>2, CreateKeeps
<1>3. CASE SaveBubble(r)
  <2>1. "promote" \notin HolderSteps
    BY DEF HolderSteps
  <2> QED
    BY <1>3, <2>1, GoesOut DEF SaveBubble
<1>4. CASE PromoteOwn(r)
  <2>1. ~Holds(r) /\ ~At(r, "idle")
    BY <1>4 DEF PromoteOwn, At, Holds, HolderSteps
  <2> QED
    BY <1>4, <2>1, PromoteKeeps DEF PromoteOwn
<1> QED
  BY <1>1, <1>2, <1>3, <1>4

LEMMA TurnsStep == TypeOK /\ TurnsInv /\ [Next]_vars => TurnsInv'
<1> SUFFICES ASSUME TypeOK, TurnsInv, [Next]_vars PROVE TurnsInv'
  OBVIOUS
<1>1. CASE UNCHANGED <<status, req, effects>>
  BY <1>1 DEF TurnsInv, HeldByOne, SlotHeld, OneRunning, EffectsMatch, DoneMeansApplied,
             Holds, BeforeEffect, At, Claimed
<1>2. CASE Next
  <2>1. ASSUME NEW k \in Keys, LingeringLoopEnds(k) PROVE TurnsInv'
    BY <1>1, <2>1 DEF LingeringLoopEnds
  <2>2. ASSUME NEW r \in Requests, Ending(r) PROVE TurnsInv'
    BY <2>2, LeavesSlot DEF Ending, RequestThrows, Crash, HardKill
  <2> QED
    BY <1>2, <2>1, <2>2, NextSteps, AcceptKeeps, WorkKeeps, DrainKeeps
<1> QED
  BY <1>1, <1>2 DEF vars

LEMMA TurnsInit == Init => TurnsInv
<1> SUFFICES ASSUME Init PROVE TurnsInv
  OBVIOUS
<1>1. \A r \in Requests : ~Holds(r) /\ ~BeforeEffect(r) /\ ~At(r, "markDone")
  BY DEF Init, Idle, Holds, BeforeEffect, At, HolderSteps
<1> QED
  BY <1>1 DEF Init, TurnsInv, HeldByOne, SlotHeld, OneRunning, EffectsMatch, DoneMeansApplied

LEMMA TurnsInvariant == Spec => [](TypeOK /\ TurnsInv)
  BY TypeInit, TypeStep, TurnsInit, TurnsStep, PTL DEF Spec

(* The index on running turns is enough to keep two requests from working  *)
(* on one trip at the same time, for any number of them.                   *)
THEOREM SlotExclusive == Spec => []OneTurnPerTrip
<1>1. ASSUME TypeOK, TurnsInv PROVE OneTurnPerTrip
  <2> SUFFICES ASSUME NEW r \in Requests, NEW s \in Requests, Works(r), Works(s),
                      TripOf[req[r].key] = TripOf[req[s].key]
               PROVE  r = s
    BY DEF OneTurnPerTrip
  <2>1. Holds(r) /\ Holds(s) /\ BeforeEffect(r) /\ BeforeEffect(s)
    BY StepKinds
  <2>2. req[r].key = req[s].key
    BY <1>1, <2>1 DEF TurnsInv, SlotHeld, OneRunning, Claimed
  <2> QED
    BY <1>1, <2>1, <2>2 DEF TurnsInv, HeldByOne
<1> QED
  BY <1>1, TurnsInvariant, PTL

(* A turn recorded as done has been applied, also when answers are lost. *)
THEOREM DoneWasApplied == Spec => []DoneMeansApplied
<1>1. TurnsInv => DoneMeansApplied
  BY DEF TurnsInv
<1> QED
  BY <1>1, TurnsInvariant, PTL

-----------------------------------------------------------------------------
(* The turns implement ClaimOnce *)

LEMMA StutterSteps ==
    ASSUME UNCHANGED <<status, effects>>
    PROVE  UNCHANGED <<Claimed, effects>>
  BY DEF Claimed

(* A promotion claims its turn, or loses and does nothing. *)
LEMMA PromoteClaims ==
    ASSUME TypeOK, NEW r \in Requests, ~At(r, "idle"), NEW next,
           PromoteTurn(r, next), UNCHANGED effects
    PROVE  Turns!Next \/ UNCHANGED <<Claimed, effects>>
<1> DEFINE k == req[r].key
<1>1. CASE Promotable(k)
  <2>1. k \in Keys /\ k \notin Claimed
    BY <1>1 DEF Promotable, At, TypeOK, Claimed, Ended
  <2>2. status' = [status EXCEPT ![k] = "running"]
    BY <1>1 DEF PromoteTurn, SetStatus
  <2>3. Claimed' = Claimed \cup {k}
    BY <2>1, <2>2 DEF Claimed, TypeOK
  <2> QED
    BY <2>1, <2>3 DEF Turns!Next, Turns!Claim
<1>2. CASE ~Promotable(k)
  BY <1>2, StutterSteps DEF PromoteTurn
<1> QED
  BY <1>1, <1>2

LEMMA CreateClaimsNothing ==
    ASSUME TypeOK, NEW r \in Requests, CreateTurn(r)
    PROVE  UNCHANGED <<Claimed, effects>>
<1>1. CASE status[req[r].key] = "absent"
  <2>1. status' = [status EXCEPT ![req[r].key] = "queued"] /\ UNCHANGED effects
    BY <1>1 DEF CreateTurn, SetStatus
  <2> QED
    BY <1>1, <2>1 DEF Claimed, TypeOK, Ended
<1>2. CASE status[req[r].key] # "absent"
  BY <1>2, StutterSteps DEF CreateTurn
<1> QED
  BY <1>1, <1>2

(* Applying the actions of a turn is the effect of its claim. *)
LEMMA ApplyIsEffect ==
    ASSUME TypeOK, TurnsInv, NEW r \in Requests, At(r, "apply"),
           NEW pc \in {"markDone", "markError"}, Go(r, pc), UNCHANGED status,
           effects' = [effects EXCEPT ![req[r].key] = @ + 1]
    PROVE  Turns!Next
<1>1. req[r].key \in Claimed /\ effects[req[r].key] = 0
  BY ApplyKeeps
<1>2. effects' = [effects EXCEPT ![req[r].key] = 1]
  BY <1>1
<1>3. req[r].key \in Keys /\ UNCHANGED Claimed
  BY <1>1 DEF Claimed
<1> QED
  BY <1>1, <1>2, <1>3 DEF Turns!Next, Turns!Effect

LEMMA EndClaimsNothing ==
    ASSUME TypeOK, TurnsInv, NEW r \in Requests, Holds(r),
           NEW s \in Ended, SetStatus(req[r].key, s), UNCHANGED effects
    PROVE  UNCHANGED <<Claimed, effects>>
<1>1. req[r].key \in Claimed
  BY DEF TurnsInv, SlotHeld
<1>2. Claimed' = Claimed
  BY <1>1 DEF Claimed, SetStatus, TypeOK
<1> QED
  BY <1>2

LEMMA WorkRefines ==
    ASSUME TypeOK, TurnsInv, NEW r \in Requests, Working(r)
    PROVE  Turns!Next \/ UNCHANGED <<Claimed, effects>>
<1>1. CASE LoopFinishes(r) \/ LoopThrows(r) \/ LoopTimesOut(r) \/ MarkTurnErrorFails(r)
  BY <1>1, StutterSteps DEF LoopFinishes, LoopThrows, LoopTimesOut, MarkTurnErrorFails
<1>2. CASE ApplyActions(r) \/ ApplyThrows(r)
  <2>1. /\ At(r, "apply") /\ UNCHANGED status
        /\ (Go(r, "markDone") \/ Go(r, "markError"))
        /\ (UNCHANGED effects \/ effects' = [effects EXCEPT ![req[r].key] = @ + 1])
    BY <1>2 DEF ApplyActions, ApplyThrows, AfterThrow
  <2> QED
    BY <1>2, <2>1, ApplyIsEffect, StutterSteps DEF ApplyActions, ApplyThrows, AfterThrow
<1>3. CASE MarkTurnDone(r) \/ MarkTurnDoneThrows(r) \/ MarkTurnError(r)
  <2>1. /\ Holds(r) /\ UNCHANGED effects
        /\ (UNCHANGED status \/ \E s \in Ended : SetStatus(req[r].key, s))
    BY <1>3 DEF MarkTurnDone, MarkTurnDoneThrows, MarkTurnError, At, Holds, HolderSteps, Ended
  <2> QED
    BY <2>1, EndClaimsNothing, StutterSteps
<1> QED
  BY <1>1, <1>2, <1>3 DEF Working

LEMMA DrainRefines ==
    ASSUME TypeOK, TurnsInv, NEW r \in Requests, Draining(r)
    PROVE  Turns!Next \/ UNCHANGED <<Claimed, effects>>
<1>1. CASE ClaimQueuedTurn(r)
  <2>1. ~At(r, "idle")
    BY <1>1 DEF ClaimQueuedTurn, At
  <2> QED
    BY <1>1, <2>1, PromoteClaims DEF ClaimQueuedTurn
<1>2. CASE RefuseTurn(r)
  <2>1. Holds(r) /\ "error" \in Ended
    BY <1>2 DEF RefuseTurn, At, Holds, HolderSteps, Ended
  <2> QED
    BY <1>2, <2>1, EndClaimsNothing DEF RefuseTurn
<1>3. CASE ~ClaimQueuedTurn(r) /\ ~RefuseTurn(r)
  BY <1>3, StutterSteps DEF Draining, FindNothingQueued, FindQueued, StopDraining, ConsentGiven,
                            ConsentThrows
<1> QED
  BY <1>1, <1>2, <1>3

LEMMA AcceptRefines ==
    ASSUME TypeOK, NEW r \in Requests,
           (\E k \in Keys : PostNew(r, k)) \/ CreateTurn(r) \/ SaveBubble(r) \/ PromoteOwn(r)
    PROVE  Turns!Next \/ UNCHANGED <<Claimed, effects>>
<1>1. CASE (\E k \in Keys : PostNew(r, k)) \/ SaveBubble(r)
  BY <1>1, StutterSteps DEF PostNew, SaveBubble
<1>2. CASE CreateTurn(r)
  BY <1>2, CreateClaimsNothing
<1>3. CASE PromoteOwn(r)
  <2>1. ~At(r, "idle")
    BY <1>3 DEF PromoteOwn, At
  <2> QED
    BY <1>3, <2>1, PromoteClaims DEF PromoteOwn
<1> QED
  BY <1>1, <1>2, <1>3

LEMMA StepRefines ==
    TypeOK /\ TurnsInv /\ [Next]_vars => [Turns!Next]_<<Claimed, effects>>
<1> SUFFICES ASSUME TypeOK, TurnsInv, [Next]_vars
             PROVE  Turns!Next \/ UNCHANGED <<Claimed, effects>>
  OBVIOUS
<1>1. CASE UNCHANGED vars
  BY <1>1, StutterSteps DEF vars
<1>2. CASE Next
  <2>1. ASSUME NEW k \in Keys, LingeringLoopEnds(k) PROVE UNCHANGED <<Claimed, effects>>
    BY <2>1, StutterSteps DEF LingeringLoopEnds
  <2>2. ASSUME NEW r \in Requests, Ending(r) PROVE UNCHANGED <<Claimed, effects>>
    BY <2>2, StutterSteps DEF Ending, RequestThrows, Crash, HardKill
  <2> QED
    BY <1>2, <2>1, <2>2, NextSteps, AcceptRefines, WorkRefines, DrainRefines
<1> QED
  BY <1>1, <1>2

LEMMA InitRefines == Init => Turns!Init
  BY DEF Init, Turns!Init, Claimed, Ended

(* One send changes its trip at most once and only after its turn was      *)
(* promoted, for any number of posts, requests and mishaps.                *)
THEOREM TurnsRefined == Spec => AppliedAtMostOnce
  BY InitRefines, StepRefines, TurnsInvariant, PTL DEF Spec, AppliedAtMostOnce, Turns!Spec
=============================================================================
