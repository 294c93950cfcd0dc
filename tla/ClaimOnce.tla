----------------------------- MODULE ClaimOnce -----------------------------
(***************************************************************************)
(* What the server promises of every piece of work that may be asked for   *)
(* more than once: a store notification that is delivered again, a promo   *)
(* code typed twice.  The work is claimed at most once, by one insert or   *)
(* one conditional update that the database arbitrates, and its effect     *)
(* happens at most once, and only after the claim.  A crash between the    *)
(* claim and the effect loses the effect, never repeats it.                *)
(***************************************************************************)
EXTENDS Naturals

CONSTANT Tokens

VARIABLES claimed, effects

Init ==
    /\ claimed = {}
    /\ effects = [t \in Tokens |-> 0]

Claim(t) ==
    /\ t \notin claimed
    /\ claimed' = claimed \cup {t}
    /\ UNCHANGED effects

Effect(t) ==
    /\ t \in claimed
    /\ effects[t] = 0
    /\ effects' = [effects EXCEPT ![t] = 1]
    /\ UNCHANGED claimed

Next == \E t \in Tokens : Claim(t) \/ Effect(t)

Spec == Init /\ [][Next]_<<claimed, effects>>
=============================================================================
