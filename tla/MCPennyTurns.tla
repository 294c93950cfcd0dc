---------------------------- MODULE MCPennyTurns ----------------------------
(***************************************************************************)
(* Small instances of PennyTurns for TLC.                                  *)
(***************************************************************************)
EXTENDS PennyTurnProperties

CONSTANTS k1, k2, k3, t

OneTrip == [k \in Keys |-> t]
=============================================================================
