-------------------------- MODULE MCMobileSession ---------------------------
(***************************************************************************)
(* Small instances of MobileSession for TLC.                               *)
(***************************************************************************)
EXTENDS MobileSessionProperties

CONSTANTS ann, ben

Symmetry == Permutations(Accounts)
=============================================================================
