---------------------------- MODULE MCAdmission -----------------------------
(***************************************************************************)
(* Small instances of Admission for TLC.                                   *)
(***************************************************************************)
EXTENDS AdmissionProperties, TLC

CONSTANTS ann, i1, i2, r1, r2

Symmetry == Permutations(Requests)
=============================================================================
