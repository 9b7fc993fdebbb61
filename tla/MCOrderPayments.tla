-------------------------- MODULE MCOrderPayments --------------------------
(***************************************************************************)
(* Small instances of OrderPayments.                                       *)
(***************************************************************************)
EXTENDS OrderPayments, TLC

\* Request slots are interchangeable, and no property tells them apart.
RequestSymmetry == Permutations(Request)
=============================================================================
