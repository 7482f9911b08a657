-------------------------- MODULE MCMidtransPayments --------------------------
(***************************************************************************)
(* Instance of MidtransPayments for TLC.  Orders, users and handlers are   *)
(* interchangeable, so the safety runs may permute them.                   *)
(***************************************************************************)
EXTENDS MidtransPayments, TLC

Symmetry == Permutations(Orders) \cup Permutations(Handlers)
=============================================================================
