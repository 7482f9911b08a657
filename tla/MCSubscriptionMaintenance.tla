--------------------- MODULE MCSubscriptionMaintenance ---------------------
(***************************************************************************)
(* Instance of SubscriptionMaintenance for TLC: two users, one or two      *)
(* instants a day, a reminder window and a fine ceiling of a day or two.   *)
(***************************************************************************)
EXTENDS SubscriptionMaintenance
=============================================================================
