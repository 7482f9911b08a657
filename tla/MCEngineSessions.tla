-------------------------- MODULE MCEngineSessions --------------------------
(***************************************************************************)
(* Instance of EngineSessions for TLC: one or two devices, a cooldown of   *)
(* one tick.                                                               *)
(***************************************************************************)
EXTENDS EngineSessions
=============================================================================
