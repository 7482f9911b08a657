------------------------- MODULE MCFuelCalibration -------------------------
(***************************************************************************)
(* Instance of FuelCalibration for TLC.  A behaviour has locations and     *)
(* sessions enough for the reports, or a calibration with locations in its *)
(* window, or one with sessions that may overlap, or three requests that   *)
(* race while the odometer turns.                                          *)
(***************************************************************************)
EXTENDS FuelCalibration

Rides == [moves |-> {<<0, 3, 0>>, <<3, 2, 0>>}, points |-> 3, sessions |-> 2,
          requests |-> 0, failures |-> 0, horizon |-> 3]
Windows == [moves |-> {<<1, 3, 1>>}, points |-> 2, sessions |-> 0, requests |-> 2,
            failures |-> 0, horizon |-> 2]
Overlaps == [moves |-> {}, points |-> 0, sessions |-> 2, requests |-> 2,
             failures |-> 0, horizon |-> 2]
Races == [moves |-> {<<0, 3, 0>>, <<1, 3, 1>>}, points |-> 2, sessions |-> 0, requests |-> 3,
          failures |-> 1, horizon |-> 0]

MCBudgets == {Rides, Windows, Overlaps, Races}
=============================================================================
