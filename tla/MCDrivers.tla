------------------------------ MODULE MCDrivers ------------------------------
(* A small instance of every driver.                                       *)
EXTENDS Drivers

MCTruths == {{}, {"onbatt", "battlow"}}
MCMasters == {{}, {"shutdown"}, {"commlost"}}
(* The first digit of a status before the "M" of an "SM".                  *)
MCGarbled == {{"calibration", "boost"}}
(* A Back-UPS, a Smart-UPS, and one without CI_Discharging.                *)
MCOffers == {{"BelowRemCapLimit", "Discharging"}, {"STATUS", "Discharging", "ACPresent"},
             {"STATUS", "ACPresent"}}
MCMibs == <<"APC", "RFC", "MGE">>
=============================================================================
