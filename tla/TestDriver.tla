------------------------------ MODULE TestDriver -----------------------------
(***************************************************************************)
(* The test driver of src/drivers/test: a UPS that is always there and     *)
(* always on mains.                                                        *)
(***************************************************************************)
EXTENDS UpsDriver

TestOpen ==
    /\ driver = "test" /\ phase = "open"
    /\ OpenSucceeds(Status \ {"slave"})
    /\ UNCHANGED <<driver, options, truth, link>>

(* get_capabilities() and read_static_data(): everything is supported.     *)
TestSetup ==
    /\ driver = "test" /\ phase = "setup"
    /\ SetupDone(TRUE)
    /\ UNCHANGED <<driver, Status, tries, options, truth, link>>

(* read_volatile_data() makes a status up, and loses all other bits.       *)
TestRead ==
    /\ driver = "test" /\ phase = "fill"
    /\ Status' = set_online({})
    /\ phase' = "act" /\ Silent
    /\ UNCHANGED <<driver, tries, options, truth, link>>

TestCheck ==
    /\ driver = "test" /\ phase = "check"
    /\ phase' = "fill" /\ Silent
    /\ UNCHANGED <<driver, Status, tries, options, truth, link>>

(* kill_power() is UpsDriver's, which does nothing.                        *)
TestKill ==
    /\ driver = "test" /\ phase = "kill"
    /\ KillDone
    /\ UNCHANGED <<driver, Status, tries, options, truth, link>>

TestClose ==
    /\ driver = "test" /\ phase = "close"
    /\ phase' = "closed" /\ Silent
    /\ UNCHANGED <<driver, Status, tries, options, truth, link>>

TestNext == TestOpen \/ TestSetup \/ TestRead \/ TestCheck \/ TestKill \/ TestClose
=============================================================================
