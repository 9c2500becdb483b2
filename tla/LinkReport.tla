----------------------------- MODULE LinkReport ------------------------------
(***************************************************************************)
(* What the user may rely on of the communication events, whichever driver *)
(* is at work.  lost is the COMMLOST bit of the status, news the event of  *)
(* the last step, and told says that CMDCOMMFAILURE was the last event.    *)
(* A failure is announced at most once per loss, and with the bit set.  A  *)
(* loss that was announced ends with CMDCOMMOK and in no other way: while  *)
(* told, the bit cannot be cleared in silence.  CMDCOMMOK itself comes     *)
(* only after a loss, told or not; and as it comes a slave may learn that  *)
(* its master has lost its own UPS, so that the bit stays.                 *)
(***************************************************************************)
VARIABLES lost, told, news

Init == lost = FALSE /\ told = FALSE /\ news = "none"

Quiet  == UNCHANGED <<lost, told>> /\ news' = "none"
Notice == ~lost /\ lost' = TRUE /\ UNCHANGED told /\ news' = "none"
Fail   == ~told /\ told' = TRUE /\ lost' = TRUE /\ news' = "CMDCOMMFAILURE"
Regain == lost /\ ~told /\ lost' = FALSE /\ UNCHANGED told /\ news' = "none"
Ok     == lost /\ told' = FALSE /\ lost' \in BOOLEAN /\ news' = "CMDCOMMOK"

Next == Quiet \/ Notice \/ Fail \/ Regain \/ Ok
Spec == Init /\ [][Next]_<<lost, told, news>>
=============================================================================
