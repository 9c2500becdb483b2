--------------------------- MODULE MCUsbWatchdog ----------------------------
(* The USB transfers with the timeouts of the code in units of 100 ms.     *)
EXTENDS UsbWatchdog
=============================================================================
