----------------------------- MODULE MCShutdown -----------------------------
(* Small instances of the end of the daemon; a unit of time is long enough *)
(* for a store to become visible.                                          *)
EXTENDS Shutdown
=============================================================================
