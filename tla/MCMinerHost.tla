---------------------------- MODULE MCMinerHost ----------------------------
(* The watchdog's own numbers, with a window of a few checks.               *)
EXTENDS MinerHost
=============================================================================
