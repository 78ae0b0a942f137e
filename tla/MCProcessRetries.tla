---------------------------- MODULE MCProcessRetries ----------------------------
(* The instance of ProcessRetries that TLC checks: two retries, so that    *)
(* the loop both repeats and gives up, and two signals, so that one falls  *)
(* on a channel that is full.                                              *)
EXTENDS ProcessRetries
===============================================================================
