----------------------------- MODULE MCBuildScript -----------------------------
(* The instance of BuildScript that TLC checks: two restarts of            *)
(* vncsnapshot, so that the recorder both retries and gives up, and two    *)
(* signals, so that one falls after the context was cancelled.             *)
EXTENDS BuildScript
===============================================================================
