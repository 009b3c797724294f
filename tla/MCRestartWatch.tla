---------------------------- MODULE MCRestartWatch ----------------------------
(* A browser tab that watches one or two restarts of the controller.       *)
EXTENDS RestartWatch
=============================================================================
