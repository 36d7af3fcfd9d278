---------------------------- MODULE MCRunLifecycle ----------------------------
(* Two runs of envtrap on one machine. *)
EXTENDS RunLifecycle
===============================================================================
