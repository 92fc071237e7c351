-------------------------------- MODULE MCForum --------------------------------
(* Instances of Forum for TLC: the configuration gives the numbers. *)
EXTENDS Forum
================================================================================
