----------------------------- MODULE MCConnection -----------------------------
(* Instances of Connection for TLC: the configurations give the flags. *)
EXTENDS Connection
================================================================================
