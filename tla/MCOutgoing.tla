------------------------------ MODULE MCOutgoing ------------------------------
(* Instances of Outgoing for TLC. *)
EXTENDS Outgoing

\* Nothing, a full record, one and a part of another, and more than is allowed.
MCSizes == {0, 2, 3, 5}
================================================================================
