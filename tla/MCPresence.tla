------------------------------ MODULE MCPresence ------------------------------
(* Instances of Presence for TLC. *)
EXTENDS Presence

CONSTANTS ann, ben, hid, nobody

Two     == {ann, ben}
Three   == {ann, ben, hid}
JustAnn == {ann}
JustHid == {hid}
None    == {}

\* Everybody has a session id and a name of their own, vouched for.
Own   == [s \in {ann, ben, hid} |-> s]
Named == [s \in {ann, ben, hid} |-> s]
\* The server does not vouch for ben.
Guest == [s \in {ann, ben, hid} |-> IF s = ben THEN nobody ELSE s]
\* hid uses the session id of ben.
SharedSid == [s \in {ann, ben, hid} |-> IF s = hid THEN ben ELSE s]
================================================================================
