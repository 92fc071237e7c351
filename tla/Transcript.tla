------------------------------ MODULE Transcript ------------------------------
(***************************************************************************)
(* What a room promises one of its readers: the postings of the room are   *)
(* shown to the reader one at a time, each at most once, in the order in   *)
(* which the room took them.  A reader whose room keeps everything also    *)
(* misses none of them (MaySkip = FALSE); a reader of a room that keeps    *)
(* nothing, little, or is wiped may miss some (MaySkip = TRUE).            *)
(***************************************************************************)
EXTENDS Naturals, Sequences

CONSTANT MaySkip

VARIABLES said,    \* the numbers of the postings the room has taken
          heard    \* those the reader was shown, in the order shown

vars == <<said, heard>>

HeardSet == {heard[k] : k \in 1 .. Len(heard)}

Init == said = {} /\ heard = <<>>

\* The room takes one or more postings; their numbers follow all earlier ones.
Say == /\ said \subseteq said'
       /\ said' # said
       /\ \A new \in said' \ said : \A old \in said : old < new
       /\ UNCHANGED heard

\* The reader is shown a posting later than everything shown before.
Hear == \E i \in said :
          /\ \A j \in HeardSet : j < i
          /\ MaySkip \/ \A j \in said : j < i => j \in HeardSet
          /\ heard' = Append(heard, i)
          /\ UNCHANGED said

Next == Say \/ Hear

Spec == Init /\ [][Next]_vars

FairSpec == Spec /\ WF_vars(Hear)
================================================================================
