------------------------------- MODULE Postbox -------------------------------
(***************************************************************************)
(* What the reader promises about the messages its user types: they are    *)
(* posted one at a time in the order in which they were taken, each at     *)
(* most once, and one that is not posted is reported.  A message can be    *)
(* posted and reported all the same, when the answer to the posting was    *)
(* lost; the next one waits until it is known what to report.              *)
(***************************************************************************)
EXTENDS Naturals, Sequences

CONSTANT Messages

VARIABLES queue,   \* messages taken and not settled, in order
          posts,   \* messages the room has, in the order it got them
          told     \* messages reported as not sent

vars == <<queue, posts, told>>

Elements(s) == {s[k] : k \in 1 .. Len(s)}

Init == queue = <<>> /\ posts = <<>> /\ told = {}

Accept == \E m \in Messages :
            /\ m \notin Elements(queue) \cup Elements(posts) \cup told
            /\ queue' = Append(queue, m)
            /\ UNCHANGED <<posts, told>>

Post == /\ queue # <<>>
        /\ posts' = Append(posts, Head(queue))
        /\ queue' = Tail(queue)
        /\ UNCHANGED told

Refuse == /\ queue # <<>>
          /\ told' = told \cup {Head(queue)}
          /\ queue' = Tail(queue)
          /\ UNCHANGED posts

\* The answer to the latest posting was lost.
Doubt == /\ posts # <<>>
         /\ told' = told \cup {posts[Len(posts)]}
         /\ UNCHANGED <<queue, posts>>

Next == Accept \/ Post \/ Refuse \/ Doubt

Spec == Init /\ [][Next]_vars
================================================================================
