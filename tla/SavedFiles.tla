------------------------------ MODULE SavedFiles ------------------------------
(***************************************************************************)
(* What saving shared files promises: a file appears in the download       *)
(* directory at once and whole, under a name that was free, and only its   *)
(* owner takes it away again.                                              *)
(***************************************************************************)
CONSTANTS Paths, Items, NoFile, Theirs

VARIABLE files   \* by path: no file, one of the user's, or a shared one

Init == files \in [Paths -> {NoFile, Theirs}]

Save(p, i) == files[p] = NoFile /\ files' = [files EXCEPT ![p] = i]
Put(p)     == files[p] = NoFile /\ files' = [files EXCEPT ![p] = Theirs]
Remove(p)  == files[p] # NoFile /\ files' = [files EXCEPT ![p] = NoFile]

Next == \E p \in Paths : Put(p) \/ Remove(p) \/ \E i \in Items : Save(p, i)

Spec == Init /\ [][Next]_files
================================================================================
