----------------------------- MODULE MCFileStore -----------------------------
(***************************************************************************)
(* Instances of FileStore for TLC: a file of two records shared as "a" and *)
(* one of one record as "a (1)", so that the second candidate of the first *)
(* name is the first candidate of the other.                               *)
(***************************************************************************)
EXTENDS FileStore

MCNames == {"a", "a (1)"}
MCPaths == {"a", "a (1)", "a (1) (1)"}
MCItems == {"cat", "elk"}
MCNameOf == [i \in MCItems |-> IF i = "elk" THEN "a (1)" ELSE "a"]
MCRecords == [i \in MCItems |-> IF i = "cat" THEN 2 ELSE 1]
MCCandidate ==
  [c \in MCNames \X (0 .. MaxTries - 1) |->
     CASE c = <<"a", 0>> -> "a"
       [] c = <<"a", 1>> \/ c = <<"a (1)", 0>> -> "a (1)"
       [] OTHER -> "a (1) (1)"]
================================================================================
