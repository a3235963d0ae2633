--------------------------- MODULE MCProcessLife ---------------------------
(***************************************************************************)
(* An instance of ProcessLife: the first process, its children and theirs. *)
(***************************************************************************)
EXTENDS ProcessLife, FiniteSetsExt

\* malloc returns the lowest block that is free, so memory is used again soon
LowestFree(F) == IF F = {} THEN {} ELSE {Min(F)}

\* the codes tell who ended the group
CodeOfThread == [k \in Tids |-> {k}]

\* the first child, one more, and one that may come to a slot used before
Makes == <<{}, {"fork", "vfork"}, {"vfork", "files"}, {"fork"}>>
=============================================================================
