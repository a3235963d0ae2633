------------------------------- MODULE MCPipe -------------------------------
(***************************************************************************)
(* An instance of Pipe: one process has just created the pipe; it and its  *)
(* children fork, close, read and write in every order.                    *)
(***************************************************************************)
EXTENDS Pipe, TLC

CONSTANTS p1, p2, p3

\* writes of one chunk and a remainder, reads smaller and larger than what is there
ChunkAndRest == [e \in Ends |-> IF e = "write" THEN {3} ELSE {1, 3}]

\* sys_pipe2 has returned to p1; the other two are not born yet
CreatorHasBoth == (p1 :> Ends) @@ (p2 :> {}) @@ (p3 :> {})
=============================================================================
