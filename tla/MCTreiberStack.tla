--------------------------- MODULE MCTreiberStack ---------------------------
(* An instance of TreiberStack for TLC. *)
EXTENDS TreiberStack, TLC

CONSTANTS t1, t2, t3, a, b, n1, n2

\* A thread of both roles that may halt, a live one of both roles, and a
\* consumer that asks for the empty state.
MixedCalls == t1 :> {"push", "pop"}
           @@ t2 :> {"push", "get_return_empty_state"}
           @@ t3 :> {"get_return_empty_state"}
=============================================================================
