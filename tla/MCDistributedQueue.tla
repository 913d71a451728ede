------------------------- MODULE MCDistributedQueue -------------------------
(* An instance of DistributedQueue for TLC. *)
EXTENDS DistributedQueue, TLC

CONSTANTS x1, x2

\* A producer that may halt, a live thread of both roles, a consumer.
MixedCalls == 1 :> {"put"} @@ 2 :> {"put", "get"} @@ 3 :> {"get"}

=============================================================================
