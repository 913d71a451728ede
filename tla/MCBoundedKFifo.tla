-------------------------- MODULE MCBoundedKFifo --------------------------
(* Instances of BoundedKFifo for TLC. *)
EXTENDS BoundedKFifo, TLC

CONSTANTS t1, t2, t3, a, b, c, d

\* A producer, and a thread in both roles.
MCCalls == t1 :> {"put"} @@ t2 :> {"put", "get"}

\* Two producers and a consumer.
LostCalls == t1 :> {"put"} @@ t2 :> {"put"} @@ t3 :> {"get"}

MCSymmetry == Permutations(Items)
=============================================================================
