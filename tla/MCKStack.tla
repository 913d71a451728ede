----------------------------- MODULE MCKStack -----------------------------
(* Instances of KStack for TLC. *)
EXTENDS KStack, TLC

CONSTANTS t1, t2, a, b, c

\* Two threads in both roles.
MCCalls == t1 :> {"put", "get"} @@ t2 :> {"put", "get"}

MCSymmetry == Permutations(Items) \cup Permutations(Threads)
=============================================================================
