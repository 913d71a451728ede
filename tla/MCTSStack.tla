----------------------------- MODULE MCTSStack -----------------------------
(* Instances of TSStack for TLC. *)
EXTENDS TSStack, TLC

CONSTANTS a, b, t0, t1, t2

MCThread == [k \in Kinds |-> 0 :> t0 @@ 1 :> t1 @@ 2 :> t2]

\* Two lists and one popper, or one list and two poppers.
MCCalls == "interval" :> (t0 :> {"get"} @@ t1 :> {"put"} @@ t2 :> {"put"})
           @@ "atomic" :> (t0 :> {"put"} @@ t1 :> {"get"} @@ t2 :> {"get"})

\* Thread numbers matter to "stutter" only.
MCSymmetry == Permutations(Items) \cup Permutations({t1, t2})
=============================================================================
