----------------------------- MODULE MCQueues ------------------------------
(* Model values for StrictQueues. *)
EXTENDS StrictQueues, TLC

CONSTANTS a, b, t0, t1, t2

MCLockedNum == 0 :> t0 @@ 1 :> t1 @@ 2 :> t2
MCWaitfreeNum == 0 :> t0 @@ 1 :> t1

MCCalls == [m \in Modes \cup Versions |->
  CASE m = "combining" -> t0 :> {"get"} @@ t1 :> {"put", "get"} @@ t2 :> {"put"}
    [] m \in Modes -> t0 :> {"put"} @@ t1 :> {"get"} @@ t2 :> {"get"}
    [] m = "ppopp11" -> t0 :> {"get"} @@ t1 :> {"put", "get"} @@ t2 :> {}
    [] m = "ppopp12" -> t0 :> {"put", "get"} @@ t1 :> {"put", "get"} @@ t2 :> {}]

MCMaxGets == [m \in Modes \cup Versions |-> [t \in Threads |->
  IF m \in Modes /\ (m # "combining" \/ t = t0) THEN 2 ELSE 1]]
=============================================================================
