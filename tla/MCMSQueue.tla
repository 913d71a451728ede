----------------------------- MODULE MCMSQueue -----------------------------
(* An instance of MSQueue for TLC. *)
EXTENDS MSQueue, TLC

CONSTANTS t1, t2, t3, a, b, s, n1, n2

\* A live producer, a live consumer that asks for the empty state, and a thread
\* that may halt in a one-shot operation: all of them meet at either end of the list.
MixedCalls == t1 :> {"enqueue"}
           @@ t2 :> {"try_enqueue", "try_dequeue"}
           @@ t3 :> {"dequeue_return_tail"}
=============================================================================
