----------------------------- MODULE FifoQueue -----------------------------
(***************************************************************************)
(* What datastructures/queue.h promises of every strict queue of the       *)
(* framework: a linearizable FIFO queue.  The queue is kept as the         *)
(* append-only sequence log of everything ever inserted and the number     *)
(* taken of items removed from its front.                                  *)
(***************************************************************************)
EXTENDS PoolCalls

VARIABLES log, taken

fifoVars == <<log, taken, callVars>>

FifoInit == log = <<>> /\ taken = 0 /\ CallsInit

Call(t) == BeginCall(t) /\ UNCHANGED <<log, taken>>

\* The item of t enters the queue at its end.
Insert(t) ==
  /\ TakeIn(t)
  /\ log' = Append(log, arg[t])
  /\ UNCHANGED taken

\* t takes the oldest item.
Remove(t) ==
  /\ taken < Len(log)
  /\ TakeOut(t, log[taken + 1])
  /\ taken' = taken + 1
  /\ UNCHANGED log

SeeEmpty(t) ==
  /\ taken = Len(log)
  /\ Sight(t)
  /\ UNCHANGED <<log, taken>>

Return(t) == EndCall(t) /\ UNCHANGED <<log, taken>>

FifoNext == \E t \in Threads :
              \/ Call(t)
              \/ Insert(t)
              \/ Remove(t)
              \/ SeeEmpty(t)
              \/ Return(t)

FifoSpec == FifoInit /\ [][FifoNext]_fifoVars
=============================================================================
