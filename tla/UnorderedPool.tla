--------------------------- MODULE UnorderedPool ---------------------------
(***************************************************************************)
(* What datastructures/pool.h promises of a pool without an order: what is *)
(* taken out was put in and is taken once, and "empty" is answered only if *)
(* the pool was empty at some instant of the call.  An item stands for one *)
(* put of it, so that pool is a set.                                       *)
(***************************************************************************)
EXTENDS PoolCalls

VARIABLE pool

poolVars == <<pool, callVars>>

PoolInit == pool = {} /\ CallsInit

Call(t) == BeginCall(t) /\ UNCHANGED pool

Insert(t) ==
  /\ arg[t] \notin pool
  /\ TakeIn(t)
  /\ pool' = pool \cup {arg[t]}

\* t takes any item.
Remove(t) == \E v \in pool : TakeOut(t, v) /\ pool' = pool \ {v}

SeeEmpty(t) == pool = {} /\ Sight(t) /\ UNCHANGED pool

Return(t) == EndCall(t) /\ UNCHANGED pool

PoolNext == \E t \in Threads :
              \/ Call(t)
              \/ Insert(t)
              \/ Remove(t)
              \/ SeeEmpty(t)
              \/ Return(t)

PoolSpec == PoolInit /\ [][PoolNext]_poolVars
=============================================================================
