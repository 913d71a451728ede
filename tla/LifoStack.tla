----------------------------- MODULE LifoStack -----------------------------
(***************************************************************************)
(* What datastructures/stack.h promises of a strict stack: a linearizable  *)
(* LIFO stack.  content holds the items, the youngest last.                *)
(***************************************************************************)
EXTENDS PoolCalls

VARIABLE content

lifoVars == <<content, callVars>>

LifoInit == content = <<>> /\ CallsInit

Call(t) == BeginCall(t) /\ UNCHANGED content

Insert(t) == TakeIn(t) /\ content' = Append(content, arg[t])

\* t takes the youngest item.
Remove(t) ==
  /\ content # <<>>
  /\ TakeOut(t, content[Len(content)])
  /\ content' = SubSeq(content, 1, Len(content) - 1)

SeeEmpty(t) == content = <<>> /\ Sight(t) /\ UNCHANGED content

Return(t) == EndCall(t) /\ UNCHANGED content

LifoNext == \E t \in Threads :
              \/ Call(t)
              \/ Insert(t)
              \/ Remove(t)
              \/ SeeEmpty(t)
              \/ Return(t)

LifoSpec == LifoInit /\ [][LifoNext]_lifoVars
=============================================================================
