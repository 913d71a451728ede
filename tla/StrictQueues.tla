--------------------------- MODULE StrictQueues ----------------------------
(***************************************************************************)
(* The strict FIFO queues other than the Michael-Scott queue, side by      *)
(* side: every behaviour is one of LockedQueue or one of WaitfreeQueue,    *)
(* and the same is asked of both.                                          *)
(***************************************************************************)
EXTENDS CallHistory, Integers

CONSTANTS Modes, Versions,    \* of LockedQueue, of WaitfreeQueue
          LockedNum, WaitfreeNum, \* the threads of each, by thread_id
          Calls, MaxGets,     \* by the mode or version
          MaxSpurious, MaxRetries, HelpingDelay,
          Runner              \* the thread that need not wait for the others

VARIABLES mode, lock, waiting, operations, spurious,           \* of LockedQueue
          version, enq_tid, deq_tid, state, next_check,        \* of WaitfreeQueue
          head, tail, next, gets                               \* of either

L == INSTANCE LockedQueue WITH Num <- LockedNum
W == INSTANCE WaitfreeQueue WITH Num <- WaitfreeNum

\* thread_ids count from 0, and whoever calls a wait-free queue has one; the sentinel
\* and what stands for a null pointer are no items.
ASSUME StrictQueuesAssumption ==
  /\ IsFiniteSet(Threads) /\ Null \notin Threads
  /\ Items \cap {L!Sentinel, L!NoNode, W!Sentinel} = {}
  /\ Null \notin {L!Sentinel, L!NoNode, W!Sentinel}
  /\ Modes \subseteq {"default", "blocking", "timeout", "combining"}
  /\ LockedNum \in [0 .. Cardinality(Threads) - 1 -> Threads]
  /\ \A t \in Threads : \E i \in DOMAIN LockedNum : LockedNum[i] = t
  /\ \A i, j \in DOMAIN LockedNum : LockedNum[i] = LockedNum[j] => i = j
  /\ Versions \subseteq {"ppopp11", "ppopp12"}
  /\ IsFiniteSet(DOMAIN WaitfreeNum) /\ 0 \in DOMAIN WaitfreeNum
  /\ WaitfreeNum \in [0 .. Cardinality(DOMAIN WaitfreeNum) - 1 -> Threads]
  /\ \A i, j \in DOMAIN WaitfreeNum : WaitfreeNum[i] = WaitfreeNum[j] => i = j
  /\ \A v \in Versions, t \in Threads :
       Calls[v][t] # {} => \E i \in DOMAIN WaitfreeNum : WaitfreeNum[i] = t

ofL == <<mode, lock, waiting, operations, spurious>>
ofW == <<version, enq_tid, deq_tid, state, next_check>>
vars == <<th, history, ofL, ofW, head, tail, next, gets>>

Locked == mode # "none"

Init ==
  \/ /\ L!Init
     /\ version = "none" /\ enq_tid = Null /\ deq_tid = Null /\ state = Null /\ next_check = Null
  \/ /\ W!Init
     /\ mode = "none" /\ lock = Null /\ waiting = Null /\ operations = Null /\ spurious = 0

Next == \/ Locked /\ L!Next /\ UNCHANGED ofW
        \/ ~Locked /\ W!Next /\ UNCHANGED ofL

\* Of the wait-free queue, only one thread need go on.
Fairness ==
  /\ \A t \in Threads : WF_vars(Locked /\ L!Step(t) /\ UNCHANGED ofW)
  /\ WF_vars(~Locked /\ W!Step(Runner) /\ UNCHANGED ofL)

Spec == Init /\ [][Next]_vars /\ Fairness

-----------------------------------------------------------------------------
\* No item is lost, got twice, or in two places, whoever carries out an operation.
Conserved == IF Locked THEN L!Conserved ELSE W!Conserved

\* A dequeue answers false only if the queue was empty at some instant of it, though
\* it may be another thread that looked, or one that timed out did not look again.
EmptyIsTrue == \A t \in Threads : SaysEmpty(t) => sight[t]

\* They are FIFO queues, whichever thread carries out an operation, and when.
InOrder == \A t \in Threads : th[t].item \notin start[t].late

\* Nobody sleeps on the condition variable next to an item.
NoSleeperByItem == Locked => L!NoSleeperByItem

\* No lock is kept, no operation in a record overlooked, no wake-up lost.
Settles == Locked => L!Settles

\* No helper of the wait-free queue, however late, marks as done what is not.
DoneOnlyIfCarriedOut == [][~Locked => W!MarksCarriedOut]_vars

\* A call on the wait-free queue returns though all other threads stop.
NonBlocking == Locked \/ []<>(th[Runner].op = "none")
=============================================================================
