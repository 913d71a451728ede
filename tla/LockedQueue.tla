---------------------------- MODULE LockedQueue ----------------------------
(***************************************************************************)
(* The two queues that are a sequential list behind one lock.              *)
(*                                                                         *)
(* src/src/datastructures/lockbased_queue.h: a mutex and a condition       *)
(* variable; a dequeue from the empty queue answers at once ("default"),   *)
(* waits ("blocking"), or waits for a while ("timeout").                   *)
(*                                                                         *)
(* src/src/datastructures/flatcombining_queue.h ("combining"), over the    *)
(* list of single_list.h: a thread leaves its operation in its record;     *)
(* whoever gets the lock carries out everyone's.                           *)
(*                                                                         *)
(* One step reads or writes one shared word, or calls pthreads once.       *)
(***************************************************************************)
EXTENDS CallHistory, Integers

CONSTANTS Modes,    \* the modes at hand: "default", "blocking", "timeout", "combining"
          Calls,    \* the operations that each thread calls, by the mode
          MaxGets,  \* bounds the dequeues that each thread calls, by the mode
          MaxSpurious, \* bounds the waits that end by chance
          Num       \* the thread with a given thread_id, from 0 on

VARIABLES mode,       \* dequeue_mode_, or "combining"; never changed
          lock,       \* global_lock_: who holds it, or Null
          waiting,    \* the threads asleep on enqueue_cond_
          head, tail, \* head_ and tail_
          next,       \* Node::next; a node is named by its item
          operations, \* operations_: the record of every thread
          gets,       \* the dequeues that each thread has called
          spurious    \* the waits that have ended by chance

shared == <<mode, lock, waiting, head, tail, next, operations, gets, spurious>>
vars == <<th, shared, history>>

Sentinel == "sentinel"
NoNode == "no node"
Nodes == Items \cup {Sentinel, Null}
Operation(opcode, data) == [opcode |-> opcode, data |-> data]
NoOperation == Operation("Done", Null)

\* The locals of a thread: those of CallHistory; the node it links or takes; the
\* record set, the operation put there, and where the thread goes on then; expired:
\* its wait timed out.
Idle == [pc |-> "idle", op |-> "none", item |-> Null, end |-> "left", node |-> Null,
         i |-> 0, set |-> NoOperation, then |-> "idle", expired |-> FALSE]

Init ==
  /\ mode \in Modes
  /\ lock = Null /\ waiting = {}
  /\ head = Sentinel /\ tail = Sentinel
  /\ next = [x \in Nodes |-> NoNode]
  /\ operations = [t \in Threads |-> NoOperation]
  /\ gets = [t \in Threads |-> 0] /\ spurious = 0
  /\ th = [t \in Threads |-> Idle]
  /\ HistoryInit

At(t, label) == th[t].pc = label
Set(t, r) == th' = [th EXCEPT ![t] = r]
Goto(t, label) == Set(t, [th[t] EXCEPT !.pc = label])

IsEmpty == head = tail

\* The items behind the sentinel, which is the node that head_ points to.
Held ==
  LET f[x \in Nodes] == IF x = tail \/ next[x] = NoNode THEN {} ELSE {next[x]} \cup f[next[x]]
  IN f[head]

-----------------------------------------------------------------------------
\* Calls.  A combining thread sets its operation first.
SetOp(r, i, opcode, data, then) ==
  [r EXCEPT !.pc = "op_1", !.i = i, !.set = Operation(opcode, data), !.then = then]

Id(t) == CHOOSE i \in DOMAIN Num : Num[i] = t

CallEnqueue(t) ==
  /\ At(t, "idle") /\ "put" \in Calls[mode][t]
  /\ \E x \in Fresh :
       LET r == [Idle EXCEPT !.op = "put", !.item = x, !.node = x] IN
       Set(t, IF mode = "combining" THEN SetOp(r, Id(t), "Enqueue", x, "try")
              ELSE [r EXCEPT !.pc = "lock"])
  /\ UNCHANGED shared /\ Observe(t, Held)

CallDequeue(t) ==
  /\ At(t, "idle") /\ "get" \in Calls[mode][t] /\ gets[t] < MaxGets[mode][t]
  /\ gets' = [gets EXCEPT ![t] = @ + 1]
  /\ LET r == [Idle EXCEPT !.op = "get"] IN
     Set(t, IF mode = "combining" THEN SetOp(r, Id(t), "Dequeue", Null, "try")
            ELSE [r EXCEPT !.pc = "lock"])
  /\ UNCHANGED <<mode, lock, waiting, head, tail, next, operations, spurious>> /\ Observe(t, Held)

Return(t) ==
  /\ At(t, "return")
  /\ Set(t, Idle)
  /\ UNCHANGED shared /\ Observe(t, Held)

-----------------------------------------------------------------------------
\* The list: enqueue adds th[t].node, dequeue takes into it.  What follows is the
\* other queue's business.
Link(t) ==
  /\ At(t, "link")
  /\ next' = [next EXCEPT ![tail] = th[t].node]
  /\ Goto(t, "swing")
  /\ UNCHANGED <<mode, lock, waiting, head, tail, operations, gets, spurious>> /\ Observe(t, Held')

Swing(t) ==
  /\ At(t, "swing")
  /\ tail' = th[t].node
  /\ Set(t, IF mode = "combining" THEN SetOp(th[t], th[t].i, "Done", Null, "scan")
            ELSE [th[t] EXCEPT !.pc = "wake"])
  /\ UNCHANGED <<mode, lock, waiting, head, next, operations, gets, spurious>> /\ Observe(t, Held')

Take(t) ==
  /\ At(t, "take")
  /\ Set(t, [th[t] EXCEPT !.pc = "advance", !.node = next[head]])
  /\ UNCHANGED shared /\ Observe(t, Held)

\* The caller has its item from here on.
Advance(t) ==
  /\ At(t, "advance")
  /\ head' = next[head]
  /\ Set(t, IF mode = "combining" THEN SetOp(th[t], th[t].i, "Done", th[t].node, "scan")
            ELSE [th[t] EXCEPT !.pc = "unlock", !.item = th[t].node, !.node = Null])
  /\ UNCHANGED <<mode, lock, waiting, tail, next, operations, gets, spurious>> /\ Observe(t, Held')

-----------------------------------------------------------------------------
\* The mutex and the condition variable.
Lock(t) ==
  /\ At(t, "lock") /\ lock = Null
  /\ lock' = t
  /\ Goto(t, IF th[t].op = "put" THEN "link" ELSE "test")
  /\ UNCHANGED <<mode, waiting, head, tail, next, operations, gets, spurious>> /\ Observe(t, Held)

\* A wait enters the queue of waiters and releases the mutex at once.
Test(t) ==
  /\ At(t, "test")
  /\ \/ /\ ~IsEmpty
        /\ Goto(t, "take")
        /\ UNCHANGED <<lock, waiting>>
     \/ /\ IsEmpty /\ mode = "default"
        /\ Goto(t, "unlock")
        /\ UNCHANGED <<lock, waiting>>
     \/ /\ IsEmpty /\ mode # "default"
        /\ lock' = Null /\ waiting' = waiting \cup {t}
        /\ Goto(t, "wait")
  /\ UNCHANGED <<mode, head, tail, next, operations, gets, spurious>> /\ Observe(t, Held)

\* A wait ends by a broadcast, by chance, or after the timeout, and returns with
\* the mutex.  A wait that timed out is not followed by a test.
StopWaiting(t, expired) ==
  /\ t \in waiting
  /\ waiting' = waiting \ {t}
  /\ Set(t, [th[t] EXCEPT !.expired = expired])
  /\ UNCHANGED <<mode, lock, head, tail, next, operations, gets>> /\ Observe(t, Held)

Spurious(t) == spurious < MaxSpurious /\ spurious' = spurious + 1 /\ StopWaiting(t, FALSE)
TimedOut(t) == mode = "timeout" /\ StopWaiting(t, TRUE) /\ UNCHANGED spurious

Relock(t) ==
  /\ At(t, "wait") /\ t \notin waiting /\ lock = Null
  /\ lock' = t
  /\ Goto(t, IF th[t].expired THEN "unlock" ELSE "test")
  /\ UNCHANGED <<mode, waiting, head, tail, next, operations, gets, spurious>> /\ Observe(t, Held)

\* pthread_cond_broadcast
OneOfThem ==                           \* a fault: only if it was empty, and only one
  IF next[head] = tail /\ waiting # {} THEN {CHOOSE t \in waiting : TRUE} ELSE {}
Woken == waiting

Wake(t) ==
  /\ At(t, "wake")
  /\ waiting' = waiting \ Woken
  /\ Goto(t, "unlock")
  /\ UNCHANGED <<mode, lock, head, tail, next, operations, gets, spurious>> /\ Observe(t, Held)

KeptIfEmpty(t) == IF th[t].op = "get" /\ th[t].item = Null THEN lock ELSE Null  \* a fault
Released(t) == Null

Unlock(t) ==
  /\ At(t, "unlock")
  /\ lock' = Released(t)
  /\ Set(t, [th[t] EXCEPT !.pc = "return", !.node = Null, !.i = 0, !.expired = FALSE])
  /\ UNCHANGED <<mode, waiting, head, tail, next, operations, gets, spurious>> /\ Observe(t, Held)

-----------------------------------------------------------------------------
\* Flat combining.

\* set_op writes one part of the record and then the other.
CodeFirst == <<"opcode", "data">>      \* a fault
OpParts == <<"data", "opcode">>

Write(t, k) == operations' = [operations EXCEPT
                 ![Num[th[t].i]][OpParts[k]] = th[t].set[OpParts[k]]]

SetOpFirst(t) ==
  /\ At(t, "op_1")
  /\ Write(t, 1)
  /\ Goto(t, "op_2")
  /\ UNCHANGED <<mode, lock, waiting, head, tail, next, gets, spurious>> /\ Observe(t, Held)

\* Onwards in the scan of the records.
NextRecord(r) ==
  IF r.i + 1 = Cardinality(Threads) THEN [r EXCEPT !.pc = "release", !.i = 0, !.node = Null]
  ELSE [r EXCEPT !.pc = "scan", !.i = @ + 1, !.node = Null]

SetOpSecond(t) ==
  /\ At(t, "op_2")
  /\ Write(t, 2)
  /\ LET r == [th[t] EXCEPT !.set = NoOperation, !.then = "idle"] IN
     Set(t, IF th[t].then = "scan" THEN NextRecord(r)
            ELSE [r EXCEPT !.pc = th[t].then, !.i = 0, !.node = Null])
  /\ UNCHANGED <<mode, lock, waiting, head, tail, next, gets, spurious>> /\ Observe(t, Held)

TryLock(t) ==
  /\ At(t, "try")
  /\ \/ lock = Null /\ lock' = t /\ Goto(t, "scan")
     \/ lock # Null /\ UNCHANGED lock /\ Goto(t, "poll")
  /\ UNCHANGED <<mode, waiting, head, tail, next, operations, gets, spurious>> /\ Observe(t, Held)

AfterCombining(t) == IF th[t].op = "put" THEN "return" ELSE "result"

GetUnpolled(t) == th[t].op = "get" \/ operations[t].opcode = "Done"   \* a fault
PutUnpolled(t) == th[t].op = "put" \/ operations[t].opcode = "Done"   \* a fault
Answered(t) == operations[t].opcode = "Done"

Poll(t) ==
  /\ At(t, "poll")
  /\ Goto(t, IF Answered(t) THEN AfterCombining(t) ELSE "try")
  /\ UNCHANGED shared /\ Observe(t, Held)

\* scan_combine_apply looks at one record after the other.
Scan(t) ==
  /\ At(t, "scan")
  /\ LET record == operations[Num[th[t].i]] IN
     \/ /\ record.opcode = "Done"
        /\ Set(t, NextRecord(th[t]))
     \/ /\ record.opcode = "Enqueue"
        /\ Set(t, [th[t] EXCEPT !.pc = "link", !.node = record.data])
     \/ /\ record.opcode = "Dequeue" /\ ~IsEmpty
        /\ Goto(t, "take")
     \/ /\ record.opcode = "Dequeue" /\ IsEmpty
        /\ Set(t, SetOp(th[t], th[t].i, "Done", Null, "scan"))
  /\ UNCHANGED shared /\ Observe(t, Held)

ReleaseLock(t) ==
  /\ At(t, "release")
  /\ lock' = Null
  /\ Goto(t, AfterCombining(t))
  /\ UNCHANGED <<mode, waiting, head, tail, next, operations, gets, spurious>> /\ Observe(t, Held)

Result(t) ==
  /\ At(t, "result")
  /\ Set(t, SetOp([th[t] EXCEPT !.item = operations[t].data], Id(t), "Done", Null, "return"))
  /\ UNCHANGED shared /\ Observe(t, Held)

-----------------------------------------------------------------------------
LockBased(t) == Lock(t) \/ Test(t) \/ Relock(t) \/ Wake(t) \/ Unlock(t) \/ TimedOut(t)

Combining(t) == SetOpFirst(t) \/ SetOpSecond(t) \/ TryLock(t) \/ Poll(t) \/ Scan(t)
                \/ ReleaseLock(t) \/ Result(t)

Step(t) == Link(t) \/ Swing(t) \/ Take(t) \/ Advance(t) \/ Return(t)
           \/ LockBased(t) \/ Combining(t)

Next == \E t \in Threads : CallEnqueue(t) \/ CallDequeue(t) \/ Step(t) \/ Spurious(t)

\* Every thread within a call runs on, and a timeout expires; nobody has to call,
\* and no wait has to end by chance.
Fairness == \A t \in Threads : WF_vars(Step(t))

Spec == Init /\ [][Next]_vars /\ Fairness

-----------------------------------------------------------------------------
\* Properties.

\* Items that a combiner took for others, who have not fetched them yet.
Transit ==
  {operations[t].data : t \in {u \in Threads : th[u].op = "get" /\ th[u].item = Null}}
  \cup {th[t].set.data : t \in {u \in Threads : th[u].pc \in {"op_1", "op_2"} /\ th[u].then = "scan"}}

\* No item is lost between the list, the records and the callers, and none is in
\* two places.
Conserved == ConservedIn(Held \cup (Transit \ {Null}))

\* Nobody sleeps next to an item, except while the enqueue that is to wake them
\* is under way.
NoSleeperByItem ==
  waiting = {} \/ IsEmpty \/ \E t \in Threads : th[t].op = "put" /\ th[t].pc = "wake"

\* If the calls come to an end, then all return but blocking dequeues of an empty
\* queue: no lock is kept, no operation overlooked, no wake-up lost.
Settles ==
  <>[](\A t \in Threads : \/ th[t].op = "none"
                          \/ mode = "blocking" /\ t \in waiting /\ IsEmpty)
=============================================================================
