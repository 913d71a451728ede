--------------------------- MODULE WaitfreeQueue ---------------------------
(***************************************************************************)
(* The wait-free queues of src/src/datastructures/wf_queue_ppopp11.h and   *)
(* wf_queue_ppopp12.h.  A thread publishes a descriptor of its operation,  *)
(* which any thread may carry out: link the node or claim the head, mark   *)
(* the descriptor as done, move the tail or the head.                      *)
(*                                                                         *)
(* In the version "ppopp11" everyone helps everyone whose phase is not     *)
(* later.  In "ppopp12" an operation first tries without a descriptor, as  *)
(* in the Michael-Scott queue, and a thread's phases are its own.  What    *)
(* the versions share is here once; the functions of the two files differ  *)
(* in little more than their names.                                        *)
(*                                                                         *)
(* One step reads or writes one shared word, with one exception: of the    *)
(* two reads of is_still_pending one would do, since a descriptor changes  *)
(* from pending to done once, and the next has a later phase.  Nodes and   *)
(* descriptors are not reused, so the tags of tail, next and state, and    *)
(* of head in "ppopp11", are left out, and a descriptor is its contents.   *)
(***************************************************************************)
EXTENDS CallHistory, Integers

CONSTANTS Versions,     \* the versions at hand: "ppopp11", "ppopp12"
          Calls,        \* the operations that each thread calls, by the version
          MaxGets,      \* bounds the dequeues that each thread calls, by the version
          Num,          \* the thread with a given thread_id, from 0 on
          MaxRetries,   \* max_retries_
          HelpingDelay  \* helping_delay_

VARIABLES version,     \* "ppopp11" or "ppopp12"; never changed
          head,        \* head_: a node, and in "ppopp12" who dequeues from it
          tail,        \* tail_
          next,        \* Node::next; a node is named by its item
          enq_tid,     \* Node::enq_tid
          deq_tid,     \* Node::deq_tid, of "ppopp11"
          state,       \* state_: the descriptors
          next_check,  \* HelpRecord::next_check_ of every thread
          gets         \* the dequeues that each thread has called

list == <<head, tail, next, enq_tid, deq_tid, state>>
shared == <<version, list, next_check, gets>>
vars == <<th, shared, history>>

Sentinel == "sentinel"
Nodes == Items \cup {Sentinel}
kTidNotSet == Null
kNoPhase == -1
Head(x, tid) == [node |-> x, tid |-> tid]
Descriptor(phase, pending, type, node) ==
  [phase |-> phase, pending |-> pending, type |-> type, node |-> node]
NoDescriptor == Descriptor(kNoPhase, FALSE, "put", Null)

\* The locals of a thread: those of CallHistory; whether it has published a
\* descriptor; the trials of the fast path; the thread it helps, and with which
\* phase; where it goes on after that (back), and after the end of another's
\* operation (then); what it read of the head, the tail, a node's next and a
\* descriptor; whose operation it ends.
Idle == [pc |-> "idle", op |-> "none", item |-> Null, end |-> "left", slow |-> FALSE,
         trials |-> 0, i |-> 0, phase |-> kNoPhase, back |-> "idle", then |-> "idle",
         head |-> Head(Null, Null), tail |-> Null, next |-> Null, cur |-> NoDescriptor,
         tid |-> Null]

Init ==
  /\ version \in Versions
  /\ head = Head(Sentinel, kTidNotSet)
  /\ tail = Sentinel
  /\ next = [x \in Nodes |-> Null]
  /\ enq_tid = [x \in Nodes |-> kTidNotSet]
  /\ deq_tid = [x \in Nodes |-> kTidNotSet]
  /\ state = [t \in Threads |-> NoDescriptor]
  /\ next_check = [t \in Threads |-> HelpingDelay]
  /\ gets = [t \in Threads |-> 0]
  /\ th = [t \in Threads |-> Idle]
  /\ HistoryInit

At(t, label) == th[t].pc = label
Set(t, r) == th' = [th EXCEPT ![t] = r]
Goto(t, label) == Set(t, [th[t] EXCEPT !.pc = label])

\* The items behind the head.
Held ==
  LET f[x \in Nodes] == IF next[x] = Null THEN {} ELSE {next[x]} \cup f[next[x]]
  IN f[head.node]

\* A step of t that reads, and its continuation with the locals r.
Local(t, r) == Set(t, r) /\ UNCHANGED shared /\ Observe(t, Held)
Read(t, from, r) == At(t, from) /\ Local(t, r)

\* The locals without what they hold of the list.
Forget(r) == [r EXCEPT !.head = Head(Null, Null), !.tail = Null, !.next = Null,
                       !.cur = NoDescriptor, !.tid = Null]
To(r, label) == [Forget(r) EXCEPT !.pc = label]

-----------------------------------------------------------------------------
Begin(t, op, x) ==
  [Idle EXCEPT !.op = op, !.item = x, !.pc = IF version = "ppopp11" THEN "max" ELSE "check"]

CallEnqueue(t) ==
  /\ At(t, "idle") /\ "put" \in Calls[version][t]
  /\ \E x \in Fresh : Set(t, Begin(t, "put", x))
  /\ UNCHANGED shared /\ Observe(t, Held)

CallDequeue(t) ==
  /\ At(t, "idle") /\ "get" \in Calls[version][t] /\ gets[t] < MaxGets[version][t]
  /\ gets' = [gets EXCEPT ![t] = @ + 1]
  /\ Set(t, Begin(t, "get", Null))
  /\ UNCHANGED <<version, list, next_check>> /\ Observe(t, Held)

Return(t) == Read(t, "return", Idle)

\* The operation has been carried out, by whomever: its owner ends it, and a
\* dequeue fetches the item that is behind the node in its descriptor.
Finish(r) == [To(r, IF r.op = "put" THEN "FE_tail" ELSE "FD_head")
                EXCEPT !.phase = kNoPhase, !.i = 0, !.back = "idle",
                       !.then = IF r.op = "put" THEN "return" ELSE "result"]

Result(t) ==
  LET node == state[t].node IN
  Read(t, "result", [To(th[t], "return") EXCEPT
                       !.item = IF node = Null THEN Null ELSE next[node], !.then = "idle"])

-----------------------------------------------------------------------------
\* max_phase, of "ppopp11".
MaxPhase(t) ==
  LET seen == state[Num[th[t].i]].phase
      r == [th[t] EXCEPT !.phase = IF seen > @ THEN seen ELSE @]
  IN Read(t, "max", IF r.i + 1 = Cardinality(DOMAIN Num) THEN [r EXCEPT !.pc = "publish", !.i = 0]
                    ELSE [r EXCEPT !.i = @ + 1])

\* In "ppopp12" a thread reads its own phase, which only it changes.
OwnPhase(t) == IF version = "ppopp11" THEN th[t].phase + 1 ELSE state[t].phase + 1

NodeOf(t) == IF th[t].op = "put" THEN th[t].item ELSE Null

\* The new descriptor is stored without a CAS.
Publish(t) ==
  /\ At(t, "publish")
  /\ state' = [state EXCEPT ![t] = Descriptor(OwnPhase(t), TRUE, th[t].op, NodeOf(t))]
  /\ enq_tid' = IF th[t].op = "put" THEN [enq_tid EXCEPT ![th[t].item] = t] ELSE enq_tid
  /\ LET r == [th[t] EXCEPT !.slow = TRUE, !.phase = OwnPhase(t), !.trials = 0] IN
     Set(t, IF version = "ppopp11" THEN [r EXCEPT !.pc = "help"]
            ELSE [r EXCEPT !.pc = IF r.op = "put" THEN "E_pending" ELSE "D_pending",
                           !.i = CHOOSE i \in DOMAIN Num : Num[i] = t, !.back = "finish"])
  /\ UNCHANGED <<version, head, tail, next, deq_tid, next_check, gets>> /\ Observe(t, Held)

HelpWith(r, type, back) ==
  [r EXCEPT !.pc = IF type = "put" THEN "E_pending" ELSE "D_pending", !.back = back]

\* help, of "ppopp11": one record after the other.
NextHelp(r) ==
  IF r.i + 1 = Cardinality(DOMAIN Num) THEN Finish(r) ELSE [To(r, "help") EXCEPT !.i = @ + 1]

Help(t) ==
  LET desc == state[Num[th[t].i]] IN
  Read(t, "help", IF desc.pending /\ desc.phase <= th[t].phase
                  THEN HelpWith(th[t], desc.type, "help") ELSE NextHelp(th[t]))

\* help_if_needed, of "ppopp12".  The records of help are made once, and not renewed:
\* they all name the first thread and the phase before its first.
Check(t) ==
  /\ At(t, "check")
  /\ next_check' = [next_check EXCEPT ![t] = @ - 1]
  /\ LET desc == state[Num[0]] IN
     Set(t, IF next_check[t] = 0 /\ desc.pending /\ desc.phase = kNoPhase
            THEN HelpWith(th[t], desc.type, "fast")
            ELSE [th[t] EXCEPT !.pc = "fast"])
  /\ UNCHANGED <<version, list, gets>> /\ Observe(t, Held)

\* After help_enq and help_deq.
Helped(r) ==
  CASE r.back = "help" -> NextHelp([r EXCEPT !.back = "idle"])
    [] r.back = "finish" -> Finish(r)
    [] r.back = "fast" -> [To(r, "fast") EXCEPT !.i = 0, !.back = "idle"]

-----------------------------------------------------------------------------
\* help_enqueue (help_enq).
IsStillPending(t) == LET desc == state[Num[th[t].i]] IN desc.pending /\ desc.phase <= th[t].phase

PutPending(t) ==
  Read(t, "E_pending", IF IsStillPending(t) THEN To(th[t], "E_tail") ELSE Helped(th[t]))

PutTail(t) == Read(t, "E_tail", [th[t] EXCEPT !.pc = "E_next", !.tail = tail])
PutNext(t) == Read(t, "E_next", [th[t] EXCEPT !.pc = "E_same", !.next = next[th[t].tail]])

PutSame(t) ==
  Read(t, "E_same",
       IF tail # th[t].tail THEN To(th[t], "E_pending")
       ELSE IF th[t].next = Null THEN [th[t] EXCEPT !.pc = "E_again"]
       ELSE [To(th[t], "FE_tail") EXCEPT !.then = "E_pending"])

PutAgain(t) ==
  Read(t, "E_again", IF IsStillPending(t) THEN [th[t] EXCEPT !.pc = "E_node"]
                     ELSE To(th[t], "E_pending"))

\* The node is kept in th[t].next.
PutNode(t) ==
  Read(t, "E_node", [th[t] EXCEPT !.pc = "E_link", !.next = state[Num[th[t].i]].node])

IsLast(x) == next[x] = Null

PutLink(t) ==
  /\ At(t, "E_link")
  /\ \/ /\ IsLast(th[t].tail)
        /\ next' = [next EXCEPT ![th[t].tail] = th[t].next]
        /\ Set(t, [To(th[t], "FE_tail") EXCEPT !.then = "helped"])
     \/ /\ ~IsLast(th[t].tail)
        /\ Set(t, To(th[t], "E_pending"))
        /\ UNCHANGED next
  /\ UNCHANGED <<version, head, tail, enq_tid, deq_tid, state, next_check, gets>>
  /\ Observe(t, Held')
-----------------------------------------------------------------------------
\* help_finish_enqueue (help_finish_enq): the node behind the tail belongs to an
\* operation; it is marked as done, and then the tail moves.
Continue(r) == IF r.then = "helped" THEN Helped([r EXCEPT !.then = "idle"])
               ELSE [To(r, r.then) EXCEPT !.then = "idle"]

EndTail(t) == Read(t, "FE_tail", [th[t] EXCEPT !.pc = "FE_next", !.tail = tail])

EndNext(t) ==
  LET x == next[th[t].tail]
      r == [th[t] EXCEPT !.next = x]
  IN Read(t, "FE_next",
          IF x = Null THEN Continue(r)
          ELSE IF enq_tid[x] = kTidNotSet THEN [r EXCEPT !.pc = "FE_swing"]
          ELSE [r EXCEPT !.pc = "FE_state", !.tid = enq_tid[x]])

EndState(t) == Read(t, "FE_state", [th[t] EXCEPT !.pc = "FE_same", !.cur = state[th[t].tid]])

EndSame(t) == Read(t, "FE_same", IF tail = th[t].tail THEN [th[t] EXCEPT !.pc = "FE_node"]
                                 ELSE Continue(th[t]))

SameNode(t) == state[th[t].tid].node = th[t].next

EndNode(t) == Read(t, "FE_node", IF SameNode(t) THEN [th[t] EXCEPT !.pc = "FE_done"]
                                 ELSE Continue(th[t]))

\* A CAS of a descriptor from th[t].cur to new.  Where the code reads a part of new
\* from the descriptor again, that part is cur's whenever the CAS succeeds.
CasState(t, u, new) ==
  state' = IF state[u] = th[t].cur THEN [state EXCEPT ![u] = new] ELSE state

MarkDone(t, label, swing) ==
  /\ At(t, label)
  /\ CasState(t, th[t].tid, [th[t].cur EXCEPT !.pending = FALSE])
  /\ Goto(t, swing)
  /\ UNCHANGED <<version, head, tail, next, enq_tid, deq_tid, next_check, gets>>
  /\ Observe(t, Held)

EndDone(t) == MarkDone(t, "FE_done", "FE_swing")

\* Of fix_tail, too.
SameTail(t) == tail = th[t].tail

EndSwing(t) ==
  /\ At(t, "FE_swing")
  /\ tail' = IF SameTail(t) THEN th[t].next ELSE tail
  /\ Set(t, Continue(th[t]))
  /\ UNCHANGED <<version, head, next, enq_tid, deq_tid, state, next_check, gets>>
  /\ Observe(t, Held)

-----------------------------------------------------------------------------
\* help_dequeue (help_deq).
GetPending(t) ==
  Read(t, "D_pending", IF IsStillPending(t) THEN To(th[t], "D_head") ELSE Helped(th[t]))

GetHead(t) == Read(t, "D_head", [th[t] EXCEPT !.pc = "D_tail", !.head = head])
GetTail(t) == Read(t, "D_tail", [th[t] EXCEPT !.pc = "D_next", !.tail = tail])
GetNext(t) == Read(t, "D_next", [th[t] EXCEPT !.pc = "D_same", !.next = next[th[t].head.node]])

NotHelped == "D_pending"               \* a fault: the enqueue under way is waited for
HelpPut == "FE_tail"

GetSame(t) ==
  LET r == th[t] IN
  Read(t, "D_same",
       IF head # r.head THEN To(r, "D_pending")
       ELSE IF r.head.node # r.tail THEN [r EXCEPT !.pc = "D_state", !.tail = Null, !.next = Null]
       ELSE IF r.next = Null THEN [r EXCEPT !.pc = "D_state"]
       ELSE [To(r, HelpPut) EXCEPT !.then = "D_pending"])

\* cur_state, on both ways: th[t].tail is set where the queue was empty.
GetState(t) ==
  Read(t, "D_state", [th[t] EXCEPT !.cur = state[Num[th[t].i]],
                                   !.pc = IF th[t].tail = Null THEN "D_again" ELSE "D_still"])

EmptyStill(t) ==
  Read(t, "D_still", IF tail = th[t].tail THEN [th[t] EXCEPT !.pc = "D_again"]
                     ELSE To(th[t], "D_pending"))

\* Without the second check, whoever is late takes an item for nobody.
GetAgain(t) ==
  LET r == th[t] IN
  Read(t, "D_again",
       IF ~IsStillPending(t) THEN IF r.tail = Null THEN Helped(r) ELSE To(r, "D_pending")
       ELSE [r EXCEPT !.pc = IF r.tail = Null THEN "D_mark" ELSE "D_empty"])

GetEmpty(t) ==
  /\ At(t, "D_empty")
  /\ CasState(t, Num[th[t].i], Descriptor(th[t].cur.phase, FALSE, "get", Null))
  /\ Set(t, To(th[t], "D_pending"))
  /\ UNCHANGED <<version, head, tail, next, enq_tid, deq_tid, next_check, gets>>
  /\ Observe(t, Held)

\* The descriptor must name the head before the head is claimed for it.
GetMark(t) ==
  Read(t, "D_mark", [th[t] EXCEPT
    !.pc = IF head = th[t].head /\ th[t].cur.node # head.node THEN "D_cas" ELSE "D_claim"])

GetCas(t) ==
  /\ At(t, "D_cas")
  /\ CasState(t, Num[th[t].i], Descriptor(th[t].cur.phase, TRUE, "get", th[t].head.node))
  /\ Set(t, IF state[Num[th[t].i]] = th[t].cur THEN [th[t] EXCEPT !.pc = "D_claim"]
            ELSE To(th[t], "D_pending"))
  /\ UNCHANGED <<version, head, tail, next, enq_tid, deq_tid, next_check, gets>>
  /\ Observe(t, Held)

Unclaimed(t) ==
  IF version = "ppopp11" THEN deq_tid[th[t].head.node] = kTidNotSet
  ELSE head = Head(th[t].head.node, kTidNotSet)

GetClaim(t) ==
  /\ At(t, "D_claim")
  /\ LET u == Num[th[t].i]  x == th[t].head.node IN
     /\ deq_tid' = IF version = "ppopp11" /\ Unclaimed(t) THEN [deq_tid EXCEPT ![x] = u] ELSE deq_tid
     /\ head' = IF version = "ppopp12" /\ Unclaimed(t) THEN Head(x, u) ELSE head
  /\ Set(t, [To(th[t], "FD_head") EXCEPT !.then = "D_pending"])
  /\ UNCHANGED <<version, tail, next, enq_tid, state, next_check, gets>> /\ Observe(t, Held')

-----------------------------------------------------------------------------
\* help_finish_dequeue (help_finish_deq).
EndGet(r, tid) ==
  IF tid = kTidNotSet THEN Continue(r) ELSE [r EXCEPT !.pc = "FD_state", !.tid = tid]

EndHead(t) == Read(t, "FD_head", [th[t] EXCEPT !.pc = "FD_next", !.head = head])

EndHeadNext(t) ==
  LET r == [th[t] EXCEPT !.next = next[th[t].head.node]] IN
  Read(t, "FD_next", IF version = "ppopp11" THEN [r EXCEPT !.pc = "FD_tid"]
                     ELSE EndGet(r, r.head.tid))

EndTid(t) == Read(t, "FD_tid", EndGet(th[t], deq_tid[th[t].head.node]))

EndGetState(t) == Read(t, "FD_state", [th[t] EXCEPT !.pc = "FD_same", !.cur = state[th[t].tid]])

HeadAssumed(t) == th[t].next # Null    \* a fault: the head is not compared
SameHead(t) == head = th[t].head /\ th[t].next # Null

EndHeadSame(t) ==
  Read(t, "FD_same", IF SameHead(t) THEN [th[t] EXCEPT !.pc = "FD_done"] ELSE Continue(th[t]))

EndGetDone(t) == MarkDone(t, "FD_done", "FD_swing")

EndHeadSwing(t) ==
  /\ At(t, "FD_swing")
  /\ head' = IF head = th[t].head THEN Head(th[t].next, kTidNotSet) ELSE head
  /\ Set(t, Continue(th[t]))
  /\ UNCHANGED <<version, tail, next, enq_tid, deq_tid, state, next_check, gets>>
  /\ Observe(t, Held')

-----------------------------------------------------------------------------
\* The fast path of "ppopp12": enqueue and dequeue.
FastBegin(t) ==
  LET r == th[t] IN
  Read(t, "fast", IF r.trials = MaxRetries THEN [r EXCEPT !.pc = "publish"]
                  ELSE [r EXCEPT !.pc = IF r.op = "put" THEN "Q_tail" ELSE "R_head",
                                 !.trials = @ + 1])

FastPutTail(t) == Read(t, "Q_tail", [th[t] EXCEPT !.pc = "Q_next", !.tail = tail])
FastPutNext(t) == Read(t, "Q_next", [th[t] EXCEPT !.pc = "Q_same", !.next = next[th[t].tail]])

FixTail(r) == [r EXCEPT !.pc = IF enq_tid[r.next] = kTidNotSet THEN "FE_swing" ELSE "FE_tail",
                        !.then = "fast"]

FastPutSame(t) ==
  LET r == th[t] IN
  Read(t, "Q_same", IF tail # r.tail THEN To(r, "fast")
                    ELSE IF r.next = Null THEN [r EXCEPT !.pc = "Q_link"]
                    ELSE FixTail(r))

FastPutLink(t) ==
  /\ At(t, "Q_link")
  /\ \/ /\ IsLast(th[t].tail)
        /\ next' = [next EXCEPT ![th[t].tail] = th[t].item]
        /\ Set(t, To(th[t], "return"))
     \/ /\ ~IsLast(th[t].tail)
        /\ Set(t, To(th[t], "fast"))
        /\ UNCHANGED next
  /\ UNCHANGED <<version, head, tail, enq_tid, deq_tid, state, next_check, gets>>
  /\ Observe(t, Held')

FastGetHead(t) == Read(t, "R_head", [th[t] EXCEPT !.pc = "R_tail", !.head = head])
FastGetTail(t) == Read(t, "R_tail", [th[t] EXCEPT !.pc = "R_next", !.tail = tail])
FastGetNext(t) ==
  Read(t, "R_next", [th[t] EXCEPT !.pc = "R_same", !.next = next[th[t].head.node]])

FastGetSame(t) ==
  LET r == th[t] IN
  Read(t, "R_same", IF head # r.head THEN To(r, "fast")
                    ELSE IF r.head.node # r.tail THEN [r EXCEPT !.pc = "R_tid", !.tail = Null]
                    ELSE IF r.next = Null THEN To(r, "return")
                    ELSE FixTail(r))

FastGetTid(t) ==
  Read(t, "R_tid", IF head.tid = kTidNotSet THEN [th[t] EXCEPT !.pc = "R_take"]
                   ELSE [To(th[t], "FD_head") EXCEPT !.then = "fast"])

FastGetTake(t) ==
  /\ At(t, "R_take")
  /\ LET r == th[t] IN
     \/ /\ head = r.head
        /\ head' = Head(r.next, kTidNotSet)
        /\ Set(t, [To(r, "return") EXCEPT !.item = r.next])
     \/ /\ head # r.head
        /\ Set(t, To(r, "fast"))
        /\ UNCHANGED head
  /\ UNCHANGED <<version, tail, next, enq_tid, deq_tid, state, next_check, gets>>
  /\ Observe(t, Held')

-----------------------------------------------------------------------------
Slow(t) == MaxPhase(t) \/ Publish(t) \/ Help(t) \/ Result(t)

Enq(t) ==
  \/ PutPending(t) \/ PutTail(t) \/ PutNext(t) \/ PutSame(t) \/ PutAgain(t) \/ PutNode(t)
  \/ PutLink(t)
  \/ EndTail(t) \/ EndNext(t) \/ EndState(t) \/ EndSame(t) \/ EndNode(t) \/ EndDone(t)
  \/ EndSwing(t)

Deq(t) ==
  \/ GetPending(t) \/ GetHead(t) \/ GetTail(t) \/ GetNext(t) \/ GetSame(t) \/ GetState(t)
  \/ EmptyStill(t) \/ GetAgain(t) \/ GetEmpty(t) \/ GetMark(t) \/ GetCas(t) \/ GetClaim(t)
  \/ EndHead(t) \/ EndHeadNext(t) \/ EndTid(t) \/ EndGetState(t) \/ EndHeadSame(t)
  \/ EndGetDone(t) \/ EndHeadSwing(t)

Fast(t) ==
  \/ Check(t) \/ FastBegin(t) \/ FastPutTail(t) \/ FastPutNext(t) \/ FastPutSame(t)
  \/ FastPutLink(t) \/ FastGetHead(t) \/ FastGetTail(t) \/ FastGetNext(t) \/ FastGetSame(t)
  \/ FastGetTid(t) \/ FastGetTake(t)

Step(t) == Slow(t) \/ Enq(t) \/ Deq(t) \/ Fast(t) \/ Return(t)

Next == \E t \in Threads : CallEnqueue(t) \/ CallDequeue(t) \/ Step(t)

Spec == Init /\ [][Next]_vars

-----------------------------------------------------------------------------
\* Properties.

\* Items of dequeues that were carried out, and have not been fetched.
Transit == {next[state[t].node] : t \in {u \in Threads :
              /\ th[u].op = "get" /\ th[u].slow /\ th[u].item = Null
              /\ ~state[u].pending /\ state[u].node # Null}}

\* No item is lost or got twice, however many threads carry out the operation.
Conserved == ConservedIn(Held \cup Transit)

\* Nobody, however late, marks as done what is not: the node is in the list, or
\* the head is claimed for the dequeue, or the queue was empty during it.
CarriedOut(t) ==
  LET d == state[t] IN
  IF d.type = "put" THEN \E x \in Nodes : next[x] = d.node
  ELSE IF d.node # Null
  THEN (IF version = "ppopp11" THEN deq_tid[d.node] ELSE head.tid) = t /\ head.node = d.node
  ELSE sight[t]

MarksCarriedOut == \A t \in Threads : state[t].pending /\ ~state'[t].pending => CarriedOut(t)'
=============================================================================
