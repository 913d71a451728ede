------------------------- MODULE RandomDequeueQueue -------------------------
(***************************************************************************)
(* The queue of src/src/datastructures/random_dequeue_queue.h: the linked  *)
(* list of the Michael-Scott queue, from which a dequeue takes a random    *)
(* one of the oldest items by setting the flag deleted of its node; the    *)
(* head follows over deleted nodes.                                        *)
(*                                                                         *)
(* No constructor assigns max_retries_, so it may have any value.  One     *)
(* step reads or writes one shared word, except that a read of deleted, a  *)
(* flag that is only ever set, is part of the compare-and-swap right after *)
(* it.  Nodes are not reused, so the tags are left out.                    *)
(***************************************************************************)
EXTENDS CallHistory, Integers

CONSTANTS QuasiFactor,   \* quasi_factor_
          RetryLimits,   \* the values that max_retries_ may have
          Calls,         \* the operations each thread may call
          MaxGets        \* bounds the dequeues that each thread calls

VARIABLES max_retries,   \* max_retries_; never changed
          head, tail,    \* *head_ and *tail_
          next,          \* Node::next; a node is named by its item
          deleted,       \* the items whose Node::deleted is set
          gets           \* the dequeues that each thread has called

shared == <<max_retries, head, tail, next, deleted, gets>>
vars == <<th, shared, history>>

Sentinel == "sentinel"
NoNode == "no node"
Nodes == Items \cup {Sentinel}

\* The locals of a thread: those of CallHistory; tail_old, head_old, next or node;
\* random_index, counted down by the walk; retries.
Idle == [pc |-> "idle", op |-> "none", item |-> Null, end |-> "left",
         tail |-> NoNode, head |-> NoNode, node |-> NoNode, index |-> 0, retries |-> 0]

Init ==
  /\ max_retries \in RetryLimits
  /\ head = Sentinel /\ tail = Sentinel
  /\ next = [x \in Nodes |-> NoNode]
  /\ deleted = {}
  /\ gets = [t \in Threads |-> 0]
  /\ th = [t \in Threads |-> Idle]
  /\ HistoryInit

At(t, label) == th[t].pc = label
Goto(t, label) == th' = [th EXCEPT ![t].pc = label]
Again(t, label) == th' = [th EXCEPT ![t] = [Idle EXCEPT
                     !.pc = label, !.op = th[t].op, !.item = th[t].item, !.retries = th[t].retries]]
Finish(t, x) == th' = [th EXCEPT ![t] = [Idle EXCEPT !.pc = "return", !.op = th[t].op, !.item = x]]

\* The items that are linked and not deleted.
Held == {next[x] : x \in Nodes} \ ({NoNode} \cup deleted)

Local(t) == UNCHANGED shared /\ Observe(t, Held)

CallEnqueue(t) ==
  /\ At(t, "idle") /\ "put" \in Calls[t]
  /\ \E x \in Fresh : th' = [th EXCEPT ![t] = [Idle EXCEPT !.pc = "E_tail", !.op = "put", !.item = x]]
  /\ Local(t)

CallDequeue(t) ==
  /\ At(t, "idle") /\ "get" \in Calls[t] /\ gets[t] < MaxGets[t]
  /\ gets' = [gets EXCEPT ![t] = @ + 1]
  /\ th' = [th EXCEPT ![t] = [Idle EXCEPT !.pc = "D_head", !.op = "get"]]
  /\ UNCHANGED <<max_retries, head, tail, next, deleted>> /\ Observe(t, Held)

Return(t) ==
  /\ At(t, "return")
  /\ th' = [th EXCEPT ![t] = Idle]
  /\ Local(t)

-----------------------------------------------------------------------------
\* enqueue

ReadTail(t) ==
  /\ th[t].pc \in {"E_tail", "D_tail"}
  /\ th' = [th EXCEPT ![t].tail = tail, ![t].pc = IF @ = "E_tail" THEN "E_next" ELSE "D_next"]
  /\ Local(t)

EnqueueReadNext(t) ==
  /\ At(t, "E_next")
  /\ th' = [th EXCEPT ![t].pc = "E_check", ![t].node = next[th[t].tail]]
  /\ Local(t)

EnqueueCheck(t) ==
  /\ At(t, "E_check")
  /\ IF th[t].tail # tail THEN Again(t, "E_tail")
     ELSE Goto(t, IF th[t].node = NoNode THEN "E_link" ELSE "help")
  /\ Local(t)

EnqueueLink(t) ==
  /\ At(t, "E_link")
  /\ \/ /\ next[th[t].tail] = NoNode
        /\ next' = [next EXCEPT ![th[t].tail] = th[t].item]
        /\ th' = [th EXCEPT ![t].pc = "E_swing", ![t].node = th[t].item]
     \/ /\ next[th[t].tail] # NoNode
        /\ Again(t, "E_tail")
        /\ UNCHANGED next
  /\ UNCHANGED <<max_retries, head, tail, deleted, gets>> /\ Observe(t, Held')

\* The tail is swung to one's own node, or, before another attempt, to another's.
SwingTail(t) ==
  /\ th[t].pc \in {"E_swing", "help"}
  /\ tail' = IF tail = th[t].tail THEN th[t].node ELSE tail
  /\ IF At(t, "E_swing") THEN Finish(t, th[t].item)
     ELSE Again(t, IF th[t].op = "put" THEN "E_tail" ELSE "D_head")
  /\ UNCHANGED <<max_retries, head, next, deleted, gets>> /\ Observe(t, Held)

-----------------------------------------------------------------------------
\* dequeue

DequeueReadHead(t) ==
  /\ At(t, "D_head")
  /\ th' = [th EXCEPT ![t].pc = "D_tail", ![t].head = head]
  /\ Local(t)

DequeueReadNext(t) ==
  /\ At(t, "D_next")
  /\ th' = [th EXCEPT ![t].pc = "D_check", ![t].node = next[th[t].head]]
  /\ Local(t)

\* Once the retries are used up, the oldest item is tried.
AnyOfMore(t) == 0 .. QuasiFactor       \* a fault: an index too many, at any time
RandomIndex(t) == IF th[t].retries >= max_retries THEN {0} ELSE 0 .. QuasiFactor-1
Retries(t) == IF th[t].retries >= max_retries THEN th[t].retries ELSE th[t].retries + 1

DequeueCheck(t) ==
  /\ At(t, "D_check")
  /\ \/ /\ head # th[t].head
        /\ Again(t, "D_head")
     \/ /\ head = th[t].head /\ th[t].head = th[t].tail
        /\ IF th[t].node = NoNode THEN Finish(t, Null) ELSE Goto(t, "help")
     \/ /\ head = th[t].head /\ th[t].head # th[t].tail
        /\ \E i \in RandomIndex(t) :
             th' = [th EXCEPT ![t].pc = IF i = 0 THEN "D_first" ELSE "D_walk",
                              ![t].index = i, ![t].retries = Retries(t)]
  /\ Local(t)

\* With index 0, the head is moved over deleted nodes, but not beyond tail_old.
DequeueFirst(t) ==
  /\ At(t, "D_first")
  /\ Goto(t, IF th[t].node \in deleted THEN "D_swing" ELSE "D_take")
  /\ Local(t)

SwingHead(t) ==
  /\ At(t, "D_swing")
  /\ head' = IF head = th[t].head THEN th[t].node ELSE head
  /\ IF head # th[t].head \/ th[t].node = th[t].tail THEN Again(t, "D_head")
     ELSE th' = [th EXCEPT ![t].pc = "D_second", ![t].head = th[t].node]
  /\ UNCHANGED <<max_retries, tail, next, deleted, gets>> /\ Observe(t, Held)

\* (That next is not null here, where the code would answer false, is part of
\* Conserved.)
DequeueSecond(t) ==
  /\ At(t, "D_second")
  /\ th' = [th EXCEPT ![t].pc = "D_first", ![t].node = next[th[t].head]]
  /\ Local(t)

\* With a greater index, that many nodes are passed, or all but the last.
DequeueWalk(t) ==
  /\ At(t, "D_walk")
  /\ th' = IF th[t].index = 0 \/ next[th[t].node] = NoNode
           THEN [th EXCEPT ![t].pc = "D_take", ![t].index = 0]
           ELSE [th EXCEPT ![t].node = next[@], ![t].index = @ - 1]
  /\ Local(t)

DequeueTake(t) ==
  /\ At(t, "D_take")
  /\ \/ /\ th[t].node \notin deleted
        /\ deleted' = deleted \cup {th[t].node}
        /\ Finish(t, th[t].node)
     \/ /\ th[t].node \in deleted
        /\ Again(t, "D_head")
        /\ UNCHANGED deleted
  /\ UNCHANGED <<max_retries, head, tail, next, gets>> /\ Observe(t, Held')

-----------------------------------------------------------------------------
Step(t) ==
  \/ ReadTail(t) \/ EnqueueReadNext(t) \/ EnqueueCheck(t) \/ EnqueueLink(t) \/ SwingTail(t)
  \/ DequeueReadHead(t) \/ DequeueReadNext(t) \/ DequeueCheck(t) \/ DequeueFirst(t)
  \/ SwingHead(t) \/ DequeueSecond(t) \/ DequeueWalk(t) \/ DequeueTake(t)
  \/ Return(t)

Next == \E t \in Threads : CallEnqueue(t) \/ CallDequeue(t) \/ Step(t)

Spec == Init /\ [][Next]_vars

-----------------------------------------------------------------------------
\* Properties.

\* No item is lost, behind the head or beyond the end of the list, or got twice.
Reached == LET f[x \in Nodes] == {x} \cup (IF next[x] = NoNode THEN {} ELSE f[next[x]]) IN f[head]
Conserved == ConservedIn(Held) /\ Held \subseteq Reached \ {head} /\ tail \in Reached

\* A dequeue answers false only if, at some instant of it, every item whose enqueue
\* had returned was gone, though some of the nodes it saw were only marked.
EmptyIsTrue == \A t \in Threads : SaysEmpty(t) => sight[t]

\* An item passes by fewer than quasi_factor items whose enqueue had returned before
\* its own began, whatever the number of retries.
InOrder ==
  \A t \in Threads : At(t, "return") /\ th[t].op = "get" /\ th[t].item # Null =>
    Cardinality(PassedBy(t, Held)) < QuasiFactor
=============================================================================
