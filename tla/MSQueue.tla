------------------------------ MODULE MSQueue ------------------------------
(***************************************************************************)
(* The Michael-Scott queue of src/src/datastructures/ms_queue.h: a linked  *)
(* list with a sentinel, a head and a tail word, every word changed only   *)
(* by compare-and-swap.  One step of a thread is one access to a shared    *)
(* word, so every interleaving of the accesses is explored.                *)
(*                                                                         *)
(* A word (AtomicPointer) is a pointer and an ABA tag of AbaMod values.    *)
(* Reads of a word are atomic (the .raw() contract of AtomicValue128).     *)
(* Nodes come from a bump allocator that never frees: an allocated node    *)
(* is not allocated again (until the allocator wraps around, which is      *)
(* outside this module).                                                   *)
(*                                                                         *)
(* log and rank are history variables: the items in the order their nodes  *)
(* were linked (the linearization() calls of enqueue), and the place of    *)
(* each linked node in that order.                                         *)
(***************************************************************************)
EXTENDS Integers, Sequences

CONSTANTS Threads,   \* the threads sharing the queue
          Values,    \* the items
          Nodes,     \* the memory nodes are taken from
          Sentinel,  \* the node the constructor allocates
          Null,      \* the null pointer, and "no item"
          AbaMod,    \* the number of ABA tags: 2^64, or 2^3 without cas128
          Calls,     \* the operations each thread may call
          Live       \* the threads that are scheduled again and again

EnqueueOps == {"enqueue", "try_enqueue"}
DequeueOps == {"dequeue", "dequeue_return_tail", "try_dequeue"}
Operations == EnqueueOps \cup DequeueOps

ASSUME MSQueueAssumption ==
  /\ Sentinel \in Nodes
  /\ Null \notin Nodes
  /\ Null \notin Values
  /\ AbaMod \in Nat \ {0}
  /\ Calls \in [Threads -> SUBSET Operations]
  /\ Live \subseteq Threads

VARIABLES
  head, tail,        \* the words *head_ and *tail_
  next,              \* Node::next of every node
  value,             \* Node::value of every node
  allocated,         \* the nodes handed out so far
  pc, op,            \* what each thread is doing, for which operation
  tailOld, headOld, nextOld, \* the local words of each thread
  node, item,        \* the local node and the item passed in or out
  emptyState,        \* the *tail_raw of the last empty answer of a thread
  res,               \* the answer of the last call of a thread, until the next
  log, rank          \* history variables

shared  == <<head, tail, next, value, allocated>>
locals  == <<pc, op, tailOld, headOld, nextOld, node, item>>
answers == <<emptyState, res>>
history == <<log, rank>>
vars == <<shared, locals, answers, history>>

Unlinked == -1
NullWord == [ptr |-> Null, aba |-> 0]
NextAbaUnbounded(w) == w.aba + 1     \* a fault: the tag outgrows its bits
NextAba(w) == (w.aba + 1) % AbaMod
Swing(w, n) == [ptr |-> n, aba |-> NextAba(w)]
NoAnswer == [kind |-> "none", val |-> Null]
Tries == {"try_enqueue", "try_dequeue"}

Init ==
  /\ head = [ptr |-> Sentinel, aba |-> 0]
  /\ tail = [ptr |-> Sentinel, aba |-> 0]
  /\ next = [n \in Nodes |-> NullWord]
  /\ value = [n \in Nodes |-> Null]
  /\ allocated = {Sentinel}
  /\ pc = [t \in Threads |-> "idle"]
  /\ op = [t \in Threads |-> "none"]
  /\ tailOld = [t \in Threads |-> NullWord]
  /\ headOld = [t \in Threads |-> NullWord]
  /\ nextOld = [t \in Threads |-> NullWord]
  /\ node = [t \in Threads |-> Null]
  /\ item = [t \in Threads |-> Null]
  /\ emptyState = [t \in Threads |-> NullWord]
  /\ res = [t \in Threads |-> NoAnswer]
  /\ log = <<>>
  /\ rank = [n \in Nodes |-> IF n = Sentinel THEN 0 ELSE Unlinked]

-----------------------------------------------------------------------------
\* Helpers: control flow inside a call.

At(t, label) == pc[t] = label
TailAssumed(t) == TRUE               \* a fault: a store instead of a CAS
LinkAssumed(t) == TRUE               \* a fault: a store instead of a CAS
HeadUnchanged(t) == head = headOld[t]
TailUnchanged(t) == tail = tailOld[t]
LinkUnchanged(t) == next[tailOld[t].ptr] = nextOld[t]
Goto(t, label) == pc' = [pc EXCEPT ![t] = label]

\* node_new: a node nobody has, with an empty next word.
NodeNew(t, n, v) ==
  /\ n \in Nodes \ allocated
  /\ allocated' = allocated \cup {n}
  /\ next' = [next EXCEPT ![n] = NullWord]
  /\ value' = [value EXCEPT ![n] = v]
  /\ node' = [node EXCEPT ![t] = n]

\* The call returns; its locals die.
Respond(t, kind, val) ==
  /\ Goto(t, "idle")
  /\ op' = [op EXCEPT ![t] = "none"]
  /\ tailOld' = [tailOld EXCEPT ![t] = NullWord]
  /\ headOld' = [headOld EXCEPT ![t] = NullWord]
  /\ nextOld' = [nextOld EXCEPT ![t] = NullWord]
  /\ node' = [node EXCEPT ![t] = Null]
  /\ item' = [item EXCEPT ![t] = Null]
  /\ res' = [res EXCEPT ![t] = [kind |-> kind, val |-> val]]

\* Another round of while (true); a try_ operation gives up instead.
Retry(t, label) ==
  \/ /\ op[t] \in Tries
     /\ Respond(t, "failed", Null)
  \/ /\ op[t] \notin Tries
     /\ Goto(t, label)
     /\ UNCHANGED <<op, tailOld, headOld, nextOld, node, item, res>>

-----------------------------------------------------------------------------
\* enqueue and try_enqueue.

CallEnqueue(t, n, v) ==
  /\ At(t, "idle") /\ "enqueue" \in Calls[t]
  /\ NodeNew(t, n, v)
  /\ Goto(t, "E_tail")
  /\ op' = [op EXCEPT ![t] = "enqueue"]
  /\ item' = [item EXCEPT ![t] = v]
  /\ res' = [res EXCEPT ![t] = NoAnswer]
  /\ UNCHANGED <<head, tail, tailOld, headOld, nextOld, emptyState, history>>

\* try_enqueue gets the tail word from its caller, who got it from get_tail.
CallTryEnqueue(t, v) ==
  /\ At(t, "idle") /\ "try_enqueue" \in Calls[t]
  /\ Goto(t, "E_tail")
  /\ op' = [op EXCEPT ![t] = "try_enqueue"]
  /\ item' = [item EXCEPT ![t] = v]
  /\ res' = [res EXCEPT ![t] = NoAnswer]
  /\ UNCHANGED <<shared, tailOld, headOld, nextOld, node, emptyState, history>>

EnqueueReadTail(t) ==
  /\ At(t, "E_tail")
  /\ tailOld' = [tailOld EXCEPT ![t] = tail]
  /\ Goto(t, "E_next")
  /\ UNCHANGED <<shared, op, headOld, nextOld, node, item, answers, history>>

EnqueueReadNext(t) ==
  /\ At(t, "E_next")
  /\ nextOld' = [nextOld EXCEPT ![t] = next[tailOld[t].ptr]]
  /\ Goto(t, "E_check")
  /\ UNCHANGED <<shared, op, tailOld, headOld, node, item, answers, history>>

EnqueueCheckTail(t) ==
  /\ At(t, "E_check")
  /\ UNCHANGED <<emptyState, history, head, tail>>
  /\ \/ /\ ~TailUnchanged(t)
        /\ Retry(t, "E_tail")
        /\ UNCHANGED <<next, value, allocated>>
     \/ /\ TailUnchanged(t)
        /\ nextOld[t].ptr # Null
        /\ Goto(t, "E_help")
        /\ UNCHANGED <<next, value, allocated, op, tailOld, headOld, nextOld,
                       node, item, res>>
     \/ /\ TailUnchanged(t)
        /\ nextOld[t].ptr = Null
        /\ Goto(t, "E_link")
        /\ \/ /\ op[t] = "enqueue"
              /\ UNCHANGED <<next, value, allocated, node>>
           \/ /\ op[t] = "try_enqueue"
              /\ \E n \in Nodes : NodeNew(t, n, item[t])
        /\ UNCHANGED <<op, tailOld, headOld, nextOld, item, res>>

\* A fault: wait for the thread that linked the node instead of helping it.
HelpNothing(t, retry) ==
  /\ Retry(t, retry)
  /\ UNCHANGED <<shared, emptyState, history>>

\* The tail lags behind: swing it for the thread that linked the next node.
HelpSwingTail(t, retry) ==
  /\ tail' = IF TailUnchanged(t)
             THEN Swing(tailOld[t], nextOld[t].ptr) ELSE tail
  /\ Retry(t, retry)
  /\ UNCHANGED <<head, next, value, allocated, emptyState, history>>

EnqueueHelp(t) ==
  /\ At(t, "E_help")
  /\ HelpSwingTail(t, "E_tail")

\* The linearization point of an insertion is the successful CAS.
EnqueueLink(t) ==
  /\ At(t, "E_link")
  /\ UNCHANGED <<head, tail, value, allocated, emptyState>>
  /\ \/ /\ LinkUnchanged(t)
        /\ next' = [next EXCEPT ![tailOld[t].ptr] = Swing(nextOld[t], node[t])]
        /\ Goto(t, "E_swing")
        /\ log' = Append(log, item[t])
        /\ rank' = [rank EXCEPT ![node[t]] = Len(log) + 1]
        /\ UNCHANGED <<op, tailOld, headOld, nextOld, node, item, res>>
     \/ /\ ~LinkUnchanged(t)
        /\ Retry(t, "E_tail")
        /\ UNCHANGED <<next, history>>

EnqueueSwing(t) ==
  /\ At(t, "E_swing")
  /\ tail' = IF TailUnchanged(t) THEN Swing(tailOld[t], node[t]) ELSE tail
  /\ Respond(t, "ok", Null)
  /\ UNCHANGED <<head, next, value, allocated, emptyState, history>>

-----------------------------------------------------------------------------
\* dequeue, dequeue_return_tail and try_dequeue.

\* try_dequeue gets the head word from its caller, who got it from get_head.
CallDequeue(t, o) ==
  /\ At(t, "idle") /\ o \in Calls[t]
  /\ Goto(t, "D_head")
  /\ op' = [op EXCEPT ![t] = o]
  /\ res' = [res EXCEPT ![t] = NoAnswer]
  /\ UNCHANGED <<shared, tailOld, headOld, nextOld, node, item, emptyState,
                 history>>

DequeueReadHead(t) ==
  /\ At(t, "D_head")
  /\ headOld' = [headOld EXCEPT ![t] = head]
  /\ Goto(t, "D_tail")
  /\ UNCHANGED <<shared, op, tailOld, nextOld, node, item, answers, history>>

\* A fault: the tail read is hoisted out of the loop and forgotten.
DequeueKeepTail(t) ==
  /\ At(t, "D_tail")
  /\ Goto(t, "D_next")
  /\ UNCHANGED <<shared, op, headOld, tailOld, nextOld, node, item, answers,
                 history>>

DequeueReadTail(t) ==
  /\ At(t, "D_tail")
  /\ tailOld' = [tailOld EXCEPT ![t] = tail]
  /\ Goto(t, "D_next")
  /\ UNCHANGED <<shared, op, headOld, nextOld, node, item, answers, history>>

DequeueReadNext(t) ==
  /\ At(t, "D_next")
  /\ nextOld' = [nextOld EXCEPT ![t] = next[headOld[t].ptr]]
  /\ Goto(t, "D_check")
  /\ UNCHANGED <<shared, op, tailOld, headOld, node, item, answers, history>>

\* The *tail_raw an empty answer hands to the caller.
EmptyStateReread(t) == tail          \* a fault: the word as it is by now
EmptyState(t) == tailOld[t]

\* What the check of head leads to: empty, a lagging tail, or an item.
DequeueCheckHead(t) ==
  /\ At(t, "D_check")
  /\ UNCHANGED <<shared, history>>
  /\ \/ /\ ~HeadUnchanged(t)
        /\ Retry(t, "D_head")
        /\ UNCHANGED emptyState
     \/ /\ HeadUnchanged(t)
        /\ headOld[t].ptr = tailOld[t].ptr
        /\ nextOld[t].ptr = Null
        /\ Respond(t, "empty", Null)
        /\ emptyState' = IF op[t] = "dequeue_return_tail"
                         THEN [emptyState EXCEPT ![t] = EmptyState(t)]
                         ELSE emptyState
     \/ /\ HeadUnchanged(t)
        /\ headOld[t].ptr = tailOld[t].ptr
        /\ nextOld[t].ptr # Null
        /\ Goto(t, "D_help")
        /\ UNCHANGED <<op, tailOld, headOld, nextOld, node, item, answers>>
     \/ /\ HeadUnchanged(t)
        /\ headOld[t].ptr # tailOld[t].ptr
        /\ item' = [item EXCEPT ![t] = value[nextOld[t].ptr]]
        /\ Goto(t, "D_cas")
        /\ UNCHANGED <<op, tailOld, headOld, nextOld, node, answers>>

DequeueHelp(t) ==
  /\ At(t, "D_help")
  /\ HelpSwingTail(t, "D_head")

DequeueSwingHead(t) ==
  /\ At(t, "D_cas")
  /\ UNCHANGED <<tail, next, value, allocated, emptyState, history>>
  /\ \/ /\ HeadUnchanged(t)
        /\ head' = Swing(headOld[t], nextOld[t].ptr)
        /\ Goto(t, "D_return")
        /\ UNCHANGED <<op, tailOld, headOld, nextOld, node, item, res>>
     \/ /\ ~HeadUnchanged(t)
        /\ Retry(t, "D_head")
        /\ UNCHANGED head

\* (What dequeue_return_tail with an item, and try_dequeue with any answer, leave
\* in *tail_raw is read by no caller.)
DequeueReturn(t) ==
  /\ At(t, "D_return")
  /\ Respond(t, "item", item[t])
  /\ UNCHANGED <<shared, emptyState, history>>

-----------------------------------------------------------------------------
Invoke(t) ==
  \/ \E n \in Nodes, v \in Values : CallEnqueue(t, n, v)
  \/ \E v \in Values : CallTryEnqueue(t, v)
  \/ \E o \in DequeueOps : CallDequeue(t, o)

\* A thread inside a call takes its next step.
Step(t) ==
  \/ EnqueueReadTail(t) \/ EnqueueReadNext(t) \/ EnqueueCheckTail(t)
  \/ EnqueueHelp(t) \/ EnqueueLink(t) \/ EnqueueSwing(t)
  \/ DequeueReadHead(t) \/ DequeueReadTail(t) \/ DequeueReadNext(t)
  \/ DequeueCheckHead(t) \/ DequeueHelp(t) \/ DequeueSwingHead(t)
  \/ DequeueReturn(t)

Next == \E t \in Threads : Invoke(t) \/ Step(t)

Spec == Init /\ [][Next]_vars

\* The threads in Live keep being scheduled; any other may halt anywhere.
FairSpec == Spec /\ \A t \in Live : WF_vars(Step(t))

-----------------------------------------------------------------------------
\* Properties.

EnqueuePcs == {"E_tail", "E_next", "E_check", "E_help", "E_link", "E_swing"}
DequeuePcs == {"D_head", "D_tail", "D_next", "D_check", "D_help", "D_cas",
               "D_return"}
Words == [ptr : Nodes \cup {Null}, aba : 0..AbaMod-1]
AnswerKinds == {"none", "ok", "item", "empty", "failed"}

\* Every variable has its type; ABA tags stay inside their width.
TypeOK ==
  /\ head \in Words /\ tail \in Words
  /\ next \in [Nodes -> Words]
  /\ value \in [Nodes -> Values \cup {Null}]
  /\ allocated \subseteq Nodes
  /\ pc \in [Threads -> {"idle"} \cup EnqueuePcs \cup DequeuePcs]
  /\ op \in [Threads -> Operations \cup {"none"}]
  /\ tailOld \in [Threads -> Words]
  /\ headOld \in [Threads -> Words]
  /\ nextOld \in [Threads -> Words]
  /\ node \in [Threads -> Nodes \cup {Null}]
  /\ item \in [Threads -> Values \cup {Null}]
  /\ emptyState \in [Threads -> Words]
  /\ res \in [Threads -> [kind : AnswerKinds, val : Values \cup {Null}]]
  /\ log \in Seq(Values)
  /\ rank \in [Nodes -> Nat \cup {Unlinked}]

Linked(n) == n \in Nodes /\ rank[n] # Unlinked
LastRank == Len(log)

\* The list: ranks name the linked nodes one to one along the next words,
\* the only null link is the last one, and node i carries item i of the log.
ListInv ==
  /\ \A n \in Nodes : Linked(n) => n \in allocated /\ rank[n] \in 0..LastRank
  /\ \A m, n \in Nodes : Linked(m) /\ rank[m] = rank[n] => m = n
  /\ \A n \in Nodes : next[n].ptr = Null <=> ~Linked(n) \/ rank[n] = LastRank
  /\ \A n \in Nodes : next[n].ptr # Null =>
       Linked(next[n].ptr) /\ rank[next[n].ptr] = rank[n] + 1
  /\ \A n \in Nodes : Linked(n) /\ rank[n] > 0 => value[n] = log[rank[n]]

\* The ends: head is not past tail, and tail is at most one node behind.
EndsInv ==
  /\ Linked(head.ptr) /\ Linked(tail.ptr)
  /\ rank[head.ptr] <= rank[tail.ptr]
  /\ LastRank - 1 <= rank[tail.ptr]

\* What a thread may rely on about its copies of head, tail and a next word.
KnowsTail(t) ==
  /\ Linked(tailOld[t].ptr)
  /\ rank[tailOld[t].ptr] <= rank[tail.ptr]
  /\ tailOld[t].ptr = tail.ptr => tailOld[t] = tail

KnowsHead(t) ==
  /\ Linked(headOld[t].ptr)
  /\ rank[headOld[t].ptr] <= rank[head.ptr]
  /\ headOld[t].ptr = head.ptr => headOld[t] = head

KnowsSuccessor(t, n) ==
  nextOld[t].ptr # Null =>
    Linked(nextOld[t].ptr) /\ rank[nextOld[t].ptr] = rank[n] + 1

OwnsNode(t) ==
  /\ node[t] \in allocated
  /\ ~Linked(node[t])
  /\ value[node[t]] = item[t]

EnqueueInv(t) ==
  /\ pc[t] \in EnqueuePcs => op[t] \in EnqueueOps /\ item[t] \in Values
  /\ pc[t] \in EnqueuePcs \ {"E_tail"} => KnowsTail(t)
  /\ pc[t] \in {"E_check", "E_help"} => KnowsSuccessor(t, tailOld[t].ptr)
  /\ At(t, "E_help") => nextOld[t].ptr # Null
  /\ At(t, "E_link") => OwnsNode(t) /\ nextOld[t].ptr = Null
  /\ op[t] = "enqueue" /\ ~At(t, "E_swing") => OwnsNode(t)
  /\ At(t, "E_swing") =>
       /\ Linked(node[t])
       /\ rank[node[t]] = rank[tailOld[t].ptr] + 1

DequeueInv(t) ==
  /\ pc[t] \in DequeuePcs => op[t] \in DequeueOps
  /\ pc[t] \in DequeuePcs \ {"D_head", "D_return"} => KnowsHead(t)
  /\ pc[t] \in {"D_next", "D_check", "D_help", "D_cas"} =>
       KnowsTail(t) /\ rank[headOld[t].ptr] <= rank[tailOld[t].ptr]
  /\ pc[t] \in {"D_check", "D_help", "D_cas"} =>
       /\ KnowsSuccessor(t, headOld[t].ptr)
       /\ rank[headOld[t].ptr] < rank[tailOld[t].ptr] => nextOld[t].ptr # Null
  /\ At(t, "D_help") => nextOld[t].ptr # Null /\ headOld[t].ptr = tailOld[t].ptr
  /\ At(t, "D_cas") =>
       /\ rank[headOld[t].ptr] < rank[tailOld[t].ptr]
       /\ item[t] = value[nextOld[t].ptr]
  /\ At(t, "D_return") => item[t] \in Values

ThreadInv(t) ==
  /\ pc[t] = "idle" <=> op[t] = "none"
  /\ EnqueueInv(t)
  /\ DequeueInv(t)

\* A node in a thread's hands was allocated, and for it alone until linked.
NodesApart ==
  \A t \in Threads : node[t] # Null =>
    /\ node[t] \in allocated
    /\ \A u \in Threads \ {t} : node[u] = node[t] => Linked(node[t])

\* The inductive invariant of the algorithm: what every thread believes of
\* the list between two of its accesses, whatever the others did meanwhile.
IInv ==
  /\ TypeOK /\ ListInv /\ EndsInv /\ NodesApart
  /\ \A t \in Threads : ThreadInv(t)

\* Why "empty" can be trusted: a tail that lags is about to be swung by the
\* enqueue that linked the last node, and a recorded empty state is a tail
\* that the head had caught up with.
TailLag ==
  rank[tail.ptr] < LastRank =>
    \E u \in Threads :
      At(u, "E_swing") /\ tailOld[u] = tail /\ rank[node[u]] = LastRank

EmptyKnown ==
  \A t \in Threads : emptyState[t].ptr # Null =>
    Linked(emptyState[t].ptr) /\ rank[emptyState[t].ptr] <= rank[head.ptr]

\* dequeue dereferences next.value() without testing it; the order in which
\* it reads head, tail and next must make that safe (ms_queue.h:153).
NoNullDereference ==
  \A t \in Threads :
    At(t, "D_check") /\ HeadUnchanged(t) /\ headOld[t].ptr # tailOld[t].ptr
    => nextOld[t].ptr # Null

\* DistributedQueueInterface: an observer that was told "empty" sees the state
\* changed as soon as an item is put.  While tail still equals the state that
\* came with the answer, the only item there can be is one whose enqueue is
\* linked but has not returned.
EmptyStateSound ==
  \A t \in Threads : tail = emptyState[t] =>
    \A i \in rank[head.ptr]+1 .. LastRank :
      \E u \in Threads : At(u, "E_swing") /\ rank[node[u]] = i

\* The refinement mapping: an item is in once its node is linked, out once
\* head moved on, and "empty" was seen when the null next word was read.
Phase(t) ==
  IF At(t, "idle") THEN "idle"
  ELSE IF At(t, "E_swing") THEN "inserted"
  ELSE IF At(t, "D_return") THEN "removed" ELSE op[t]

Arg(t) == IF pc[t] \in EnqueuePcs \cup {"D_return"} THEN item[t] ELSE Null

SawEmpty(t) ==
  At(t, "D_check") /\ nextOld[t].ptr = Null /\ HeadUnchanged(t)

Taken == rank[head.ptr]
PhaseMap == [t \in Threads |-> Phase(t)]
ArgMap == [t \in Threads |-> Arg(t)]
SeenMap == [t \in Threads |-> SawEmpty(t)]

Fifo == INSTANCE FifoQueue
  WITH taken <- Taken, phase <- PhaseMap, arg <- ArgMap, seen <- SeenMap,
       Inserting <- EnqueueOps, Removing <- DequeueOps, Failable <- Tries

\* queue.h: a linearizable FIFO queue.
Linearizable == Fifo!FifoSpec

\* Lock-freedom: threads that halt inside a call, at whatever access, cannot
\* keep a live thread from returning.  (Nodes bounds the enqueues, so an
\* unbounded retry would have to be somebody else's doing nothing.)
LiveCallsReturn == \A t \in Live : pc[t] # "idle" ~> pc[t] = "idle"
=============================================================================
