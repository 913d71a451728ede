-------------------------- MODULE DistributedQueue --------------------------
(***************************************************************************)
(* The distributed queue of src/src/datastructures/distributed_queue.h: a  *)
(* pool over NumQueues backends, with a balancer that picks where a put    *)
(* goes and where a get starts to look.                                    *)
(*                                                                         *)
(* A get that found every backend empty does not know that they ever were  *)
(* empty together.  It compares every backend's empty state with the one   *)
(* recorded when that backend was found empty, and looks again on change.  *)
(*                                                                         *)
(* A backend is what the modules MSQueue and TreiberStack show it to be: a *)
(* linearizable container whose operations take effect at one step, and    *)
(* whose empty state changes with every put (a put to an MSQueue counts    *)
(* from the swing of the tail, before which nothing can take its item).    *)
(* Which of its items a backend hands out is left open.  state counts the  *)
(* changes of a backend's word; SameState compares words as the code does. *)
(***************************************************************************)
EXTENDS Integers, FiniteSets

CONSTANTS Threads,     \* the threads, each being its thread_id()
          Items,       \* the items; each is put at most once
          Null,        \* "no item"
          NumQueues,   \* num_queues_
          Partitions,  \* partitions_ of BalancerPartitionedRoundRobin
          TagMod,      \* the ABA tags of a TreiberStack: 2^64, or 2^3
          Calls,       \* the operations each thread may call
          Live         \* the threads that are scheduled again and again

ASSUME DistributedQueueAssumption ==
  /\ Threads \subseteq Nat
  /\ Null \notin Items
  /\ NumQueues \in Nat \ {0}
  /\ Partitions \in Nat \ {0}
  /\ TagMod \in Nat \ {0}
  /\ Calls \in [Threads -> SUBSET {"put", "get"}]
  /\ Live \subseteq Threads

Queues == 0 .. NumQueues-1
Groups == 0 .. Partitions-1

\* The combinations that benchmark/std_glue builds.
Builds == [backend : {"MSQueue", "TreiberStack"}, balancer : {"1random", "id"}]
          \cup {[backend |-> "MSQueue", balancer |-> "partrr"]}

VARIABLES
  build,                 \* the combination at hand
  content, state,        \* per backend: its items, the changes of its word
  enqueueRr, dequeueRr,  \* the counters of the partrr balancer, modulo NumQueues
  pc, item,              \* what each thread is doing, with which item
  start, i,              \* the locals of get; start is the index of a put
  tails,                 \* tails_: the empty states each thread recorded
  res,                   \* the answer of the last call of a thread
  used,                  \* history: the items put so far
  emptyThen, sawEmpty    \* history: the backends that were empty when t found
                         \* the last one empty; whether this was ever all

balancing == <<enqueueRr, dequeueRr>>
backends == <<content, state>>
history == <<used, emptyThen, sawEmpty>>
vars == <<build, balancing, backends, pc, item, start, i, tails, res, history>>

NoAnswer == [kind |-> "none", val |-> Null]

\* Faults for the runs.
WrapMissing(x) == x
WordUnbumped(q) == state[q]
SameStateAssumed(t, q) == TRUE
RecordNothing(t, q) == tails[t][q]

Wrap(x) == x % NumQueues
Index(t) == Wrap(start[t] + i[t])

\* The word of a backend after a put; what a get records of it.
WordBumped(q) == state[q] + 1
Record(t, q) == state[q]

\* empty_state() != tails_[thread_id][index]: the tail of an MSQueue, whose
\* nodes never come back, or the null top of a TreiberStack and its tag.
SameState(t, q) ==
  \/ build.backend = "MSQueue" /\ state[q] = tails[t][q]
  \/ /\ build.backend = "TreiberStack"
     /\ content[q] = {}
     /\ state[q] % TagMod = tails[t][q] % TagMod

Init ==
  /\ build \in Builds
  /\ content = [q \in Queues |-> {}]
  /\ state = [q \in Queues |-> 0]
  /\ enqueueRr = [g \in Groups |-> Wrap((NumQueues \div Partitions) * g)]
  /\ dequeueRr = [g \in Groups |-> Wrap((NumQueues \div Partitions) * g)]
  /\ pc = [t \in Threads |-> "idle"]
  /\ item = [t \in Threads |-> Null]
  /\ start = [t \in Threads |-> 0]
  /\ i = [t \in Threads |-> 0]
  /\ tails = [t \in Threads |-> [q \in Queues |-> 0]]
  /\ res = [t \in Threads |-> NoAnswer]
  /\ used = {}
  /\ emptyThen = [t \in Threads |-> {}]
  /\ sawEmpty = [t \in Threads |-> FALSE]

At(t, label) == pc[t] = label
Goto(t, label) == pc' = [pc EXCEPT ![t] = label]

\* balancer_->get: hwrand or pseudorand, the thread's id, or the next turn of
\* the thread's partition.
Balance(t, rr, index) ==
  \/ /\ build.balancer = "1random"
     /\ index \in Queues
     /\ rr' = rr
  \/ /\ build.balancer = "id"
     /\ index = Wrap(t)
     /\ rr' = rr
  \/ /\ build.balancer = "partrr"
     /\ index = rr[t % Partitions]
     /\ rr' = [rr EXCEPT ![t % Partitions] = Wrap(index + 1)]

\* The call returns; its locals die.
Respond(t, kind, val) ==
  /\ Goto(t, "idle")
  /\ item' = [item EXCEPT ![t] = Null]
  /\ start' = [start EXCEPT ![t] = 0]
  /\ i' = [i EXCEPT ![t] = 0]
  /\ res' = [res EXCEPT ![t] = [kind |-> kind, val |-> val]]
  /\ emptyThen' = [emptyThen EXCEPT ![t] = {}]
  /\ sawEmpty' = [sawEmpty EXCEPT ![t] = FALSE]
  /\ UNCHANGED <<build, balancing, backends, tails, used>>

-----------------------------------------------------------------------------
\* put

CallPut(t, x) ==
  /\ At(t, "idle") /\ "put" \in Calls[t]
  /\ x \in Items \ used
  /\ used' = used \cup {x}
  /\ item' = [item EXCEPT ![t] = x]
  /\ Goto(t, "P_index")
  /\ res' = [res EXCEPT ![t] = NoAnswer]
  /\ UNCHANGED <<build, balancing, backends, start, i, tails, emptyThen, sawEmpty>>

PutBalance(t) ==
  /\ At(t, "P_index")
  /\ \E index \in Queues :
       /\ Balance(t, enqueueRr, index)
       /\ start' = [start EXCEPT ![t] = index]
  /\ Goto(t, "P_put")
  /\ UNCHANGED <<build, dequeueRr, backends, item, i, tails, res, history>>

PutBackend(t) ==
  /\ At(t, "P_put")
  /\ content' = [content EXCEPT ![start[t]] = @ \cup {item[t]}]
  /\ state' = [state EXCEPT ![start[t]] = WordBumped(start[t])]
  /\ Goto(t, "P_return")
  /\ UNCHANGED <<build, balancing, item, start, i, tails, res, history>>

PutReturn(t) ==
  /\ At(t, "P_return")
  /\ Respond(t, "ok", Null)

-----------------------------------------------------------------------------
\* get

CallGet(t) ==
  /\ At(t, "idle") /\ "get" \in Calls[t]
  /\ Goto(t, "G_start")
  /\ res' = [res EXCEPT ![t] = NoAnswer]
  /\ UNCHANGED <<build, balancing, backends, item, start, i, tails, history>>

GetBalance(t) ==
  /\ At(t, "G_start")
  /\ \E index \in Queues :
       /\ Balance(t, dequeueRr, index)
       /\ start' = [start EXCEPT ![t] = index]
  /\ Goto(t, "G_scan")
  /\ UNCHANGED <<build, enqueueRr, backends, item, i, tails, res, history>>

\* The first loop: an item, or the backend's empty state and the next backend.
\* (What is recorded along with an item is overwritten before it is read.)
GetFound(t) ==
  /\ At(t, "G_scan")
  /\ \E x \in content[Index(t)] :
       /\ content' = [content EXCEPT ![Index(t)] = @ \ {x}]
       /\ item' = [item EXCEPT ![t] = x]
  /\ state' = IF build.backend = "TreiberStack"
              THEN [state EXCEPT ![Index(t)] = @ + 1] ELSE state
  /\ tails' = [tails EXCEPT ![t][Index(t)] = state[Index(t)]]
  /\ Goto(t, "G_return")
  /\ UNCHANGED <<build, balancing, start, i, res, history>>

EmptyNow == {q \in Queues : content[q] = {}}

GetNothing(t) ==
  /\ At(t, "G_scan")
  /\ content[Index(t)] = {}
  /\ tails' = [tails EXCEPT ![t][Index(t)] = Record(t, Index(t))]
  /\ \/ /\ i[t] + 1 < NumQueues
        /\ i' = [i EXCEPT ![t] = @ + 1]
        /\ UNCHANGED <<pc, emptyThen, sawEmpty>>
     \/ /\ i[t] + 1 = NumQueues
        /\ i' = [i EXCEPT ![t] = 0]
        /\ Goto(t, "G_check")
        /\ emptyThen' = [emptyThen EXCEPT ![t] = EmptyNow]
        /\ sawEmpty' = IF EmptyNow = Queues
                       THEN [sawEmpty EXCEPT ![t] = TRUE] ELSE sawEmpty
  /\ UNCHANGED <<build, balancing, backends, item, start, res, used>>

\* The second loop: start over from a backend that changed, or give up.
GetCheck(t) ==
  /\ At(t, "G_check")
  /\ \/ /\ ~SameState(t, Index(t))
        /\ start' = [start EXCEPT ![t] = Index(t)]
        /\ i' = [i EXCEPT ![t] = 0]
        /\ Goto(t, "G_scan")
     \/ /\ SameState(t, Index(t))
        /\ Wrap(Index(t) + 1) # start[t]
        /\ i' = [i EXCEPT ![t] = @ + 1]
        /\ UNCHANGED <<pc, start>>
     \/ /\ SameState(t, Index(t))
        /\ Wrap(Index(t) + 1) = start[t]
        /\ Goto(t, "G_empty")
        /\ UNCHANGED <<start, i>>
  /\ UNCHANGED <<build, balancing, backends, item, tails, res, history>>

GetReturn(t) ==
  \/ At(t, "G_return") /\ Respond(t, "item", item[t])
  \/ At(t, "G_empty") /\ Respond(t, "empty", Null)

-----------------------------------------------------------------------------
Invoke(t) == CallGet(t) \/ \E x \in Items : CallPut(t, x)

\* A thread inside a call takes its next step.
Step(t) ==
  \/ PutBalance(t) \/ PutBackend(t) \/ PutReturn(t)
  \/ GetBalance(t) \/ GetFound(t) \/ GetNothing(t) \/ GetCheck(t) \/ GetReturn(t)

Next == \E t \in Threads : Invoke(t) \/ Step(t)

Spec == Init /\ [][Next]_vars

\* The threads in Live keep being scheduled; any other may halt anywhere.
FairSpec == Spec /\ \A t \in Live : WF_vars(Step(t))

-----------------------------------------------------------------------------
\* Properties.

PutPcs == {"P_index", "P_put", "P_return"}
GetPcs == {"G_start", "G_scan", "G_check", "G_return", "G_empty"}
AnswerKinds == {"none", "ok", "item", "empty"}

\* Every variable has its type; no backend outside the array is looked at.
TypeOK ==
  /\ build \in Builds
  /\ content \in [Queues -> SUBSET Items]
  /\ state \in [Queues -> Nat]
  /\ enqueueRr \in [Groups -> Queues]
  /\ dequeueRr \in [Groups -> Queues]
  /\ pc \in [Threads -> {"idle"} \cup PutPcs \cup GetPcs]
  /\ item \in [Threads -> Items \cup {Null}]
  /\ start \in [Threads -> Queues]
  /\ i \in [Threads -> Queues]
  /\ tails \in [Threads -> [Queues -> Nat]]
  /\ res \in [Threads -> [kind : AnswerKinds, val : Items \cup {Null}]]
  /\ used \subseteq Items
  /\ emptyThen \in [Threads -> SUBSET Queues]
  /\ sawEmpty \in [Threads -> BOOLEAN]

\* An item is in one place: in one backend, or in one thread's hands.
InHand(t, x) == pc[t] \in {"P_index", "P_put", "G_return"} /\ item[t] = x

ItemsApart ==
  /\ \A q \in Queues : \A x \in content[q] :
       /\ x \in used
       /\ \A p \in Queues \ {q} : x \notin content[p]
       /\ \A t \in Threads : ~InHand(t, x)
  /\ \A t \in Threads :
       /\ pc[t] \in PutPcs \cup {"G_return"} => item[t] \in used
       /\ InHand(t, item[t]) => \A u \in Threads \ {t} : ~InHand(u, item[t])

\* The backends before position k of a round that starts at start[t].
Before(t, k) == {Wrap(start[t] + j) : j \in 0..k-1}

\* What a scan knows: a backend it found empty is empty, or its word is not
\* the recorded one any more.
ScanInv(t) ==
  /\ pc[t] \in {"idle", "G_start"} \cup PutPcs => i[t] = 0
  /\ At(t, "G_scan") => \A q \in Before(t, i[t]) :
       /\ tails[t][q] <= state[q]
       /\ content[q] = {} \/ tails[t][q] < state[q]

\* What a check knows: a backend that was not empty when the scan ended has a
\* word that differs from the recorded one, so it was not among those checked.
CheckInv(t) ==
  /\ At(t, "G_check") => \A q \in Queues :
       /\ tails[t][q] <= state[q]
       /\ q \in emptyThen[t] \/ tails[t][q] < state[q]
  /\ At(t, "G_check") => Before(t, i[t]) \subseteq emptyThen[t]
  /\ At(t, "G_check") /\ emptyThen[t] = Queues => sawEmpty[t]
  /\ At(t, "G_empty") => sawEmpty[t]
  /\ sawEmpty[t] => pc[t] \in GetPcs

\* The inductive invariant; it needs NoTagRound.
IInv == TypeOK /\ ItemsApart /\ \A t \in Threads : ScanInv(t) /\ CheckInv(t)

\* The word of a TreiberStack backend does not come round within one get.
NoTagRound ==
  build.backend = "TreiberStack" =>
    \A t \in Threads, q \in Queues :
      At(t, "G_check") => state[q] - tails[t][q] < TagMod

\* The refinement mapping: an item is in, or out, with the backend operation,
\* and "empty" is seen where the last backend is found empty, if all are.
Phase(t) ==
  IF At(t, "idle") THEN "idle"
  ELSE IF At(t, "P_return") THEN "inserted"
  ELSE IF At(t, "G_return") THEN "removed"
  ELSE IF pc[t] \in PutPcs THEN "put" ELSE "get"

Contents == UNION {content[q] : q \in Queues}
PhaseMap == [t \in Threads |-> Phase(t)]

Pool == INSTANCE UnorderedPool
  WITH Values <- Items, pool <- Contents, phase <- PhaseMap, arg <- item,
       seen <- sawEmpty, Inserting <- {"put"}, Removing <- {"get"}, Failable <- {}

\* pool.h, and the comment on empty_state in distributed_queue_interface.h: no
\* item is lost or handed out twice, and a get answers "empty" only if all
\* backends were empty together at some instant of the call.
Linearizable == Pool!PoolSpec

\* Every get comes to an end although it starts over whenever a backend has
\* changed, and although threads may halt in the middle of a put.
LiveCallsReturn == \A t \in Live : pc[t] # "idle" ~> pc[t] = "idle"
=============================================================================
