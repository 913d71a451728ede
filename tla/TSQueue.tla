------------------------------ MODULE TSQueue ------------------------------
(***************************************************************************)
(* Two queues over singly linked lists, one per thread, to which only that *)
(* thread adds, and from which a dequeue takes the item with the earliest  *)
(* timestamp:                                                              *)
(* src/src/datastructures/ts_queue.h over ts_queue_buffer.h, and           *)
(* dts_queue.h ("DTS"), where an item has its stamp before it is in a      *)
(* list, dequeues draw stamps of their own, and a dequeue never answers    *)
(* that the queue is empty.  What they share is here once.  The DTS queue  *)
(* has the atomic counter for its timestamps, and no program is built of   *)
(* the other queue with that one.                                          *)
(*                                                                         *)
(* One step reads or writes one shared word.  Nodes are not reused, so a   *)
(* word of remove_ never comes back, and the comparison that guards a      *)
(* compare-and-swap of it is not a step of its own; neither is a read of   *)
(* next, which is set before the insert pointer passes on, or of a         *)
(* timestamp of the DTS queue.                                             *)
(***************************************************************************)
EXTENDS TSTimestamp

CONSTANTS Calls,   \* the operations each thread may call, by the class of timestamps
          MaxGets  \* bounds the dequeues that each thread calls, by the class

VARIABLES tickets, \* the counter of dequeue_timestamping_, of the DTS queue
          insert,  \* insert_: the last node of each list
          remove,  \* remove_: the last node taken from it, and a tag
          next,    \* Item::next
          seen,    \* emptiness_check_pointers_, of the other queue
          gets     \* the dequeues that each thread has called

shared == <<tickets, insert, remove, next, seen>>
vars == <<th, stamps, shared, gets, history>>

DTS == kind = "atomic"

\* The sentinel of a thread's list has the thread's name.
Nodes == Items \cup Threads

Word(x, a) == [item |-> x, aba |-> a]
NextAba(a) == (a + 1) % 8              \* add_next_aba: a tag of three bits
NoWord == Word(Null, 0)                \* NULL
NoBest == [item |-> Null, buf |-> 0, word |-> NoWord, stamp |-> Top]

\* The locals of a thread: those of TSTimestamp; start_time or dequeue_timestamp;
\* the list looked at, and the number of those left (0: none looked at yet);
\* tmp_remove; again: the list is looked at for the second time; the oldest item so
\* far, and empty.
Idle == [pc |-> "idle", op |-> "none", item |-> Null, end |-> "left", now |-> 0,
         i |-> 0, stamp |-> Sentinel, cand |-> Null, from |-> 0, buf |-> 0, left |-> 0,
         word |-> NoWord, again |-> FALSE, best |-> NoBest, empty |-> TRUE]

Init ==
  /\ TimestampInit
  /\ tickets = 1
  /\ insert = [t \in Threads |-> t]
  /\ remove = [t \in Threads |-> Word(t, 0)]
  /\ next = [x \in Nodes |-> Null]
  /\ seen = [t \in Threads |-> [u \in Threads |-> NoWord]]
  /\ gets = [t \in Threads |-> 0]
  /\ th = [t \in Threads |-> Idle]
  /\ HistoryInit

At(t, label) == th[t].pc = label
Set(t, r) == th' = [th EXCEPT ![t] = r]
Goto(t, label) == Set(t, [th[t] EXCEPT !.pc = label])

\* The items of t's list that are not taken.
Chain(x, last) ==
  LET f[y \in Nodes] == IF y = last THEN {} ELSE {next[y]} \cup f[next[y]] IN f[x]
HeldOf(t) == Chain(remove[t].item, insert[t])
Held == UNION {HeldOf(t) : t \in Threads}

Local(t) == UNCHANGED <<stamps, shared, gets>> /\ Observe(t, Held)

-----------------------------------------------------------------------------
CallEnqueue(t) ==
  /\ At(t, "idle") /\ "put" \in Calls[kind][t]
  /\ \E x \in Fresh :
       Set(t, [Idle EXCEPT !.pc = IF DTS THEN "I_stamp" ELSE "I_link",
                           !.op = "put", !.item = x])
  /\ Local(t)

CallDequeue(t) ==
  /\ At(t, "idle") /\ "get" \in Calls[kind][t] /\ gets[t] < MaxGets[kind][t]
  /\ gets' = [gets EXCEPT ![t] = @ + 1]
  /\ Set(t, [Idle EXCEPT !.pc = IF DTS THEN "ticket" ELSE "from", !.op = "get"])
  /\ UNCHANGED <<stamps, shared>> /\ Observe(t, Held)

Return(t) ==
  /\ At(t, "return")
  /\ Set(t, Idle)
  /\ Local(t)

-----------------------------------------------------------------------------
\* insert_left and insert_element: the item is added and then stamped, or, in
\* the DTS queue, stamped and then added.

StampFirst(t) ==
  /\ At(t, "I_stamp")
  /\ clock' = clock + 1
  /\ ts' = [ts EXCEPT ![th[t].item] = <<clock, clock>>]
  /\ Goto(t, "I_link")
  /\ UNCHANGED <<kind, clocks, shared, gets>> /\ Observe(t, Held)

InsertLink(t) ==
  /\ At(t, "I_link")
  /\ next' = [next EXCEPT ![insert[t]] = th[t].item]
  /\ Goto(t, "I_insert")
  /\ UNCHANGED <<stamps, tickets, insert, remove, seen, gets>> /\ Observe(t, Held)

InsertMove(t) ==
  /\ At(t, "I_insert")
  /\ insert' = [insert EXCEPT ![t] = th[t].item]
  /\ Goto(t, IF DTS THEN "return" ELSE "S_read")
  /\ UNCHANGED <<stamps, tickets, remove, next, seen, gets>> /\ Observe(t, Held')

Stamp(t) == SetTimestamp(t) /\ UNCHANGED <<shared, gets>> /\ Observe(t, Held)

-----------------------------------------------------------------------------
\* try_remove_right and try_remove_oldest.

NewRound(t, label) == [Idle EXCEPT !.pc = label, !.op = "get", !.from = th[t].from]
Got(t, x, buf) == Set(t, [Idle EXCEPT !.pc = "return", !.op = "get", !.item = x, !.buf = buf])

\* A round has a start time; a dequeue of the DTS queue has a stamp.
RemoveStart(t) ==
  /\ ReadTime(t, "from", [NewRound(t, "remove") EXCEPT !.from = TimeRead(t)])
  /\ UNCHANGED <<shared, gets>> /\ Observe(t, Held)

RemoveTicket(t) ==
  /\ At(t, "ticket")
  /\ tickets' = tickets + 1
  /\ Set(t, [NewRound(t, "remove") EXCEPT !.from = tickets])
  /\ UNCHANGED <<stamps, insert, remove, next, seen, gets>> /\ Observe(t, Held)

Before(stamp, from) == ~IsLater(stamp, <<from, from>>)

NothingTaken(t, r) ==
  IF DTS THEN NewRound(t, "remove")
  ELSE IF r.empty THEN [NewRound(t, "return") EXCEPT !.from = 0] ELSE NewRound(t, "from")

EndRound(t, r) ==
  IF r.best # NoBest /\ (DTS \/ Before(r.best.stamp, r.from))
  THEN [NewRound(t, "take") EXCEPT !.best = r.best, !.empty = r.empty]
  ELSE NothingTaken(t, r)

\* Onwards from a list.
Scanned(t, r) ==
  IF r.left = 1 THEN EndRound(t, r)
  ELSE [r EXCEPT !.pc = "remove", !.buf = (@ + 1) % NumThreads, !.left = @ - 1,
                 !.word = NoWord, !.again = FALSE, !.cand = Null, !.stamp = Sentinel]

Compared(t, r) ==
  Scanned(t, IF IsLater(r.best.stamp, r.stamp)
             THEN [r EXCEPT !.best = [item |-> r.cand, buf |-> r.buf, word |-> r.word,
                                      stamp |-> r.stamp]]
             ELSE r)

ListOf(b) == Thread[kind][b]

\* A round begins at a random list.
RemoveWord(t) ==
  /\ At(t, "remove")
  /\ \E b \in IF th[t].left = 0 THEN DOMAIN Thread[kind] ELSE {th[t].buf} :
       Set(t, [th[t] EXCEPT !.pc = "insert", !.buf = b, !.word = remove[ListOf(b)],
                            !.left = IF @ = 0 THEN NumThreads ELSE @])
  /\ Local(t)

\* An empty list counts as such if its remove pointer looked the same before.
SeenAssumed(t) == TRUE                 \* a fault: one look is enough
SeenBefore(t) == seen[t][ListOf(th[t].buf)] = th[t].word

RemoveInsert(t) ==
  /\ At(t, "insert")
  /\ LET u == ListOf(th[t].buf)  x == next[th[t].word.item] IN
     \/ /\ insert[u] = th[t].word.item /\ ~DTS
        /\ Set(t, Scanned(t, [th[t] EXCEPT !.empty = @ /\ SeenBefore(t)]))
        /\ seen' = [seen EXCEPT ![t][u] = th[t].word]
     \/ /\ insert[u] = th[t].word.item /\ DTS
        /\ Set(t, Scanned(t, th[t]))
        /\ UNCHANGED seen
     \/ /\ insert[u] # th[t].word.item /\ ~DTS
        /\ Set(t, [th[t] EXCEPT !.pc = "stamp", !.cand = x, !.empty = FALSE])
        /\ UNCHANGED seen
     \/ /\ insert[u] # th[t].word.item /\ DTS
        /\ LET r == [th[t] EXCEPT !.cand = x, !.stamp = ts[x]] IN
           Set(t, IF Before(r.stamp, r.from) /\ ~r.again THEN [r EXCEPT !.pc = "eliminate"]
                  ELSE Compared(t, r))
        /\ UNCHANGED seen
  /\ UNCHANGED <<stamps, tickets, insert, remove, next, gets>> /\ Observe(t, Held)

RemoveStamp(t) ==
  /\ At(t, "stamp")
  /\ LoadTimestamp(t, th[t].cand,
       Compared(t, [th[t] EXCEPT !.stamp = Loaded(t, th[t].cand), !.i = 0]))
  /\ Local(t)

Moved(word, x) == Word(x, NextAba(word.aba))

\* In the DTS queue, an item that has its turn is taken at once; if another was
\* faster, the list is looked at once more.
RemoveEliminate(t) ==
  /\ At(t, "eliminate")
  /\ LET r == th[t]  u == ListOf(r.buf) IN
     \/ /\ remove[u] = r.word
        /\ remove' = [remove EXCEPT ![u] = Moved(r.word, r.cand)]
        /\ Got(t, r.cand, r.buf)
     \/ /\ remove[u] # r.word
        /\ Set(t, [r EXCEPT !.pc = "remove", !.again = TRUE, !.word = NoWord,
                            !.cand = Null, !.stamp = Sentinel])
        /\ UNCHANGED remove
  /\ UNCHANGED <<stamps, tickets, insert, next, seen, gets>> /\ Observe(t, Held')

RemoveTake(t) ==
  /\ At(t, "take")
  /\ LET best == th[t].best  u == ListOf(best.buf) IN
     \/ /\ remove[u] = best.word
        /\ remove' = [remove EXCEPT ![u] = Moved(best.word, best.item)]
        /\ Got(t, best.item, best.buf)
     \/ /\ remove[u] # best.word
        /\ Set(t, NothingTaken(t, th[t]))
        /\ UNCHANGED remove
  /\ UNCHANGED <<stamps, tickets, insert, next, seen, gets>> /\ Observe(t, Held')

-----------------------------------------------------------------------------
Step(t) ==
  \/ StampFirst(t) \/ InsertLink(t) \/ InsertMove(t) \/ Stamp(t)
  \/ RemoveStart(t) \/ RemoveTicket(t) \/ RemoveWord(t) \/ RemoveInsert(t)
  \/ RemoveStamp(t) \/ RemoveEliminate(t) \/ RemoveTake(t)
  \/ Return(t)

Next == \E t \in Threads : CallEnqueue(t) \/ CallDequeue(t) \/ Step(t)

Spec == Init /\ [][Next]_vars

-----------------------------------------------------------------------------
\* Properties.

\* No item is lost or got twice.
Conserved == ConservedIn(Held)

\* A dequeue answers false only if the queue was empty at some instant of it, though
\* the lists are looked at one after the other.
EmptyIsTrue == \A t \in Threads : SaysEmpty(t) => sight[t]

\* The queue over ts_queue_buffer.h is a FIFO queue.  Of the DTS queue, only the items
\* of one thread come out in order.
InOrder ==
  \A t \in Threads :
    IF ~DTS THEN th[t].item \notin start[t].late
    ELSE At(t, "return") /\ th[t].op = "get"
         => PassedBy(t, HeldOf(ListOf(th[t].buf))) = {}
=============================================================================
