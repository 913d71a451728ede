---------------------------- MODULE BoundedKFifo ----------------------------
(***************************************************************************)
(* The k-FIFO queue of src/src/datastructures/boundedsize_kfifo.h: a ring  *)
(* of K * NumSegments slots, of which enqueues fill the K from the tail on *)
(* and dequeues empty the K from the head on.                              *)
(*                                                                         *)
(* head and tail are advanced by K and never reduced: the program only     *)
(* reduces them where it indexes a slot, and where queue_full compares     *)
(* them.  One step reads or writes one shared word.                        *)
(***************************************************************************)
EXTENDS CallHistory, Integers

CONSTANTS K, NumSegments,
          MaxHead, MaxTail,  \* bound how far head and tail are advanced
          Calls              \* the operations each thread may call

ASSUME BoundedKFifoAssumption ==
  /\ K \in Nat \ {0} /\ NumSegments \in Nat \ {0}
  /\ MaxHead \in Nat /\ MaxTail \in Nat
  /\ Calls \in [Threads -> SUBSET {"put", "get"}]

VARIABLES head, tail,  \* *head_ and *tail_: a position and a tag
          queue        \* queue_: the slots, each an item and a tag

shared == <<head, tail, queue>>
vars == <<th, shared, history>>

QueueSize == K * NumSegments
kNoIndexFound == -1
Word(v, a) == [val |-> v, aba |-> a]
Empty == Word(Null, 0)
Start == Word(0, 0)

\* The locals of a thread: head_old (head_current in committed) and tail_old,
\* the index and the number of slots left in find_index, and old_item.
Idle == [pc |-> "idle", op |-> "none", item |-> Null, head |-> Start, tail |-> Start,
         index |-> 0, left |-> 0, old |-> Empty]

Init ==
  /\ head = Start /\ tail = Start
  /\ queue = [i \in 0 .. QueueSize-1 |-> Empty]
  /\ th = [t \in Threads |-> Idle]
  /\ HistoryInit

At(t, label) == th[t].pc = label
Goto(t, label) == th' = [th EXCEPT ![t].pc = label]
Idling(t, label) == [Idle EXCEPT !.pc = label, !.op = th[t].op, !.item = th[t].item]
Finish(t, label) == th' = [th EXCEPT ![t] = Idling(t, label)]

\* The items between head and tail.
Held == {queue[p % QueueSize].val : p \in head.val .. tail.val + K-1} \ {Null}

\* A step of t that changes no shared word.
Local(t) == UNCHANGED shared /\ Observe(t, Held)

Found(t) == th[t].index # kNoIndexFound
Index(t, v) == (v + th[t].index) % QueueSize
NewItem(t) == Word(th[t].item, th[t].old.aba + 1)
HeadUnchanged(t) == head = th[t].head
Advanced(w) == Word(w.val + K, w.aba + 1)

\* compare-and-swap of a slot, of the head and of the tail; they may fail.
AdvanceHead(t) ==
  /\ HeadUnchanged(t) => head.val + K <= MaxHead
  /\ head' = IF HeadUnchanged(t) THEN Advanced(head) ELSE head

AdvanceTail(t) ==
  /\ tail = th[t].tail => tail.val + K <= MaxTail
  /\ tail' = IF tail = th[t].tail THEN Advanced(tail) ELSE tail

-----------------------------------------------------------------------------
CallEnqueue(t) ==
  /\ At(t, "idle") /\ "put" \in Calls[t]
  /\ \E x \in Fresh :
       th' = [th EXCEPT ![t] = [Idle EXCEPT !.pc = "E_tail", !.op = "put", !.item = x]]
  /\ Local(t)

CallDequeue(t) ==
  /\ At(t, "idle") /\ "get" \in Calls[t]
  /\ th' = [th EXCEPT ![t] = [Idle EXCEPT !.pc = "D_head", !.op = "get"]]
  /\ Local(t)

Return(t) ==
  /\ At(t, "return")
  /\ th' = [th EXCEPT ![t] = Idle]
  /\ Local(t)

\* find_index and segment_not_empty read slot by slot (the former from a random
\* one on) until one fits.
Slot(t, v) == queue[Index(t, v)]

Scan(t, label, v, fits, nextLabel) ==
  /\ At(t, label)
  /\ th' = IF fits
           THEN [th EXCEPT ![t].pc = nextLabel, ![t].left = 0, ![t].old = Slot(t, v)]
           ELSE IF th[t].left = 1
           THEN [th EXCEPT ![t].pc = nextLabel, ![t].left = 0, ![t].index = kNoIndexFound]
           ELSE [th EXCEPT ![t].left = @ - 1, ![t].index = (@ + 1) % K]
  /\ Local(t)

Free(t, v) == Slot(t, v).val = Null
Occupied(t, v) == Slot(t, v).val # Null

-----------------------------------------------------------------------------
\* enqueue

EnqueueReadTail(t) ==
  /\ At(t, "E_tail")
  /\ th' = [th EXCEPT ![t].pc = "E_head", ![t].tail = tail]
  /\ Local(t)

EnqueueReadHead(t) ==
  /\ At(t, "E_head")
  /\ \E random \in 0 .. K-1 :
       th' = [th EXCEPT ![t].pc = "E_scan", ![t].head = head,
                        ![t].index = random, ![t].left = K]
  /\ Local(t)

EnqueueScan(t) ==
  Scan(t, "E_scan", th[t].tail.val, Free(t, th[t].tail.val), "E_check")

EnqueueCheck(t) ==
  /\ At(t, "E_check")
  /\ IF tail # th[t].tail THEN Finish(t, "E_tail")
     ELSE Goto(t, IF Found(t) THEN "E_cas" ELSE "E_full")
  /\ Local(t)

EnqueueCas(t) ==
  /\ At(t, "E_cas")
  /\ LET i == Index(t, th[t].tail.val) IN
     \/ /\ queue[i] = th[t].old
        /\ queue' = [queue EXCEPT ![i] = NewItem(t)]
        /\ Goto(t, "C_slot")
     \/ /\ queue[i] # th[t].old
        /\ UNCHANGED queue
        /\ Finish(t, "E_tail")
  /\ UNCHANGED <<head, tail>> /\ Observe(t, Held')

\* queue_full, which looks at the head again.
FullTest(t) == (th[t].tail.val + K) % QueueSize = th[t].head.val

EnqueueFull(t) ==
  /\ At(t, "E_full")
  /\ th' = IF th[t].head.val = head.val /\ FullTest(t)
           THEN [th EXCEPT ![t].pc = "E_segment", ![t].index = 0, ![t].left = K]
           ELSE [th EXCEPT ![t].pc = "E_advance_tail"]
  /\ Local(t)

\* segment_not_empty
EnqueueScanHead(t) ==
  Scan(t, "E_segment", th[t].head.val, Occupied(t, th[t].head.val), "E_give_up")

\* Full: give up, unless the head segment is empty or has been passed.
EnqueueGiveUp(t) ==
  /\ At(t, "E_give_up")
  /\ th' = IF Found(t) /\ th[t].head.val = head.val
           THEN [th EXCEPT ![t] = [Idling(t, "return") EXCEPT !.item = Null]]
           ELSE [th EXCEPT ![t].pc = "E_advance_head"]
  /\ Local(t)

EnqueueAdvanceHead(t) ==
  /\ At(t, "E_advance_head")
  /\ AdvanceHead(t)
  /\ Goto(t, "E_advance_tail")
  /\ UNCHANGED <<tail, queue>> /\ Observe(t, Held')

EnqueueAdvanceTail(t) ==
  /\ At(t, "E_advance_tail")
  /\ AdvanceTail(t)
  /\ Finish(t, "E_tail")
  /\ UNCHANGED <<head, queue>> /\ Observe(t, Held')

\* committed: the insertion counts if the item has been taken already,
CommitTaken(t) ==
  /\ At(t, "C_slot")
  /\ IF Slot(t, th[t].tail.val).val = th[t].item
     THEN Goto(t, "C_tail") ELSE Finish(t, "return")
  /\ Local(t)

\* or if it is behind the head and not beyond the tail (the tail that
\* tail_current is read into is kept in left),
CommitReadTail(t) ==
  /\ At(t, "C_tail")
  /\ th' = [th EXCEPT ![t].pc = "C_head", ![t].left = tail.val]
  /\ Local(t)

InOrAtHead(old, cur, hd) == hd <= old /\ old <= cur  \* a fault: the head counts
InValidRegion(old, cur, hd) ==
  IF cur < hd THEN hd < old \/ old <= cur ELSE hd < old /\ old <= cur
NotInValidRegion(old, cur, hd) ==
  IF cur < hd THEN old < cur /\ hd < old ELSE old < cur \/ hd < old

CommitReadHead(t) ==
  /\ At(t, "C_head")
  /\ LET old == th[t].tail.val cur == th[t].left IN
     IF InValidRegion(old, cur, head.val) THEN Finish(t, "return")
     ELSE th' = [th EXCEPT ![t].left = 0, ![t].head = head,
                   ![t].pc = IF NotInValidRegion(old, cur, head.val)
                             THEN "C_undo" ELSE "C_bump"]
  /\ Local(t)

\* or if its segment still is the head, which every dequeue must learn.
CommitBumpHead(t) ==
  /\ At(t, "C_bump")
  /\ \/ HeadUnchanged(t) /\ head' = [head EXCEPT !.aba = @ + 1] /\ Finish(t, "return")
     \/ ~HeadUnchanged(t) /\ UNCHANGED head /\ Goto(t, "C_undo")
  /\ UNCHANGED <<tail, queue>> /\ Observe(t, Held')

\* Otherwise it is undone, unless somebody took the item.
CommitUndo(t) ==
  /\ At(t, "C_undo")
  /\ LET i == Index(t, th[t].tail.val) IN
     \/ /\ queue[i] = NewItem(t)
        /\ queue' = [queue EXCEPT ![i] = Word(Null, NewItem(t).aba + 1)]
        /\ Finish(t, "E_tail")
     \/ /\ queue[i] # NewItem(t)
        /\ UNCHANGED queue
        /\ Finish(t, "return")
  /\ UNCHANGED <<head, tail>> /\ Observe(t, Held')

-----------------------------------------------------------------------------
\* dequeue

DequeueReadHead(t) ==
  /\ At(t, "D_head")
  /\ th' = [th EXCEPT ![t].pc = "D_tail", ![t].head = head]
  /\ Local(t)

DequeueReadTail(t) ==
  /\ At(t, "D_tail")
  /\ \E random \in 0 .. K-1 :
       th' = [th EXCEPT ![t].pc = "D_scan", ![t].tail = tail,
                        ![t].index = random, ![t].left = K]
  /\ Local(t)

WrongEnd(t) == th[t].tail.val          \* a fault: looks in the tail segment
DequeueEnd(t) == th[t].head.val

DequeueScan(t) ==
  Scan(t, "D_scan", DequeueEnd(t), Occupied(t, DequeueEnd(t)), "D_check")

LastSegmentAssumed(t) == TRUE          \* a fault: "empty" from any segment
LastSegment(t) == th[t].head.val = th[t].tail.val

DequeueCheck(t) ==
  /\ At(t, "D_check")
  /\ IF ~HeadUnchanged(t) THEN Finish(t, "D_head")
     ELSE Goto(t, IF Found(t)
                  THEN IF LastSegment(t) THEN "D_advance_tail" ELSE "D_cas"
                  ELSE IF LastSegment(t) THEN "D_empty" ELSE "D_advance_head")
  /\ Local(t)

DequeueAdvanceTail(t) ==
  /\ At(t, "D_advance_tail")
  /\ AdvanceTail(t)
  /\ Goto(t, "D_cas")
  /\ UNCHANGED <<head, queue>> /\ Observe(t, Held')

DequeueCas(t) ==
  /\ At(t, "D_cas")
  /\ LET i == Index(t, DequeueEnd(t)) IN
     \/ /\ queue[i] = th[t].old
        /\ queue' = [queue EXCEPT ![i] = Word(Null, th[t].old.aba + 1)]
        /\ th' = [th EXCEPT ![t] = [Idling(t, "return") EXCEPT !.item = th[t].old.val]]
     \/ /\ queue[i] # th[t].old
        /\ UNCHANGED queue
        /\ Finish(t, "D_head")
  /\ UNCHANGED <<head, tail>> /\ Observe(t, Held')

\* Nothing found in the last segment: empty, if it still is the last one.
DequeueEmpty(t) ==
  /\ At(t, "D_empty")
  /\ IF tail.val = th[t].tail.val THEN Finish(t, "return") ELSE Goto(t, "D_advance_head")
  /\ Local(t)

DequeueAdvanceHead(t) ==
  /\ At(t, "D_advance_head")
  /\ AdvanceHead(t)
  /\ Finish(t, "D_head")
  /\ UNCHANGED <<tail, queue>> /\ Observe(t, Held')

-----------------------------------------------------------------------------
Step(t) ==
  \/ EnqueueReadTail(t) \/ EnqueueReadHead(t) \/ EnqueueScan(t) \/ EnqueueCheck(t)
  \/ EnqueueCas(t) \/ EnqueueFull(t) \/ EnqueueScanHead(t) \/ EnqueueGiveUp(t)
  \/ EnqueueAdvanceHead(t) \/ EnqueueAdvanceTail(t)
  \/ CommitTaken(t) \/ CommitReadTail(t) \/ CommitReadHead(t) \/ CommitBumpHead(t)
  \/ CommitUndo(t)
  \/ DequeueReadHead(t) \/ DequeueReadTail(t) \/ DequeueScan(t) \/ DequeueCheck(t)
  \/ DequeueAdvanceTail(t) \/ DequeueCas(t) \/ DequeueEmpty(t) \/ DequeueAdvanceHead(t)
  \/ Return(t)

Next == \E t \in Threads : CallEnqueue(t) \/ CallDequeue(t) \/ Step(t)

Spec == Init /\ [][Next]_vars

-----------------------------------------------------------------------------
\* Two races that the program loses (README, section 5), excluded by name in what
\* follows.  The head passes the tail that committed has read before it reads the
\* head, and the insertion is taken for one before the ring's end; a commit raises
\* the tag of the head, so that an enqueue to a full queue cannot advance the head,
\* and goes on to advance the tail.
TailOvertaken(t) == At(t, "C_head") /\ th[t].left < head.val
HeadContested(t) ==
  /\ At(t, "E_advance_head") /\ tail = th[t].tail
  /\ head # th[t].head /\ head.val = th[t].head.val

Undisturbed == \A t \in Threads : ~TailOvertaken(t) /\ ~HeadContested(t)

-----------------------------------------------------------------------------
\* What queue_full is there for: the tail laps the head never, nor the head the tail, so
\* that each of the NumSegments segments is at one place in the queue.  The program does
\* not keep to it (README, section 5): an enqueue advances the tail though its advance of
\* the head failed (HeadContested), and no queue is found full in the head's second lap.
WithinRing == head.val <= tail.val /\ tail.val - head.val < QueueSize

\* Properties of behaviours that are Undisturbed and have not gone round the ring.

\* No item is lost in a segment the head has passed, or handed out twice.
Conserved == ConservedIn(Held)

\* A dequeue answers "empty" only if, at some instant of it, every item whose
\* enqueue had returned was gone.
EmptyIsTrue == \A t \in Threads : SaysEmpty(t) => sight[t]

\* k-FIFO: an item passes by fewer than k items whose enqueue had returned
\* before its own began.
KOutOfOrder ==
  \A t \in Threads : At(t, "return") /\ th[t].op = "get" /\ th[t].item # Null =>
    Cardinality(PassedBy(t, Held)) < K
=============================================================================
