--------------------------- MODULE UnboundedKFifo ---------------------------
(***************************************************************************)
(* The k-FIFO queue of src/src/datastructures/unboundedsize_kfifo.h: a     *)
(* linked list of segments of K slots.  Items go into any free slot of the *)
(* tail segment and come out of any slot of the head segment.              *)
(*                                                                         *)
(* segs[s] is the s-th segment ever linked: segments are never reused, so  *)
(* s.next is s+1, or NULL (0) for the last one, and the tail, which never  *)
(* comes back to a segment, needs no tag.  A segment that loses the race   *)
(* to be linked is garbage and has no number.  One step reads or writes    *)
(* one shared word.                                                        *)
(***************************************************************************)
EXTENDS CallHistory, Integers, Sequences

CONSTANTS K,            \* k_
          MaxSegments,  \* bounds the segments linked
          Calls         \* the operations each thread may call

ASSUME UnboundedKFifoAssumption ==
  /\ K \in Nat \ {0} /\ MaxSegments \in Nat \ {0}
  /\ Calls \in [Threads -> SUBSET {"put", "get"}]

VARIABLES head,   \* *head_: a segment and a tag
          tail,   \* the segment of *tail_
          segs

shared == <<head, tail, segs>>
vars == <<th, shared, history>>

\* KSegment::k and what ksegment_new allocates for it.
SegmentSizeOff == K + 1                \* a fault: one slot too many
SegmentSize == K
Slots == 0 .. SegmentSize-1
kNoIndexFound == -1
Empty == [val |-> Null, aba |-> 0]
NewSegment == [items |-> [i \in Slots |-> Empty], deleted |-> FALSE]
FirstHead == [seg |-> 1, aba |-> 0]

\* The locals of a thread: head_old or head_current, tail_old, the index and
\* the number of slots left in find_index, old_item, and next_ksegment.
Idle == [pc |-> "idle", op |-> "none", item |-> Null, head |-> FirstHead, tail |-> 0,
         index |-> 0, left |-> 0, old |-> Empty, next |-> 0]

Init ==
  /\ head = FirstHead /\ tail = 1
  /\ segs = <<NewSegment>>
  /\ th = [t \in Threads |-> Idle]
  /\ HistoryInit

At(t, label) == th[t].pc = label
Goto(t, label) == th' = [th EXCEPT ![t].pc = label]
Idling(t, label) == [Idle EXCEPT !.pc = label, !.op = th[t].op, !.item = th[t].item]
Finish(t, label) == th' = [th EXCEPT ![t] = Idling(t, label)]
Next_(s) == IF s < Len(segs) THEN s + 1 ELSE 0
\* The items that a dequeue can still reach.
Held == {segs[s].items[i].val : s \in head.seg .. Len(segs), i \in Slots} \ {Null}

\* A step of t that changes no shared word.
Local(t) == UNCHANGED shared /\ Observe(t, Held)

Slot(t, s) == segs[s].items[th[t].index]
NewItem(t) == [val |-> th[t].item, aba |-> th[t].old.aba + 1]
Taken(t) == [val |-> Null, aba |-> th[t].old.aba + 1]

-----------------------------------------------------------------------------
CallEnqueue(t) ==
  /\ At(t, "idle") /\ "put" \in Calls[t]
  /\ \E x \in Fresh :
       th' = [th EXCEPT ![t] = [Idle EXCEPT !.pc = "E_tail", !.op = "put", !.item = x]]
  /\ Local(t)

CallDequeue(t) ==
  /\ At(t, "idle") /\ "get" \in Calls[t]
  /\ th' = [th EXCEPT ![t] = [Idle EXCEPT !.pc = "D_head", !.op = "get"]]
  /\ Local(t)

Return(t) ==
  /\ At(t, "return")
  /\ th' = [th EXCEPT ![t] = Idle]
  /\ Local(t)

\* find_index reads slot by slot, from a random one on, until one fits.
Scan(t, label, s, fits, nextLabel) ==
  /\ At(t, label)
  /\ th' = IF fits
           THEN [th EXCEPT ![t].pc = nextLabel, ![t].left = 0, ![t].old = Slot(t, s)]
           ELSE IF th[t].left = 1
           THEN [th EXCEPT ![t].pc = nextLabel, ![t].left = 0, ![t].index = kNoIndexFound]
           ELSE [th EXCEPT ![t].left = @ - 1, ![t].index = (@ + 1) % SegmentSize]
  /\ Local(t)

Found(t) == th[t].index # kNoIndexFound

-----------------------------------------------------------------------------
\* enqueue.  (The head word it reads is not used.)

EnqueueReadTail(t) ==
  /\ At(t, "E_tail")
  /\ \E random \in Slots :
       th' = [th EXCEPT ![t].pc = "E_scan", ![t].tail = tail,
                        ![t].index = random, ![t].left = SegmentSize]
  /\ Local(t)

EnqueueScan(t) ==
  Scan(t, "E_scan", th[t].tail, Slot(t, th[t].tail).val = Null, "E_check")

EnqueueCheck(t) ==
  /\ At(t, "E_check")
  /\ IF th[t].tail # tail THEN Finish(t, "E_tail")
     ELSE Goto(t, IF Found(t) THEN "E_cas" ELSE "T_next")
  /\ Local(t)

EnqueueCas(t) ==
  /\ At(t, "E_cas")
  /\ \/ /\ Slot(t, th[t].tail) = th[t].old
        /\ segs' = [segs EXCEPT ![th[t].tail].items[th[t].index] = NewItem(t)]
        /\ Goto(t, "C_slot")
     \/ /\ Slot(t, th[t].tail) # th[t].old
        /\ Finish(t, "E_tail")
        /\ UNCHANGED segs
  /\ UNCHANGED <<head, tail>> /\ Observe(t, Held')

\* committed: the insertion counts if the item has been taken already,
CommitTaken(t) ==
  /\ At(t, "C_slot")
  /\ IF Slot(t, th[t].tail) = NewItem(t) THEN Goto(t, "C_head") ELSE Finish(t, "return")
  /\ Local(t)

CommitReadHead(t) ==
  /\ At(t, "C_head")
  /\ th' = [th EXCEPT ![t].pc = "C_deleted", ![t].head = head]
  /\ Local(t)

\* or if its segment is neither deleted nor the head (deleted is read twice),
DeletionUnseen(t) == FALSE             \* a fault: commits into a passed segment
Deleted(t) == segs[th[t].tail].deleted

CommitDeleted(t) ==
  /\ th[t].pc \in {"C_deleted", "C_deleted_again"}
  /\ IF Deleted(t) THEN Goto(t, "C_undo")
     ELSE IF At(t, "C_deleted_again") THEN Finish(t, "return")
     ELSE Goto(t, IF th[t].tail = th[t].head.seg THEN "C_bump" ELSE "C_deleted_again")
  /\ Local(t)

\* or if its segment still is the head, which every dequeue must learn.
CommitBumpHead(t) ==
  /\ At(t, "C_bump")
  /\ \/ head = th[t].head /\ head' = [head EXCEPT !.aba = @ + 1] /\ Finish(t, "return")
     \/ head # th[t].head /\ UNCHANGED head /\ Goto(t, "C_undo")
  /\ UNCHANGED <<tail, segs>> /\ Observe(t, Held')

\* Otherwise it is undone (the tag starts over), unless somebody took the item.
CommitUndo(t) ==
  /\ At(t, "C_undo")
  /\ \/ /\ Slot(t, th[t].tail) = NewItem(t)
        /\ segs' = [segs EXCEPT ![th[t].tail].items[th[t].index] = Empty]
        /\ Finish(t, "E_tail")
     \/ /\ Slot(t, th[t].tail) # NewItem(t)
        /\ Finish(t, "return")
        /\ UNCHANGED segs
  /\ UNCHANGED <<head, tail>> /\ Observe(t, Held')

-----------------------------------------------------------------------------
\* advance_tail, after which an enqueue starts over and a dequeue goes on.  (Its
\* first comparison with the tail is implied by its second.)

AfterTail(t) == IF th[t].op = "put" THEN Finish(t, "E_tail")
                ELSE th' = [th EXCEPT ![t].pc = "D_cas", ![t].tail = 0, ![t].next = 0]

TailReadNext(t) ==
  /\ At(t, "T_next")
  /\ th' = [th EXCEPT ![t].pc = "T_check", ![t].next = Next_(th[t].tail)]
  /\ Local(t)

TailCheck(t) ==
  /\ At(t, "T_check")
  /\ IF th[t].tail # tail THEN AfterTail(t)
     ELSE Goto(t, IF th[t].next # 0 THEN "T_swing" ELSE "T_link")
  /\ Local(t)

TailLink(t) ==
  /\ At(t, "T_link")
  /\ \/ /\ Next_(th[t].tail) = 0 /\ Len(segs) < MaxSegments
        /\ segs' = Append(segs, NewSegment)
        /\ th' = [th EXCEPT ![t].pc = "T_swing", ![t].next = Len(segs) + 1]
     \/ /\ Next_(th[t].tail) # 0
        /\ AfterTail(t)
        /\ UNCHANGED segs
  /\ UNCHANGED <<head, tail>> /\ Observe(t, Held')

SwungTailBlind(t) == th[t].next        \* a fault: a store instead of a CAS
SwungTail(t) == IF tail = th[t].tail THEN th[t].next ELSE tail

TailSwing(t) ==
  /\ At(t, "T_swing")
  /\ tail' = SwungTail(t)
  /\ AfterTail(t)
  /\ UNCHANGED <<head, segs>> /\ Observe(t, Held')

-----------------------------------------------------------------------------
\* dequeue

DequeueReadHead(t) ==
  /\ At(t, "D_head")
  /\ \E random \in Slots :
       th' = [th EXCEPT ![t].pc = "D_scan", ![t].head = head,
                        ![t].index = random, ![t].left = SegmentSize]
  /\ Local(t)

DequeueScan(t) ==
  Scan(t, "D_scan", th[t].head.seg, Slot(t, th[t].head.seg).val # Null, "D_tail")

DequeueReadTail(t) ==
  /\ At(t, "D_tail")
  /\ th' = [th EXCEPT ![t].pc = "D_check", ![t].tail = tail]
  /\ Local(t)

HeadUnchanged(t) == head = th[t].head

LastSegmentAssumed(t) == TRUE          \* a fault: "empty" from any segment
LastSegment(t) == th[t].head.seg = th[t].tail

DequeueCheck(t) ==
  /\ At(t, "D_check")
  /\ IF ~HeadUnchanged(t) THEN Finish(t, "D_head")
     ELSE IF Found(t) THEN Goto(t, IF LastSegment(t) THEN "T_next" ELSE "D_cas")
     ELSE IF LastSegment(t) THEN Finish(t, "return") ELSE Goto(t, "H_next")
  /\ Local(t)

DequeueCas(t) ==
  /\ At(t, "D_cas")
  /\ \/ /\ Slot(t, th[t].head.seg) = th[t].old
        /\ segs' = [segs EXCEPT ![th[t].head.seg].items[th[t].index] = Taken(t)]
        /\ th' = [th EXCEPT ![t] = [Idling(t, "return") EXCEPT !.item = th[t].old.val]]
     \/ /\ Slot(t, th[t].head.seg) # th[t].old
        /\ Finish(t, "D_head")
        /\ UNCHANGED segs
  /\ UNCHANGED <<head, tail>> /\ Observe(t, Held')

\* advance_head.  (Its first comparison with the head is implied by its second.
\* It also looks whether head and tail are one segment, which ListSound shows
\* they are not: its caller saw a tail beyond this head.)
HeadReadNext(t) ==
  /\ At(t, "H_next")
  /\ th' = [th EXCEPT ![t].pc = "H_check", ![t].next = Next_(th[t].head.seg)]
  /\ Local(t)

HeadCheck(t) ==
  /\ At(t, "H_check")
  /\ IF HeadUnchanged(t) THEN Goto(t, "H_delete") ELSE Finish(t, "D_head")
  /\ Local(t)

HeadDelete(t) ==
  /\ At(t, "H_delete")
  /\ segs' = [segs EXCEPT ![th[t].head.seg].deleted = TRUE]
  /\ Goto(t, "H_cas")
  /\ UNCHANGED <<head, tail>> /\ Observe(t, Held')

HeadCas(t) ==
  /\ At(t, "H_cas")
  /\ head' = IF HeadUnchanged(t)
             THEN [seg |-> th[t].next, aba |-> th[t].head.aba + 1] ELSE head
  /\ Finish(t, "D_head")
  /\ UNCHANGED <<tail, segs>> /\ Observe(t, Held')

-----------------------------------------------------------------------------
Step(t) ==
  \/ EnqueueReadTail(t) \/ EnqueueScan(t) \/ EnqueueCheck(t) \/ EnqueueCas(t)
  \/ CommitTaken(t) \/ CommitReadHead(t) \/ CommitDeleted(t) \/ CommitBumpHead(t)
  \/ CommitUndo(t)
  \/ TailReadNext(t) \/ TailCheck(t) \/ TailLink(t) \/ TailSwing(t)
  \/ DequeueReadHead(t) \/ DequeueScan(t) \/ DequeueReadTail(t) \/ DequeueCheck(t)
  \/ DequeueCas(t)
  \/ HeadReadNext(t) \/ HeadCheck(t) \/ HeadDelete(t) \/ HeadCas(t)
  \/ Return(t)

Next == \E t \in Threads : CallEnqueue(t) \/ CallDequeue(t) \/ Step(t)

Spec == Init /\ [][Next]_vars

-----------------------------------------------------------------------------
\* Properties.

\* The head never passes the tail, not even by an advance_head that comes late,
\* and every segment it has passed is marked deleted; slots hold items.
ListSound ==
  /\ 1 <= head.seg /\ head.seg <= tail /\ tail <= Len(segs)
  /\ Len(segs) <= tail + 1
  /\ \A s \in 1 .. head.seg-1 : segs[s].deleted
  /\ \A t \in Threads :
       th[t].pc \in {"H_next", "H_check", "H_delete", "H_cas"} => th[t].head.seg < tail
  /\ \A s \in 1 .. Len(segs), i \in Slots : segs[s].items[i].val \in Items \cup {Null}

\* No item is lost with the segment it was put in, or handed out twice.
Conserved == ConservedIn(Held)

\* A dequeue answers "empty" only if, at some instant of it, every item whose
\* enqueue had returned was gone.
EmptyIsTrue == \A t \in Threads : SaysEmpty(t) => sight[t]

\* k-FIFO: an item passes by fewer than k items whose enqueue had returned
\* before its own began.
KOutOfOrder ==
  \A t \in Threads : At(t, "return") /\ th[t].op = "get" /\ th[t].item # Null =>
    Cardinality(PassedBy(t, Held)) < K
=============================================================================
