------------------------------- MODULE KStack -------------------------------
(***************************************************************************)
(* The k-stack of src/src/datastructures/kstack.h: a stack of segments of  *)
(* K slots.  Items are pushed to any free slot of the top segment, and     *)
(* popped from any slot of it.                                             *)
(*                                                                         *)
(* segs[s] is the s-th segment ever put on top: segments are not reused,   *)
(* so a top word <<segment, tag>> never comes back, and a comparison with  *)
(* it that a compare-and-swap repeats, or that only guards a read of the   *)
(* top's segment, is not a step of its own.  One step reads or writes one  *)
(* shared word.                                                            *)
(***************************************************************************)
EXTENDS CallHistory, Integers, Sequences

CONSTANTS K,            \* k_
          MaxSegments,  \* bounds the segments put on top
          Reload,       \* whether the build loads remove twice in committed
          Calls         \* the operations each thread may call

ASSUME KStackAssumption ==
  /\ K \in Nat \ {0} /\ MaxSegments \in Nat \ {0} /\ Reload \in BOOLEAN
  /\ Calls \in [Threads -> SUBSET {"put", "get"}]

VARIABLES top,  \* *top_: a segment and a tag
          segs

shared == <<top, segs>>
vars == <<th, shared, history>>

SegmentSizeOff == K + 1                \* a fault: one slot too many
SegmentSize == K
Slots == 0 .. SegmentSize-1
kNoIndexFound == -1
Word(v, a) == [val |-> v, aba |-> a]
Empty == Word(Null, 0)
NewSegment(next) == [items |-> [i \in Slots |-> Empty], remove |-> 0, next |-> next]
FirstTop == [seg |-> 1, aba |-> 0]

\* The locals of a thread: top_old, the index and the number of slots left in a
\* loop over them, item_old, the segment whose slot pop swaps, and the thread's
\* item_records_.
Idle == [pc |-> "idle", op |-> "none", item |-> Null, top |-> FirstTop,
         index |-> 0, left |-> 0, old |-> Empty, seg |-> 0,
         rec |-> [i \in Slots |-> Empty]]

Init ==
  /\ top = FirstTop
  /\ segs = <<NewSegment(0)>>
  /\ th = [t \in Threads |-> Idle]
  /\ HistoryInit

At(t, label) == th[t].pc = label
Goto(t, label) == th' = [th EXCEPT ![t].pc = label]
Idling(t, label) == [Idle EXCEPT !.pc = label, !.op = th[t].op, !.item = th[t].item]
Finish(t, label) == th' = [th EXCEPT ![t] = Idling(t, label)]

\* The items in the segments from the top down: in those that are in every set that
\* has the top and, with each segment, the one below it.
Downward(S) == top.seg \in S /\ \A s \in S : segs[s].next \in S \cup {0}
Below == {s \in 1 .. Len(segs) : \A S \in SUBSET (1 .. Len(segs)) : Downward(S) => s \in S}
Held == {segs[s].items[i].val : s \in Below, i \in Slots} \ {Null}

\* A step of t that changes no shared word.
Local(t) == UNCHANGED shared /\ Observe(t, Held)

Found(t) == th[t].index # kNoIndexFound
TopUnchanged(t) == top = th[t].top
Slot(t) == segs[th[t].top.seg].items[th[t].index]
NewItem(t) == Word(th[t].item, th[t].old.aba + 1)

-----------------------------------------------------------------------------
CallPush(t) ==
  /\ At(t, "idle") /\ "put" \in Calls[t]
  /\ \E x \in Fresh :
       th' = [th EXCEPT ![t] = [Idle EXCEPT !.pc = "top", !.op = "put", !.item = x]]
  /\ Local(t)

CallPop(t) ==
  /\ At(t, "idle") /\ "get" \in Calls[t]
  /\ th' = [th EXCEPT ![t] = [Idle EXCEPT !.pc = "top", !.op = "get"]]
  /\ Local(t)

Return(t) ==
  /\ At(t, "return")
  /\ th' = [th EXCEPT ![t] = Idle]
  /\ Local(t)

\* Every round of push and pop begins with the top, and find_index: slot by slot,
\* from a random one on, until one is free (push) or occupied (pop).
ReadTop(t) ==
  /\ At(t, "top")
  /\ \E random \in Slots :
       th' = [th EXCEPT ![t].pc = "scan", ![t].top = top,
                        ![t].index = random, ![t].left = SegmentSize]
  /\ Local(t)

Fits(t) == (Slot(t).val = Null) <=> (th[t].op = "put")

Scan(t) ==
  /\ At(t, "scan")
  /\ th' = IF Fits(t)
           THEN [th EXCEPT ![t].pc = "check", ![t].left = 0, ![t].old = Slot(t)]
           ELSE IF th[t].left = 1
           THEN [th EXCEPT ![t].pc = "check", ![t].left = 0, ![t].index = kNoIndexFound]
           ELSE [th EXCEPT ![t].left = @ - 1, ![t].index = (@ + 1) % SegmentSize]
  /\ Local(t)

\* Where a round goes on if the top is still the same.
Proceed(t) ==
  IF th[t].op = "put" THEN IF Found(t) THEN "P_cas" ELSE "P_add"
  ELSE IF Found(t) THEN "O_segment"
  ELSE IF segs[th[t].top.seg].next = 0 THEN "is_empty" ELSE "R_check"

Check(t) ==
  /\ At(t, "check")
  /\ IF TopUnchanged(t) THEN Goto(t, Proceed(t)) ELSE Finish(t, "top")
  /\ Local(t)

-----------------------------------------------------------------------------
\* push

PushCas(t) ==
  /\ At(t, "P_cas")
  /\ \/ /\ Slot(t) = th[t].old
        /\ segs' = [segs EXCEPT ![th[t].top.seg].items[th[t].index] = NewItem(t)]
        /\ Goto(t, "C_slot")
     \/ /\ Slot(t) # th[t].old
        /\ UNCHANGED segs
        /\ Finish(t, "top")
  /\ UNCHANGED top /\ Observe(t, Held')

\* try_add_new_ksegment: the new top keeps the tag.
TryAdd(t) ==
  /\ At(t, "P_add")
  /\ \/ /\ TopUnchanged(t) /\ Len(segs) < MaxSegments
        /\ segs' = Append(segs, NewSegment(top.seg))
        /\ top' = [top EXCEPT !.seg = Len(segs) + 1]
     \/ ~TopUnchanged(t) /\ UNCHANGED shared
  /\ Finish(t, "top")
  /\ Observe(t, Held')

\* committed: the push counts if the item has been popped already,
CommitTaken(t) ==
  /\ At(t, "C_slot")
  /\ IF Slot(t) = NewItem(t) THEN Goto(t, "C_remove") ELSE Finish(t, "return")
  /\ Local(t)

\* or if nobody is about to remove the segment, (An unoptimized build loads the
\* count again, and if it finds 0 now leaves the item in and pushes it again.)
RemovalIgnored(t) == FALSE             \* a fault: remove is not looked at
Removal(t) == segs[th[t].top.seg].remove # 0

CommitRemove(t) ==
  /\ th[t].pc \in {"C_remove", "C_remove_again"}
  /\ IF Removal(t) THEN Goto(t, IF Reload /\ At(t, "C_remove") THEN "C_remove_again" ELSE "C_top")
     ELSE Finish(t, IF At(t, "C_remove") THEN "return" ELSE "top")
  /\ Local(t)

CommitReadTop(t) ==
  /\ At(t, "C_top")
  /\ Goto(t, IF TopUnchanged(t) THEN "C_bump" ELSE "C_undo")
  /\ Local(t)

\* or if its segment still is the top, which every remover must learn.
CommitBumpTop(t) ==
  /\ At(t, "C_bump")
  /\ \/ TopUnchanged(t) /\ top' = [top EXCEPT !.aba = @ + 1] /\ Finish(t, "return")
     \/ ~TopUnchanged(t) /\ UNCHANGED top /\ Goto(t, "C_undo")
  /\ UNCHANGED segs /\ Observe(t, Held')

\* Otherwise it is undone, unless somebody popped the item.
CommitUndo(t) ==
  /\ At(t, "C_undo")
  /\ \/ /\ Slot(t) = NewItem(t)
        /\ segs' = [segs EXCEPT ![th[t].top.seg].items[th[t].index] =
                      Word(Null, NewItem(t).aba + 1)]
        /\ Finish(t, "top")
     \/ /\ Slot(t) # NewItem(t)
        /\ UNCHANGED segs
        /\ Finish(t, "return")
  /\ UNCHANGED top /\ Observe(t, Held')

-----------------------------------------------------------------------------
\* pop

\* The slot is swapped in what is the top segment by then.
PopReadSegment(t) ==
  /\ At(t, "O_segment")
  /\ th' = [th EXCEPT ![t].pc = "O_cas", ![t].seg = top.seg]
  /\ Local(t)

PopCas(t) ==
  /\ At(t, "O_cas")
  /\ LET s == th[t].seg i == th[t].index IN
     \/ /\ segs[s].items[i] = th[t].old
        /\ segs' = [segs EXCEPT ![s].items[i] = Word(Null, th[t].old.aba + 1)]
        /\ th' = [th EXCEPT ![t] = [Idling(t, "return") EXCEPT !.item = th[t].old.val]]
     \/ /\ segs[s].items[i] # th[t].old
        /\ UNCHANGED segs
        /\ Finish(t, "top")
  /\ UNCHANGED top /\ Observe(t, Held')

\* try_remove_ksegment, up to is_empty.
TryRemoveCheck(t) ==
  /\ At(t, "R_check")
  /\ IF TopUnchanged(t) THEN Goto(t, "R_inc") ELSE Finish(t, "top")
  /\ Local(t)

TryRemoveInc(t) ==
  /\ At(t, "R_inc")
  /\ segs' = [segs EXCEPT ![th[t].top.seg].remove = @ + 1]
  /\ Goto(t, "is_empty")
  /\ UNCHANGED top /\ Observe(t, Held')

\* is_empty: record every slot, from a random one on, then compare.
LastOne(t) == segs[th[t].top.seg].next = 0
NotEmpty(t) == IF LastOne(t) THEN Finish(t, "top") ELSE Goto(t, "R_dec")

IsEmpty(t) ==
  /\ At(t, "is_empty")
  /\ \E random \in Slots :
       th' = [th EXCEPT ![t].pc = "record", ![t].index = random, ![t].left = SegmentSize]
  /\ Local(t)

NextSlot(t, last) ==
  [th[t] EXCEPT !.index = (@ + 1) % SegmentSize, !.left = IF @ = 1 THEN SegmentSize ELSE @ - 1,
                !.pc = IF th[t].left = 1 THEN last ELSE @]

IsEmptyRecord(t) ==
  /\ At(t, "record")
  /\ IF Slot(t).val # Null THEN NotEmpty(t)
     ELSE th' = [th EXCEPT ![t] = [NextSlot(t, "compare") EXCEPT
                                     !.rec[th[t].index] = Slot(t)]]
  /\ Local(t)

RecordAssumed(t) == TRUE               \* a fault: a single pass over the slots
SameAsRecord(t) == Slot(t) = th[t].rec[th[t].index]

IsEmptyCompare(t) ==
  /\ At(t, "compare")
  /\ IF SameAsRecord(t)
     THEN th' = [th EXCEPT ![t] = NextSlot(t, IF LastOne(t) THEN "O_empty" ELSE "R_cas")]
     ELSE NotEmpty(t)
  /\ Local(t)

\* The last segment was empty: so is the stack, if this still is the top.
PopEmpty(t) ==
  /\ At(t, "O_empty")
  /\ Finish(t, IF TopUnchanged(t) THEN "return" ELSE "top")
  /\ Local(t)

\* The rest of try_remove_ksegment: what is removed keeps its count.
RemovedAndOn(t) == Goto(t, "R_dec")    \* a fault: the count is taken back
Removed(t) == Finish(t, "top")

TryRemoveCas(t) ==
  /\ At(t, "R_cas")
  /\ \/ /\ TopUnchanged(t)
        /\ top' = [seg |-> segs[top.seg].next, aba |-> top.aba + 1]
        /\ Removed(t)
     \/ ~TopUnchanged(t) /\ UNCHANGED top /\ Goto(t, "R_dec")
  /\ UNCHANGED segs /\ Observe(t, Held')

TryRemoveDec(t) ==
  /\ At(t, "R_dec")
  /\ segs' = [segs EXCEPT ![th[t].top.seg].remove = @ - 1]
  /\ Finish(t, "top")
  /\ UNCHANGED top /\ Observe(t, Held')

-----------------------------------------------------------------------------
Step(t) ==
  \/ ReadTop(t) \/ Scan(t) \/ Check(t)
  \/ PushCas(t) \/ TryAdd(t)
  \/ CommitTaken(t) \/ CommitRemove(t) \/ CommitReadTop(t) \/ CommitBumpTop(t)
  \/ CommitUndo(t)
  \/ PopReadSegment(t) \/ PopCas(t) \/ PopEmpty(t)
  \/ IsEmpty(t) \/ IsEmptyRecord(t) \/ IsEmptyCompare(t)
  \/ TryRemoveCheck(t) \/ TryRemoveInc(t) \/ TryRemoveCas(t) \/ TryRemoveDec(t)
  \/ Return(t)

Next == \E t \in Threads : CallPush(t) \/ CallPop(t) \/ Step(t)

Spec == Init /\ [][Next]_vars

-----------------------------------------------------------------------------
\* Properties.

\* The counter of a segment is the number of threads in the middle of removing
\* it, and one more once it is gone: a push to a live segment that sees 0 can
\* rely on nobody having started, and no segment is removed twice.
Removing(s) == {t \in Threads : /\ th[t].pc \in {"R_cas", "R_dec", "record", "compare", "is_empty"}
                                /\ th[t].top.seg = s /\ segs[s].next # 0}
RemoveCounts ==
  \A s \in 1 .. Len(segs) :
    segs[s].remove = Cardinality(Removing(s)) + (IF s \in Below THEN 0 ELSE 1)

\* No item is lost in a removed segment, and none is popped twice.
Conserved == ConservedIn(Held)

\* A pop answers "empty" only if, at some instant of it, every item whose push
\* had returned was gone.
EmptyIsTrue == \A t \in Threads : SaysEmpty(t) => sight[t]

\* k-LIFO: an item passes by fewer than k items that were pushed after it and
\* before its pop began.
KOutOfOrder ==
  \A t \in Threads : At(t, "return") /\ th[t].op = "get" /\ th[t].item # Null =>
    Cardinality(PassedBy(t, Held)) < K
=============================================================================
