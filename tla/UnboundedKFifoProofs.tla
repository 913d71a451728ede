------------------------ MODULE UnboundedKFifoProofs ------------------------
(***************************************************************************)
(* Proofs about UnboundedKFifo for every set of threads and items, every k *)
(* and any number of segments.                                             *)
(***************************************************************************)
EXTENDS UnboundedKFifo, FiniteSetTheorems, TLAPS

\* An index that ran past the end of an array of m entries at most once.
LEMMA ModOnce ==
  ASSUME NEW m \in Nat \ {0}, NEW x \in 0..2*m-1
  PROVE  x % m = IF x < m THEN x ELSE x - m
OBVIOUS

-----------------------------------------------------------------------------
\* Where a thread may be.
EnqueuePcs == {"E_tail", "E_scan", "E_check", "E_cas"}
CommitPcs == {"C_slot", "C_head", "C_deleted", "C_deleted_again", "C_bump", "C_undo"}
TailPcs == {"T_next", "T_check", "T_link", "T_swing"}
DequeuePcs == {"D_head", "D_scan", "D_tail", "D_check", "D_cas"}
HeadPcs == {"H_next", "H_check", "H_delete", "H_cas"}
Pcs == {"idle", "return"} \cup EnqueuePcs \cup CommitPcs \cup TailPcs \cup DequeuePcs
       \cup HeadPcs

Words == [val : Items \cup {Null}, aba : Nat]
HeadWords == [seg : Nat \ {0}, aba : Nat]
Segments == [items : [Slots -> Words], deleted : BOOLEAN]
Locals == [pc : Pcs, op : {"none", "put", "get"}, item : Items \cup {Null},
           head : HeadWords, tail : Nat, index : Slots \cup {kNoIndexFound}, left : Nat,
           old : Words, next : Nat]

TypeOK ==
  /\ head \in HeadWords /\ tail \in Nat
  /\ segs \in Seq(Segments)
  /\ th \in [Threads -> Locals]
  /\ done \subseteq Items /\ out \subseteq Items
  /\ older \in [Items -> SUBSET Items]
  /\ sight \in [Threads -> BOOLEAN]

Linked == 1 .. Len(segs)
Val(s, i) == segs[s].items[i].val

ListInv ==
  /\ head.seg <= tail /\ tail <= Len(segs) /\ Len(segs) <= tail + 1
  /\ \A s \in Linked : s < head.seg => segs[s].deleted
  /\ \A s \in Linked, i \in Slots : s > tail => Val(s, i) = Null

\* How the copy that t has of the head is behind the head.
HeadBehind(t) ==
  /\ th[t].head.seg <= head.seg
  /\ th[t].head.seg = head.seg => th[t].head.aba <= head.aba

PcInv(t) ==
  /\ th[t].pc = "idle" <=> th[t].op = "none"
  /\ th[t].pc \in EnqueuePcs \cup CommitPcs => th[t].op = "put"
  /\ th[t].pc \in DequeuePcs \cup HeadPcs => th[t].op = "get"
  /\ th[t].op = "put" => th[t].item \in Items
  /\ th[t].op = "none" => th[t].item = Null
  /\ th[t].op = "get" /\ th[t].pc # "return" => th[t].item = Null

\* What t knows of the segments, and of the slot it is about to swap.
ThreadInv(t) ==
  /\ HeadBehind(t)
  /\ th[t].pc \in {"E_scan", "E_check", "E_cas"} \cup CommitPcs \cup TailPcs =>
       th[t].tail \in 1 .. tail
  /\ th[t].pc \in {"E_scan", "E_cas", "D_scan", "D_cas"} \cup CommitPcs => th[t].index \in Slots
  /\ th[t].pc \in {"E_scan", "D_scan"} => th[t].left \in 1 .. SegmentSize
  /\ th[t].pc = "E_cas" \/ (th[t].pc = "E_check" /\ Found(t)) => th[t].old.val = Null
  /\ (\/ th[t].pc \in TailPcs /\ th[t].op = "get"
      \/ th[t].pc \in {"D_tail", "D_check"} /\ Found(t)
      \/ th[t].pc = "D_cas")
     => th[t].index \in Slots /\ th[t].old.val # Null
  /\ th[t].pc = "D_check" => th[t].head.seg <= th[t].tail /\ th[t].tail <= tail
  /\ th[t].pc = "T_swing" \/ (th[t].pc = "T_check" /\ th[t].next # 0) =>
       th[t].next = th[t].tail + 1 /\ th[t].next <= Len(segs)
  /\ th[t].pc \in HeadPcs => th[t].head.seg < tail
  /\ th[t].pc \in HeadPcs \ {"H_next"} => th[t].next = th[t].head.seg + 1
  /\ th[t].pc = "H_cas" => segs[th[t].head.seg].deleted

\* A dequeue has looked at slot i in its search of a segment, and found it empty.
Distance(j, i) == IF j <= i THEN i - j ELSE i - j + SegmentSize
Ahead(t) == {i \in Slots : Distance(th[t].index, i) < th[t].left}
Missed(t, i) ==
  \/ th[t].pc = "D_scan" /\ i \notin Ahead(t)
  \/ th[t].pc \in {"D_tail", "D_check"} /\ ~Found(t)
  \/ th[t].pc \in HeadPcs

\* No dequeue that might still move the head on from segment s has missed slot i.
Safe(s, i) ==
  /\ head.seg <= s
  /\ \A t \in Threads : HeadUnchanged(t) /\ head.seg = s => ~Missed(t, i)

Gone == Hands \cup out
Secured(x) == x \in Gone \/ \E s \in Linked, i \in Slots : Val(s, i) = x /\ Safe(s, i)

\* Every item is in one place.
PlacesInv ==
  /\ \A s, r \in Linked, i, j \in Slots :
       Val(s, i) = Val(r, j) /\ Val(s, i) # Null => s = r /\ i = j
  /\ \A s \in Linked, i \in Slots : Val(s, i) # Null => Val(s, i) \in Begun \ Gone
  /\ Gone \subseteq Begun
  /\ Hands \cap out = {}
  /\ \A t, u \in Threads : t # u => InHand(t) \cap InHand(u) = {}
  /\ \A t, u \in Threads : t # u /\ th[t].op = "put" /\ th[u].op = "put" => th[t].item # th[u].item

InItsSlot(t) == Slot(t, th[t].tail) = NewItem(t)

\* Where the item of an enqueue is.
PutInv(t) ==
  th[t].op = "put" =>
    /\ th[t].item \notin done
    /\ th[t].pc \in EnqueuePcs \cup TailPcs =>
         /\ th[t].item \notin Gone
         /\ \A s \in Linked, i \in Slots : Val(s, i) # th[t].item
    /\ th[t].pc \in CommitPcs => th[t].item \in Gone \/ InItsSlot(t)
    /\ th[t].pc = "return" => Secured(th[t].item)
    /\ th[t].pc \in {"C_deleted", "C_deleted_again"} /\ InItsSlot(t) =>
         /\ th[t].head.seg < th[t].tail => Safe(th[t].tail, th[t].index)
         /\ th[t].head.seg > th[t].tail => Deleted(t)
    /\ th[t].pc = "C_deleted_again" => th[t].head.seg # th[t].tail
    /\ th[t].pc = "C_bump" => th[t].head.seg = th[t].tail

DoneInv == \A x \in done : Secured(x)

\* A dequeue that is to find the queue empty saw it so.
EmptyInv(t) ==
  /\ th[t].pc = "D_check" /\ ~Found(t) /\ HeadUnchanged(t) /\ LastSegment(t) => sight[t]
  /\ SaysEmpty(t) => sight[t]

\* What was put before x is not behind x.
OrderInv ==
  /\ \A x \in Items : older[x] \subseteq done
  /\ \A s, r \in Linked, i, j \in Slots :
       Val(s, i) # Null /\ Val(r, j) \in older[Val(s, i)] => r <= s

NotBehind(t) ==
  th[t].pc \in {"E_scan", "E_check", "E_cas"} =>
    \A r \in Linked, j \in Slots : Val(r, j) \in older[th[t].item] => r <= th[t].tail

IInv ==
  /\ TypeOK /\ ListInv
  /\ \A t \in Threads : PcInv(t) /\ ThreadInv(t) /\ PutInv(t) /\ EmptyInv(t) /\ NotBehind(t)
  /\ PlacesInv /\ DoneInv /\ OrderInv

-----------------------------------------------------------------------------
\* Steps in general.

Others(t) == \A u \in Threads \ {t} : th'[u] = th[u]

\* A step within a call of t that keeps its item.
InCall(t) ==
  /\ Others(t) /\ th'[t] \in Locals
  /\ th'[t].op = th[t].op /\ th'[t].item = th[t].item

\* Such a step changes nothing of the history but, perhaps, sight.
LEMMA QuietHistory ==
  ASSUME IInv, NEW t \in Threads, InCall(t), th' \in [Threads -> Locals],
         NEW held, Observe(t, held)
  PROVE  /\ done' = done /\ out' = out /\ older' = older
         /\ sight' = [u \in Threads |-> th'[u].op = "get" /\ (sight[u] \/ done \cap held = {})]
         /\ \A u \in Threads : InHand(u)' = InHand(u)
         /\ Hands' = Hands /\ Begun' = Begun /\ Gone' = Gone
<1>1. done' = done /\ out' = out /\ older' = older
  BY DEF Observe, InCall
<1>2. sight' = [u \in Threads |-> th'[u].op = "get" /\ (sight[u] \/ done \cap held = {})]
  BY <1>1 DEF Observe
<1>3. \A u \in Threads : th'[u].op = th[u].op /\ th'[u].item = th[u].item
  BY DEF InCall, Others
<1>4. \A u \in Threads : InHand(u)' = InHand(u)
  BY <1>3 DEF InHand
<1>5. Hands' = Hands
  BY <1>4 DEF Hands
<1>6. Begun' = Begun
  BY <1>1, <1>3 DEF Begun
<1> QED BY <1>1, <1>2, <1>4, <1>5, <1>6 DEF Gone

\* t does not pass by an item in its search.
NoNewMiss(t) ==
  \A i \in Slots :
    th'[t].head = head /\ Missed(t, i)' =>
      \/ th[t].head = head /\ Missed(t, i)
      \/ Val(head.seg, i) = Null

\* Then what was safe stays safe, as long as the head stays.
LEMMA SafeKept ==
  ASSUME IInv, NEW t \in Threads, Others(t), head' = head, NoNewMiss(t),
         NEW s \in Linked, NEW i \in Slots, Val(s, i) # Null, Safe(s, i)
  PROVE  Safe(s, i)'
<1> SUFFICES ASSUME NEW u \in Threads, HeadUnchanged(u)', head.seg = s, Missed(u, i)'
             PROVE  FALSE
  BY DEF Safe
<1>1. CASE u = t
  BY <1>1 DEF NoNewMiss, Safe, HeadUnchanged
<1>2. CASE u # t
  BY <1>2 DEF Others, Safe, HeadUnchanged, Missed, Ahead, Found
<1> QED BY <1>1, <1>2

\* Nor does any other step that changes no shared word undo a put.
LEMMA SecuredKept ==
  ASSUME IInv, NEW t \in Threads, th' \in [Threads -> Locals], InCall(t), Local(t), NoNewMiss(t),
         NEW x \in Items, Secured(x)
  PROVE  Secured(x)'
<1>1. Gone' = Gone /\ head' = head /\ segs' = segs
  BY QuietHistory DEF Local, shared
<1> SUFFICES ASSUME x \notin Gone PROVE Secured(x)'
  BY <1>1 DEF Secured
<1>2. PICK s \in Linked, i \in Slots : Val(s, i) = x /\ Safe(s, i)
  BY DEF Secured
<1>3. x # Null
  BY CallHistoryAssumption
<1>4. Safe(s, i)' /\ Val(s, i)' = x /\ s \in Linked'
  BY SafeKept, <1>1, <1>2, <1>3 DEF Val, Linked, InCall
<1> QED BY <1>4 DEF Secured

\* A step that changes no shared word is one of t's own.
LEMMA LocalStep ==
  ASSUME IInv, NEW t \in Threads, th' \in [Threads -> Locals], InCall(t), Local(t),
         NoNewMiss(t), PcInv(t)', ThreadInv(t)', PutInv(t)', EmptyInv(t)', NotBehind(t)'
  PROVE  IInv'
<1> USE DEF Local, shared
<1>1. /\ done' = done /\ out' = out /\ older' = older
      /\ sight' = [u \in Threads |-> th'[u].op = "get" /\ (sight[u] \/ done \cap Held = {})]
      /\ \A u \in Threads : InHand(u)' = InHand(u)
      /\ Hands' = Hands /\ Begun' = Begun /\ Gone' = Gone
  BY QuietHistory
<1>2. TypeOK'
  BY <1>1 DEF IInv, TypeOK
<1>3. ListInv'
  BY DEF IInv, ListInv, Linked, Val
<1>4. \A s \in Linked, i \in Slots : Val(s, i) # Null /\ Safe(s, i) => Safe(s, i)'
  BY SafeKept DEF InCall
<1>5. \A x \in Items : Secured(x) => Secured(x)'
  BY SecuredKept
<1>6. PlacesInv'
  BY <1>1 DEF IInv, PlacesInv, Linked, Val, InCall, Others
<1>7. DoneInv'
  BY <1>1, <1>5 DEF IInv, TypeOK, DoneInv
<1>8. OrderInv'
  BY <1>1 DEF IInv, OrderInv, Linked, Val
<1>9. ASSUME NEW u \in Threads, u # t
      PROVE  PcInv(u)' /\ ThreadInv(u)' /\ PutInv(u)' /\ EmptyInv(u)' /\ NotBehind(u)'
  <2>1. th'[u] = th[u]
    BY <1>9 DEF InCall, Others
  <2>2. PcInv(u)' /\ ThreadInv(u)' /\ NotBehind(u)'
    BY <1>1, <2>1 DEF IInv, PcInv, ThreadInv, HeadBehind, Found, NotBehind, Linked, Val
  <2>3. EmptyInv(u)'
    BY <1>1, <2>1 DEF IInv, TypeOK, PcInv, EmptyInv, SaysEmpty, Found, HeadUnchanged, LastSegment,
       DequeuePcs
  <2>4. PutInv(u)'
    <3> SUFFICES ASSUME th[u].op = "put" PROVE PutInv(u)'
      BY <2>1 DEF PutInv
    <3>1. PutInv(u) /\ PcInv(u) /\ ThreadInv(u)
      BY DEF IInv
    <3>2. th[u].item \in Items
      BY <3>1 DEF PcInv
    <3>3. InItsSlot(u)' <=> InItsSlot(u)
      BY <2>1 DEF InItsSlot, Slot, NewItem
    <3>4. CASE th[u].pc \in CommitPcs
      <4>1. th[u].tail \in Linked /\ th[u].index \in Slots
        BY <3>1, <3>4 DEF ThreadInv, IInv, TypeOK, ListInv, Linked, CommitPcs
      <4>2. InItsSlot(u) => Val(th[u].tail, th[u].index) = th[u].item
        BY DEF InItsSlot, Slot, NewItem, Val
      <4>3. InItsSlot(u) /\ Safe(th[u].tail, th[u].index) => Safe(th[u].tail, th[u].index)'
        BY <1>4, <2>1, <3>2, <4>1, <4>2, CallHistoryAssumption DEF Safe, HeadUnchanged
      <4>4. InItsSlot(u)' /\ Safe(th[u].tail, th[u].index) => Safe(th[u].tail, th[u].index)'
        BY <4>3, <3>3
      <4>5. Deleted(u)' <=> Deleted(u)
        BY <2>1 DEF Deleted
      <4> QED BY <1>1, <2>1, <3>1, <3>3, <3>4, <4>4, <4>5
              DEF PutInv, CommitPcs, EnqueuePcs, TailPcs
    <3>5. CASE th[u].pc \notin CommitPcs
      BY <1>1, <1>5, <2>1, <3>1, <3>2, <3>5 DEF PutInv, CommitPcs, Linked, Val
    <3> QED BY <3>4, <3>5
  <2> QED BY <2>2, <2>3, <2>4
<1> QED BY <1>2, <1>3, <1>6, <1>7, <1>8, <1>9 DEF IInv

-----------------------------------------------------------------------------
\* Steps that change no shared word.

\* What PutInv asks of a thread whose item is not in any slot yet.
LEMMA StillOutside ==
  ASSUME IInv, NEW t \in Threads, InCall(t), th' \in [Threads -> Locals], Local(t),
         th[t].pc \in EnqueuePcs \cup TailPcs, th'[t].pc \in EnqueuePcs \cup TailPcs
  PROVE  PutInv(t)'
<1>1. done' = done /\ Gone' = Gone
  BY QuietHistory DEF Local
<1>2. PutInv(t) /\ th'[t].op = th[t].op /\ th'[t].item = th[t].item
  BY DEF IInv, InCall
<1> QED BY <1>1, <1>2 DEF PutInv, EnqueuePcs, TailPcs, CommitPcs, Local, shared, Linked, Val

\* The records that the steps write.
LEMMA IdleTyped == Idle \in Locals
BY UnboundedKFifoAssumption
   DEF Idle, Locals, Pcs, FirstHead, HeadWords, Empty, Words, Slots, SegmentSize

LEMMA IdlingTyped ==
  ASSUME NEW t, NEW label \in Pcs, th[t] \in Locals
  PROVE  /\ Idling(t, label) \in Locals
         /\ Idling(t, label).pc = label /\ Idling(t, label).head = FirstHead
         /\ Idling(t, label).op = th[t].op /\ Idling(t, label).item = th[t].item
<1>1. Idle.head = FirstHead
  BY DEF Idle
<1> QED BY <1>1, IdleTyped DEF Idling, Locals

\* A step that changes t's locals to r, and keeps its call and its item.
LEMMA InCallEffect ==
  ASSUME IInv, NEW t \in Threads, NEW r \in Locals, th' = [th EXCEPT ![t] = r],
         r.op = th[t].op, r.item = th[t].item
  PROVE  /\ th' \in [Threads -> Locals] /\ th'[t] = r /\ InCall(t)
<1>1. th \in [Threads -> Locals]
  BY DEF IInv, TypeOK
<1> QED BY <1>1 DEF InCall, Others

LEMMA FinishEffect ==
  ASSUME IInv, NEW t \in Threads, NEW label \in Pcs, Finish(t, label)
  PROVE  /\ th' \in [Threads -> Locals] /\ InCall(t)
         /\ th'[t].pc = label /\ th'[t].head = FirstHead
         /\ th'[t].op = th[t].op /\ th'[t].item = th[t].item
<1>1. th[t] \in Locals
  BY DEF IInv, TypeOK
<1>2. /\ Idling(t, label) \in Locals
      /\ Idling(t, label).pc = label /\ Idling(t, label).head = FirstHead
      /\ Idling(t, label).op = th[t].op /\ Idling(t, label).item = th[t].item
  BY <1>1, IdlingTyped
<1>3. th' = [th EXCEPT ![t] = Idling(t, label)]
  BY DEF Finish
<1> HIDE DEF Idling
<1>4. th' \in [Threads -> Locals] /\ th'[t] = Idling(t, label) /\ InCall(t)
  BY <1>2, <1>3, InCallEffect
<1> QED BY <1>2, <1>4

LEMMA GotoEffect ==
  ASSUME IInv, NEW t \in Threads, NEW label \in Pcs, Goto(t, label)
  PROVE  /\ th' \in [Threads -> Locals] /\ InCall(t) /\ th'[t].pc = label
         /\ th'[t].head = th[t].head /\ th'[t].tail = th[t].tail /\ th'[t].index = th[t].index
         /\ th'[t].left = th[t].left /\ th'[t].old = th[t].old /\ th'[t].next = th[t].next
         /\ th'[t].op = th[t].op /\ th'[t].item = th[t].item
<1>1. th[t] \in Locals /\ th \in [Threads -> Locals]
  BY DEF IInv, TypeOK
<1>2. [th[t] EXCEPT !.pc = label] \in Locals
  BY <1>1 DEF Locals
<1>3. th' = [th EXCEPT ![t] = [th[t] EXCEPT !.pc = label]]
  BY <1>1 DEF Goto
<1> QED BY <1>1, <1>2, <1>3, InCallEffect DEF Locals

\* A thread that starts over, or is about to return.
LEMMA FinishStep ==
  ASSUME IInv, NEW t \in Threads, NEW label \in {"E_tail", "D_head", "return"},
         Finish(t, label), Local(t), th[t].pc # "return", th[t].pc # "idle",
         label = "E_tail" => th[t].op = "put" /\ th[t].pc \in EnqueuePcs \cup TailPcs,
         label = "D_head" => th[t].op = "get",
         label = "return" => IF th[t].op = "put" THEN Secured(th[t].item) ELSE sight[t]
  PROVE  IInv'
<1>1. /\ th' \in [Threads -> Locals] /\ InCall(t)
      /\ th'[t].pc = label /\ th'[t].head = FirstHead /\ th'[t].op = th[t].op
      /\ th'[t].item = th[t].item
  BY FinishEffect DEF Pcs, EnqueuePcs, DequeuePcs
<1>2. NoNewMiss(t)
  BY <1>1 DEF NoNewMiss, Missed, HeadPcs
<1>3. PcInv(t)'
  BY <1>1 DEF IInv, PcInv, EnqueuePcs, CommitPcs, DequeuePcs, HeadPcs
<1>4. ThreadInv(t)'
  BY <1>1 DEF IInv, TypeOK, ThreadInv, HeadBehind, EnqueuePcs, CommitPcs, TailPcs, HeadPcs,
     FirstHead, HeadWords, Local, shared
<1>5. EmptyInv(t)'
  BY <1>1, QuietHistory DEF EmptyInv, SaysEmpty, Local, IInv, PcInv
<1>6. NotBehind(t)'
  BY <1>1 DEF NotBehind
<1>7. PutInv(t)'
  <2>1. CASE label = "E_tail"
    BY <1>1, <2>1, StillOutside DEF EnqueuePcs
  <2>2. CASE label # "E_tail" /\ th[t].op = "put"
    <3>1. Secured(th[t].item)' /\ done' = done
      BY <1>1, <1>2, <2>2, SecuredKept, QuietHistory DEF IInv, PcInv, Local
    <3> QED BY <1>1, <2>2, <3>1 DEF PutInv, IInv, EnqueuePcs, TailPcs, CommitPcs, Secured, Safe
  <2> QED BY <1>1, <2>1, <2>2 DEF PutInv, InCall
<1> QED BY <1>1, <1>2, <1>3, <1>4, <1>5, <1>6, <1>7, LocalStep

LEMMA EnqueueReadTailStep ==
  ASSUME IInv, NEW t \in Threads, EnqueueReadTail(t)
  PROVE  IInv'
<1> USE DEF EnqueueReadTail, At
<1>1. /\ th' \in [Threads -> Locals] /\ InCall(t)
      /\ th'[t].pc = "E_scan" /\ th'[t].head = th[t].head /\ th'[t].tail = tail
      /\ th'[t].index \in Slots /\ th'[t].left = SegmentSize
  <2>1. PICK random \in Slots :
          th' = [th EXCEPT ![t].pc = "E_scan", ![t].tail = tail,
                           ![t].index = random, ![t].left = SegmentSize]
    OBVIOUS
  <2>2. th[t] \in Locals /\ th \in [Threads -> Locals] /\ tail \in Nat
    BY DEF IInv, TypeOK
  <2>3. /\ th'[t] = [th[t] EXCEPT !.pc = "E_scan", !.tail = tail, !.index = random, !.left = SegmentSize]
        /\ th' = [th EXCEPT ![t] = th'[t]]
    BY <2>1, <2>2
  <2>4. th'[t] \in Locals
    BY <2>2, <2>3, UnboundedKFifoAssumption DEF Locals, Pcs, EnqueuePcs, SegmentSize
  <2> QED BY <2>2, <2>3, <2>4 DEF InCall, Others, Locals
<1>2. NoNewMiss(t)
  BY <1>1 DEF NoNewMiss, Missed, HeadPcs
<1>3. PcInv(t)'
  BY <1>1 DEF IInv, PcInv, InCall, EnqueuePcs, CommitPcs, DequeuePcs, HeadPcs
<1>4. ThreadInv(t)'
  BY <1>1, UnboundedKFifoAssumption DEF SegmentSize, IInv, TypeOK, ListInv, ThreadInv, HeadBehind, EnqueuePcs, CommitPcs, TailPcs, HeadPcs,
     HeadWords, Local, shared
<1>5. EmptyInv(t)'
  BY <1>1 DEF EmptyInv, SaysEmpty
<1>6. NotBehind(t)'
  <2>1. older' = older
    BY <1>1, QuietHistory DEF Local
  <2>2. th[t].item \in Items /\ th'[t].item = th[t].item
    BY <1>1 DEF IInv, PcInv, EnqueuePcs, InCall
  <2>3. \A r \in Linked, j \in Slots : Val(r, j) \in older[th[t].item] => r <= tail
    BY <2>2, CallHistoryAssumption DEF IInv, TypeOK, ListInv, Linked
  <2> QED BY <1>1, <2>1, <2>2, <2>3 DEF NotBehind, Local, shared, Linked, Val
<1>7. PutInv(t)'
  BY <1>1, StillOutside DEF EnqueuePcs
<1> QED BY <1>1, <1>2, <1>3, <1>4, <1>5, <1>6, <1>7, LocalStep

\* What is left to show where t stays in an enqueue that has put nothing yet,
LEMMA EnqueueMove ==
  ASSUME IInv, NEW t \in Threads, th' \in [Threads -> Locals], InCall(t), Local(t),
         th[t].op = "put", th[t].pc \in EnqueuePcs \cup TailPcs,
         th'[t].pc \in EnqueuePcs \cup TailPcs, ThreadInv(t)',
         th'[t].pc \in {"E_scan", "E_check", "E_cas"} =>
           th[t].pc \in {"E_scan", "E_check", "E_cas"} /\ th'[t].tail = th[t].tail
  PROVE  IInv'
<1>1. NoNewMiss(t)
  BY DEF NoNewMiss, Missed, HeadPcs, EnqueuePcs, TailPcs
<1>2. PcInv(t)' /\ EmptyInv(t)'
  BY DEF IInv, PcInv, EmptyInv, SaysEmpty, InCall, EnqueuePcs, TailPcs, DequeuePcs, CommitPcs,
     HeadPcs
<1>3. NotBehind(t)'
  BY QuietHistory DEF IInv, NotBehind, InCall, Local, shared, Linked, Val
<1> QED BY <1>1, <1>2, <1>3, StillOutside, LocalStep

\* in one that has put its item,
LEMMA CommitMove ==
  ASSUME IInv, NEW t \in Threads, th' \in [Threads -> Locals], InCall(t), Local(t),
         th[t].op = "put", th'[t].pc \in CommitPcs, ThreadInv(t)', PutInv(t)'
  PROVE  IInv'
<1>1. NoNewMiss(t)
  BY DEF NoNewMiss, Missed, HeadPcs, CommitPcs
<1>2. PcInv(t)' /\ EmptyInv(t)' /\ NotBehind(t)'
  BY DEF IInv, PcInv, EmptyInv, SaysEmpty, NotBehind, InCall, EnqueuePcs, TailPcs, DequeuePcs,
     CommitPcs, HeadPcs
<1> QED BY <1>1, <1>2, LocalStep

\* and in a dequeue.
LEMMA DequeueMove ==
  ASSUME IInv, NEW t \in Threads, th' \in [Threads -> Locals], InCall(t), Local(t),
         th[t].op = "get", th[t].pc # "return", th'[t].pc \in DequeuePcs \cup HeadPcs \cup TailPcs,
         NoNewMiss(t), ThreadInv(t)', EmptyInv(t)'
  PROVE  IInv'
<1>1. PcInv(t)' /\ PutInv(t)' /\ NotBehind(t)'
  BY DEF IInv, PcInv, PutInv, NotBehind, InCall, EnqueuePcs, TailPcs, DequeuePcs,
     CommitPcs, HeadPcs
<1> QED BY <1>1, LocalStep

\* A step that neither swaps a word nor loses an item is a local one.
LEMMA FailedSwap ==
  ASSUME NEW t \in Threads, UNCHANGED shared, Observe(t, Held')
  PROVE  Local(t)
<1>1. Held' = Held
  BY DEF shared, Held
<1> QED BY <1>1 DEF Local

-----------------------------------------------------------------------------
\* enqueue.

LEMMA EnqueueScanStep ==
  ASSUME IInv, NEW t \in Threads, EnqueueScan(t)
  PROVE  IInv'
<1> USE DEF EnqueueScan, Scan, At
<1> DEFINE fits == Slot(t, th[t].tail).val = Null
<1>1. th[t] \in Locals /\ th \in [Threads -> Locals] /\ Local(t) /\ th[t].pc = "E_scan"
  BY DEF IInv, TypeOK
<1>2. /\ th[t].index \in Slots /\ th[t].tail \in 1 .. tail /\ th[t].left \in 1 .. SegmentSize
      /\ HeadBehind(t) /\ th[t].op = "put"
  BY <1>1 DEF IInv, ThreadInv, PcInv, EnqueuePcs
<1>3. Slot(t, th[t].tail) \in Words
  <2>1. segs[th[t].tail] \in Segments
    BY <1>2 DEF IInv, TypeOK, ListInv
  <2> QED BY <1>2, <2>1 DEF Slot, Segments
<1>4. CASE fits
  <2> DEFINE r == [th[t] EXCEPT !.pc = "E_check", !.left = 0, !.old = Slot(t, th[t].tail)]
  <2>1. r \in Locals /\ th' = [th EXCEPT ![t] = r]
    BY <1>1, <1>3, <1>4 DEF Locals, Pcs, EnqueuePcs
  <2>2. /\ r.op = th[t].op /\ r.item = th[t].item /\ r.pc = "E_check" /\ r.tail = th[t].tail
        /\ r.head = th[t].head /\ r.old = Slot(t, th[t].tail)
    BY <1>1 DEF Locals
  <2> HIDE DEF r
  <2>3. th' \in [Threads -> Locals] /\ InCall(t) /\ th'[t] = r
    BY <2>1, <2>2, InCallEffect
  <2>4. ThreadInv(t)'
    BY <1>1, <1>2, <1>4, <2>2, <2>3 DEF ThreadInv, HeadBehind, Local, shared, EnqueuePcs, CommitPcs,
       TailPcs, HeadPcs
  <2> QED BY <1>1, <1>2, <2>2, <2>3, <2>4, EnqueueMove DEF EnqueuePcs
<1>5. CASE ~fits /\ th[t].left = 1
  <2> DEFINE r == [th[t] EXCEPT !.pc = "E_check", !.left = 0, !.index = kNoIndexFound]
  <2>1. r \in Locals /\ th' = [th EXCEPT ![t] = r]
    BY <1>1, <1>5 DEF Locals, Pcs, EnqueuePcs
  <2>2. /\ r.op = th[t].op /\ r.item = th[t].item /\ r.pc = "E_check" /\ r.tail = th[t].tail
        /\ r.head = th[t].head /\ r.index = kNoIndexFound
    BY <1>1 DEF Locals
  <2> HIDE DEF r
  <2>3. th' \in [Threads -> Locals] /\ InCall(t) /\ th'[t] = r
    BY <2>1, <2>2, InCallEffect
  <2>4. ThreadInv(t)'
    BY <1>1, <1>2, <2>2, <2>3 DEF ThreadInv, HeadBehind, Found, Local, shared, EnqueuePcs,
       CommitPcs, TailPcs, HeadPcs
  <2> QED BY <1>1, <1>2, <2>2, <2>3, <2>4, EnqueueMove DEF EnqueuePcs
<1>6. CASE ~fits /\ th[t].left # 1
  <2> DEFINE r == [th[t] EXCEPT !.left = @ - 1, !.index = (@ + 1) % SegmentSize]
  <2>1. /\ (th[t].index + 1) % SegmentSize \in Slots
        /\ th[t].left - 1 \in 1 .. SegmentSize /\ th[t].left - 1 \in Nat
    BY <1>2, <1>6, UnboundedKFifoAssumption DEF Slots, SegmentSize
  <2>2. r \in Locals /\ th' = [th EXCEPT ![t] = r]
    BY <1>1, <1>6, <2>1 DEF Locals
  <2>3. /\ r.op = th[t].op /\ r.item = th[t].item /\ r.pc = "E_scan" /\ r.tail = th[t].tail
        /\ r.head = th[t].head /\ r.index \in Slots /\ r.left \in 1 .. SegmentSize
    BY <1>1, <2>1 DEF Locals
  <2> HIDE DEF r
  <2>4. th' \in [Threads -> Locals] /\ InCall(t) /\ th'[t] = r
    BY <2>2, <2>3, InCallEffect
  <2>5. ThreadInv(t)'
    BY <1>1, <1>2, <2>3, <2>4 DEF ThreadInv, HeadBehind, Local, shared, EnqueuePcs, CommitPcs,
       TailPcs, HeadPcs
  <2> QED BY <1>1, <1>2, <2>3, <2>4, <2>5, EnqueueMove DEF EnqueuePcs
<1> QED BY <1>4, <1>5, <1>6

LEMMA EnqueueCheckStep ==
  ASSUME IInv, NEW t \in Threads, EnqueueCheck(t)
  PROVE  IInv'
<1> USE DEF EnqueueCheck, At
<1>1. th[t].pc = "E_check" /\ Local(t) /\ th[t].op = "put"
  BY DEF IInv, PcInv, EnqueuePcs
<1>2. CASE th[t].tail # tail
  BY <1>1, <1>2, FinishStep DEF EnqueuePcs
<1>3. CASE th[t].tail = tail
  <2> DEFINE label == IF Found(t) THEN "E_cas" ELSE "T_next"
  <2>1. Goto(t, label) /\ label \in Pcs /\ label \in EnqueuePcs \cup TailPcs
    BY <1>3 DEF Pcs, EnqueuePcs, TailPcs
  <2>2. /\ th' \in [Threads -> Locals] /\ InCall(t) /\ th'[t].pc = label
        /\ th'[t].head = th[t].head /\ th'[t].tail = th[t].tail /\ th'[t].index = th[t].index
        /\ th'[t].old = th[t].old /\ th'[t].op = th[t].op
    BY <2>1, GotoEffect
  <2>3. th[t].index \in Slots \cup {kNoIndexFound}
    BY DEF IInv, TypeOK, Locals
  <2>4. ThreadInv(t)'
    BY <1>1, <2>2, <2>3 DEF IInv, ThreadInv, HeadBehind, Found, Local, shared, EnqueuePcs, CommitPcs,
       TailPcs, HeadPcs
  <2> QED BY <1>1, <2>1, <2>2, <2>4, EnqueueMove DEF EnqueuePcs
<1> QED BY <1>2, <1>3

LEMMA CommitTakenStep ==
  ASSUME IInv, NEW t \in Threads, CommitTaken(t)
  PROVE  IInv'
<1> USE DEF CommitTaken, At
<1>1. /\ th[t].pc = "C_slot" /\ Local(t) /\ th[t].op = "put" /\ PutInv(t)
      /\ th[t].item \in Gone \/ InItsSlot(t)
  BY DEF IInv, PcInv, PutInv, CommitPcs
<1>2. CASE Slot(t, th[t].tail) = NewItem(t)
  <2>1. /\ th' \in [Threads -> Locals] /\ InCall(t) /\ th'[t].pc = "C_head"
        /\ th'[t].head = th[t].head /\ th'[t].tail = th[t].tail /\ th'[t].index = th[t].index
        /\ th'[t].old = th[t].old /\ th'[t].op = th[t].op /\ th'[t].item = th[t].item
    BY <1>2, GotoEffect DEF Pcs, CommitPcs
  <2>2. ThreadInv(t)'
    BY <1>1, <2>1 DEF IInv, ThreadInv, HeadBehind, Local, shared, CommitPcs, TailPcs, HeadPcs
  <2>3. PutInv(t)'
    BY <1>1, <1>2, <2>1, QuietHistory DEF PutInv, InItsSlot, Slot, NewItem, Local, shared, CommitPcs,
       TailPcs, EnqueuePcs
  <2> QED BY <1>1, <2>1, <2>2, <2>3, CommitMove DEF CommitPcs
<1>3. CASE Slot(t, th[t].tail) # NewItem(t)
  BY <1>1, <1>3, FinishStep DEF InItsSlot, Secured
<1> QED BY <1>2, <1>3

LEMMA CommitReadHeadStep ==
  ASSUME IInv, NEW t \in Threads, CommitReadHead(t)
  PROVE  IInv'
<1> USE DEF CommitReadHead, At
<1>1. /\ th[t] \in Locals /\ th \in [Threads -> Locals] /\ head \in HeadWords
      /\ th[t].pc = "C_head" /\ Local(t) /\ th[t].op = "put" /\ PutInv(t)
      /\ th[t].item \in Gone \/ InItsSlot(t)
      /\ th[t].tail \in Linked /\ th[t].tail \in 1 .. tail /\ th[t].index \in Slots
  BY DEF IInv, TypeOK, ListInv, PcInv, PutInv, ThreadInv, CommitPcs, Linked
<1> DEFINE r == [th[t] EXCEPT !.pc = "C_deleted", !.head = head]
<1>2. r \in Locals /\ th' = [th EXCEPT ![t] = r]
  BY <1>1 DEF Locals, Pcs, CommitPcs
<1>3. /\ r.op = th[t].op /\ r.item = th[t].item /\ r.pc = "C_deleted" /\ r.tail = th[t].tail
      /\ r.head = head /\ r.index = th[t].index /\ r.old = th[t].old
  BY <1>1 DEF Locals
<1> HIDE DEF r
<1>4. th' \in [Threads -> Locals] /\ InCall(t) /\ th'[t] = r
  BY <1>2, <1>3, InCallEffect
<1>5. ThreadInv(t)'
  BY <1>1, <1>3, <1>4 DEF ThreadInv, HeadBehind, Local, shared, EnqueuePcs, CommitPcs, TailPcs,
     HeadPcs, HeadWords
<1>6. Gone' = Gone /\ done' = done
  BY <1>1, <1>4, QuietHistory DEF Local
<1>7. InItsSlot(t)' <=> InItsSlot(t)
  BY <1>1, <1>3, <1>4 DEF InItsSlot, Slot, NewItem, Local, shared
<1>8. head.seg < th[t].tail => Safe(th[t].tail, th[t].index)'
  BY <1>1, <1>3, <1>4 DEF Safe, Local, shared, HeadWords
<1>9. head.seg > th[t].tail => Deleted(t)'
  BY <1>1, <1>3, <1>4 DEF Deleted, Local, shared, IInv, ListInv
<1>10. PutInv(t)'
  BY <1>1, <1>3, <1>4, <1>6, <1>7, <1>8, <1>9 DEF PutInv, CommitPcs, TailPcs, EnqueuePcs, Local, shared
<1> QED BY <1>1, <1>3, <1>4, <1>5, <1>10, CommitMove DEF CommitPcs

LEMMA CommitDeletedStep ==
  ASSUME IInv, NEW t \in Threads, CommitDeleted(t)
  PROVE  IInv'
<1> USE DEF CommitDeleted, At
<1>1. /\ th[t].pc \in {"C_deleted", "C_deleted_again"} /\ Local(t) /\ th[t].op = "put" /\ PutInv(t)
      /\ th[t].item \in Gone \/ InItsSlot(t)
      /\ th[t].tail \in Linked /\ th[t].tail \in Nat /\ th[t].index \in Slots
      /\ th[t].head.seg \in Nat
  BY DEF IInv, TypeOK, Locals, HeadWords, ListInv, PcInv, PutInv, ThreadInv, CommitPcs, Linked
<1>2. CASE ~Deleted(t) /\ th[t].pc = "C_deleted_again"
  <2>1. InItsSlot(t) => Safe(th[t].tail, th[t].index)
    BY <1>1, <1>2 DEF PutInv
  <2>2. InItsSlot(t) => Val(th[t].tail, th[t].index) = th[t].item
    BY DEF InItsSlot, Slot, NewItem, Val
  <2>3. Secured(th[t].item)
    BY <1>1, <2>1, <2>2 DEF Secured
  <2> QED BY <1>1, <1>2, <2>3, FinishStep
<1>3. CASE ~(~Deleted(t) /\ th[t].pc = "C_deleted_again")
  <2> DEFINE label == IF Deleted(t) THEN "C_undo"
                      ELSE IF th[t].tail = th[t].head.seg THEN "C_bump" ELSE "C_deleted_again"
  <2>1. Goto(t, label) /\ label \in Pcs /\ label \in {"C_undo", "C_bump", "C_deleted_again"}
    BY <1>1, <1>3 DEF Pcs, CommitPcs
  <2>2. /\ th' \in [Threads -> Locals] /\ InCall(t) /\ th'[t].pc = label
        /\ th'[t].head = th[t].head /\ th'[t].tail = th[t].tail /\ th'[t].index = th[t].index
        /\ th'[t].old = th[t].old /\ th'[t].op = th[t].op /\ th'[t].item = th[t].item
    BY <2>1, GotoEffect
  <2>3. ThreadInv(t)'
    BY <1>1, <2>1, <2>2 DEF IInv, ThreadInv, HeadBehind, Local, shared, EnqueuePcs, CommitPcs,
       TailPcs, HeadPcs
  <2>4. Gone' = Gone /\ done' = done
    BY <1>1, <2>2, QuietHistory DEF Local
  <2>5. (InItsSlot(t)' <=> InItsSlot(t)) /\ (Deleted(t)' <=> Deleted(t))
    BY <1>1, <2>2 DEF InItsSlot, Slot, NewItem, Deleted, Local, shared
  <2>6. NoNewMiss(t)
    BY <2>1, <2>2 DEF NoNewMiss, Missed, HeadPcs
  <2>7. th[t].item # Null
    BY <1>1, CallHistoryAssumption DEF IInv, PcInv
  <2>8. InItsSlot(t) /\ Safe(th[t].tail, th[t].index) => Safe(th[t].tail, th[t].index)'
    <3>1. InItsSlot(t) => Val(th[t].tail, th[t].index) # Null
      BY <2>7 DEF InItsSlot, Slot, NewItem, Val
    <3>2. \A s \in Linked, i \in Slots : Val(s, i) # Null /\ Safe(s, i) => Safe(s, i)'
      BY <2>2, <2>6, <1>1, SafeKept DEF InCall, Local, shared
    <3> QED BY <1>1, <2>2, <3>1, <3>2 DEF Safe, HeadUnchanged
  <2>9. PutInv(t)'
    BY <1>1, <1>3, <2>1, <2>2, <2>4, <2>5, <2>8 DEF PutInv, CommitPcs, TailPcs, EnqueuePcs
  <2> QED BY <1>1, <2>1, <2>2, <2>3, <2>9, CommitMove DEF CommitPcs
<1> QED BY <1>2, <1>3

\* A compare-and-swap of the head that fails, and of the slot of an item that is taken.
LEMMA CommitBumpFails ==
  ASSUME IInv, NEW t \in Threads, th[t].pc = "C_bump", Local(t), Goto(t, "C_undo")
  PROVE  IInv'
<1>1. /\ th[t].op = "put" /\ PutInv(t) /\ (th[t].item \in Gone \/ InItsSlot(t))
      /\ "C_undo" \in Pcs
  BY DEF IInv, PcInv, PutInv, CommitPcs, Pcs
<1>2. /\ th' \in [Threads -> Locals] /\ InCall(t) /\ th'[t].pc = "C_undo"
      /\ th'[t].head = th[t].head /\ th'[t].tail = th[t].tail /\ th'[t].index = th[t].index
      /\ th'[t].old = th[t].old /\ th'[t].op = th[t].op /\ th'[t].item = th[t].item
  BY <1>1, GotoEffect
<1>3. ThreadInv(t)'
  BY <1>1, <1>2 DEF IInv, ThreadInv, HeadBehind, Local, shared, EnqueuePcs, CommitPcs, TailPcs, HeadPcs
<1>4. PutInv(t)'
  BY <1>1, <1>2, QuietHistory DEF PutInv, InItsSlot, Slot, NewItem, Local, shared, CommitPcs,
     TailPcs, EnqueuePcs
<1> QED BY <1>1, <1>2, <1>3, <1>4, CommitMove DEF CommitPcs

LEMMA CommitUndoFails ==
  ASSUME IInv, NEW t \in Threads, th[t].pc = "C_undo", Local(t), Finish(t, "return"),
         Slot(t, th[t].tail) # NewItem(t)
  PROVE  IInv'
<1>1. th[t].op = "put" /\ th[t].item \in Gone
  BY DEF IInv, PcInv, PutInv, CommitPcs, InItsSlot
<1> QED BY <1>1, FinishStep DEF Secured

-----------------------------------------------------------------------------
\* advance_tail.

LEMMA AfterTailEffect ==
  ASSUME IInv, NEW t \in Threads, th[t].pc \in TailPcs, AfterTail(t), th[t].op = "get"
  PROVE  /\ th' \in [Threads -> Locals] /\ InCall(t) /\ th'[t].pc = "D_cas"
         /\ th'[t].head = th[t].head /\ th'[t].index = th[t].index /\ th'[t].old = th[t].old
<1> DEFINE r == [th[t] EXCEPT !.pc = "D_cas", !.tail = 0, !.next = 0]
<1>1. th[t] \in Locals /\ th \in [Threads -> Locals]
  BY DEF IInv, TypeOK
<1>2. r \in Locals /\ th' = [th EXCEPT ![t] = r]
  BY <1>1 DEF AfterTail, Locals, Pcs, DequeuePcs
<1>3. /\ r.op = th[t].op /\ r.item = th[t].item /\ r.pc = "D_cas" /\ r.head = th[t].head
      /\ r.index = th[t].index /\ r.old = th[t].old
  BY <1>1 DEF Locals
<1> HIDE DEF r
<1> QED BY <1>2, <1>3, InCallEffect

LEMMA AfterTailStep ==
  ASSUME IInv, NEW t \in Threads, th[t].pc \in TailPcs, AfterTail(t), Local(t)
  PROVE  IInv'
<1>1. CASE th[t].op = "put"
  BY <1>1, FinishStep DEF AfterTail, TailPcs
<1>2. CASE th[t].op # "put"
  <2>1. th[t].op = "get"
    BY <1>2 DEF IInv, TypeOK, Locals, PcInv, TailPcs
  <2>2. /\ th' \in [Threads -> Locals] /\ InCall(t) /\ th'[t].pc = "D_cas"
        /\ th'[t].head = th[t].head /\ th'[t].index = th[t].index /\ th'[t].old = th[t].old
    BY <2>1, AfterTailEffect
  <2>3. ThreadInv(t)'
    BY <2>1, <2>2 DEF IInv, ThreadInv, HeadBehind, Local, shared, EnqueuePcs, CommitPcs, TailPcs,
       HeadPcs
  <2>4. EmptyInv(t)' /\ NoNewMiss(t)
    BY <2>2 DEF EmptyInv, SaysEmpty, NoNewMiss, Missed, HeadPcs
  <2> QED BY <2>1, <2>2, <2>3, <2>4, DequeueMove DEF DequeuePcs, TailPcs
<1> QED BY <1>1, <1>2

\* A step of advance_tail that goes on in it.
LEMMA TailMove ==
  ASSUME IInv, NEW t \in Threads, th[t].pc \in TailPcs, th' \in [Threads -> Locals], InCall(t),
         Local(t), th'[t].pc \in TailPcs, th'[t].head = th[t].head, th'[t].tail = th[t].tail,
         th'[t].index = th[t].index, th'[t].old = th[t].old,
         th'[t].pc = "T_swing" \/ (th'[t].pc = "T_check" /\ th'[t].next # 0) =>
           th'[t].next = th[t].tail + 1 /\ th'[t].next <= Len(segs)
  PROVE  IInv'
<1>1. ThreadInv(t)'
  BY DEF IInv, ThreadInv, HeadBehind, InCall, Local, shared, EnqueuePcs, CommitPcs, TailPcs, HeadPcs
<1>2. CASE th[t].op = "put"
  BY <1>1, <1>2, EnqueueMove DEF TailPcs
<1>3. CASE th[t].op # "put"
  <2>1. th[t].op = "get"
    BY <1>3 DEF IInv, TypeOK, Locals, PcInv, TailPcs
  <2>2. EmptyInv(t)' /\ NoNewMiss(t)
    BY DEF EmptyInv, SaysEmpty, NoNewMiss, Missed, TailPcs, HeadPcs
  <2> QED BY <1>1, <2>1, <2>2, DequeueMove DEF TailPcs
<1> QED BY <1>2, <1>3

LEMMA TailReadNextStep ==
  ASSUME IInv, NEW t \in Threads, TailReadNext(t)
  PROVE  IInv'
<1>1. /\ th[t] \in Locals /\ th \in [Threads -> Locals] /\ th[t].pc = "T_next" /\ Local(t)
      /\ th[t].tail \in 1 .. tail /\ tail \in Nat /\ Len(segs) \in Nat /\ tail <= Len(segs)
  BY DEF IInv, TypeOK, ListInv, ThreadInv, TailPcs, TailReadNext, At
<1> DEFINE r == [th[t] EXCEPT !.pc = "T_check", !.next = Next_(th[t].tail)]
<1>2. /\ Next_(th[t].tail) \in Nat
      /\ Next_(th[t].tail) # 0 => Next_(th[t].tail) = th[t].tail + 1 /\ Next_(th[t].tail) <= Len(segs)
  BY <1>1 DEF Next_
<1>3. r \in Locals /\ th' = [th EXCEPT ![t] = r]
  BY <1>1, <1>2 DEF TailReadNext, Locals, Pcs, TailPcs
<1>4. /\ r.op = th[t].op /\ r.item = th[t].item /\ r.pc = "T_check" /\ r.head = th[t].head
      /\ r.index = th[t].index /\ r.old = th[t].old /\ r.next = Next_(th[t].tail)
      /\ r.tail = th[t].tail
  BY <1>1 DEF Locals
<1> HIDE DEF r
<1>5. th' \in [Threads -> Locals] /\ InCall(t) /\ th'[t] = r
  BY <1>3, <1>4, InCallEffect
<1> QED BY <1>1, <1>2, <1>4, <1>5, TailMove DEF TailPcs

LEMMA TailCheckStep ==
  ASSUME IInv, NEW t \in Threads, TailCheck(t)
  PROVE  IInv'
<1> USE DEF TailCheck, At
<1>1. /\ th[t].pc = "T_check" /\ Local(t)
      /\ th[t].next # 0 => th[t].next = th[t].tail + 1 /\ th[t].next <= Len(segs)
  BY DEF IInv, ThreadInv
<1>2. CASE th[t].tail # tail
  BY <1>1, <1>2, AfterTailStep DEF TailPcs
<1>3. CASE th[t].tail = tail
  <2> DEFINE label == IF th[t].next # 0 THEN "T_swing" ELSE "T_link"
  <2>1. Goto(t, label) /\ label \in Pcs /\ label \in TailPcs
    BY <1>3 DEF Pcs, TailPcs
  <2>2. /\ th' \in [Threads -> Locals] /\ InCall(t) /\ th'[t].pc = label
        /\ th'[t].head = th[t].head /\ th'[t].tail = th[t].tail /\ th'[t].index = th[t].index
        /\ th'[t].old = th[t].old /\ th'[t].next = th[t].next
    BY <2>1, GotoEffect
  <2> QED BY <1>1, <2>1, <2>2, TailMove DEF TailPcs
<1> QED BY <1>2, <1>3

-----------------------------------------------------------------------------
\* dequeue.

\* The search goes round the segment.
LEMMA SlotAfter ==
  ASSUME NEW j \in Slots
  PROVE  (j + 1) % SegmentSize = IF j + 1 = SegmentSize THEN 0 ELSE j + 1
<1>1. SegmentSize \in Nat \ {0} /\ j \in 0 .. SegmentSize-1
  BY UnboundedKFifoAssumption DEF SegmentSize, Slots
<1> HIDE DEF SegmentSize
<1>2. j + 1 \in 0 .. 2*SegmentSize-1
  BY <1>1
<1>3. (j + 1) % SegmentSize = IF j + 1 < SegmentSize THEN j + 1 ELSE (j + 1) - SegmentSize
  BY <1>1, <1>2, ModOnce
<1> QED BY <1>1, <1>3

LEMMA DistanceAfter ==
  ASSUME NEW j \in Slots, NEW i \in Slots, i # j
  PROVE  Distance(IF j + 1 = SegmentSize THEN 0 ELSE j + 1, i) = Distance(j, i) - 1
<1>1. SegmentSize \in Nat \ {0} /\ j \in 0 .. SegmentSize-1 /\ i \in 0 .. SegmentSize-1
  BY UnboundedKFifoAssumption DEF SegmentSize, Slots
<1> HIDE DEF SegmentSize
<1>2. CASE j + 1 = SegmentSize
  BY <1>1, <1>2 DEF Distance
<1>3. CASE j + 1 # SegmentSize
  BY <1>1, <1>3 DEF Distance
<1> QED BY <1>2, <1>3

LEMMA DequeueReadHeadStep ==
  ASSUME IInv, NEW t \in Threads, DequeueReadHead(t)
  PROVE  IInv'
<1> USE DEF DequeueReadHead, At
<1>1. /\ th[t] \in Locals /\ th \in [Threads -> Locals] /\ head \in HeadWords
      /\ th[t].pc = "D_head" /\ Local(t) /\ th[t].op = "get"
      /\ SegmentSize \in Nat \ {0}
  BY UnboundedKFifoAssumption DEF IInv, TypeOK, PcInv, DequeuePcs, SegmentSize
<1>2. PICK random \in Slots :
        th' = [th EXCEPT ![t].pc = "D_scan", ![t].head = head,
                         ![t].index = random, ![t].left = SegmentSize]
  OBVIOUS
<1> DEFINE r == [th[t] EXCEPT !.pc = "D_scan", !.head = head, !.index = random, !.left = SegmentSize]
<1>3. r \in Locals /\ th' = [th EXCEPT ![t] = r]
  BY <1>1, <1>2 DEF Locals, Pcs, DequeuePcs
<1>4. /\ r.op = th[t].op /\ r.item = th[t].item /\ r.pc = "D_scan" /\ r.head = head
      /\ r.index = random /\ r.left = SegmentSize
  BY <1>1 DEF Locals
<1> HIDE DEF r
<1>5. th' \in [Threads -> Locals] /\ InCall(t) /\ th'[t] = r
  BY <1>3, <1>4, InCallEffect
<1>6. ThreadInv(t)'
  BY <1>1, <1>4, <1>5 DEF ThreadInv, HeadBehind, Local, shared, EnqueuePcs, CommitPcs, TailPcs,
     HeadPcs, HeadWords
<1>7. EmptyInv(t)'
  BY <1>4, <1>5 DEF EmptyInv, SaysEmpty
<1>8. \A i \in Slots : i \in Ahead(t)'
  BY <1>1, <1>4, <1>5 DEF Ahead, Distance, Slots
<1>9. NoNewMiss(t)
  BY <1>4, <1>5, <1>8 DEF NoNewMiss, Missed, HeadPcs
<1> QED BY <1>1, <1>4, <1>5, <1>6, <1>7, <1>9, DequeueMove DEF DequeuePcs

LEMMA DequeueScanStep ==
  ASSUME IInv, NEW t \in Threads, DequeueScan(t)
  PROVE  IInv'
<1> USE DEF DequeueScan, Scan, At
<1> DEFINE fits == Slot(t, th[t].head.seg).val # Null
<1>1. th[t] \in Locals /\ th \in [Threads -> Locals] /\ Local(t) /\ th[t].pc = "D_scan"
  BY DEF IInv, TypeOK
<1>2. /\ th[t].index \in Slots /\ th[t].left \in 1 .. SegmentSize
      /\ th[t].head.seg \in Linked /\ HeadBehind(t) /\ th[t].op = "get"
  BY <1>1 DEF IInv, TypeOK, ListInv, Locals, HeadWords, HeadBehind, ThreadInv, PcInv, DequeuePcs, Linked
<1>3. Slot(t, th[t].head.seg) \in Words
  <2>1. segs[th[t].head.seg] \in Segments
    BY <1>2 DEF IInv, TypeOK, Linked
  <2> QED BY <1>2, <2>1 DEF Slot, Segments
<1>4. ~fits => Val(th[t].head.seg, th[t].index) = Null
  BY DEF Slot, Val
<1>5. SegmentSize \in Nat \ {0} /\ Slots = 0 .. SegmentSize-1
  BY UnboundedKFifoAssumption DEF SegmentSize, Slots
<1> HIDE DEF SegmentSize
<1>6. CASE fits
  <2> DEFINE r == [th[t] EXCEPT !.pc = "D_tail", !.left = 0, !.old = Slot(t, th[t].head.seg)]
  <2>1. r \in Locals /\ th' = [th EXCEPT ![t] = r]
    BY <1>1, <1>3, <1>6 DEF Locals, Pcs, DequeuePcs
  <2>2. /\ r.op = th[t].op /\ r.item = th[t].item /\ r.pc = "D_tail" /\ r.index = th[t].index
        /\ r.head = th[t].head /\ r.old = Slot(t, th[t].head.seg)
    BY <1>1 DEF Locals
  <2> HIDE DEF r
  <2>3. th' \in [Threads -> Locals] /\ InCall(t) /\ th'[t] = r
    BY <2>1, <2>2, InCallEffect
  <2>4. ThreadInv(t)'
    BY <1>1, <1>2, <1>6, <2>2, <2>3 DEF ThreadInv, HeadBehind, Local, shared, EnqueuePcs, CommitPcs,
       TailPcs, HeadPcs
  <2>5. EmptyInv(t)'
    BY <2>2, <2>3 DEF EmptyInv, SaysEmpty
  <2>6. NoNewMiss(t)
    <3>1. th[t].index # kNoIndexFound
      BY <1>2, <1>5 DEF kNoIndexFound
    <3> QED BY <2>2, <2>3, <3>1 DEF NoNewMiss, Missed, Found, HeadPcs
  <2> QED BY <1>1, <1>2, <2>2, <2>3, <2>4, <2>5, <2>6, DequeueMove DEF DequeuePcs
<1>7. CASE ~fits /\ th[t].left = 1
  <2> DEFINE r == [th[t] EXCEPT !.pc = "D_tail", !.left = 0, !.index = kNoIndexFound]
  <2>1. r \in Locals /\ th' = [th EXCEPT ![t] = r]
    BY <1>1, <1>7 DEF Locals, Pcs, DequeuePcs
  <2>2. /\ r.op = th[t].op /\ r.item = th[t].item /\ r.pc = "D_tail"
        /\ r.head = th[t].head /\ r.index = kNoIndexFound
    BY <1>1 DEF Locals
  <2> HIDE DEF r
  <2>3. th' \in [Threads -> Locals] /\ InCall(t) /\ th'[t] = r
    BY <2>1, <2>2, InCallEffect
  <2>4. ThreadInv(t)'
    BY <1>1, <1>2, <2>2, <2>3 DEF ThreadInv, HeadBehind, Found, Local, shared, EnqueuePcs,
       CommitPcs, TailPcs, HeadPcs
  <2>5. EmptyInv(t)'
    BY <2>2, <2>3 DEF EmptyInv, SaysEmpty
  <2>6. \A i \in Slots : i \in Ahead(t) => i = th[t].index
    BY <1>2, <1>5, <1>7 DEF Ahead, Distance
  <2>7. NoNewMiss(t)
    BY <1>1, <1>4, <1>7, <2>2, <2>3, <2>6 DEF NoNewMiss, Missed, HeadPcs
  <2> QED BY <1>1, <1>2, <2>2, <2>3, <2>4, <2>5, <2>7, DequeueMove DEF DequeuePcs
<1>8. CASE ~fits /\ th[t].left # 1
  <2> DEFINE r == [th[t] EXCEPT !.left = @ - 1, !.index = (@ + 1) % SegmentSize]
  <2>1. /\ (th[t].index + 1) % SegmentSize \in Slots
        /\ th[t].left - 1 \in 1 .. SegmentSize /\ th[t].left - 1 \in Nat
    BY <1>2, <1>5, <1>8
  <2>2. r \in Locals /\ th' = [th EXCEPT ![t] = r]
    BY <1>1, <1>8, <2>1 DEF Locals
  <2>3. /\ r.op = th[t].op /\ r.item = th[t].item /\ r.pc = "D_scan"
        /\ r.head = th[t].head /\ r.index = (th[t].index + 1) % SegmentSize /\ r.left = th[t].left - 1
    BY <1>1, <2>1 DEF Locals
  <2> HIDE DEF r
  <2>4. th' \in [Threads -> Locals] /\ InCall(t) /\ th'[t] = r
    BY <2>2, <2>3, InCallEffect
  <2>5. ThreadInv(t)'
    BY <1>1, <1>2, <2>1, <2>3, <2>4 DEF ThreadInv, HeadBehind, Local, shared, EnqueuePcs, CommitPcs,
       TailPcs, HeadPcs, SegmentSize
  <2>6. EmptyInv(t)'
    BY <2>3, <2>4 DEF EmptyInv, SaysEmpty
  <2>7. \A i \in Slots : i \in Ahead(t) => i \in Ahead(t)' \/ i = th[t].index
    <3>1. (th[t].index + 1) % SegmentSize
            = IF th[t].index + 1 = SegmentSize THEN 0 ELSE th[t].index + 1
      BY <1>2, SlotAfter
    <3>2. /\ th'[t].index = IF th[t].index + 1 = SegmentSize THEN 0 ELSE th[t].index + 1
          /\ th'[t].left = th[t].left - 1
      BY <2>3, <2>4, <3>1
    <3>3. Ahead(t)' = {i \in Slots : Distance(th'[t].index, i) < th'[t].left}
      BY DEF Ahead, Distance, Slots, SegmentSize
    <3>4. ASSUME NEW i \in Slots, Distance(th[t].index, i) < th[t].left, i # th[t].index
          PROVE  Distance(th'[t].index, i) < th'[t].left
      <4>1. Distance(th'[t].index, i) = Distance(th[t].index, i) - 1
        BY <1>2, <3>2, <3>4, DistanceAfter
      <4>2. Distance(th[t].index, i) \in Int
        BY <1>2, <1>5 DEF Distance
      <4> QED BY <1>2, <1>5, <3>2, <3>4, <4>1, <4>2
    <3> QED BY <3>3, <3>4 DEF Ahead
  <2>8. NoNewMiss(t)
    BY <1>1, <1>4, <1>8, <2>3, <2>4, <2>7 DEF NoNewMiss, Missed, HeadPcs
  <2> QED BY <1>1, <1>2, <2>3, <2>4, <2>5, <2>6, <2>8, DequeueMove DEF DequeuePcs
<1> QED BY <1>6, <1>7, <1>8

\* What is secured and still in the queue is not in the last segment, if that is the
\* head and a dequeue has found it empty.
LEMMA SeenEmpty ==
  ASSUME IInv, NEW t \in Threads, th[t].pc = "D_tail", ~Found(t), HeadUnchanged(t),
         head.seg = tail
  PROVE  done \cap Held = {}
<1>1. /\ head.seg \in Nat \ {0} /\ Len(segs) \in Nat /\ done \subseteq Items
      /\ head.seg .. Len(segs) \subseteq Linked
  BY DEF IInv, TypeOK, HeadWords, Linked
<1> SUFFICES ASSUME NEW x \in done, x \in Held PROVE FALSE
  OBVIOUS
<1>2. x # Null
  BY DEF Held
<1>3. PICK s \in Linked, i \in Slots : Val(s, i) = x
  BY <1>1 DEF Held, Val
<1>4. x \notin Gone
  BY <1>2, <1>3 DEF IInv, PlacesInv
<1>5. PICK r \in Linked, j \in Slots : Val(r, j) = x /\ Safe(r, j)
  BY <1>4 DEF IInv, DoneInv, Secured
<1>6. CASE r = head.seg
  BY <1>5, <1>6 DEF Safe, Missed
<1>7. CASE r # head.seg
  <2>1. r > tail
    BY <1>1, <1>5, <1>7 DEF Safe, Linked
  <2> QED BY <1>2, <1>5, <2>1 DEF IInv, ListInv
<1> QED BY <1>6, <1>7

LEMMA DequeueReadTailStep ==
  ASSUME IInv, NEW t \in Threads, DequeueReadTail(t)
  PROVE  IInv'
<1> USE DEF DequeueReadTail, At
<1>1. /\ th[t] \in Locals /\ th \in [Threads -> Locals] /\ tail \in Nat
      /\ th[t].pc = "D_tail" /\ Local(t) /\ th[t].op = "get"
      /\ th[t].head.seg \in Nat \ {0} /\ head.seg \in Nat \ {0} /\ HeadBehind(t) /\ head.seg <= tail
  BY DEF IInv, TypeOK, Locals, HeadWords, ListInv, ThreadInv, PcInv, DequeuePcs
<1> DEFINE r == [th[t] EXCEPT !.pc = "D_check", !.tail = tail]
<1>2. r \in Locals /\ th' = [th EXCEPT ![t] = r]
  BY <1>1 DEF Locals, Pcs, DequeuePcs
<1>3. /\ r.op = th[t].op /\ r.item = th[t].item /\ r.pc = "D_check" /\ r.head = th[t].head
      /\ r.index = th[t].index /\ r.old = th[t].old /\ r.tail = tail
  BY <1>1 DEF Locals
<1> HIDE DEF r
<1>4. th' \in [Threads -> Locals] /\ InCall(t) /\ th'[t] = r
  BY <1>2, <1>3, InCallEffect
<1>5. th[t].head.seg <= tail
  BY <1>1 DEF HeadBehind
<1>6. ThreadInv(t)'
  BY <1>1, <1>3, <1>4, <1>5 DEF IInv, ThreadInv, HeadBehind, Found, Local, shared, EnqueuePcs,
     CommitPcs, TailPcs, HeadPcs
<1>7. NoNewMiss(t)
  BY <1>1, <1>3, <1>4 DEF NoNewMiss, Missed, Found, HeadPcs
<1>8. sight' = [u \in Threads |-> th'[u].op = "get" /\ (sight[u] \/ done \cap Held = {})]
  BY <1>1, <1>4, QuietHistory DEF Local
<1>9. ~Found(t) /\ HeadUnchanged(t) /\ head.seg = tail => sight'[t]
  BY <1>1, <1>3, <1>4, <1>8, SeenEmpty
<1>10. EmptyInv(t)'
  BY <1>1, <1>3, <1>4, <1>9 DEF EmptyInv, SaysEmpty, Found, HeadUnchanged, LastSegment, Local, shared
<1> QED BY <1>1, <1>3, <1>4, <1>6, <1>7, <1>10, DequeueMove DEF DequeuePcs

LEMMA DequeueCheckStep ==
  ASSUME IInv, NEW t \in Threads, DequeueCheck(t)
  PROVE  IInv'
<1> USE DEF DequeueCheck, At
<1>1. /\ th[t].pc = "D_check" /\ Local(t) /\ th[t].op = "get"
      /\ th[t].head.seg \in Nat \ {0} /\ th[t].tail \in Nat /\ tail \in Nat
      /\ th[t].head.seg <= th[t].tail /\ th[t].tail <= tail
  BY DEF IInv, TypeOK, Locals, HeadWords, ThreadInv, PcInv, DequeuePcs
<1>2. CASE ~HeadUnchanged(t)
  BY <1>1, <1>2, FinishStep
<1>3. CASE HeadUnchanged(t) /\ ~Found(t) /\ LastSegment(t)
  <2>1. sight[t]
    BY <1>1, <1>3 DEF IInv, EmptyInv
  <2> QED BY <1>1, <1>3, <2>1, FinishStep
<1>4. CASE HeadUnchanged(t) /\ ~(~Found(t) /\ LastSegment(t))
  <2> DEFINE label == IF Found(t) THEN IF LastSegment(t) THEN "T_next" ELSE "D_cas" ELSE "H_next"
  <2>1. Goto(t, label) /\ label \in Pcs /\ label \in {"T_next", "D_cas", "H_next"}
    BY <1>4 DEF Pcs, TailPcs, DequeuePcs, HeadPcs
  <2>2. /\ th' \in [Threads -> Locals] /\ InCall(t) /\ th'[t].pc = label
        /\ th'[t].head = th[t].head /\ th'[t].tail = th[t].tail /\ th'[t].index = th[t].index
        /\ th'[t].old = th[t].old /\ th'[t].next = th[t].next /\ th'[t].op = th[t].op
    BY <2>1, GotoEffect
  <2>3. CASE label = "H_next"
    <3>1. ~Found(t) /\ ~LastSegment(t)
      BY <1>4, <2>3
    <3>2. ThreadInv(t)'
      BY <1>1, <2>2, <2>3, <3>1 DEF IInv, ThreadInv, HeadBehind, LastSegment, Local, shared,
         EnqueuePcs, CommitPcs, TailPcs, HeadPcs
    <3>3. NoNewMiss(t) /\ EmptyInv(t)'
      BY <1>1, <2>2, <2>3, <3>1 DEF NoNewMiss, Missed, HeadPcs, EmptyInv, SaysEmpty
    <3> QED BY <1>1, <2>2, <2>3, <3>2, <3>3, DequeueMove DEF HeadPcs
  <2>4. CASE label # "H_next"
    <3>1. Found(t) /\ label \in {"T_next", "D_cas"} /\ th[t].index \in Slots /\ th[t].old.val # Null
      BY <1>1, <1>4, <2>1, <2>4 DEF IInv, ThreadInv
    <3> HIDE DEF label
    <3>2. ThreadInv(t)'
      BY <1>1, <2>2, <3>1 DEF IInv, ThreadInv, HeadBehind, Local, shared,
         EnqueuePcs, CommitPcs, TailPcs, HeadPcs
    <3>3. NoNewMiss(t) /\ EmptyInv(t)'
      BY <2>2, <3>1 DEF NoNewMiss, Missed, HeadPcs, EmptyInv, SaysEmpty
    <3> QED BY <1>1, <2>2, <3>1, <3>2, <3>3, DequeueMove DEF TailPcs, DequeuePcs
  <2> QED BY <2>3, <2>4
<1> QED BY <1>2, <1>3, <1>4

LEMMA HeadReadNextStep ==
  ASSUME IInv, NEW t \in Threads, HeadReadNext(t)
  PROVE  IInv'
<1>1. /\ th[t] \in Locals /\ th \in [Threads -> Locals] /\ th[t].pc = "H_next" /\ Local(t)
      /\ th[t].op = "get"
      /\ th[t].head.seg \in Nat \ {0} /\ tail \in Nat /\ Len(segs) \in Nat /\ tail <= Len(segs)
      /\ th[t].head.seg < tail
  BY DEF IInv, TypeOK, Locals, HeadWords, ListInv, ThreadInv, PcInv, HeadPcs, HeadReadNext, At
<1>2. Next_(th[t].head.seg) = th[t].head.seg + 1 /\ Next_(th[t].head.seg) \in Nat
  BY <1>1 DEF Next_
<1> DEFINE r == [th[t] EXCEPT !.pc = "H_check", !.next = Next_(th[t].head.seg)]
<1>3. r \in Locals /\ th' = [th EXCEPT ![t] = r]
  BY <1>1, <1>2 DEF HeadReadNext, Locals, Pcs, HeadPcs
<1>4. /\ r.op = th[t].op /\ r.item = th[t].item /\ r.pc = "H_check" /\ r.head = th[t].head
      /\ r.next = Next_(th[t].head.seg)
  BY <1>1 DEF Locals
<1> HIDE DEF r
<1>5. th' \in [Threads -> Locals] /\ InCall(t) /\ th'[t] = r
  BY <1>3, <1>4, InCallEffect
<1>6. ThreadInv(t)'
  BY <1>1, <1>2, <1>4, <1>5 DEF IInv, ThreadInv, HeadBehind, Local, shared, EnqueuePcs, CommitPcs,
     TailPcs, HeadPcs
<1>7. NoNewMiss(t) /\ EmptyInv(t)'
  BY <1>1, <1>4, <1>5 DEF NoNewMiss, Missed, HeadPcs, EmptyInv, SaysEmpty
<1> QED BY <1>1, <1>4, <1>5, <1>6, <1>7, DequeueMove DEF HeadPcs

LEMMA HeadCheckStep ==
  ASSUME IInv, NEW t \in Threads, HeadCheck(t)
  PROVE  IInv'
<1> USE DEF HeadCheck, At
<1>1. th[t].pc = "H_check" /\ Local(t) /\ th[t].op = "get" /\ "H_delete" \in Pcs
  BY DEF IInv, PcInv, HeadPcs, Pcs
<1>2. CASE ~HeadUnchanged(t)
  BY <1>1, <1>2, FinishStep
<1>3. CASE HeadUnchanged(t)
  <2>1. /\ th' \in [Threads -> Locals] /\ InCall(t) /\ th'[t].pc = "H_delete"
        /\ th'[t].head = th[t].head /\ th'[t].next = th[t].next
    BY <1>1, <1>3, GotoEffect
  <2>2. ThreadInv(t)'
    BY <1>1, <2>1 DEF IInv, ThreadInv, HeadBehind, Local, shared, EnqueuePcs, CommitPcs, TailPcs,
       HeadPcs
  <2>3. NoNewMiss(t) /\ EmptyInv(t)'
    BY <1>1, <2>1 DEF NoNewMiss, Missed, HeadPcs, EmptyInv, SaysEmpty
  <2> QED BY <1>1, <2>1, <2>2, <2>3, DequeueMove DEF HeadPcs
<1> QED BY <1>2, <1>3

-----------------------------------------------------------------------------
\* Steps that change a shared word.

\* The head and the tail move on only, and segments stay.
HeadLater ==
  \/ head' = head
  \/ head'.seg > head.seg
  \/ head'.seg = head.seg /\ head'.aba > head.aba
ListGrows ==
  /\ HeadLater /\ tail <= tail' /\ Len(segs) <= Len(segs')
  /\ \A s \in Linked : segs[s].deleted => segs'[s].deleted

\* Slots keep their contents, but for the item of t, and for one that t takes.
Kept(s, i) == segs'[s].items[i] = segs[s].items[i]
SlotsKeep(t) ==
  /\ \A s \in Linked, i \in Slots :
       Val(s, i) \in {Null, th[t].item} \/ Val(s, i) \in Gone' \/ Kept(s, i)
  /\ \A s \in Linked', i \in Slots :
       Val(s, i)' \in {Null, th[t].item} \/ (s \in Linked /\ Kept(s, i))
  /\ Gone \subseteq Gone'
  /\ \A x \in Gone' : x \in Gone \/ \E s \in Linked, i \in Slots : Val(s, i) = x

SafeStays == \A s \in Linked, i \in Slots : Val(s, i) # Null /\ Safe(s, i) => Safe(s, i)'

LEMMA SharedStep ==
  ASSUME IInv, NEW t \in Threads, Others(t), th' \in [Threads -> Locals],
         th[t].op = "put" \/ th[t].item = Null,
         done' = done, older' = older,
         \A u \in Threads : sight[u] /\ th'[u].op = "get" => sight'[u],
         TypeOK', ListInv', PlacesInv', OrderInv', ListGrows, SlotsKeep(t), SafeStays,
         PcInv(t)', ThreadInv(t)', PutInv(t)', EmptyInv(t)', NotBehind(t)'
  PROVE  IInv'
<1>1. \A s \in Linked : s \in Linked'
  BY DEF ListGrows, Linked, IInv, TypeOK
<1>2. th[t].item \notin done /\ done \subseteq Items
  BY CallHistoryAssumption DEF IInv, TypeOK, PutInv
<1>3. \A x \in Items : x # th[t].item /\ Secured(x) => Secured(x)'
  <2> SUFFICES ASSUME NEW x \in Items, x # th[t].item, Secured(x), x \notin Gone'
               PROVE  Secured(x)'
    BY DEF Secured
  <2>1. PICK s \in Linked, i \in Slots : Val(s, i) = x /\ Safe(s, i)
    BY DEF Secured, SlotsKeep
  <2>2. x # Null
    BY CallHistoryAssumption
  <2>3. Kept(s, i) /\ Safe(s, i)'
    BY <2>1, <2>2 DEF SlotsKeep, SafeStays
  <2>4. s \in Linked' /\ Val(s, i)' = x
    BY <1>1, <2>1, <2>3 DEF Kept, Val
  <2> QED BY <2>3, <2>4 DEF Secured
<1>4. DoneInv'
  BY <1>2, <1>3 DEF IInv, DoneInv
<1>5. ASSUME NEW u \in Threads, u # t
      PROVE  PcInv(u)' /\ ThreadInv(u)' /\ PutInv(u)' /\ EmptyInv(u)' /\ NotBehind(u)'
  <2>1. th'[u] = th[u] /\ th[u] \in Locals
    BY <1>5 DEF Others, IInv, TypeOK
  <2>2. PcInv(u)'
    BY <2>1 DEF IInv, PcInv
  <2>3. HeadBehind(u)' /\ (HeadUnchanged(u)' => HeadUnchanged(u) /\ head' = head)
    <3>1. /\ head \in HeadWords /\ head' \in HeadWords /\ th[u].head \in HeadWords
          /\ HeadBehind(u) /\ HeadLater
      BY <2>1 DEF IInv, TypeOK, ThreadInv, ListGrows, Locals
    <3> QED BY <2>1, <3>1 DEF HeadBehind, HeadLater, HeadUnchanged, HeadWords
  <2>4. ThreadInv(u)'
    <3>1. /\ tail \in Nat /\ tail' \in Nat /\ Len(segs) \in Nat /\ Len(segs)' \in Nat
          /\ tail <= tail' /\ Len(segs) <= Len(segs)' /\ tail <= Len(segs)
          /\ th[u].tail \in Nat /\ th[u].next \in Nat /\ th[u].head.seg \in Nat \ {0}
      <4>1. tail \in Nat /\ Len(segs) \in Nat /\ tail <= Len(segs)
        BY DEF IInv, TypeOK, ListInv
      <4>2. tail' \in Nat /\ Len(segs)' \in Nat /\ tail <= tail' /\ Len(segs) <= Len(segs)'
        BY DEF TypeOK, ListGrows
      <4>3. th[u].tail \in Nat /\ th[u].next \in Nat /\ th[u].head.seg \in Nat \ {0}
        BY <2>1 DEF Locals, HeadWords
      <4> QED BY <4>1, <4>2, <4>3
    <3>2. th[u].pc \in HeadPcs => th[u].head.seg \in Linked
      BY <3>1 DEF IInv, ThreadInv, Linked
    <3>3. th[u].pc = "H_cas" => segs'[th[u].head.seg].deleted
      BY <3>2 DEF IInv, ThreadInv, ListGrows, HeadPcs
    <3> QED BY <2>1, <2>3, <3>1, <3>3 DEF IInv, ThreadInv, Found
  <2>5. EmptyInv(u)'
    BY <2>1, <2>3 DEF IInv, PcInv, EmptyInv, SaysEmpty, Found, LastSegment, HeadUnchanged,
       DequeuePcs
  <2>6. NotBehind(u)'
    <3> SUFFICES ASSUME th[u].pc \in {"E_scan", "E_check", "E_cas"},
                        NEW r \in Linked', NEW j \in Slots, Val(r, j)' \in older[th[u].item]
                 PROVE  r <= th[u].tail
      BY <2>1 DEF NotBehind
    <3>1. th[u].item \in Items
      BY DEF IInv, PcInv, EnqueuePcs
    <3>2. Val(r, j)' # Null /\ Val(r, j)' # th[t].item
      BY <1>2, <3>1, CallHistoryAssumption DEF IInv, OrderInv
    <3>3. r \in Linked /\ Val(r, j) = Val(r, j)'
      BY <3>2 DEF SlotsKeep, Kept, Val
    <3> QED BY <3>3 DEF IInv, NotBehind
  <2>7. PutInv(u)'
    <3> SUFFICES ASSUME th[u].op = "put" PROVE PutInv(u)'
      BY <2>1 DEF PutInv
    <3>1. PutInv(u) /\ PcInv(u) /\ ThreadInv(u)
      BY DEF IInv
    <3>2. th[u].item \in Items /\ th[u].item # Null /\ th[u].item # th[t].item
      BY <1>5, <3>1, CallHistoryAssumption DEF PcInv, IInv, PlacesInv
    <3>3. CASE th[u].pc \in CommitPcs
      <4>1. th[u].tail \in Linked /\ th[u].index \in Slots
        BY <3>1, <3>3 DEF ThreadInv, IInv, TypeOK, ListInv, Linked, CommitPcs
      <4>2. (InItsSlot(u) => Val(th[u].tail, th[u].index) = th[u].item)
            /\ (InItsSlot(u)' => segs'[th[u].tail].items[th[u].index].val = th[u].item)
        BY <2>1 DEF InItsSlot, Slot, NewItem, Val
      <4>3. InItsSlot(u)' => InItsSlot(u)
        <5> SUFFICES ASSUME InItsSlot(u)' PROVE InItsSlot(u)
          OBVIOUS
        <5>1. Kept(th[u].tail, th[u].index)
          BY <1>1, <3>2, <4>1, <4>2 DEF SlotsKeep, Val
        <5> QED BY <2>1, <5>1 DEF InItsSlot, Slot, NewItem, Kept
      <4>4. InItsSlot(u) => InItsSlot(u)' \/ th[u].item \in Gone'
        <5> SUFFICES ASSUME InItsSlot(u), th[u].item \notin Gone' PROVE InItsSlot(u)'
          OBVIOUS
        <5>1. Kept(th[u].tail, th[u].index)
          BY <3>2, <4>1, <4>2 DEF SlotsKeep
        <5> QED BY <2>1, <5>1 DEF InItsSlot, Slot, NewItem, Kept
      <4>5. InItsSlot(u) /\ Safe(th[u].tail, th[u].index) => Safe(th[u].tail, th[u].index)'
        BY <2>1, <3>2, <4>1, <4>2 DEF SafeStays, Safe, HeadUnchanged
      <4>6. Deleted(u) => Deleted(u)'
        BY <2>1, <4>1 DEF Deleted, ListGrows
      <4>7. Gone \subseteq Gone'
        BY DEF SlotsKeep
      <4> QED BY <2>1, <3>1, <3>3, <4>3, <4>4, <4>5, <4>6, <4>7
              DEF PutInv, CommitPcs, EnqueuePcs, TailPcs
    <3>4. CASE th[u].pc \in EnqueuePcs \cup TailPcs
      <4>1. th[u].item \notin Gone /\ \A s \in Linked, i \in Slots : Val(s, i) # th[u].item
        BY <3>1, <3>4 DEF PutInv
      <4>2. th[u].item \notin Gone' /\ \A s \in Linked', i \in Slots : Val(s, i)' # th[u].item
        BY <3>2, <4>1 DEF SlotsKeep, Kept, Val
      <4> QED BY <2>1, <3>1, <3>4, <4>2 DEF PutInv, CommitPcs, EnqueuePcs, TailPcs
    <3>5. CASE th[u].pc \notin CommitPcs \cup EnqueuePcs \cup TailPcs
      <4>1. PICK x \in Items : x = th[u].item
        BY <3>2
      <4>2. th[u].pc = "return" => Secured(x)'
        BY <1>3, <3>1, <3>2, <4>1 DEF PutInv
      <4> QED BY <2>1, <3>1, <3>5, <4>1, <4>2 DEF PutInv, CommitPcs
    <3> QED BY <3>3, <3>4, <3>5
  <2> QED BY <2>2, <2>4, <2>5, <2>6, <2>7
<1> QED BY <1>4, <1>5 DEF IInv

LEMMA ValTyped ==
  ASSUME IInv, NEW s \in Linked, NEW i \in Slots
  PROVE  Val(s, i) \in Items \cup {Null}
<1>1. segs[s] \in Segments
  BY DEF IInv, TypeOK, Linked
<1> QED BY <1>1 DEF Segments, Words, Val

\* A step in a call of t that leaves the slots alone.
LEMMA SlotsStay ==
  ASSUME IInv, NEW t \in Threads, th' \in [Threads -> Locals], InCall(t), NEW held, Observe(t, held),
         Linked \subseteq Linked',
         \A s \in Linked', i \in Slots : Val(s, i)' = Null \/ (s \in Linked /\ Kept(s, i)),
         \A s \in Linked, i \in Slots : Kept(s, i)
  PROVE  PlacesInv' /\ OrderInv' /\ SlotsKeep(t)
<1>1. done' = done /\ older' = older /\ Begun' = Begun /\ Gone' = Gone
      /\ Hands' = Hands /\ out' = out /\ \A u \in Threads : InHand(u)' = InHand(u)
  BY QuietHistory
<1>2. \A u \in Threads : th'[u].op = th[u].op /\ th'[u].item = th[u].item
  BY DEF InCall, Others
<1>3. \A s \in Linked', i \in Slots : Val(s, i)' # Null => s \in Linked /\ Val(s, i)' = Val(s, i)
  BY DEF Kept, Val
<1>4. PlacesInv'
  <2>1. \A s, r \in Linked', i, j \in Slots :
          Val(s, i)' = Val(r, j)' /\ Val(s, i)' # Null => s = r /\ i = j
    BY <1>3 DEF IInv, PlacesInv
  <2>2. \A s \in Linked', i \in Slots : Val(s, i)' # Null => Val(s, i)' \in Begun' \ Gone'
    BY <1>1, <1>3 DEF IInv, PlacesInv
  <2>3. /\ Gone' \subseteq Begun' /\ Hands' \cap out' = {}
        /\ \A u, v \in Threads : u # v => InHand(u)' \cap InHand(v)' = {}
    BY <1>1 DEF IInv, PlacesInv
  <2>4. \A u, v \in Threads : u # v /\ th'[u].op = "put" /\ th'[v].op = "put" => th'[u].item # th'[v].item
    BY <1>2 DEF IInv, PlacesInv
  <2> QED BY <2>1, <2>2, <2>3, <2>4 DEF PlacesInv
<1>5. OrderInv'
  <2>1. \A x \in Items : older'[x] \subseteq done'
    BY <1>1 DEF IInv, OrderInv
  <2>2. ASSUME NEW s \in Linked', NEW r \in Linked', NEW i \in Slots, NEW j \in Slots,
               Val(s, i)' # Null, Val(r, j)' \in older[Val(s, i)']
        PROVE  r <= s
    <3>1. s \in Linked /\ Val(s, i)' = Val(s, i) /\ Val(s, i) \in Items
      BY <1>3, <2>2, ValTyped
    <3>2. Val(r, j)' # Null
      BY <2>2, <3>1, CallHistoryAssumption DEF IInv, TypeOK, OrderInv
    <3> QED BY <1>3, <2>2, <3>1, <3>2 DEF IInv, OrderInv
  <2> QED BY <1>1, <2>1, <2>2 DEF OrderInv
<1>6. SlotsKeep(t)
  BY <1>1 DEF SlotsKeep
<1> QED BY <1>4, <1>5, <1>6

\* An item that is in no slot yet.
LEMMA OutsideKept ==
  ASSUME IInv, NEW t \in Threads, th' \in [Threads -> Locals], InCall(t), NEW held, Observe(t, held),
         th[t].pc \in EnqueuePcs \cup TailPcs, th'[t].pc \in EnqueuePcs \cup TailPcs,
         \A s \in Linked', i \in Slots : Val(s, i)' = Null \/ (s \in Linked /\ Kept(s, i))
  PROVE  PutInv(t)'
<1> SUFFICES ASSUME th'[t].op = "put" PROVE PutInv(t)'
  BY DEF PutInv
<1>1. done' = done /\ Gone' = Gone
  BY QuietHistory
<1>2. PutInv(t) /\ th[t].op = "put" /\ th'[t].item = th[t].item /\ th[t].item # Null
  BY CallHistoryAssumption DEF IInv, InCall, PcInv
<1>3. \A s \in Linked', i \in Slots : Val(s, i)' # th[t].item
  BY <1>2 DEF PutInv, Kept, Val
<1> QED BY <1>1, <1>2, <1>3 DEF PutInv, EnqueuePcs, TailPcs, CommitPcs

\* When the head moves, no search of the head segment is under way any more.
LEMMA HeadMoved ==
  ASSUME IInv, NEW t \in Threads, Others(t), head' \in HeadWords, HeadLater, head' # head,
         \A i \in Slots : ~Missed(t, i)', NEW s \in Nat, NEW i \in Slots, head'.seg <= s
  PROVE  Safe(s, i)'
<1> SUFFICES ASSUME NEW u \in Threads, HeadUnchanged(u)', u # t
             PROVE  FALSE
  BY DEF Safe
<1>1. th[u].head = head' /\ HeadBehind(u) /\ head \in HeadWords /\ head' \in HeadWords
  BY DEF Others, HeadUnchanged, IInv, TypeOK, ThreadInv
<1> QED BY <1>1 DEF HeadBehind, HeadLater, HeadWords

LEMMA HeadStep ==
  ASSUME IInv, NEW t \in Threads, NEW label \in {"D_head", "return"}, Finish(t, label),
         th[t].pc # "return", th[t].pc # "idle",
         UNCHANGED <<tail, segs>>, Observe(t, Held'),
         head' \in HeadWords, head'.seg <= tail, HeadLater, head' # head,
         \A s \in Linked : s < head'.seg => segs[s].deleted,
         \A s \in Linked, i \in Slots : Val(s, i) # Null /\ Safe(s, i) => head'.seg <= s,
         label = "D_head" => th[t].op = "get",
         label = "return" =>
           /\ th[t].op = "put"
           /\ th[t].item \in Gone \/ \E s \in Linked, i \in Slots :
                                       Val(s, i) = th[t].item /\ head'.seg <= s
  PROVE  IInv'
<1>1. /\ th' \in [Threads -> Locals] /\ InCall(t) /\ th'[t].pc = label /\ th'[t].head = FirstHead
      /\ th'[t].op = th[t].op /\ th'[t].item = th[t].item
  BY FinishEffect DEF Pcs, DequeuePcs
<1>2. /\ done' = done /\ out' = out /\ older' = older /\ Gone' = Gone
      /\ sight' = [u \in Threads |-> th'[u].op = "get" /\ (sight[u] \/ done \cap Held' = {})]
  BY <1>1, QuietHistory
<1>3. Linked' = Linked /\ (\A s, i : Val(s, i)' = Val(s, i) /\ Kept(s, i))
  BY DEF Linked, Val, Kept
<1>4. PlacesInv' /\ OrderInv' /\ SlotsKeep(t)
  BY <1>1, <1>3, SlotsStay
<1>5. TypeOK'
  BY <1>1, <1>2 DEF IInv, TypeOK
<1>6. ListInv'
  BY <1>3 DEF IInv, ListInv
<1>7. ListGrows
  BY DEF ListGrows, IInv, TypeOK
<1>8. \A s \in Linked, i \in Slots : head'.seg <= s => Safe(s, i)'
  BY <1>1, HeadMoved DEF InCall, Missed, HeadPcs, Linked
<1>9. SafeStays
  BY <1>8 DEF SafeStays
<1>10. PcInv(t)'
  BY <1>1 DEF IInv, PcInv, EnqueuePcs, CommitPcs, DequeuePcs, HeadPcs
<1>11. ThreadInv(t)'
  BY <1>1 DEF IInv, TypeOK, ThreadInv, HeadBehind, EnqueuePcs, CommitPcs, TailPcs, HeadPcs,
     FirstHead, HeadWords
<1>12. EmptyInv(t)' /\ NotBehind(t)'
  BY <1>1 DEF EmptyInv, SaysEmpty, NotBehind
<1>13. PutInv(t)'
  <2>1. CASE label = "D_head"
    BY <1>1, <2>1 DEF PutInv
  <2>2. CASE label = "return"
    <3>1. PICK x \in Items : x = th[t].item
      BY <2>2 DEF IInv, PcInv
    <3>2. Secured(x)'
      BY <1>2, <1>3, <1>8, <2>2, <3>1 DEF Secured
    <3> QED BY <1>1, <1>2, <2>2, <3>1, <3>2 DEF IInv, PutInv, EnqueuePcs, TailPcs, CommitPcs
  <2> QED BY <2>1, <2>2
<1>14. th[t].op = "put" \/ th[t].item = Null
  BY DEF IInv, PcInv
<1> QED BY <1>1, <1>2, <1>4, <1>5, <1>6, <1>7, <1>9, <1>10, <1>11, <1>12, <1>13, <1>14, SharedStep
        DEF InCall

LEMMA CommitBumpHeadStep ==
  ASSUME IInv, NEW t \in Threads, CommitBumpHead(t)
  PROVE  IInv'
<1> USE DEF CommitBumpHead, At
<1>1. /\ th[t].pc = "C_bump" /\ th[t].op = "put" /\ head \in HeadWords
      /\ th[t].tail \in Linked /\ th[t].index \in Slots
      /\ th[t].item \in Gone \/ InItsSlot(t)
      /\ th[t].head.seg = th[t].tail
  BY DEF IInv, TypeOK, ListInv, PcInv, PutInv, ThreadInv, CommitPcs, Linked
<1>2. CASE head # th[t].head
  <2>1. UNCHANGED shared /\ Observe(t, Held') /\ Goto(t, "C_undo")
    BY <1>2 DEF shared
  <2> QED BY <1>1, <2>1, FailedSwap, CommitBumpFails
<1>3. CASE head = th[t].head
  <2>1. /\ head' = [head EXCEPT !.aba = @ + 1] /\ Finish(t, "return")
        /\ UNCHANGED <<tail, segs>> /\ Observe(t, Held')
    BY <1>3
  <2>2. head' \in HeadWords /\ head'.seg = head.seg /\ head'.aba > head.aba /\ head' # head
    BY <1>1, <2>1 DEF HeadWords
  <2>3. head.seg <= tail /\ \A s \in Linked : s < head.seg => segs[s].deleted
    BY DEF IInv, ListInv
  <2>4. HeadLater
    BY <2>2 DEF HeadLater
  <2>5. th[t].item \in Gone \/ \E s \in Linked, i \in Slots : Val(s, i) = th[t].item /\ head'.seg <= s
    BY <1>1, <1>3, <2>2 DEF InItsSlot, Slot, NewItem, Val, HeadWords
  <2>6. \A s \in Linked, i \in Slots : Val(s, i) # Null /\ Safe(s, i) => head'.seg <= s
    BY <2>2 DEF Safe
  <2> QED BY <1>1, <2>1, <2>2, <2>3, <2>4, <2>5, <2>6, HeadStep
<1> QED BY <1>2, <1>3

LEMMA HeadCasStep ==
  ASSUME IInv, NEW t \in Threads, HeadCas(t)
  PROVE  IInv'
<1> USE DEF HeadCas, At
<1>1. /\ th[t].pc = "H_cas" /\ th[t].op = "get" /\ head \in HeadWords /\ tail \in Nat
      /\ th[t].next = th[t].head.seg + 1 /\ th[t].head.seg < tail
      /\ segs[th[t].head.seg].deleted
  BY DEF IInv, TypeOK, PcInv, ThreadInv, HeadPcs
<1>2. CASE ~HeadUnchanged(t)
  <2>1. UNCHANGED shared /\ Observe(t, Held') /\ Finish(t, "D_head")
    BY <1>2 DEF shared
  <2> QED BY <1>1, <2>1, FailedSwap, FinishStep
<1>3. CASE HeadUnchanged(t)
  <2>1. /\ head' = [seg |-> head.seg + 1, aba |-> head.aba + 1] /\ Finish(t, "D_head")
        /\ UNCHANGED <<tail, segs>> /\ Observe(t, Held')
    BY <1>1, <1>3 DEF HeadUnchanged
  <2>2. head' \in HeadWords /\ head'.seg = head.seg + 1 /\ head' # head /\ head'.seg <= tail
    BY <1>1, <1>3, <2>1 DEF HeadWords, HeadUnchanged
  <2>3. \A s \in Linked : s < head'.seg => segs[s].deleted
    BY <1>1, <1>3, <2>2 DEF IInv, ListInv, HeadUnchanged, HeadWords, Linked
  <2>4. HeadLater
    BY <1>1, <2>2 DEF HeadLater, HeadWords
  <2>5. \A s \in Linked, i \in Slots : Val(s, i) # Null /\ Safe(s, i) => head'.seg <= s
    BY <1>1, <1>3, <2>2 DEF Safe, Missed, HeadPcs, Linked, HeadWords
  <2> QED BY <1>1, <2>1, <2>2, <2>3, <2>4, <2>5, HeadStep
<1> QED BY <1>2, <1>3

LEMMA HeadDeleteStep ==
  ASSUME IInv, NEW t \in Threads, HeadDelete(t)
  PROVE  IInv'
<1> USE DEF HeadDelete, At
<1> DEFINE n == th[t].head.seg
<1>1. /\ th[t].pc = "H_delete" /\ th[t].op = "get" /\ segs \in Seq(Segments)
      /\ n \in Linked /\ n \in Nat \ {0} /\ n < tail
      /\ Observe(t, Held') /\ "H_cas" \in Pcs
  BY DEF IInv, TypeOK, ListInv, Locals, HeadWords, PcInv, ThreadInv, HeadPcs, Linked, Pcs
<1>2. /\ th' \in [Threads -> Locals] /\ InCall(t) /\ th'[t].pc = "H_cas"
      /\ th'[t].head = th[t].head /\ th'[t].next = th[t].next /\ th'[t].op = th[t].op
  BY <1>1, GotoEffect
<1>3. /\ done' = done /\ out' = out /\ older' = older /\ Gone' = Gone
      /\ sight' = [u \in Threads |-> th'[u].op = "get" /\ (sight[u] \/ done \cap Held' = {})]
  BY <1>1, <1>2, QuietHistory
<1>4. segs' = [segs EXCEPT ![n] = [segs[n] EXCEPT !.deleted = TRUE]] /\ segs[n] \in Segments
  BY <1>1 DEF Linked
<1>5. [segs[n] EXCEPT !.deleted = TRUE] \in Segments
  BY <1>4 DEF Segments
<1> HIDE DEF n
<1>6. segs' \in Seq(Segments) /\ Len(segs') = Len(segs)
  <2>1. segs \in [1 .. Len(segs) -> Segments] /\ Len(segs) \in Nat
    BY <1>1
  <2>2. segs' \in [1 .. Len(segs) -> Segments]
    BY <1>4, <1>5, <2>1
  <2> QED BY <2>1, <2>2
<1>7. \A s \in Linked : segs'[s].items = segs[s].items /\ (segs[s].deleted => segs'[s].deleted)
  BY <1>1, <1>4 DEF Segments, Linked
<1>8. segs'[n].deleted
  BY <1>1, <1>4 DEF Segments, Linked
<1>9. /\ Linked' = Linked
      /\ \A s \in Linked, i \in Slots : Val(s, i)' = Val(s, i) /\ Kept(s, i)
  BY <1>6, <1>7 DEF Linked, Val, Kept
<1>10. PlacesInv' /\ OrderInv' /\ SlotsKeep(t)
  BY <1>1, <1>2, <1>9, SlotsStay
<1>11. TypeOK'
  BY <1>2, <1>3, <1>6 DEF IInv, TypeOK
<1>12. ListInv' /\ ListGrows
  BY <1>1, <1>6, <1>7, <1>9 DEF IInv, TypeOK, ListInv, ListGrows, HeadLater
<1>13. NoNewMiss(t)
  BY <1>1, <1>2 DEF NoNewMiss, Missed, HeadPcs
<1>14. SafeStays
  BY <1>2, <1>13, SafeKept DEF SafeStays, InCall
<1>15. PcInv(t)'
  BY <1>1, <1>2 DEF InCall, IInv, PcInv, EnqueuePcs, CommitPcs, DequeuePcs, HeadPcs
<1>16. ThreadInv(t)'
  BY <1>1, <1>2, <1>8 DEF IInv, ThreadInv, HeadBehind, EnqueuePcs, CommitPcs, TailPcs, HeadPcs, n
<1>17. EmptyInv(t)' /\ NotBehind(t)' /\ PutInv(t)'
  BY <1>1, <1>2 DEF EmptyInv, SaysEmpty, NotBehind, PutInv
<1>18. th[t].op = "put" \/ th[t].item = Null
  BY <1>1 DEF IInv, PcInv
<1> QED BY <1>2, <1>3, <1>10, <1>11, <1>12, <1>14, <1>15, <1>16, <1>17, <1>18, SharedStep DEF InCall

\* A step of advance_tail that changes the list, and none of its items.
LEMMA TailStep ==
  ASSUME IInv, NEW t \in Threads, th[t].pc \in TailPcs, th' \in [Threads -> Locals], InCall(t),
         head' = head, Observe(t, Held'),
         segs' \in Seq(Segments), tail' \in Nat, tail <= tail', tail' <= Len(segs'),
         Len(segs') <= tail' + 1, Len(segs) <= Len(segs'),
         \A s \in Linked : segs'[s] = segs[s],
         \A s \in Linked', i \in Slots : Val(s, i)' = Null \/ (s \in Linked /\ Kept(s, i)),
         ThreadInv(t)',
         IF th[t].op = "put" THEN th'[t].pc \in TailPcs \cup {"E_tail"}
         ELSE th'[t].pc \in TailPcs \cup {"D_cas"}
  PROVE  IInv'
<1>1. /\ done' = done /\ out' = out /\ older' = older /\ Gone' = Gone
      /\ sight' = [u \in Threads |-> th'[u].op = "get" /\ (sight[u] \/ done \cap Held' = {})]
  BY QuietHistory
<1>2. /\ th[t].op \in {"put", "get"} /\ th'[t].op = th[t].op /\ th'[t].item = th[t].item
      /\ th[t].op = "get" => th[t].item = Null
  BY DEF IInv, TypeOK, Locals, PcInv, TailPcs, InCall
<1>3. Linked \subseteq Linked'
  BY DEF Linked, IInv, TypeOK
<1>4. \A s \in Linked, i \in Slots : Val(s, i)' = Val(s, i) /\ Kept(s, i)
  BY DEF Val, Kept
<1>5. PlacesInv' /\ OrderInv' /\ SlotsKeep(t)
  BY <1>3, <1>4, SlotsStay
<1>6. TypeOK'
  BY <1>1 DEF IInv, TypeOK
<1>7. ListInv'
  <2>1. head'.seg <= tail'
    BY DEF IInv, TypeOK, ListInv, HeadWords
  <2>2. \A s \in Linked' : s < head'.seg => s \in Linked /\ segs'[s].deleted
    BY DEF IInv, TypeOK, ListInv, HeadWords, Linked
  <2>3. \A s \in Linked', i \in Slots : s > tail' => Val(s, i)' = Null
    BY <1>4 DEF IInv, TypeOK, ListInv, Linked
  <2> QED BY <2>1, <2>2, <2>3 DEF ListInv
<1>8. ListGrows
  BY DEF ListGrows, HeadLater
<1>9. NoNewMiss(t)
  BY DEF NoNewMiss, Missed, HeadPcs, TailPcs
<1>10. SafeStays
  BY <1>9, SafeKept DEF SafeStays, InCall
<1>11. PcInv(t)'
  BY <1>2 DEF IInv, PcInv, EnqueuePcs, CommitPcs, DequeuePcs, HeadPcs, TailPcs
<1>12. EmptyInv(t)' /\ NotBehind(t)'
  BY DEF EmptyInv, SaysEmpty, NotBehind, TailPcs
<1>13. PutInv(t)'
  <2>1. CASE th[t].op = "put"
    BY <2>1, OutsideKept DEF EnqueuePcs
  <2>2. CASE th[t].op # "put"
    BY <1>2, <2>2 DEF PutInv
  <2> QED BY <2>1, <2>2
<1> QED BY <1>1, <1>2, <1>5, <1>6, <1>7, <1>8, <1>10, <1>11, <1>12, <1>13, SharedStep DEF InCall

LEMMA TailLinkStep ==
  ASSUME IInv, NEW t \in Threads, TailLink(t)
  PROVE  IInv'
<1> USE DEF TailLink, At
<1>1. /\ th[t] \in Locals /\ th \in [Threads -> Locals] /\ th[t].pc = "T_link"
      /\ segs \in Seq(Segments) /\ Len(segs) \in Nat /\ tail \in Nat /\ tail <= Len(segs)
      /\ th[t].tail \in 1 .. tail
  BY DEF IInv, TypeOK, ListInv, ThreadInv, TailPcs
<1>2. CASE Next_(th[t].tail) # 0
  <2>1. UNCHANGED shared /\ Observe(t, Held') /\ AfterTail(t)
    BY <1>2 DEF shared
  <2> QED BY <1>1, <2>1, FailedSwap, AfterTailStep DEF TailPcs
<1>3. CASE Next_(th[t].tail) = 0
  <2> DEFINE r == [th[t] EXCEPT !.pc = "T_swing", !.next = Len(segs) + 1]
  <2>1. /\ segs' = Append(segs, NewSegment) /\ head' = head /\ tail' = tail /\ Observe(t, Held')
        /\ th' = [th EXCEPT ![t] = r]
    BY <1>1, <1>3
  <2>2. Len(segs) + 1 \in Nat /\ r \in Locals
    <3>1. Len(segs) + 1 \in Nat /\ "T_swing" \in Pcs
      BY <1>1 DEF Pcs, TailPcs
    <3> QED BY <1>1, <3>1 DEF Locals
  <2>3. /\ r.op = th[t].op /\ r.item = th[t].item /\ r.pc = "T_swing" /\ r.head = th[t].head
        /\ r.tail = th[t].tail /\ r.index = th[t].index /\ r.old = th[t].old
        /\ r.next = Len(segs) + 1
    BY <1>1 DEF Locals
  <2> HIDE DEF r
  <2>4. th' \in [Threads -> Locals] /\ InCall(t) /\ th'[t] = r
    BY <2>1, <2>2, <2>3, InCallEffect
  <2>5. th[t].tail = tail /\ tail = Len(segs)
    BY <1>1, <1>3 DEF Next_
  <2>6. NewSegment \in Segments
    BY DEF NewSegment, Segments, Empty, Words
  <2>7. segs' \in Seq(Segments) /\ Len(segs') = Len(segs) + 1 /\ \A s \in Linked : segs'[s] = segs[s]
    BY <1>1, <2>1, <2>6 DEF Linked
  <2>8. segs'[Len(segs) + 1] = NewSegment
    BY <1>1, <2>1
  <2>9. \A s \in Linked', i \in Slots : Val(s, i)' = Null \/ (s \in Linked /\ Kept(s, i))
    BY <1>1, <2>7, <2>8 DEF Linked, Val, Kept, NewSegment, Empty
  <2>10. ThreadInv(t)'
    BY <1>1, <2>1, <2>3, <2>4, <2>5, <2>7 DEF IInv, ThreadInv, HeadBehind, EnqueuePcs, CommitPcs,
       TailPcs, HeadPcs
  <2>11. /\ tail' \in Nat /\ tail <= tail' /\ tail' <= Len(segs') /\ Len(segs') <= tail' + 1
         /\ Len(segs) <= Len(segs')
    BY <1>1, <2>1, <2>5, <2>7
  <2>12. th[t].pc \in TailPcs /\ th'[t].pc \in TailPcs
    BY <1>1, <2>3, <2>4 DEF TailPcs
  <2> QED BY <2>1, <2>4, <2>7, <2>9, <2>10, <2>11, <2>12, TailStep
<1> QED BY <1>2, <1>3

LEMMA TailSwingStep ==
  ASSUME IInv, NEW t \in Threads, TailSwing(t)
  PROVE  IInv'
<1> USE DEF TailSwing, At
<1>1. /\ th[t] \in Locals /\ th[t].pc = "T_swing" /\ th[t].pc \in TailPcs
      /\ segs \in Seq(Segments) /\ Len(segs) \in Nat /\ tail \in Nat /\ Len(segs) <= tail + 1
      /\ th[t].next = th[t].tail + 1 /\ th[t].next <= Len(segs)
      /\ th[t].op = "put" \/ th[t].op = "get"
  BY DEF IInv, TypeOK, ListInv, Locals, ThreadInv, PcInv, TailPcs
<1>2. CASE tail # th[t].tail
  <2>1. UNCHANGED shared /\ Observe(t, Held') /\ AfterTail(t)
    BY <1>2 DEF shared, SwungTail
  <2> QED BY <1>1, <2>1, FailedSwap, AfterTailStep
<1>3. CASE tail = th[t].tail
  <2>1. /\ tail' = tail + 1 /\ AfterTail(t) /\ head' = head /\ segs' = segs /\ Observe(t, Held')
        /\ tail + 1 <= Len(segs)
    BY <1>1, <1>3 DEF SwungTail
  <2>2. \A s \in Linked', i \in Slots : Val(s, i)' = Null \/ (s \in Linked /\ Kept(s, i))
    BY <2>1 DEF Linked, Val, Kept
  <2>3. CASE th[t].op = "put"
    <3>1. /\ th' \in [Threads -> Locals] /\ InCall(t)
          /\ th'[t].pc = "E_tail" /\ th'[t].head = FirstHead
      BY <2>1, <2>3, FinishEffect DEF AfterTail, Pcs, EnqueuePcs
    <3>2. ThreadInv(t)'
      BY <2>1, <3>1 DEF IInv, TypeOK, ThreadInv, HeadBehind, EnqueuePcs, CommitPcs, TailPcs, HeadPcs,
         FirstHead, HeadWords
    <3> QED BY <1>1, <2>1, <2>2, <2>3, <3>1, <3>2, TailStep
  <2>4. CASE th[t].op = "get"
    <3>1. /\ th' \in [Threads -> Locals] /\ InCall(t) /\ th'[t].pc = "D_cas"
          /\ th'[t].head = th[t].head /\ th'[t].index = th[t].index /\ th'[t].old = th[t].old
      BY <1>1, <2>1, <2>4, AfterTailEffect
    <3>2. ThreadInv(t)'
      BY <1>1, <2>1, <2>4, <3>1 DEF IInv, ThreadInv, HeadBehind, EnqueuePcs, CommitPcs, TailPcs, HeadPcs
    <3> QED BY <1>1, <2>1, <2>2, <2>4, <3>1, <3>2, TailStep
  <2> QED BY <1>1, <2>3, <2>4
<1> QED BY <1>2, <1>3

-----------------------------------------------------------------------------
\* Steps that write a slot.

\* A step of which this is what the slots show.
Writes(s, i, w) ==
  /\ segs' = [segs EXCEPT ![s].items[i] = w]
  /\ head' = head /\ tail' = tail
  /\ w.val = Null \/ s <= tail

Written(s, i, w) ==
  /\ segs' \in Seq(Segments) /\ Linked' = Linked
  /\ segs'[s].items[i] = w
  /\ \A r \in Linked, j \in Slots : Kept(r, j) \/ (r = s /\ j = i)
  /\ \A r \in Linked, j \in Slots : Val(r, j)' = IF r = s /\ j = i THEN w.val ELSE Val(r, j)
  /\ ListInv' /\ ListGrows

LEMMA WriteEffect ==
  ASSUME IInv, NEW s \in Linked, NEW i \in Slots, NEW w \in Words, Writes(s, i, w)
  PROVE  Written(s, i, w)
<1> USE DEF Writes
<1>1. segs \in Seq(Segments) /\ segs \in [1 .. Len(segs) -> Segments] /\ Len(segs) \in Nat
  BY DEF IInv, TypeOK
<1> DEFINE g == [segs[s] EXCEPT !.items = [segs[s].items EXCEPT ![i] = w]]
<1>2. segs[s] \in Segments /\ segs[s].items \in [Slots -> Words]
  BY <1>1 DEF Linked, Segments
<1>3. segs' = [segs EXCEPT ![s] = g]
  BY <1>1, <1>2 DEF Linked
<1>4. /\ g \in Segments /\ g.items = [segs[s].items EXCEPT ![i] = w]
      /\ g.deleted = segs[s].deleted
  BY <1>2 DEF Segments
<1> HIDE DEF g
<1>5. segs' \in [1 .. Len(segs) -> Segments]
  BY <1>1, <1>3, <1>4
<1>6. segs' \in Seq(Segments) /\ Len(segs') = Len(segs) /\ Linked' = Linked
  BY <1>1, <1>5 DEF Linked
<1>7. segs'[s] = g /\ \A r \in Linked : r # s => segs'[r] = segs[r]
  BY <1>1, <1>3 DEF Linked
<1>8. segs'[s].items[i] = w /\ \A j \in Slots : j # i => segs'[s].items[j] = segs[s].items[j]
  BY <1>2, <1>4, <1>7
<1>9. \A r \in Linked, j \in Slots : Kept(r, j) \/ (r = s /\ j = i)
  BY <1>7, <1>8 DEF Kept
<1>10. \A r \in Linked, j \in Slots : Val(r, j)' = IF r = s /\ j = i THEN w.val ELSE Val(r, j)
  BY <1>8, <1>9 DEF Val, Kept
<1>11. \A r \in Linked : segs'[r].deleted = segs[r].deleted
  BY <1>4, <1>7
<1>12. ListInv'
  <2>1. \A r \in Linked', j \in Slots : r > tail' => Val(r, j)' = Null
    BY <1>6, <1>10 DEF IInv, ListInv, TypeOK, Linked
  <2> QED BY <1>6, <1>11, <2>1 DEF IInv, ListInv
<1>13. ListGrows
  BY <1>6, <1>11 DEF ListGrows, HeadLater, IInv, TypeOK
<1> QED BY <1>6, <1>8, <1>9, <1>10, <1>12, <1>13 DEF Written

LEMMA EnqueueCasStep ==
  ASSUME IInv, NEW t \in Threads, EnqueueCas(t)
  PROVE  IInv'
<1> USE DEF EnqueueCas, At
<1> DEFINE s == th[t].tail
           i == th[t].index
           x == th[t].item
<1>1. /\ th[t] \in Locals /\ th[t].pc = "E_cas" /\ th[t].op = "put" /\ tail \in Nat
      /\ s \in Linked /\ s \in 1 .. tail /\ i \in Slots /\ x \in Items /\ x # Null
      /\ th[t].old \in Words /\ th[t].old.val = Null /\ "C_slot" \in Pcs /\ PutInv(t) /\ NotBehind(t)
  BY CallHistoryAssumption DEF IInv, TypeOK, ListInv, Locals, PcInv, ThreadInv, EnqueuePcs, Linked,
     Pcs, CommitPcs
<1>2. CASE Slot(t, th[t].tail) # th[t].old
  <2>1. UNCHANGED shared /\ Observe(t, Held') /\ Finish(t, "E_tail")
    BY <1>2 DEF shared
  <2> QED BY <1>1, <2>1, FailedSwap, FinishStep DEF EnqueuePcs
<1>3. CASE Slot(t, th[t].tail) = th[t].old
  <2>1. /\ segs' = [segs EXCEPT ![s].items[i] = NewItem(t)] /\ Goto(t, "C_slot")
        /\ head' = head /\ tail' = tail /\ Observe(t, Held')
    BY <1>3
  <2>2. NewItem(t) \in Words /\ NewItem(t).val = x
    BY <1>1 DEF NewItem, Words
  <2>3. Val(s, i) = Null
    BY <1>1, <1>3 DEF Slot, Val
  <2>4. /\ th' \in [Threads -> Locals] /\ InCall(t) /\ th'[t].pc = "C_slot"
        /\ th'[t].head = th[t].head /\ th'[t].tail = th[t].tail /\ th'[t].index = th[t].index
        /\ th'[t].old = th[t].old /\ th'[t].op = th[t].op /\ th'[t].item = th[t].item
    BY <1>1, <2>1, GotoEffect
  <2>5. /\ done' = done /\ out' = out /\ older' = older /\ Gone' = Gone /\ Begun' = Begun
        /\ Hands' = Hands /\ \A u \in Threads : InHand(u)' = InHand(u)
        /\ sight' = [u \in Threads |-> th'[u].op = "get" /\ (sight[u] \/ done \cap Held' = {})]
    BY <2>1, <2>4, QuietHistory
  <2>6. /\ x \notin done /\ x \notin Gone /\ x \in Begun
        /\ \A r \in Linked, j \in Slots : Val(r, j) # x
    BY <1>1 DEF PutInv, EnqueuePcs, Begun
  <2>7. \A r \in Linked, j \in Slots : Val(r, j) \in older[x] => r <= s
    BY <1>1 DEF NotBehind
  <2> HIDE DEF s, i, x
  <2>8. /\ segs' \in Seq(Segments) /\ Linked' = Linked /\ segs'[s].items[i] = NewItem(t)
        /\ \A r \in Linked, j \in Slots : Kept(r, j) \/ (r = s /\ j = i)
        /\ \A r \in Linked, j \in Slots : Val(r, j)' = IF r = s /\ j = i THEN x ELSE Val(r, j)
        /\ ListInv' /\ ListGrows
    <3>1. Writes(s, i, NewItem(t))
      BY <1>1, <2>1, <2>2 DEF Writes
    <3>2. Written(s, i, NewItem(t))
      BY <1>1, <2>2, <3>1, WriteEffect
    <3> QED BY <2>2, <3>2 DEF Written
  <2>9. TypeOK'
    BY <2>1, <2>4, <2>5, <2>8 DEF IInv, TypeOK
  <2>10. PlacesInv'
    <3>1. \A r, q \in Linked', j, k \in Slots :
            Val(r, j)' = Val(q, k)' /\ Val(r, j)' # Null => r = q /\ j = k
      BY <2>6, <2>8 DEF IInv, PlacesInv
    <3>2. \A r \in Linked', j \in Slots : Val(r, j)' # Null => Val(r, j)' \in Begun' \ Gone'
      BY <2>5, <2>6, <2>8 DEF IInv, PlacesInv
    <3>3. \A u \in Threads : th'[u].op = th[u].op /\ th'[u].item = th[u].item
      BY <2>4 DEF InCall, Others
    <3> QED BY <2>5, <3>1, <3>2, <3>3 DEF IInv, PlacesInv
  <2>11. OrderInv'
    <3>1. \A y \in Items : older[y] \subseteq done /\ x \notin older[y] /\ Null \notin older[y]
      BY <2>6, CallHistoryAssumption DEF IInv, TypeOK, OrderInv
    <3>2. \A r \in Linked, j \in Slots : Val(r, j) \in Items \cup {Null}
      BY ValTyped
    <3>3. ASSUME NEW q \in Linked, NEW r \in Linked, NEW j \in Slots, NEW k \in Slots,
                 Val(q, j)' # Null, Val(r, k)' \in older[Val(q, j)']
          PROVE  r <= q
      <4>1. Val(q, j)' \in Items
        BY <1>1, <2>8, <3>2, <3>3
      <4>2. Val(r, k)' = Val(r, k)
        BY <2>8, <3>1, <3>3, <4>1
      <4>3. CASE q = s /\ j = i
        BY <2>7, <2>8, <3>3, <4>2, <4>3
      <4>4. CASE ~(q = s /\ j = i)
        BY <2>8, <3>3, <4>2, <4>4 DEF IInv, OrderInv
      <4> QED BY <4>3, <4>4
    <3> QED BY <2>5, <2>8, <3>1, <3>3 DEF OrderInv
  <2>12. SlotsKeep(t)
    BY <2>3, <2>5, <2>8 DEF SlotsKeep, x
  <2>13. NoNewMiss(t)
    BY <2>4 DEF NoNewMiss, Missed, HeadPcs
  <2>14. SafeStays
    BY <2>1, <2>4, <2>13, SafeKept DEF SafeStays, InCall
  <2>15. PcInv(t)' /\ EmptyInv(t)' /\ NotBehind(t)'
    BY <1>1, <2>4 DEF IInv, PcInv, EmptyInv, SaysEmpty, NotBehind, EnqueuePcs, CommitPcs, DequeuePcs,
       HeadPcs
  <2>16. ThreadInv(t)'
    BY <1>1, <2>1, <2>4 DEF IInv, ThreadInv, HeadBehind, EnqueuePcs, CommitPcs, TailPcs, HeadPcs, s, i
  <2>17. PutInv(t)'
    <3>1. InItsSlot(t)'
      BY <2>4, <2>8 DEF InItsSlot, Slot, NewItem, s, i
    <3> QED BY <2>4, <2>5, <2>6, <3>1 DEF PutInv, EnqueuePcs, CommitPcs, TailPcs, x
  <2> QED BY <1>1, <2>4, <2>5, <2>8, <2>9, <2>10, <2>11, <2>12, <2>14, <2>15, <2>16, <2>17, SharedStep
          DEF InCall
<1> QED BY <1>2, <1>3

LEMMA CommitUndoStep ==
  ASSUME IInv, NEW t \in Threads, CommitUndo(t)
  PROVE  IInv'
<1> USE DEF CommitUndo, At
<1> DEFINE s == th[t].tail
           i == th[t].index
           x == th[t].item
<1>1. /\ th[t] \in Locals /\ th[t].pc = "C_undo" /\ th[t].op = "put" /\ tail \in Nat
      /\ s \in Linked /\ s \in 1 .. tail /\ i \in Slots /\ x \in Items /\ x # Null /\ PutInv(t)
  BY CallHistoryAssumption DEF IInv, TypeOK, ListInv, Locals, PcInv, ThreadInv, CommitPcs, Linked
<1>2. CASE Slot(t, th[t].tail) # NewItem(t)
  <2>1. UNCHANGED shared /\ Observe(t, Held') /\ Finish(t, "return")
    BY <1>2 DEF shared
  <2> QED BY <1>1, <1>2, <2>1, FailedSwap, CommitUndoFails
<1>3. CASE Slot(t, th[t].tail) = NewItem(t)
  <2>1. /\ segs' = [segs EXCEPT ![s].items[i] = Empty] /\ Finish(t, "E_tail")
        /\ head' = head /\ tail' = tail /\ Observe(t, Held')
    BY <1>3
  <2>2. Empty \in Words /\ Empty.val = Null
    BY DEF Empty, Words
  <2>3. Val(s, i) = x
    BY <1>3 DEF Slot, Val, NewItem
  <2>4. /\ th' \in [Threads -> Locals] /\ InCall(t) /\ th'[t].pc = "E_tail"
        /\ th'[t].head = FirstHead /\ th'[t].op = th[t].op /\ th'[t].item = th[t].item
    BY <2>1, FinishEffect DEF Pcs, EnqueuePcs
  <2>5. /\ done' = done /\ out' = out /\ older' = older /\ Gone' = Gone /\ Begun' = Begun
        /\ Hands' = Hands /\ \A u \in Threads : InHand(u)' = InHand(u)
        /\ sight' = [u \in Threads |-> th'[u].op = "get" /\ (sight[u] \/ done \cap Held' = {})]
    BY <2>1, <2>4, QuietHistory
  <2>6. /\ x \notin done /\ x \notin Gone
        /\ \A r \in Linked, j \in Slots : Val(r, j) = x => r = s /\ j = i
    BY <1>1, <2>3 DEF PutInv, IInv, PlacesInv
  <2> HIDE DEF s, i, x
  <2>7. /\ segs' \in Seq(Segments) /\ Linked' = Linked
        /\ \A r \in Linked, j \in Slots : Kept(r, j) \/ (r = s /\ j = i)
        /\ \A r \in Linked, j \in Slots : Val(r, j)' = IF r = s /\ j = i THEN Null ELSE Val(r, j)
        /\ ListInv' /\ ListGrows
    <3>1. Writes(s, i, Empty)
      BY <1>1, <2>1, <2>2 DEF Writes
    <3>2. Written(s, i, Empty)
      BY <1>1, <2>2, <3>1, WriteEffect
    <3> QED BY <2>2, <3>2 DEF Written
  <2>8. TypeOK'
    BY <2>1, <2>4, <2>5, <2>7 DEF IInv, TypeOK
  <2>9. PlacesInv'
    <3>1. \A r, q \in Linked', j, k \in Slots :
            Val(r, j)' = Val(q, k)' /\ Val(r, j)' # Null => r = q /\ j = k
      BY <2>7 DEF IInv, PlacesInv
    <3>2. \A r \in Linked', j \in Slots : Val(r, j)' # Null => Val(r, j)' \in Begun' \ Gone'
      BY <2>5, <2>7 DEF IInv, PlacesInv
    <3>3. \A u \in Threads : th'[u].op = th[u].op /\ th'[u].item = th[u].item
      BY <2>4 DEF InCall, Others
    <3> QED BY <2>5, <3>1, <3>2, <3>3 DEF IInv, PlacesInv
  <2>10. OrderInv'
    <3>1. \A y \in Items : older[y] \subseteq done /\ Null \notin older[y]
      BY CallHistoryAssumption DEF IInv, TypeOK, OrderInv
    <3>2. \A r \in Linked, j \in Slots : Val(r, j) \in Items \cup {Null}
      BY ValTyped
    <3> QED BY <2>5, <2>7, <3>1, <3>2 DEF IInv, OrderInv
  <2>11. SlotsKeep(t)
    BY <2>3, <2>5, <2>7 DEF SlotsKeep, x
  <2>12. NoNewMiss(t)
    BY <2>4 DEF NoNewMiss, Missed, HeadPcs
  <2>13. SafeStays
    BY <2>1, <2>4, <2>12, SafeKept DEF SafeStays, InCall
  <2>14. PcInv(t)' /\ EmptyInv(t)' /\ NotBehind(t)'
    BY <1>1, <2>4 DEF IInv, PcInv, EmptyInv, SaysEmpty, NotBehind, EnqueuePcs, CommitPcs, DequeuePcs,
       HeadPcs
  <2>15. ThreadInv(t)'
    BY <2>1, <2>4 DEF IInv, TypeOK, ThreadInv, HeadBehind, EnqueuePcs, CommitPcs, TailPcs, HeadPcs,
       FirstHead, HeadWords
  <2>16. PutInv(t)'
    BY <1>1, <2>4, <2>5, <2>6, <2>7 DEF PutInv, EnqueuePcs, CommitPcs, TailPcs, x
  <2> QED BY <1>1, <2>4, <2>5, <2>7, <2>8, <2>9, <2>10, <2>11, <2>13, <2>14, <2>15, <2>16, SharedStep
          DEF InCall
<1> QED BY <1>2, <1>3

LEMMA DequeueCasStep ==
  ASSUME IInv, NEW t \in Threads, DequeueCas(t)
  PROVE  IInv'
<1> USE DEF DequeueCas, At
<1> DEFINE s == th[t].head.seg
           i == th[t].index
           x == th[t].old.val
<1>1. /\ th[t] \in Locals /\ th \in [Threads -> Locals] /\ th[t].pc = "D_cas" /\ th[t].op = "get"
      /\ th[t].item = Null /\ s \in Linked /\ i \in Slots /\ x # Null /\ x \in Items
      /\ th[t].old \in Words /\ "return" \in Pcs
  <2>1. th[t] \in Locals /\ th \in [Threads -> Locals] /\ ListInv /\ PcInv(t) /\ ThreadInv(t)
    BY DEF IInv, TypeOK
  <2>2. th[t].pc = "D_cas" /\ th[t].op = "get" /\ th[t].item = Null /\ "return" \in Pcs
    BY <2>1 DEF PcInv, DequeuePcs, Pcs
  <2>3. th[t].old \in Words /\ i \in Slots /\ x # Null /\ x \in Items
    BY <2>1, <2>2 DEF ThreadInv, Locals, Words
  <2>4. s \in Linked
    <3>1. s \in Nat \ {0} /\ s <= head.seg
      BY <2>1 DEF ThreadInv, HeadBehind, Locals, HeadWords
    <3>2. head.seg \in Nat /\ tail \in Nat /\ Len(segs) \in Nat
      BY DEF IInv, TypeOK, HeadWords
    <3>3. head.seg <= tail /\ tail <= Len(segs)
      BY <2>1 DEF ListInv
    <3> QED BY <3>1, <3>2, <3>3 DEF Linked
  <2> QED BY <2>1, <2>2, <2>3, <2>4
<1>2. CASE Slot(t, th[t].head.seg) # th[t].old
  <2>1. UNCHANGED shared /\ Observe(t, Held') /\ Finish(t, "D_head")
    BY <1>2 DEF shared
  <2> QED BY <1>1, <2>1, FailedSwap, FinishStep
<1>3. CASE Slot(t, th[t].head.seg) = th[t].old
  <2> DEFINE now == [Idling(t, "return") EXCEPT !.item = th[t].old.val]
  <2>1. /\ segs' = [segs EXCEPT ![s].items[i] = Taken(t)] /\ th' = [th EXCEPT ![t] = now]
        /\ head' = head /\ tail' = tail /\ Observe(t, Held')
    BY <1>1, <1>3
  <2>2. Taken(t) \in Words /\ Taken(t).val = Null
    BY <1>1 DEF Taken, Words
  <2>3. Val(s, i) = x
    BY <1>3 DEF Slot, Val
  <2>4. now \in Locals /\ now.pc = "return" /\ now.head = FirstHead /\ now.op = "get" /\ now.item = x
    <3>1. /\ Idling(t, "return") \in Locals
          /\ Idling(t, "return").pc = "return" /\ Idling(t, "return").head = FirstHead
          /\ Idling(t, "return").op = th[t].op
      BY <1>1, IdlingTyped
    <3> HIDE DEF Idling
    <3> QED BY <1>1, <3>1 DEF Locals
  <2> HIDE DEF s, i, x, now
  <2>5. th' \in [Threads -> Locals] /\ th'[t] = now /\ Others(t)
    BY <1>1, <2>1, <2>4 DEF Others
  <2>6. done' = done /\ out' = out /\ older' = older
    BY <1>1, <2>1, <2>4, <2>5 DEF Observe
  <2>7. sight' = [u \in Threads |-> th'[u].op = "get" /\ (sight[u] \/ done \cap Held' = {})]
    BY <2>1, <2>6 DEF Observe
  <2>8. /\ InHand(t) = {} /\ InHand(t)' = {x}
        /\ \A u \in Threads : u # t => InHand(u)' = InHand(u)
    BY <1>1, <2>4, <2>5 DEF InHand, Others
  <2>9. Hands' = Hands \cup {x} /\ Gone' = Gone \cup {x}
    BY <2>6, <2>8 DEF Hands, Gone
  <2>10. Begun' = Begun
    BY <1>1, <2>4, <2>5, <2>6 DEF Begun, Others
  <2>11. /\ x \in Begun /\ x \notin Gone
         /\ \A r \in Linked, j \in Slots : Val(r, j) = x => r = s /\ j = i
    BY <1>1, <2>3 DEF IInv, PlacesInv
  <2>12. /\ segs' \in Seq(Segments) /\ Linked' = Linked
         /\ \A r \in Linked, j \in Slots : Kept(r, j) \/ (r = s /\ j = i)
         /\ \A r \in Linked, j \in Slots : Val(r, j)' = IF r = s /\ j = i THEN Null ELSE Val(r, j)
         /\ ListInv' /\ ListGrows
    <3>1. Writes(s, i, Taken(t))
      BY <1>1, <2>1, <2>2 DEF Writes
    <3>2. Written(s, i, Taken(t))
      BY <1>1, <2>2, <3>1, WriteEffect
    <3> QED BY <2>2, <3>2 DEF Written
  <2>13. TypeOK'
    BY <2>1, <2>5, <2>6, <2>7, <2>12 DEF IInv, TypeOK
  <2>14. PlacesInv'
    <3>1. \A r, p \in Linked', j, k \in Slots :
            Val(r, j)' = Val(p, k)' /\ Val(r, j)' # Null => r = p /\ j = k
      BY <2>12 DEF IInv, PlacesInv
    <3>2. \A r \in Linked', j \in Slots : Val(r, j)' # Null => Val(r, j)' \in Begun' \ Gone'
      BY <2>9, <2>10, <2>11, <2>12 DEF IInv, PlacesInv
    <3>3. Gone' \subseteq Begun'
      BY <2>9, <2>10, <2>11 DEF IInv, PlacesInv
    <3>4. Hands' \cap out' = {}
      BY <2>6, <2>9, <2>11 DEF IInv, PlacesInv, Gone
    <3>5. \A u, v \in Threads : u # v => InHand(u)' \cap InHand(v)' = {}
      <4>1. \A u \in Threads : x \notin InHand(u)
        BY <2>11 DEF Gone, Hands
      <4> QED BY <2>8, <4>1 DEF IInv, PlacesInv
    <3>6. \A u, v \in Threads :
            u # v /\ th'[u].op = "put" /\ th'[v].op = "put" => th'[u].item # th'[v].item
      BY <2>4, <2>5 DEF IInv, PlacesInv, Others
    <3> QED BY <3>1, <3>2, <3>3, <3>4, <3>5, <3>6 DEF PlacesInv
  <2>15. OrderInv'
    <3>1. \A y \in Items : older[y] \subseteq done /\ Null \notin older[y]
      BY CallHistoryAssumption DEF IInv, TypeOK, OrderInv
    <3>2. \A r \in Linked, j \in Slots : Val(r, j) \in Items \cup {Null}
      BY ValTyped
    <3> QED BY <2>6, <2>12, <3>1, <3>2 DEF IInv, OrderInv
  <2>16. SlotsKeep(t)
    BY <1>1, <2>3, <2>9, <2>12 DEF SlotsKeep
  <2>17. NoNewMiss(t)
    BY <2>4, <2>5 DEF NoNewMiss, Missed, HeadPcs
  <2>18. SafeStays
    BY <2>1, <2>5, <2>17, SafeKept DEF SafeStays
  <2>19. PcInv(t)' /\ EmptyInv(t)' /\ NotBehind(t)' /\ PutInv(t)'
    BY <1>1, <2>4, <2>5 DEF PcInv, EmptyInv, SaysEmpty, NotBehind, PutInv, EnqueuePcs, CommitPcs,
       DequeuePcs, HeadPcs
  <2>20. ThreadInv(t)'
    BY <2>1, <2>4, <2>5 DEF IInv, TypeOK, ThreadInv, HeadBehind, EnqueuePcs, CommitPcs, TailPcs,
       HeadPcs, FirstHead, HeadWords
  <2> QED BY <1>1, <2>5, <2>6, <2>7, <2>12, <2>13, <2>14, <2>15, <2>16, <2>18, <2>19, <2>20, SharedStep
<1> QED BY <1>2, <1>3

-----------------------------------------------------------------------------
\* A call and its return.

\* What they leave alone.
LEMMA CallKeeps ==
  ASSUME IInv, NEW t \in Threads, Others(t), UNCHANGED shared, NEW r \in Locals, th'[t] = r,
         r.pc \in {"idle", "E_tail", "D_head"}, r.head = FirstHead
  PROVE  /\ ListInv' /\ ThreadInv(t)' /\ EmptyInv(t)' /\ NotBehind(t)'
         /\ \A s \in Linked, i \in Slots : Val(s, i) # Null /\ Safe(s, i) => Safe(s, i)'
<1>1. ListInv'
  BY DEF IInv, ListInv, Linked, Val, shared
<1>2. ThreadInv(t)'
  BY DEF IInv, TypeOK, ThreadInv, HeadBehind, EnqueuePcs, CommitPcs, TailPcs, HeadPcs,
     FirstHead, HeadWords, shared
<1>3. EmptyInv(t)' /\ NotBehind(t)'
  BY DEF EmptyInv, SaysEmpty, NotBehind
<1>4. NoNewMiss(t)
  BY DEF NoNewMiss, Missed, HeadPcs
<1> QED BY <1>1, <1>2, <1>3, <1>4, SafeKept DEF shared

\* What holds of the other threads, if the items done are others than theirs.
LEMMA CallOthers ==
  ASSUME IInv, NEW t \in Threads, Others(t), UNCHANGED shared,
         \A s \in Linked, i \in Slots : Val(s, i) # Null /\ Safe(s, i) => Safe(s, i)',
         Gone' = Gone, \A u \in Threads : sight[u] /\ th'[u].op = "get" => sight'[u],
         NEW u \in Threads, u # t,
         th[u].op = "put" => th[u].item \notin done' /\ older'[th[u].item] = older[th[u].item]
  PROVE  PcInv(u)' /\ ThreadInv(u)' /\ PutInv(u)' /\ EmptyInv(u)' /\ NotBehind(u)'
<1> USE DEF shared
<1>1. th'[u] = th[u]
  BY DEF Others
<1>2. PcInv(u)' /\ ThreadInv(u)'
  BY <1>1 DEF IInv, PcInv, ThreadInv, HeadBehind, Found
<1>3. NotBehind(u)'
  BY <1>1 DEF IInv, PcInv, NotBehind, Linked, Val, EnqueuePcs
<1>4. EmptyInv(u)'
  BY <1>1 DEF IInv, PcInv, EmptyInv, SaysEmpty, Found, HeadUnchanged, LastSegment, DequeuePcs
<1>5. PutInv(u)'
  <2> SUFFICES ASSUME th[u].op = "put" PROVE PutInv(u)'
    BY <1>1 DEF PutInv
  <2>1. PutInv(u) /\ PcInv(u) /\ ThreadInv(u)
    BY DEF IInv
  <2>2. th[u].item \in Items /\ th[u].item # Null
    BY <2>1, CallHistoryAssumption DEF PcInv
  <2>3. (InItsSlot(u)' <=> InItsSlot(u)) /\ (Deleted(u)' <=> Deleted(u))
    BY <1>1 DEF InItsSlot, Slot, NewItem, Deleted
  <2>4. CASE th[u].pc \in CommitPcs
    <3>1. th[u].tail \in Linked /\ th[u].index \in Slots
      BY <2>1, <2>4 DEF ThreadInv, IInv, TypeOK, ListInv, Linked, CommitPcs
    <3>2. InItsSlot(u) => Val(th[u].tail, th[u].index) = th[u].item
      BY DEF InItsSlot, Slot, NewItem, Val
    <3>3. InItsSlot(u) /\ Safe(th[u].tail, th[u].index) => Safe(th[u].tail, th[u].index)'
      BY <1>1, <2>2, <3>1, <3>2 DEF Safe, HeadUnchanged
    <3> QED BY <1>1, <2>1, <2>3, <2>4, <3>3 DEF PutInv, CommitPcs, EnqueuePcs, TailPcs
  <2>5. CASE th[u].pc \in EnqueuePcs \cup TailPcs
    BY <1>1, <2>1, <2>5 DEF PutInv, CommitPcs, EnqueuePcs, TailPcs, Linked, Val
  <2>6. CASE th[u].pc \notin CommitPcs \cup EnqueuePcs \cup TailPcs
    <3>1. PICK y \in Items : y = th[u].item
      BY <2>2
    <3>2. Secured(y) => Secured(y)'
      BY <2>2, <3>1 DEF Secured, Linked, Val
    <3> QED BY <1>1, <2>1, <2>6, <3>1, <3>2 DEF PutInv, CommitPcs
  <2> QED BY <2>4, <2>5, <2>6
<1> QED BY <1>2, <1>3, <1>4, <1>5

LEMMA CallEnqueueStep ==
  ASSUME IInv, NEW t \in Threads, CallEnqueue(t)
  PROVE  IInv'
<1>1. PICK x \in Fresh :
        th' = [th EXCEPT ![t] = [Idle EXCEPT !.pc = "E_tail", !.op = "put", !.item = x]]
  BY DEF CallEnqueue
<1>2. /\ x \in Items /\ x # Null /\ x \notin Begun /\ x \notin Gone /\ x \notin done
      /\ \A s \in Linked, i \in Slots : Val(s, i) # x
  BY <1>1, CallHistoryAssumption DEF Fresh, Gone, Begun, IInv, PlacesInv
<1>3. /\ th[t].op = "none" /\ th[t].item = Null /\ th \in [Threads -> Locals]
      /\ UNCHANGED shared /\ Observe(t, Held)
  BY DEF CallEnqueue, Local, At, IInv, TypeOK, PcInv
<1> DEFINE r == [Idle EXCEPT !.pc = "E_tail", !.op = "put", !.item = x]
<1>4. r \in Locals /\ r.pc = "E_tail" /\ r.op = "put" /\ r.item = x /\ r.head = FirstHead
  <2>1. Idle.head = FirstHead
    BY DEF Idle
  <2> QED BY <1>2, <2>1, IdleTyped DEF Locals, Pcs, EnqueuePcs
<1> HIDE DEF r
<1>5. th' \in [Threads -> Locals] /\ th'[t] = r /\ Others(t)
  BY <1>1, <1>3, <1>4 DEF Others, r
<1>6. done' = done /\ out' = out /\ older' = [older EXCEPT ![x] = done]
  BY <1>3, <1>4, <1>5 DEF Observe
<1>7. sight' = [u \in Threads |-> th'[u].op = "get" /\ (sight[u] \/ done \cap Held = {})]
  BY <1>3, <1>6 DEF Observe
<1>8. \A u \in Threads : InHand(u)' = InHand(u)
  BY <1>3, <1>4, <1>5 DEF InHand, Others
<1>9. Hands' = Hands /\ Gone' = Gone
  BY <1>6, <1>8 DEF Hands, Gone
<1>10. Begun' = Begun \cup {x}
  BY <1>3, <1>4, <1>5, <1>6 DEF Begun, Others
<1>11. /\ ListInv' /\ ThreadInv(t)' /\ EmptyInv(t)' /\ NotBehind(t)'
       /\ \A s \in Linked, i \in Slots : Val(s, i) # Null /\ Safe(s, i) => Safe(s, i)'
  BY <1>3, <1>4, <1>5, CallKeeps
<1>12. Linked' = Linked /\ \A s, i : Val(s, i)' = Val(s, i)
  BY <1>3 DEF shared, Linked, Val
<1>13. older \in [Items -> SUBSET Items] /\ done \subseteq Items
  BY DEF IInv, TypeOK
<1>14. TypeOK'
  BY <1>2, <1>3, <1>5, <1>6, <1>7, <1>13 DEF IInv, TypeOK, shared
<1>15. DoneInv'
  BY <1>6, <1>9, <1>11, <1>12, <1>13, CallHistoryAssumption DEF IInv, DoneInv, Secured
<1>16. PlacesInv'
  <2>1. \A u, v \in Threads :
          u # v /\ th'[u].op = "put" /\ th'[v].op = "put" => th'[u].item # th'[v].item
    BY <1>2, <1>4, <1>5 DEF IInv, PlacesInv, Others, Begun
  <2>2. \A s \in Linked', i \in Slots : Val(s, i)' # Null => Val(s, i)' \in Begun' \ Gone'
    BY <1>9, <1>10, <1>12 DEF IInv, PlacesInv
  <2>3. Gone' \subseteq Begun' /\ Hands' \cap out' = {}
    BY <1>6, <1>9, <1>10 DEF IInv, PlacesInv
  <2> QED BY <1>8, <1>12, <2>1, <2>2, <2>3 DEF IInv, PlacesInv
<1>17. OrderInv'
  <2>1. \A y \in Items : older'[y] \subseteq done'
    BY <1>6, <1>13 DEF IInv, OrderInv
  <2>2. ASSUME NEW s \in Linked, NEW q \in Linked, NEW i \in Slots, NEW j \in Slots,
               Val(s, i) # Null, Val(q, j) \in older'[Val(s, i)]
        PROVE  q <= s
    <3>1. older'[Val(s, i)] = older[Val(s, i)]
      BY <1>2, <1>6, <1>13, <2>2, ValTyped
    <3> QED BY <2>2, <3>1 DEF IInv, OrderInv
  <2> QED BY <1>12, <2>1, <2>2 DEF OrderInv
<1>18. PcInv(t)' /\ PutInv(t)'
  BY <1>2, <1>4, <1>5, <1>6, <1>9, <1>12 DEF PcInv, PutInv, EnqueuePcs, CommitPcs, TailPcs, DequeuePcs,
     HeadPcs
<1>19. ASSUME NEW u \in Threads, u # t
       PROVE  PcInv(u)' /\ ThreadInv(u)' /\ PutInv(u)' /\ EmptyInv(u)' /\ NotBehind(u)'
  <2>1. th[u].op = "put" => th[u].item \notin done' /\ older'[th[u].item] = older[th[u].item]
    BY <1>2, <1>6, <1>13 DEF IInv, PcInv, PutInv, Begun
  <2> QED BY <1>3, <1>5, <1>7, <1>9, <1>11, <1>19, <2>1, CallOthers
<1> QED BY <1>11, <1>14, <1>15, <1>16, <1>17, <1>18, <1>19 DEF IInv

LEMMA CallDequeueStep ==
  ASSUME IInv, NEW t \in Threads, CallDequeue(t)
  PROVE  IInv'
<1>1. /\ th[t].op = "none" /\ th[t].item = Null /\ th \in [Threads -> Locals]
      /\ UNCHANGED shared /\ Observe(t, Held)
  BY DEF CallDequeue, Local, At, IInv, TypeOK, PcInv
<1> DEFINE r == [Idle EXCEPT !.pc = "D_head", !.op = "get"]
<1>2. r \in Locals /\ r.pc = "D_head" /\ r.op = "get" /\ r.item = Null /\ r.head = FirstHead
  <2>1. Idle.head = FirstHead /\ Idle.item = Null
    BY DEF Idle
  <2> QED BY <2>1, IdleTyped DEF Locals, Pcs, DequeuePcs
<1> HIDE DEF r
<1>3. th' \in [Threads -> Locals] /\ th'[t] = r /\ Others(t)
  BY <1>1, <1>2 DEF CallDequeue, Others, r
<1>4. done' = done /\ out' = out /\ older' = older
  BY <1>1, <1>2, <1>3 DEF Observe
<1>5. sight' = [u \in Threads |-> th'[u].op = "get" /\ (sight[u] \/ done \cap Held = {})]
  BY <1>1, <1>4 DEF Observe
<1>6. \A u \in Threads : InHand(u)' = InHand(u)
  BY <1>1, <1>2, <1>3 DEF InHand, Others
<1>7. Hands' = Hands /\ Gone' = Gone
  BY <1>4, <1>6 DEF Hands, Gone
<1>8. Begun' = Begun
  BY <1>1, <1>2, <1>3, <1>4 DEF Begun, Others
<1>9. /\ ListInv' /\ ThreadInv(t)' /\ EmptyInv(t)' /\ NotBehind(t)'
      /\ \A s \in Linked, i \in Slots : Val(s, i) # Null /\ Safe(s, i) => Safe(s, i)'
  BY <1>1, <1>2, <1>3, CallKeeps
<1>10. Linked' = Linked /\ \A s, i : Val(s, i)' = Val(s, i)
  BY <1>1 DEF shared, Linked, Val
<1>11. TypeOK'
  BY <1>1, <1>3, <1>4, <1>5 DEF IInv, TypeOK, shared
<1>12. DoneInv'
  BY <1>4, <1>7, <1>9, <1>10, CallHistoryAssumption DEF IInv, TypeOK, DoneInv, Secured
<1>13. PlacesInv'
  <2>1. \A u, v \in Threads :
          u # v /\ th'[u].op = "put" /\ th'[v].op = "put" => th'[u].item # th'[v].item
    BY <1>2, <1>3 DEF IInv, PlacesInv, Others
  <2> QED BY <1>4, <1>6, <1>7, <1>8, <1>10, <2>1 DEF IInv, PlacesInv
<1>14. OrderInv'
  BY <1>4, <1>10 DEF IInv, OrderInv
<1>15. PcInv(t)' /\ PutInv(t)'
  BY <1>2, <1>3 DEF PcInv, PutInv, EnqueuePcs, CommitPcs, TailPcs, DequeuePcs, HeadPcs
<1>16. ASSUME NEW u \in Threads, u # t
       PROVE  PcInv(u)' /\ ThreadInv(u)' /\ PutInv(u)' /\ EmptyInv(u)' /\ NotBehind(u)'
  <2>1. th[u].op = "put" => th[u].item \notin done' /\ older'[th[u].item] = older[th[u].item]
    BY <1>4 DEF IInv, PutInv
  <2> QED BY <1>1, <1>3, <1>5, <1>7, <1>9, <1>16, <2>1, CallOthers
<1> QED BY <1>9, <1>11, <1>12, <1>13, <1>14, <1>15, <1>16 DEF IInv

LEMMA ReturnStep ==
  ASSUME IInv, NEW t \in Threads, Return(t)
  PROVE  IInv'
<1> DEFINE x == th[t].item
           put == th[t].op = "put"
           got == th[t].op = "get" /\ x # Null
<1>1. /\ th[t].op # "none" /\ th[t].pc = "return" /\ th \in [Threads -> Locals]
      /\ UNCHANGED shared /\ Observe(t, Held) /\ th' = [th EXCEPT ![t] = Idle]
      /\ th[t].op \in {"put", "get"} /\ x \in Items \cup {Null} /\ (put => x \in Items /\ x # Null)
  BY CallHistoryAssumption DEF Return, Local, At, IInv, TypeOK, Locals, PcInv
<1>2. Idle \in Locals /\ Idle.pc = "idle" /\ Idle.op = "none" /\ Idle.item = Null /\ Idle.head = FirstHead
  BY IdleTyped DEF Idle
<1>3. th' \in [Threads -> Locals] /\ th'[t] = Idle /\ Others(t)
  BY <1>1, <1>2 DEF Others
<1> HIDE DEF x
<1>4. /\ done' = IF put THEN done \cup {x} ELSE done
      /\ out' = IF got THEN out \cup {x} ELSE out
      /\ older' = older
  BY <1>1, <1>2, <1>3 DEF Observe, x
<1>5. sight' = [u \in Threads |-> th'[u].op = "get" /\ (sight[u] \/ done' \cap Held = {})]
  BY <1>1 DEF Observe
<1>6. /\ InHand(t) = IF got THEN {x} ELSE {}
      /\ InHand(t)' = {}
      /\ \A u \in Threads : u # t => InHand(u)' = InHand(u)
  BY <1>1, <1>2, <1>3 DEF InHand, Others, x
<1>7. Hands = Hands' \cup InHand(t) /\ Hands' \subseteq Hands
  BY <1>6 DEF Hands
<1>8. Gone' = Gone
  BY <1>4, <1>6, <1>7 DEF Gone
<1>9. Begun' = Begun
  BY <1>1, <1>2, <1>3, <1>4 DEF Begun, Others, x
<1>10. /\ ListInv' /\ ThreadInv(t)' /\ EmptyInv(t)' /\ NotBehind(t)'
       /\ \A s \in Linked, i \in Slots : Val(s, i) # Null /\ Safe(s, i) => Safe(s, i)'
  BY <1>1, <1>2, <1>3, CallKeeps
<1>11. Linked' = Linked /\ \A s, i : Val(s, i)' = Val(s, i)
  BY <1>1 DEF shared, Linked, Val
<1>12. TypeOK'
  BY <1>1, <1>3, <1>4, <1>5 DEF IInv, TypeOK, shared
<1>13. DoneInv'
  <2>1. \A y \in done' : y \in Items /\ Secured(y)
    BY <1>1, <1>4 DEF IInv, TypeOK, DoneInv, PutInv, x
  <2> QED BY <1>8, <1>10, <1>11, <2>1, CallHistoryAssumption DEF DoneInv, Secured
<1>14. PlacesInv'
  <2>1. \A u, v \in Threads :
          u # v /\ th'[u].op = "put" /\ th'[v].op = "put" => th'[u].item # th'[v].item
    BY <1>2, <1>3 DEF IInv, PlacesInv, Others
  <2>2. \A u, v \in Threads : u # v => InHand(u)' \cap InHand(v)' = {}
    BY <1>6 DEF IInv, PlacesInv
  <2>3. Hands' \cap out' = {}
    <3>1. got => x \notin Hands'
      BY <1>6 DEF IInv, PlacesInv, Hands
    <3> QED BY <1>4, <1>7, <3>1 DEF IInv, PlacesInv
  <2> QED BY <1>8, <1>9, <1>11, <2>1, <2>2, <2>3 DEF IInv, PlacesInv
<1>15. OrderInv'
  BY <1>4, <1>11 DEF IInv, OrderInv
<1>16. PcInv(t)' /\ PutInv(t)'
  BY <1>2, <1>3 DEF PcInv, PutInv, EnqueuePcs, CommitPcs, TailPcs, DequeuePcs, HeadPcs
<1>17. ASSUME NEW u \in Threads, u # t
       PROVE  PcInv(u)' /\ ThreadInv(u)' /\ PutInv(u)' /\ EmptyInv(u)' /\ NotBehind(u)'
  <2>1. th[u].op = "put" => th[u].item \notin done' /\ older'[th[u].item] = older[th[u].item]
    BY <1>4, <1>17 DEF IInv, PutInv, PlacesInv, x
  <2>2. \A v \in Threads : sight[v] /\ th'[v].op = "get" => sight'[v]
    BY <1>5
  <2> QED BY <1>1, <1>3, <1>8, <1>10, <1>17, <2>1, <2>2, CallOthers
<1> QED BY <1>10, <1>12, <1>13, <1>14, <1>15, <1>16, <1>17 DEF IInv

-----------------------------------------------------------------------------
\* The inductive invariant.

LEMMA Initially == Init => IInv
<1> SUFFICES ASSUME Init PROVE IInv
  OBVIOUS
<1> USE DEF Init, HistoryInit
<1>1. /\ segs = <<NewSegment>> /\ head = FirstHead /\ tail = 1 /\ th = [t \in Threads |-> Idle]
      /\ done = {} /\ out = {}
  OBVIOUS
<1>2. NewSegment \in Segments /\ FirstHead \in HeadWords
  BY DEF NewSegment, Segments, Empty, Words, FirstHead, HeadWords
<1>3. Len(segs) = 1 /\ segs[1] = NewSegment /\ segs \in Seq(Segments) /\ Linked = {1}
  BY <1>1, <1>2 DEF Linked
<1>4. \A s \in Linked, i \in Slots : Val(s, i) = Null
  BY <1>3 DEF Val, NewSegment, Empty
<1>5. /\ Idle \in Locals /\ Idle.pc = "idle" /\ Idle.op = "none" /\ Idle.item = Null
      /\ Idle.head = FirstHead
  BY IdleTyped DEF Idle
<1>6. TypeOK
  BY <1>1, <1>2, <1>3, <1>5 DEF TypeOK
<1>7. head.seg = 1 /\ head.aba = 0
  BY <1>1 DEF FirstHead
<1>8. ListInv
  BY <1>1, <1>3, <1>4, <1>7 DEF ListInv
<1>9. \A t \in Threads : InHand(t) = {} /\ th[t] = Idle
  BY <1>1, <1>5 DEF InHand
<1>10. Hands = {} /\ Gone = {}
  BY <1>1, <1>9 DEF Hands, Gone
<1>11. PlacesInv
  BY <1>1, <1>4, <1>5, <1>9, <1>10 DEF PlacesInv
<1>12. DoneInv /\ OrderInv
  BY <1>1, <1>4 DEF DoneInv, OrderInv
<1>13. ASSUME NEW t \in Threads
       PROVE  PcInv(t) /\ ThreadInv(t) /\ PutInv(t) /\ EmptyInv(t) /\ NotBehind(t)
  <2>1. PcInv(t) /\ PutInv(t) /\ EmptyInv(t) /\ NotBehind(t)
    BY <1>5, <1>9 DEF PcInv, PutInv, EmptyInv, SaysEmpty, NotBehind, EnqueuePcs, CommitPcs,
       DequeuePcs, HeadPcs
  <2>2. ThreadInv(t)
    BY <1>1, <1>5, <1>7, <1>9 DEF ThreadInv, HeadBehind, EnqueuePcs, CommitPcs, TailPcs, HeadPcs
  <2> QED BY <2>1, <2>2
<1> QED BY <1>6, <1>8, <1>11, <1>12, <1>13 DEF IInv

LEMMA NextStep ==
  ASSUME IInv, [Next]_vars
  PROVE  IInv'
<1>1. CASE UNCHANGED vars
  <2>1. UNCHANGED <<th, head, tail, segs, done, out, older, sight>>
    BY <1>1 DEF vars, shared, history
  <2>2. Gone' = Gone /\ Begun' = Begun /\ Hands' = Hands /\ \A u \in Threads : InHand(u)' = InHand(u)
    BY <2>1 DEF Gone, Hands, InHand, Begun
  <2>3. /\ Linked' = Linked /\ (\A s, i : Val(s, i)' = Val(s, i) /\ (Safe(s, i)' <=> Safe(s, i)))
    BY <2>1 DEF Linked, Val, Safe, HeadUnchanged, Missed, Ahead, Found
  <2>4. TypeOK' /\ ListInv' /\ OrderInv' /\ PlacesInv'
    BY <2>1, <2>2, <2>3 DEF IInv, TypeOK, ListInv, OrderInv, PlacesInv
  <2>5. DoneInv'
    BY <2>1, <2>2, <2>3 DEF IInv, DoneInv, Secured
  <2>6. ASSUME NEW u \in Threads
        PROVE  PcInv(u)' /\ ThreadInv(u)' /\ PutInv(u)' /\ EmptyInv(u)' /\ NotBehind(u)'
    <3>1. PcInv(u)' /\ ThreadInv(u)' /\ EmptyInv(u)' /\ NotBehind(u)'
      BY <2>1, <2>3 DEF IInv, PcInv, ThreadInv, HeadBehind, EmptyInv, SaysEmpty, Found, HeadUnchanged,
         LastSegment, NotBehind
    <3>2. (InItsSlot(u)' <=> InItsSlot(u)) /\ (Deleted(u)' <=> Deleted(u))
      BY <2>1 DEF InItsSlot, Slot, NewItem, Deleted
    <3>3. Secured(th[u].item)' <=> Secured(th[u].item)
      BY <2>1, <2>2, <2>3 DEF Secured
    <3>4. Safe(th[u].tail, th[u].index)' <=> Safe(th[u].tail, th[u].index)
      BY <2>1, <2>3 DEF Safe, HeadUnchanged, Missed, Ahead, Found
    <3>5. PutInv(u)'
      BY <2>1, <2>2, <2>3, <3>2, <3>3, <3>4 DEF IInv, PutInv
    <3> QED BY <3>1, <3>5
  <2> QED BY <2>4, <2>5, <2>6 DEF IInv
<1>2. ASSUME NEW t \in Threads, CallEnqueue(t) PROVE IInv'
  BY <1>2, CallEnqueueStep
<1>3. ASSUME NEW t \in Threads, CallDequeue(t) PROVE IInv'
  BY <1>3, CallDequeueStep
<1>4. ASSUME NEW t \in Threads, Step(t) PROVE IInv'
  <2>1. CASE EnqueueReadTail(t) \/ EnqueueScan(t) \/ EnqueueCheck(t) \/ EnqueueCas(t)
    BY <2>1, EnqueueReadTailStep, EnqueueScanStep, EnqueueCheckStep, EnqueueCasStep
  <2>2. CASE CommitTaken(t) \/ CommitReadHead(t) \/ CommitDeleted(t) \/ CommitBumpHead(t)
             \/ CommitUndo(t)
    BY <2>2, CommitTakenStep, CommitReadHeadStep, CommitDeletedStep, CommitBumpHeadStep,
       CommitUndoStep
  <2>3. CASE TailReadNext(t) \/ TailCheck(t) \/ TailLink(t) \/ TailSwing(t)
    BY <2>3, TailReadNextStep, TailCheckStep, TailLinkStep, TailSwingStep
  <2>4. CASE DequeueReadHead(t) \/ DequeueScan(t) \/ DequeueReadTail(t) \/ DequeueCheck(t)
             \/ DequeueCas(t)
    BY <2>4, DequeueReadHeadStep, DequeueScanStep, DequeueReadTailStep, DequeueCheckStep,
       DequeueCasStep
  <2>5. CASE HeadReadNext(t) \/ HeadCheck(t) \/ HeadDelete(t) \/ HeadCas(t)
    BY <2>5, HeadReadNextStep, HeadCheckStep, HeadDeleteStep, HeadCasStep
  <2>6. CASE Return(t)
    BY <2>6, ReturnStep
  <2> QED BY <1>4, <2>1, <2>2, <2>3, <2>4, <2>5, <2>6 DEF Step
<1> QED BY <1>1, <1>2, <1>3, <1>4 DEF Next

\* IInv is an inductive invariant: types; what each thread knows of the list; that
\* an item is in one place; and that an item whose enqueue has returned is out of
\* reach of every advance_head under way (Secured).
THEOREM Inductive == Spec => []IInv
<1>1. Init => IInv
  BY Initially
<1>2. IInv /\ [Next]_vars => IInv'
  BY NextStep
<1> QED BY <1>1, <1>2, PTL DEF Spec

\* advance_head and advance_tail: the head never passes the tail, and every segment
\* it has passed is marked deleted.
THEOREM ListIsSound == Spec => []ListSound
<1>1. IInv => ListSound
  <2> SUFFICES ASSUME IInv PROVE ListSound
    OBVIOUS
  <2>1. \A s \in 1 .. Len(segs), i \in Slots : segs[s].items[i].val \in Items \cup {Null}
    BY ValTyped DEF Linked, Val
  <2>2. /\ 1 <= head.seg /\ head.seg <= tail /\ tail <= Len(segs) /\ Len(segs) <= tail + 1
        /\ \A s \in 1 .. head.seg-1 : segs[s].deleted
    BY DEF IInv, TypeOK, ListInv, HeadWords, Linked
  <2>3. \A t \in Threads : th[t].pc \in {"H_next", "H_check", "H_delete", "H_cas"} => th[t].head.seg < tail
    BY DEF IInv, ThreadInv, HeadPcs
  <2> QED BY <2>1, <2>2, <2>3 DEF ListSound
<1> QED BY <1>1, Inductive, PTL

LEMMA HeldVals ==
  ASSUME IInv
  PROVE  \A x : x \in Held <=> x # Null /\ \E s \in Linked, i \in Slots : Val(s, i) = x /\ head.seg <= s
BY DEF IInv, TypeOK, HeadWords, Held, Linked, Val

\* committed: no item is lost with a segment that the head passes, or got twice.
THEOREM ItemsConserved == Spec => []Conserved
<1>1. IInv => Conserved
  <2> SUFFICES ASSUME IInv PROVE Conserved
    OBVIOUS
  <2>1. \A x : x \in Held <=> x # Null /\ \E s \in Linked, i \in Slots : Val(s, i) = x /\ head.seg <= s
    BY HeldVals
  <2>2. done \subseteq Held \cup Hands \cup out
    BY <2>1, CallHistoryAssumption DEF IInv, TypeOK, DoneInv, Secured, Safe, Gone
  <2>3. Held \cap (Hands \cup out) = {}
    BY <2>1 DEF IInv, PlacesInv, Gone
  <2> QED BY <2>2, <2>3 DEF IInv, PlacesInv, Gone, Conserved, ConservedIn
<1> QED BY <1>1, Inductive, PTL

\* dequeue answers "empty" only if the queue was, at some instant of the call.
THEOREM EmptyAnswersTrue == Spec => []EmptyIsTrue
<1>1. IInv => EmptyIsTrue
  BY DEF IInv, EmptyInv, EmptyIsTrue
<1> QED BY <1>1, Inductive, PTL

-----------------------------------------------------------------------------
\* The k-out-of-order property.

\* A dequeue is about to return what it has passed by fewer than k older items to get.
PassInv(t) ==
  At(t, "return") /\ th[t].op = "get" /\ th[t].item # Null =>
    LET passed == older[th[t].item] \cap Held
    IN  IsFiniteSet(passed) /\ Cardinality(passed) < K

\* It has just swapped the item out of its slot: the older ones are in the other slots.
LEMMA FewPassedAtCas ==
  ASSUME IInv, IInv', NEW t \in Threads, DequeueCas(t), th'[t].pc = "return", th'[t].item # Null
  PROVE  PassInv(t)'
<1> DEFINE s == th[t].head.seg
           i == th[t].index
           x == th'[t].item
<1>1. /\ th[t] \in Locals /\ th \in [Threads -> Locals] /\ th[t].op = "get" /\ th[t].pc = "D_cas"
      /\ s \in Linked /\ i \in Slots /\ segs \in Seq(Segments) /\ HeadBehind(t)
      /\ th[t].old.val \in Items /\ th[t].old.val # Null
  <2>1. th[t].pc = "D_cas" /\ th[t] \in Locals /\ th \in [Threads -> Locals] /\ segs \in Seq(Segments)
    BY DEF DequeueCas, At, IInv, TypeOK
  <2>2. th[t].op = "get" /\ i \in Slots /\ HeadBehind(t) /\ th[t].old.val # Null
    BY <2>1 DEF IInv, PcInv, ThreadInv, DequeuePcs
  <2>3. s \in Linked
    <3>1. /\ head.seg \in Nat \ {0} /\ s \in Nat \ {0} /\ tail \in Nat /\ Len(segs) \in Nat
          /\ head.seg <= tail /\ tail <= Len(segs)
      <4>1. s \in Nat \ {0}
        BY <2>1 DEF Locals, HeadWords
      <4>2. head.seg \in Nat \ {0} /\ head.seg <= tail
        BY DEF IInv, TypeOK, ListInv, HeadWords
      <4> QED BY <4>1, <4>2 DEF IInv, TypeOK, ListInv
    <3> QED BY <2>2, <3>1 DEF HeadBehind, Linked
  <2>4. th[t].old.val \in Items
    BY <2>1, <2>2 DEF Locals, Words
  <2> QED BY <2>1, <2>2, <2>3, <2>4
<1>2. Slot(t, th[t].head.seg) = th[t].old
  <2> SUFFICES ASSUME Slot(t, th[t].head.seg) # th[t].old PROVE FALSE
    OBVIOUS
  <2>1. Finish(t, "D_head")
    BY DEF DequeueCas
  <2>2. th'[t].pc = "D_head"
    BY <2>1, FinishEffect DEF Pcs, DequeuePcs
  <2> QED BY <2>2
<1>3. /\ segs' = [segs EXCEPT ![s].items[i] = Taken(t)]
      /\ th' = [th EXCEPT ![t] = [Idling(t, "return") EXCEPT !.item = th[t].old.val]]
      /\ head' = head /\ tail' = tail /\ Observe(t, Held')
  BY <1>1, <1>2 DEF DequeueCas
<1>4. th'[t].item = th[t].old.val /\ th'[t].op = "get"
  <2>1. /\ Idling(t, "return") \in Locals /\ Idling(t, "return").op = th[t].op
    BY <1>1, IdlingTyped DEF Pcs
  <2> HIDE DEF Idling
  <2> QED BY <1>1, <1>3, <2>1 DEF Locals
<1>5. Val(s, i) = x /\ x # Null /\ x \in Items
  BY <1>1, <1>2, <1>4 DEF Slot, Val
<1>6. older' = older
  BY <1>1, <1>3, <1>4 DEF Observe
<1> HIDE DEF s, i, x
<1>7. Linked' = Linked /\ \A q \in Linked, j \in Slots : Val(q, j)' = IF q = s /\ j = i THEN Null ELSE Val(q, j)
  <2>1. Taken(t) \in Words /\ Taken(t).val = Null
    BY <1>1 DEF Taken, Words, Locals
  <2>2. Writes(s, i, Taken(t))
    BY <1>3, <2>1 DEF Writes
  <2>3. Written(s, i, Taken(t))
    BY <1>1, <2>1, <2>2, WriteEffect
  <2> QED BY <2>1, <2>3 DEF Written
<1> DEFINE passed == older[x] \cap Held'
           others == Slots \ {i}
           f == [j \in others |-> Val(s, j)]
           R == {f[j] : j \in others}
<1>8. passed \subseteq R
  <2> SUFFICES ASSUME NEW y \in passed PROVE y \in R
    OBVIOUS
  <2>1. PICK q \in Linked, j \in Slots : Val(q, j)' = y /\ head'.seg <= q /\ y # Null
    <3>1. \A z : z \in Held' <=>
            z # Null /\ \E q \in Linked', j \in Slots : Val(q, j)' = z /\ head'.seg <= q
      BY DEF IInv, TypeOK, HeadWords, Held, Linked, Val
    <3> QED BY <1>7, <3>1
  <2>2. Val(q, j) = y /\ ~(q = s /\ j = i)
    BY <1>7, <2>1
  <2>3. q <= s
    BY <1>1, <1>5, <2>2 DEF IInv, OrderInv, s, i
  <2>4. q = s
    BY <1>1, <1>3, <2>1, <2>3 DEF HeadBehind, s, Linked, IInv, TypeOK, HeadWords
  <2> QED BY <2>2, <2>4
<1>9. IsFiniteSet(others) /\ Cardinality(others) = K - 1
  <2>1. K \in Nat \ {0} /\ Slots = 0 .. K-1
    BY UnboundedKFifoAssumption DEF Slots, SegmentSize
  <2>2. IsFiniteSet(Slots) /\ Cardinality(Slots) = K
    <3>1. /\ IsFiniteSet(0 .. K-1)
          /\ Cardinality(0 .. K-1) = IF 0 > K-1 THEN 0 ELSE (K-1) - 0 + 1
      BY <2>1, FS_Interval
    <3> QED BY <2>1, <3>1
  <2>3. /\ IsFiniteSet(Slots \ {i})
        /\ Cardinality(Slots \ {i}) = IF i \in Slots THEN Cardinality(Slots) - 1 ELSE Cardinality(Slots)
    BY <2>2, FS_RemoveElement
  <2> QED BY <1>1, <2>2, <2>3
<1>10. IsFiniteSet(R) /\ Cardinality(R) <= K - 1
  <2>1. f \in Surjection(others, R)
    BY DEF Surjection
  <2> QED BY <1>9, <2>1, FS_Surjection
<1>11. IsFiniteSet(passed) /\ Cardinality(passed) <= Cardinality(R)
  BY <1>8, <1>10, FS_Subset
<1>12. Cardinality(passed) \in Nat /\ Cardinality(R) \in Nat
  BY <1>10, <1>11, FS_CardinalityType
<1>13. Cardinality(passed) < K
  BY <1>10, <1>11, <1>12, UnboundedKFifoAssumption
<1> QED BY <1>6, <1>11, <1>13 DEF PassInv, x

\* No step brings an item back whose enqueue had returned.
LEMMA HeldShrinks ==
  ASSUME IInv, IInv', HeadLater,
         \A s \in Linked', i \in Slots :
           Val(s, i)' \notin done \/ (s \in Linked /\ Val(s, i)' = Val(s, i))
  PROVE  done \cap Held' \subseteq Held
<1>1. \A x : x \in Held <=> x # Null /\ \E s \in Linked, i \in Slots : Val(s, i) = x /\ head.seg <= s
  BY HeldVals
<1>2. \A x : x \in Held' => x # Null /\ \E s \in Linked', i \in Slots : Val(s, i)' = x /\ head'.seg <= s
  BY DEF IInv, TypeOK, HeadWords, Held, Linked, Val
<1>3. head.seg <= head'.seg /\ head.seg \in Nat /\ head'.seg \in Nat
  BY DEF HeadLater, IInv, TypeOK, HeadWords
<1> QED BY <1>1, <1>2, <1>3 DEF Linked, IInv, TypeOK

\* A step of t is t's own, and but for the swap in dequeue none gets an item.
OwnStep(t) ==
  /\ Others(t)
  /\ th'[t].op \in {th[t].op, "none"}
  /\ th'[t].pc = "return" => th[t].pc # "return" /\ th'[t].op = th[t].op /\ th'[t].item = th[t].item

LEMMA OwnMove ==
  ASSUME IInv, NEW t \in Threads, th[t].pc # "return",
         \/ \E label \in Pcs : Goto(t, label) \/ Finish(t, label)
         \/ AfterTail(t)
  PROVE  OwnStep(t)
<1>1. ASSUME NEW label \in Pcs, Goto(t, label) PROVE OwnStep(t)
  BY <1>1, GotoEffect DEF OwnStep, InCall
<1>2. ASSUME NEW label \in Pcs, Finish(t, label) PROVE OwnStep(t)
  BY <1>2, FinishEffect DEF OwnStep, InCall
<1>3. CASE AfterTail(t)
  <2>1. CASE Finish(t, "E_tail")
    BY <1>2, <2>1 DEF Pcs, EnqueuePcs
  <2>2. CASE th' = [th EXCEPT ![t].pc = "D_cas", ![t].tail = 0, ![t].next = 0]
    <3>1. th \in [Threads -> Locals] /\ th[t] \in Locals
      BY DEF IInv, TypeOK
    <3>2. Others(t) /\ th'[t] = [th[t] EXCEPT !.pc = "D_cas", !.tail = 0, !.next = 0]
      BY <2>2, <3>1 DEF Others
    <3> QED BY <3>1, <3>2 DEF OwnStep, Locals
  <2> QED BY <1>3, <2>1, <2>2 DEF AfterTail
<1> QED BY <1>1, <1>2, <1>3

LEMMA OwnSteps ==
  ASSUME IInv, NEW t \in Threads, Step(t), ~DequeueCas(t)
  PROVE  OwnStep(t)
<1>1. th \in [Threads -> Locals] /\ th[t] \in Locals
  BY DEF IInv, TypeOK
<1> USE DEF At
<1>2. CASE \/ EnqueueCheck(t) \/ CommitTaken(t) \/ CommitDeleted(t) \/ HeadCheck(t) \/ HeadDelete(t)
           \/ HeadCas(t) \/ CommitBumpHead(t) \/ EnqueueCas(t) \/ CommitUndo(t) \/ DequeueCheck(t)
  <2>1. th[t].pc # "return"
    BY <1>2 DEF EnqueueCheck, CommitTaken, CommitDeleted, HeadCheck, HeadDelete, HeadCas,
       CommitBumpHead, EnqueueCas, CommitUndo, DequeueCheck
  <2>2. \E label \in Pcs : Goto(t, label) \/ Finish(t, label)
    <3>1. {"E_tail", "E_cas", "T_next", "C_slot", "C_head", "return", "C_undo", "C_bump",
           "C_deleted_again", "D_head", "H_delete", "H_cas", "D_cas", "H_next"} \subseteq Pcs
      BY DEF Pcs, EnqueuePcs, CommitPcs, TailPcs, DequeuePcs, HeadPcs
    <3>2. EnqueueCheck(t) => Finish(t, "E_tail") \/ Goto(t, "E_cas") \/ Goto(t, "T_next")
      BY DEF EnqueueCheck
    <3>3. CommitTaken(t) => Goto(t, "C_head") \/ Finish(t, "return")
      BY DEF CommitTaken
    <3>4. CommitDeleted(t) => Goto(t, "C_undo") \/ Finish(t, "return") \/ Goto(t, "C_bump")
                              \/ Goto(t, "C_deleted_again")
      BY DEF CommitDeleted
    <3>5. HeadCheck(t) => Goto(t, "H_delete") \/ Finish(t, "D_head")
      BY DEF HeadCheck
    <3>6. (HeadDelete(t) => Goto(t, "H_cas")) /\ (HeadCas(t) => Finish(t, "D_head"))
      BY DEF HeadDelete, HeadCas
    <3>7. CommitBumpHead(t) => Goto(t, "C_undo") \/ Finish(t, "return")
      BY DEF CommitBumpHead
    <3>8. EnqueueCas(t) => Goto(t, "C_slot") \/ Finish(t, "E_tail")
      BY DEF EnqueueCas
    <3>9. CommitUndo(t) => Finish(t, "E_tail") \/ Finish(t, "return")
      BY DEF CommitUndo
    <3>10. DequeueCheck(t) => Finish(t, "D_head") \/ Goto(t, "T_next") \/ Goto(t, "D_cas")
                              \/ Finish(t, "return") \/ Goto(t, "H_next")
      BY DEF DequeueCheck
    <3> QED BY <1>2, <3>1, <3>2, <3>3, <3>4, <3>5, <3>6, <3>7, <3>8, <3>9, <3>10
  <2> QED BY <2>1, <2>2, OwnMove
<1>3. CASE EnqueueReadTail(t) \/ DequeueReadHead(t)
  <2>1. CASE EnqueueReadTail(t)
    <3>1. PICK random \in Slots :
            th' = [th EXCEPT ![t].pc = "E_scan", ![t].tail = tail,
                             ![t].index = random, ![t].left = SegmentSize]
      BY <2>1 DEF EnqueueReadTail
    <3> QED BY <1>1, <3>1 DEF OwnStep, Others, Locals
  <2>2. CASE DequeueReadHead(t)
    <3>1. PICK random \in Slots :
            th' = [th EXCEPT ![t].pc = "D_scan", ![t].head = head,
                             ![t].index = random, ![t].left = SegmentSize]
      BY <2>2 DEF DequeueReadHead
    <3> QED BY <1>1, <3>1 DEF OwnStep, Others, Locals
  <2> QED BY <1>3, <2>1, <2>2
<1>4. CASE EnqueueScan(t) \/ DequeueScan(t)
  BY <1>1, <1>4 DEF EnqueueScan, DequeueScan, Scan, OwnStep, Others, Locals
<1>5. CASE CommitReadHead(t) \/ TailReadNext(t) \/ DequeueReadTail(t) \/ HeadReadNext(t)
  BY <1>1, <1>5 DEF CommitReadHead, TailReadNext, DequeueReadTail, HeadReadNext, OwnStep, Others,
     Locals
<1>6. CASE TailCheck(t) \/ TailLink(t) \/ TailSwing(t)
  <2>1. CASE \/ AfterTail(t)
             \/ \E label \in {"T_swing", "T_link"} : Goto(t, label)
    <3>1. th[t].pc # "return" /\ {"T_swing", "T_link"} \subseteq Pcs
      BY <1>6 DEF TailCheck, TailLink, TailSwing, Pcs, TailPcs
    <3> QED BY <2>1, <3>1, OwnMove
  <2>2. CASE th' = [th EXCEPT ![t].pc = "T_swing", ![t].next = Len(segs) + 1]
    BY <1>1, <2>2 DEF OwnStep, Others, Locals
  <2> QED BY <1>6, <2>1, <2>2 DEF TailCheck, TailLink, TailSwing
<1>7. CASE Return(t)
  <2>1. Idle.op = "none" /\ Idle.pc = "idle"
    BY DEF Idle
  <2> QED BY <1>1, <1>7, <2>1 DEF Return, OwnStep, Others
<1> QED BY <1>2, <1>3, <1>4, <1>5, <1>6, <1>7 DEF Step

LEMMA DoneNotBack ==
  ASSUME IInv, IInv', NEW t \in Threads, CallEnqueue(t) \/ CallDequeue(t) \/ Step(t)
  PROVE  done \cap Held' \subseteq Held
<1> USE DEF At
<1>1. CASE UNCHANGED shared
  BY <1>1 DEF shared, Held
<1>2. CASE CommitBumpHead(t) \/ HeadCas(t)
  <2>1. head \in HeadWords /\ segs' = segs
    BY <1>2 DEF IInv, TypeOK, CommitBumpHead, HeadCas
  <2>2. HeadLater
    BY <1>2, <2>1 DEF CommitBumpHead, HeadCas, HeadUnchanged, HeadLater, HeadWords, IInv, ThreadInv,
       HeadPcs
  <2> QED BY <2>1, <2>2, HeldShrinks DEF Val, Linked
<1>3. CASE TailLink(t) \/ TailSwing(t)
  <2>1. head' = head /\ (segs' = segs \/ segs' = Append(segs, NewSegment)) /\ segs \in Seq(Segments)
    BY <1>3 DEF TailLink, TailSwing, IInv, TypeOK
  <2>2. NewSegment \in Segments
    BY DEF NewSegment, Segments, Empty, Words
  <2>3. \A s \in Linked' : (s \in Linked /\ segs'[s] = segs[s]) \/ segs'[s] = NewSegment
    BY <2>1, <2>2 DEF Linked
  <2>4. Null \notin done
    BY CallHistoryAssumption DEF IInv, TypeOK
  <2> QED BY <2>1, <2>3, <2>4, HeldShrinks DEF HeadLater, Val, NewSegment, Empty
<1>4. CASE HeadDelete(t)
  <2> DEFINE n == th[t].head.seg
  <2>1. /\ head' = head /\ segs \in Seq(Segments) /\ n \in Linked
        /\ segs' = [segs EXCEPT ![n] = [segs[n] EXCEPT !.deleted = TRUE]]
    BY <1>4 DEF HeadDelete, IInv, TypeOK, ListInv, Locals, HeadWords, ThreadInv, HeadPcs, Linked
  <2> HIDE DEF n
  <2>2. Linked' = Linked /\ \A s \in Linked : segs'[s].items = segs[s].items
    BY <2>1 DEF Linked, Segments
  <2> QED BY <2>1, <2>2, HeldShrinks DEF HeadLater, Val
<1>5. ASSUME NEW s \in Linked, NEW i \in Slots, NEW w \in Words, Writes(s, i, w), w.val \notin done
      PROVE  done \cap Held' \subseteq Held
  <2>1. Written(s, i, w)
    BY <1>5, WriteEffect
  <2> QED BY <1>5, <2>1, HeldShrinks DEF Written, Writes, HeadLater
<1>6. Null \notin done
  BY CallHistoryAssumption DEF IInv, TypeOK
<1>7. CASE EnqueueCas(t)
  <2> DEFINE s == th[t].tail
             i == th[t].index
  <2>1. /\ th[t].pc = "E_cas" /\ th[t].op = "put" /\ PutInv(t) /\ s \in Linked /\ s \in 1 .. tail /\ i \in Slots
        /\ th[t].item \in Items /\ th[t].old \in Words
    BY <1>7 DEF EnqueueCas, IInv, TypeOK, ListInv, Locals, PcInv, ThreadInv, EnqueuePcs, Linked
  <2>2. NewItem(t) \in Words /\ NewItem(t).val = th[t].item /\ th[t].item \notin done
    BY <2>1 DEF NewItem, Words, PutInv
  <2>3. CASE segs' = [segs EXCEPT ![s].items[i] = NewItem(t)]
    <3>1. Writes(s, i, NewItem(t))
      BY <1>7, <2>1, <2>3 DEF EnqueueCas, Writes
    <3> QED BY <1>5, <2>1, <2>2, <3>1
  <2>4. CASE segs' = segs
    BY <1>1, <1>7, <2>4 DEF EnqueueCas, shared
  <2> QED BY <1>7, <2>3, <2>4 DEF EnqueueCas
<1>8. CASE CommitUndo(t)
  <2> DEFINE s == th[t].tail
             i == th[t].index
  <2>1. s \in Linked /\ i \in Slots
    BY <1>8 DEF CommitUndo, IInv, TypeOK, ListInv, ThreadInv, CommitPcs, Linked
  <2>2. Empty \in Words /\ Empty.val = Null
    BY DEF Empty, Words
  <2>3. CASE segs' = [segs EXCEPT ![s].items[i] = Empty]
    <3>1. Writes(s, i, Empty)
      BY <1>8, <2>2, <2>3 DEF CommitUndo, Writes
    <3> QED BY <1>5, <1>6, <2>1, <2>2, <3>1
  <2>4. CASE segs' = segs
    BY <1>1, <1>8, <2>4 DEF CommitUndo, shared
  <2> QED BY <1>8, <2>3, <2>4 DEF CommitUndo
<1>9. CASE DequeueCas(t)
  <2> DEFINE s == th[t].head.seg
             i == th[t].index
  <2>1. th[t] \in Locals /\ i \in Slots /\ th[t].old \in Words
    BY <1>9 DEF DequeueCas, IInv, TypeOK, Locals, ThreadInv
  <2>2. s \in Linked
    <3>1. s \in Nat \ {0} /\ HeadBehind(t)
      BY <2>1 DEF Locals, HeadWords, IInv, ThreadInv
    <3>2. head.seg \in Nat \ {0} /\ head.seg <= Len(segs) /\ Len(segs) \in Nat
      BY DEF IInv, TypeOK, ListInv, HeadWords
    <3> QED BY <3>1, <3>2 DEF HeadBehind, Linked
  <2>3. Taken(t) \in Words /\ Taken(t).val = Null
    BY <2>1 DEF Taken, Words
  <2>4. CASE segs' = [segs EXCEPT ![s].items[i] = Taken(t)]
    <3>1. Writes(s, i, Taken(t))
      BY <1>9, <2>3, <2>4 DEF DequeueCas, Writes
    <3> QED BY <1>5, <1>6, <2>1, <2>2, <2>3, <3>1
  <2>5. CASE segs' = segs
    BY <1>1, <1>9, <2>5 DEF DequeueCas, shared
  <2> QED BY <1>9, <2>4, <2>5 DEF DequeueCas
<1>10. CASE \/ CallEnqueue(t) \/ CallDequeue(t) \/ Return(t) \/ EnqueueReadTail(t) \/ EnqueueScan(t)
            \/ EnqueueCheck(t) \/ CommitTaken(t) \/ CommitReadHead(t) \/ CommitDeleted(t)
            \/ TailReadNext(t) \/ TailCheck(t) \/ DequeueReadHead(t) \/ DequeueScan(t)
            \/ DequeueReadTail(t) \/ DequeueCheck(t) \/ HeadReadNext(t) \/ HeadCheck(t)
  <2>1. Local(t)
    BY <1>10 DEF CallEnqueue, CallDequeue, Return, EnqueueReadTail, EnqueueScan, EnqueueCheck,
       CommitTaken, CommitReadHead, CommitDeleted, TailReadNext, TailCheck, DequeueReadHead,
       DequeueScan, DequeueReadTail, DequeueCheck, HeadReadNext, HeadCheck, Scan
  <2> QED BY <1>1, <2>1 DEF Local
<1> QED BY <1>2, <1>3, <1>4, <1>7, <1>8, <1>9, <1>10 DEF Step

\* What an item is older than is fixed when its enqueue is called.
LEMMA OlderKept ==
  ASSUME IInv, NEW t \in Threads, CallEnqueue(t) \/ CallDequeue(t) \/ Step(t),
         NEW x \in Items, x \in Hands
  PROVE  older'[x] = older[x]
<1>1. CASE CallEnqueue(t)
  <2>1. PICK y \in Fresh :
          th' = [th EXCEPT ![t] = [Idle EXCEPT !.pc = "E_tail", !.op = "put", !.item = y]]
    BY <1>1 DEF CallEnqueue
  <2>2. [Idle EXCEPT !.pc = "E_tail", !.op = "put", !.item = y].item = y
    BY IdleTyped DEF Locals
  <2>3. th'[t].item = y /\ y # x
    BY <2>1, <2>2 DEF Fresh, IInv, TypeOK
  <2> QED BY <1>1, <2>3 DEF CallEnqueue, Local, Observe, IInv, TypeOK
<1>2. CASE CallDequeue(t)
  <2>1. [Idle EXCEPT !.pc = "D_head", !.op = "get"].op = "get"
    BY IdleTyped DEF Locals
  <2>2. th'[t].op = "get"
    BY <1>2, <2>1 DEF CallDequeue, IInv, TypeOK
  <2> QED BY <1>2, <2>2 DEF CallDequeue, Local, Observe
<1>3. CASE Step(t)
  <2>1. th[t].op # "none"
    BY <1>3 DEF Step, At, IInv, PcInv, EnqueueReadTail, EnqueueScan, EnqueueCheck, EnqueueCas,
       CommitTaken, CommitReadHead, CommitDeleted, CommitBumpHead, CommitUndo, TailReadNext,
       TailCheck, TailLink, TailSwing, DequeueReadHead, DequeueScan, DequeueReadTail,
       DequeueCheck, DequeueCas, HeadReadNext, HeadCheck, HeadDelete, HeadCas, Return, Scan
  <2>2. \E held : Observe(t, held)
    BY <1>3 DEF Step, Local, EnqueueReadTail, EnqueueScan, EnqueueCheck, EnqueueCas,
       CommitTaken, CommitReadHead, CommitDeleted, CommitBumpHead, CommitUndo, TailReadNext,
       TailCheck, TailLink, TailSwing, DequeueReadHead, DequeueScan, DequeueReadTail,
       DequeueCheck, DequeueCas, HeadReadNext, HeadCheck, HeadDelete, HeadCas, Return, Scan
  <2> QED BY <2>1, <2>2 DEF Observe
<1> QED BY <1>1, <1>2, <1>3

LEMMA PassStep ==
  ASSUME IInv, IInv', NEW t \in Threads, CallEnqueue(t) \/ CallDequeue(t) \/ Step(t),
         NEW u \in Threads, PassInv(u)
  PROVE  PassInv(u)'
<1> SUFFICES ASSUME th'[u].pc = "return", th'[u].op = "get", th'[u].item # Null
             PROVE  PassInv(u)'
  BY DEF PassInv, At
<1>1. CASE th[u].pc = "return" /\ th[u].op = "get" /\ th[u].item = th'[u].item
  <2> DEFINE x == th[u].item
             passed == older[x] \cap Held
  <2>1. IsFiniteSet(passed) /\ Cardinality(passed) < K
    BY <1>1 DEF PassInv, At
  <2>2. x \in Items /\ x \in Hands
    BY <1>1 DEF IInv, TypeOK, Locals, Hands, InHand
  <2>3. older'[x] = older[x] /\ older[x] \subseteq done
    BY <2>2, OlderKept DEF IInv, OrderInv
  <2>4. older'[x] \cap Held' \subseteq passed
    BY <2>3, DoneNotBack
  <2>5. /\ IsFiniteSet(older'[x] \cap Held')
        /\ Cardinality(older'[x] \cap Held') <= Cardinality(passed)
        /\ Cardinality(older'[x] \cap Held') \in Nat /\ Cardinality(passed) \in Nat
    BY <2>1, <2>4, FS_Subset, FS_CardinalityType
  <2>6. Cardinality(older'[x] \cap Held') < K
    BY <2>1, <2>5, UnboundedKFifoAssumption
  <2> QED BY <1>1, <2>5, <2>6 DEF PassInv
<1>2. CASE u # t
  <2>1. th'[u] = th[u]
    <3>1. CASE CallEnqueue(t) \/ CallDequeue(t) \/ DequeueCas(t)
      BY <1>2, <3>1 DEF CallEnqueue, CallDequeue, DequeueCas, Finish, IInv, TypeOK
    <3>2. CASE Step(t) /\ ~DequeueCas(t)
      BY <1>2, <3>2, OwnSteps DEF OwnStep, Others
    <3> QED BY <3>1, <3>2
  <2> QED BY <1>1, <2>1
<1>3. CASE u = t
  <2>1. CASE DequeueCas(t)
    BY <1>3, <2>1, FewPassedAtCas
  <2>2. CASE CallEnqueue(t)
    <3>1. PICK y \in Fresh :
            th' = [th EXCEPT ![t] = [Idle EXCEPT !.pc = "E_tail", !.op = "put", !.item = y]]
      BY <2>2 DEF CallEnqueue
    <3>2. [Idle EXCEPT !.pc = "E_tail", !.op = "put", !.item = y].pc = "E_tail"
      BY IdleTyped DEF Locals
    <3> QED BY <1>3, <3>1, <3>2 DEF IInv, TypeOK
  <2>3. CASE CallDequeue(t)
    <3>1. [Idle EXCEPT !.pc = "D_head", !.op = "get"].pc = "D_head"
      BY IdleTyped DEF Locals
    <3> QED BY <1>3, <2>3, <3>1 DEF CallDequeue, IInv, TypeOK
  <2>4. CASE Step(t) /\ ~DequeueCas(t)
    \* A dequeue before its return has no item.
    BY <1>3, <2>4, OwnSteps DEF OwnStep, IInv, PcInv
  <2> QED BY <2>1, <2>2, <2>3, <2>4
<1> QED BY <1>2, <1>3

\* dequeue returns an item that passes by fewer than k items in the queue whose
\* enqueue had returned before its own was called, whatever dequeues, failed
\* commits and late advances of head or tail are under way.
THEOREM KOutOfOrderHolds ==
  ASSUME Order = "kfifo"
  PROVE  Spec => []KOutOfOrder
<1> DEFINE Passes == \A t \in Threads : PassInv(t)
<1>1. Init => Passes
  BY DEF Init, Idle, PassInv, At
<1>2. IInv /\ IInv' /\ Passes /\ [Next]_vars => Passes'
  <2> SUFFICES ASSUME IInv, IInv', Passes, [Next]_vars PROVE Passes'
    OBVIOUS
  <2>1. CASE UNCHANGED vars
    BY <2>1 DEF vars, shared, history, PassInv, At, Held
  <2>2. CASE Next
    BY <2>2, PassStep DEF Next
  <2> QED BY <2>1, <2>2
<1>3. Passes => KOutOfOrder
  BY DEF PassInv, KOutOfOrder, PassedBy
<1> QED BY <1>1, <1>2, <1>3, Inductive, PTL DEF Spec
=============================================================================
