----------------------------- MODULE KStackProofs -----------------------------
(***************************************************************************)
(* Proofs about KStack for every set of threads and items, every k and any *)
(* number of segments, where the build loads the removal counter once.     *)
(***************************************************************************)
EXTENDS KStack, FiniteSetTheorems, TLAPS

\* An index that ran past the end of an array of m entries at most once.
LEMMA ModOnce ==
  ASSUME NEW m \in Nat \ {0}, NEW x \in 0..2*m-1
  PROVE  x % m = IF x < m THEN x ELSE x - m
OBVIOUS

-----------------------------------------------------------------------------
\* Where a thread may be.
SearchPcs == {"top", "scan", "check"}
PushPcs == {"P_cas", "P_add"}
CommitPcs == {"C_slot", "C_remove", "C_top", "C_bump", "C_undo"}
PopPcs == {"O_segment", "O_cas", "O_empty"}
RemovePcs == {"R_check", "R_inc", "R_cas", "R_dec"}
EmptyPcs == {"is_empty", "record", "compare"}
Pcs == {"idle", "return"} \cup SearchPcs \cup PushPcs \cup CommitPcs \cup PopPcs \cup RemovePcs
       \cup EmptyPcs

Words == [val : Items \cup {Null}, aba : Nat]
TopWords == [seg : Nat \ {0}, aba : Nat]
Segments == [items : [Slots -> Words], remove : Int, next : Nat]
Locals == [pc : Pcs, op : {"none", "put", "get"}, item : Items \cup {Null},
           top : TopWords, index : Slots \cup {kNoIndexFound}, left : Nat,
           old : Words, seg : Nat, rec : [Slots -> Words]]

TypeOK ==
  /\ top \in TopWords
  /\ segs \in Seq(Segments)
  /\ th \in [Threads -> Locals]
  /\ done \subseteq Items /\ out \subseteq Items
  /\ older \in [Items -> SUBSET Items]
  /\ sight \in [Threads -> BOOLEAN]

Linked == 1 .. Len(segs)
Val(s, i) == segs[s].items[i].val

\* Segments point to earlier ones.
ListInv ==
  /\ top.seg \in Linked
  /\ \A s \in Linked : segs[s].next < s

\* The copy that t has of the top is behind the top: a change of the top raises the
\* tag, or keeps it and puts on a new segment.
TopBehind(t) ==
  /\ th[t].top.aba <= top.aba
  /\ th[t].top.aba = top.aba => th[t].top.seg <= top.seg

PcInv(t) ==
  /\ th[t].pc = "idle" <=> th[t].op = "none"
  /\ th[t].pc \in PushPcs \cup CommitPcs => th[t].op = "put"
  /\ th[t].pc \in PopPcs \cup RemovePcs \cup EmptyPcs => th[t].op = "get"
  /\ th[t].op = "put" => th[t].item \in Items
  /\ th[t].op = "none" => th[t].item = Null
  /\ th[t].op = "get" /\ th[t].pc # "return" => th[t].item = Null

\* What t knows of its segments, and of the slot it is about to swap.
ThreadInv(t) ==
  /\ TopBehind(t) /\ th[t].top.seg \in Linked
  /\ th[t].pc \in {"scan", "P_cas", "O_segment", "O_cas", "record", "compare"} \cup CommitPcs =>
       th[t].index \in Slots
  /\ th[t].pc \in {"scan", "record", "compare"} => th[t].left \in 1 .. SegmentSize
  /\ th[t].pc = "P_cas" \/ (th[t].pc = "check" /\ th[t].op = "put" /\ Found(t)) =>
       th[t].old.val = Null
  /\ th[t].pc \in {"O_segment", "O_cas"} \/ (th[t].pc = "check" /\ th[t].op = "get" /\ Found(t)) =>
       th[t].old.val # Null
  /\ th[t].pc = "O_cas" => th[t].seg \in Linked
  /\ th[t].pc \in RemovePcs => ~LastOne(t)
  /\ th[t].pc = "O_empty" => LastOne(t)

\* A pop has recorded slot i of a segment that it may remove.
Distance(j, i) == IF j <= i THEN i - j ELSE i - j + SegmentSize
Ahead(t) == {i \in Slots : Distance(th[t].index, i) < th[t].left}
Missed(t, i) ==
  /\ ~LastOne(t)
  /\ \/ th[t].pc = "record" /\ i \notin Ahead(t)
     \/ th[t].pc \in {"compare", "R_cas"}

\* No pop that might still remove segment s has missed slot i.
Safe(s, i) ==
  /\ s \in Below
  /\ \A t \in Threads : TopUnchanged(t) /\ top.seg = s => ~Missed(t, i)

Gone == Hands \cup out
Secured(x) == x \in Gone \/ \E s \in Linked, i \in Slots : Val(s, i) = x /\ Safe(s, i)

\* Every item is in one place.
PlacesInv ==
  /\ \A s, r \in Linked, i, j \in Slots :
       Val(s, i) = Val(r, j) /\ Val(s, i) # Null => s = r /\ i = j
  /\ \A s \in Linked, i \in Slots : Val(s, i) # Null => Val(s, i) \in Begun \ Gone
  /\ Gone \subseteq Begun
  /\ Hands \cap out = {}
  /\ \A t, u \in Threads : t # u => InHand(t) \cap InHand(u) = {}
  /\ \A t, u \in Threads : t # u /\ th[t].op = "put" /\ th[u].op = "put" => th[t].item # th[u].item

InItsSlot(t) == Slot(t) = NewItem(t)

\* Where the item of a push is.
PutInv(t) ==
  th[t].op = "put" =>
    /\ th[t].item \notin done
    /\ th[t].pc \in SearchPcs \cup PushPcs =>
         /\ th[t].item \notin Gone
         /\ \A s \in Linked, i \in Slots : Val(s, i) # th[t].item
    /\ th[t].pc \in CommitPcs => th[t].item \in Gone \/ InItsSlot(t)
    /\ th[t].pc = "return" => Secured(th[t].item)

DoneInv == \A x \in done : Secured(x)

\* The removal counter of a segment.
CountInv ==
  \A s \in Linked :
    /\ IsFiniteSet(Removing(s))
    /\ segs[s].remove = Cardinality(Removing(s)) + (IF s \in Below THEN 0 ELSE 1)

\* A pop that is to find the stack empty saw it so: the slots it has recorded were
\* empty, and what changed since has a larger tag.
Recorded(t, i) ==
  LET w == segs[th[t].top.seg].items[i] r == th[t].rec[i] IN
  /\ r.val = Null /\ r.aba <= w.aba
  /\ r.aba = w.aba => w = r
Changed(t) == \E i \in Ahead(t) : th[t].rec[i].aba < segs[th[t].top.seg].items[i].aba

EmptyInv(t) ==
  /\ th[t].pc = "record" => \A i \in Slots \ Ahead(t) : Recorded(t, i)
  /\ th[t].pc = "compare" => \A i \in Slots : Recorded(t, i)
  /\ th[t].pc = "compare" /\ LastOne(t) /\ TopUnchanged(t) => sight[t] \/ Changed(t)
  /\ th[t].pc = "O_empty" /\ TopUnchanged(t) => sight[t]
  /\ SaysEmpty(t) => sight[t]

\* What was put before x is not above x.
OrderInv ==
  /\ \A x \in Items : older[x] \subseteq done
  /\ \A s, r \in Linked, i, j \in Slots :
       Val(s, i) # Null /\ Val(r, j) \in older[Val(s, i)] => r <= s

NotBehind(t) ==
  th[t].op = "put" /\ th[t].pc \in {"scan", "check", "P_cas"} =>
    \A r \in Linked, j \in Slots : Val(r, j) \in older[th[t].item] => r <= th[t].top.seg

IInv ==
  /\ TypeOK /\ ListInv
  /\ \A t \in Threads : PcInv(t) /\ ThreadInv(t) /\ PutInv(t) /\ EmptyInv(t) /\ NotBehind(t)
  /\ PlacesInv /\ DoneInv /\ OrderInv /\ CountInv

-----------------------------------------------------------------------------
\* Steps in general.

Others(t) == \A u \in Threads \ {t} : th'[u] = th[u]

\* A step within a call of t that keeps its item.
InCall(t) ==
  /\ Others(t) /\ th'[t] \in Locals
  /\ th'[t].op = th[t].op /\ th'[t].item = th[t].item

\* Such a step changes nothing of the history but, perhaps, sight.
LEMMA QuietHistory ==
  ASSUME IInv, NEW t \in Threads, InCall(t), th' \in [Threads -> Locals],
         NEW held, Observe(t, held)
  PROVE  /\ done' = done /\ out' = out /\ older' = older
         /\ sight' = [u \in Threads |-> th'[u].op = "get" /\ (sight[u] \/ done \cap held = {})]
         /\ \A u \in Threads : InHand(u)' = InHand(u)
         /\ Hands' = Hands /\ Begun' = Begun /\ Gone' = Gone
<1>1. done' = done /\ out' = out /\ older' = older
  BY DEF Observe, InCall
<1>2. sight' = [u \in Threads |-> th'[u].op = "get" /\ (sight[u] \/ done \cap held = {})]
  BY <1>1 DEF Observe
<1>3. \A u \in Threads : th'[u].op = th[u].op /\ th'[u].item = th[u].item
  BY DEF InCall, Others
<1>4. \A u \in Threads : InHand(u)' = InHand(u)
  BY <1>3 DEF InHand
<1>5. Hands' = Hands
  BY <1>4 DEF Hands
<1>6. Begun' = Begun
  BY <1>1, <1>3 DEF Begun
<1> QED BY <1>1, <1>2, <1>4, <1>5, <1>6 DEF Gone

LEMMA SegmentTyped ==
  ASSUME IInv, NEW s \in Linked
  PROVE  /\ segs[s] \in Segments /\ segs[s].next \in Nat /\ segs[s].remove \in Int
         /\ \A i \in Slots : segs[s].items[i] \in Words /\ segs[s].items[i].aba \in Nat
                             /\ Val(s, i) \in Items \cup {Null}
<1>1. segs[s] \in Segments
  BY DEF IInv, TypeOK, Linked
<1> QED BY <1>1 DEF Segments, Words, Val

-----------------------------------------------------------------------------
\* The segments from the top down.

LEMMA BelowFacts ==
  ASSUME IInv
  PROVE  /\ Below \subseteq Linked /\ top.seg \in Below
         /\ \A s \in Below : segs[s].next # 0 => segs[s].next \in Below
         /\ \A s \in Below : s <= top.seg
<1>1. \A s \in Linked : segs[s].next \in Nat /\ segs[s].next < s
  BY SegmentTyped DEF IInv, ListInv
<1>2. top.seg \in Linked /\ top.seg \in Nat /\ Len(segs) \in Nat
  BY DEF IInv, TypeOK, ListInv, Linked
<1>3. Below \subseteq Linked
  BY DEF Below, Linked
<1>4. top.seg \in Below
  BY <1>2 DEF Below, Downward, Linked
<1>5. ASSUME NEW s \in Below, segs[s].next # 0 PROVE segs[s].next \in Below
  <2>1. s \in Linked /\ segs[s].next \in Linked
    BY <1>1, <1>2, <1>3, <1>5 DEF Linked
  <2>2. ASSUME NEW S \in SUBSET Linked, Downward(S) PROVE segs[s].next \in S
    BY <1>5, <2>2 DEF Below, Downward, Linked
  <2> QED BY <2>1, <2>2 DEF Below, Linked
<1>6. ASSUME NEW s \in Below PROVE s <= top.seg
  <2> DEFINE S == 1 .. top.seg
  <2>1. S \subseteq Linked
    BY <1>2 DEF Linked
  <2>2. Downward(S)
    <3>1. top.seg \in S
      BY <1>2 DEF Linked
    <3>2. ASSUME NEW r \in S PROVE segs[r].next \in S \cup {0}
      <4>1. r \in Linked
        BY <2>1
      <4>2. segs[r].next \in Nat /\ segs[r].next < r
        BY <1>1, <4>1
      <4> QED BY <1>2, <4>2
    <3> QED BY <3>1, <3>2 DEF Downward
  <2>3. s \in S
    BY <2>1, <2>2, <1>6 DEF Below, Linked
  <2> QED BY <2>3
<1> QED BY <1>3, <1>4, <1>5, <1>6

\* The bottom segment alone.
LEMMA BelowLast ==
  ASSUME IInv, segs[top.seg].next = 0
  PROVE  Below = {top.seg}
<1>1. Downward({top.seg}) /\ {top.seg} \subseteq Linked
  BY DEF Downward, IInv, ListInv
<1> QED BY <1>1, BelowFacts DEF Below, Linked

\* Segments keep what they point to, and are not taken away.
NextsKept ==
  /\ Linked \subseteq Linked'
  /\ \A s \in Linked : segs'[s].next = segs[s].next

LEMMA BelowKept ==
  ASSUME IInv, NextsKept, Linked' = Linked, top'.seg = top.seg
  PROVE  Below' = Below
<1>1. \A S \in SUBSET Linked : Downward(S)' <=> Downward(S)
  BY DEF Downward, NextsKept
<1>2. Below' = {s \in Linked' : \A S \in SUBSET Linked' : Downward(S)' => s \in S}
  BY DEF Below, Linked
<1> QED BY <1>1, <1>2 DEF Below, Linked

\* try_add_new_ksegment puts one on,
LEMMA BelowAdded ==
  ASSUME IInv, NextsKept, Linked' = Linked \cup {Len(segs) + 1}, top'.seg = Len(segs) + 1,
         segs'[Len(segs) + 1].next = top.seg
  PROVE  Below' = Below \cup {Len(segs) + 1}
<1> DEFINE n == Len(segs) + 1
<1>1. n \notin Linked /\ n # 0 /\ 0 \notin Linked
  BY DEF Linked, IInv, TypeOK
<1>2. Below' = {s \in Linked' : \A S \in SUBSET Linked' : Downward(S)' => s \in S}
  BY DEF Below, Linked
<1>3. Below \subseteq Linked /\ top.seg \in Below
  BY BelowFacts
<1> HIDE DEF n
<1>4. ASSUME NEW S \in SUBSET Linked', Downward(S)' PROVE Below \cup {n} \subseteq S
  <2>1. n \in S /\ top.seg \in S
    BY <1>3, <1>4 DEF Downward, n, Linked
  <2>2. Downward(S \cap Linked)
    <3>1. top.seg \in S \cap Linked
      BY <1>3, <2>1
    <3>2. ASSUME NEW s \in S \cap Linked PROVE segs[s].next \in (S \cap Linked) \cup {0}
      <4>1. segs[s].next \in S \cup {0}
        BY <1>4 DEF Downward, NextsKept
      <4>2. segs[s].next \in Linked \cup {0}
        BY SegmentTyped DEF IInv, ListInv, TypeOK, Linked
      <4> QED BY <4>1, <4>2
    <3> QED BY <3>1, <3>2 DEF Downward
  <2>3. Below \subseteq S \cap Linked
    BY <2>2 DEF Below, Linked
  <2> QED BY <2>1, <2>3
<1>5. ASSUME NEW S, S = Below \cup {n} PROVE Downward(S)'
  <2>1. \A s \in Below : segs'[s].next \in Below \cup {0}
    BY <1>3, BelowFacts DEF NextsKept
  <2> QED BY <1>3, <1>5, <2>1 DEF Downward, n
<1>6. Below \cup {n} \subseteq Linked'
  BY <1>3 DEF n
<1>7. Below' \subseteq Below \cup {n}
  BY <1>2, <1>5, <1>6
<1> QED BY <1>2, <1>4, <1>6, <1>7 DEF n

\* and try_remove_ksegment takes off the top.
LEMMA BelowRemoved ==
  ASSUME IInv, UNCHANGED segs, top'.seg = segs[top.seg].next, segs[top.seg].next # 0
  PROVE  Below' = Below \ {top.seg}
<1> DEFINE n == segs[top.seg].next
<1>1. /\ Below \subseteq Linked /\ top.seg \in Below /\ n \in Below
      /\ \A s \in Below : segs[s].next # 0 => segs[s].next \in Below
      /\ \A s \in Below : s <= top.seg
  BY BelowFacts
<1>2. \A s \in Linked : segs[s].next \in Nat /\ segs[s].next < s
  BY SegmentTyped DEF IInv, ListInv
<1>3. top.seg \in Nat /\ \A s \in Below : s \in Nat /\ segs[s].next \in Nat /\ segs[s].next < s
  <2>1. \A s \in Linked : s \in Nat
    BY DEF Linked
  <2> QED BY <1>1, <1>2, <2>1
<1>4. Below' = {s \in Linked : \A S \in SUBSET Linked : Downward(S)' => s \in S}
  BY DEF Below, Linked
<1>5. \A s \in Below : segs[s].next # top.seg
  BY <1>1, <1>3
<1>6. ASSUME NEW S, S = Below \ {top.seg} PROVE Downward(S)'
  BY <1>1, <1>5, <1>6 DEF Downward
<1>7. ASSUME NEW S \in SUBSET Linked, Downward(S)' PROVE Below \ {top.seg} \subseteq S
  <2>1. Downward(S \cup {top.seg})
    BY <1>7 DEF Downward
  <2>2. S \cup {top.seg} \subseteq Linked
    BY <1>1
  <2> QED BY <2>1, <2>2 DEF Below, Linked
<1>8. Below' \subseteq Below \ {top.seg}
  BY <1>1, <1>4, <1>6
<1> QED BY <1>1, <1>4, <1>7, <1>8

-----------------------------------------------------------------------------
\* What a step of t leaves to show.

\* The top is never the same again after a change, and slots change with their tag.
TopLater ==
  \/ top' = top
  \/ top'.aba > top.aba
  \/ top'.aba = top.aba /\ top'.seg > top.seg
Kept(s, i) == segs'[s].items[i] = segs[s].items[i]
WordsGrow ==
  \A s \in Linked, i \in Slots : Kept(s, i) \/ segs[s].items[i].aba < segs'[s].items[i].aba
ListGrows == TopLater /\ NextsKept /\ WordsGrow

\* Slots keep their contents, but for the item of t, and for one that t takes.
SlotsKeep(t) ==
  /\ \A s \in Linked, i \in Slots :
       Val(s, i) \in {Null, th[t].item} \/ Val(s, i) \in Gone' \/ Kept(s, i)
  /\ \A s \in Linked', i \in Slots :
       Val(s, i)' \in {Null, th[t].item} \/ (s \in Linked /\ Kept(s, i))
  /\ Gone \subseteq Gone'
  /\ \A x \in Gone' : x \in Gone \/ \E s \in Linked, i \in Slots : Val(s, i) = x

SafeStays == \A s \in Linked, i \in Slots : Val(s, i) # Null /\ Safe(s, i) => Safe(s, i)'

\* A later top is not the one that another thread remembers.
LEMMA TopMoves ==
  ASSUME IInv, NEW t \in Threads, Others(t), top' \in TopWords, TopLater,
         NEW u \in Threads, u # t
  PROVE  TopBehind(u)' /\ (TopUnchanged(u)' => TopUnchanged(u) /\ top' = top)
<1>1. /\ top \in TopWords /\ th[u].top \in TopWords /\ TopBehind(u) /\ th'[u] = th[u]
  BY DEF IInv, TypeOK, ThreadInv, Locals, Others
<1> QED BY <1>1 DEF TopBehind, TopLater, TopUnchanged, TopWords

\* What another thread has recorded stays as good.
LEMMA EmptyKept ==
  ASSUME IInv, NEW t \in Threads, Others(t), TypeOK', ListGrows, NEW u \in Threads, u # t,
         sight[u] /\ th'[u].op = "get" => sight'[u]
  PROVE  EmptyInv(u)'
<1> DEFINE s == th[u].top.seg
<1>1. th'[u] = th[u] /\ th[u] \in Locals /\ s \in Linked /\ EmptyInv(u) /\ PcInv(u)
  BY DEF Others, IInv, TypeOK, ThreadInv
<1>2. TopUnchanged(u)' => TopUnchanged(u)
  BY TopMoves DEF ListGrows, TypeOK
<1>3. (LastOne(u)' <=> LastOne(u)) /\ Ahead(u)' = Ahead(u)
  BY <1>1 DEF LastOne, Ahead, ListGrows, NextsKept
<1>4. ASSUME NEW i \in Slots
      PROVE  /\ segs[s].items[i].aba \in Nat /\ segs'[s].items[i].aba \in Nat
             /\ th[u].rec[i].aba \in Nat
             /\ Kept(s, i) \/ segs[s].items[i].aba < segs'[s].items[i].aba
  <2>1. segs[s].items[i].aba \in Nat
    BY <1>1, SegmentTyped
  <2>2. segs'[s] \in Segments
    BY <1>1 DEF TypeOK, ListGrows, NextsKept, Linked
  <2>3. segs'[s].items[i].aba \in Nat
    BY <2>2 DEF Segments, Words
  <2>4. th[u].rec[i].aba \in Nat
    BY <1>1 DEF Locals, Words
  <2> QED BY <1>1, <2>1, <2>3, <2>4 DEF ListGrows, WordsGrow
<1>5. \A i \in Slots : Recorded(u, i) => Recorded(u, i)'
  BY <1>1, <1>4 DEF Recorded, Kept
<1>6. Changed(u) => Changed(u)'
  <2>1. Ahead(u) \subseteq Slots
    BY DEF Ahead
  <2>2. ASSUME NEW i \in Slots, th[u].rec[i].aba < segs[s].items[i].aba
        PROVE  th[u].rec[i].aba < segs'[s].items[i].aba
    BY <1>4, <2>2 DEF Kept
  <2>3. th'[u].top.seg = s /\ th'[u].rec = th[u].rec
    BY <1>1
  <2> QED BY <1>3, <2>1, <2>2, <2>3 DEF Changed
<1>7. th[u].pc = "O_empty" \/ th[u].pc = "compare" => th[u].op = "get"
  BY <1>1 DEF PcInv, PopPcs, EmptyPcs
<1> QED BY <1>1, <1>2, <1>3, <1>5, <1>6, <1>7 DEF EmptyInv, SaysEmpty

LEMMA SharedStep ==
  ASSUME IInv, NEW t \in Threads, Others(t), th' \in [Threads -> Locals],
         th[t].op = "put" \/ th[t].item = Null,
         done' = done, older' = older,
         \A u \in Threads : sight[u] /\ th'[u].op = "get" => sight'[u],
         TypeOK', ListInv', PlacesInv', OrderInv', CountInv', ListGrows, SlotsKeep(t), SafeStays,
         PcInv(t)', ThreadInv(t)', PutInv(t)', EmptyInv(t)', NotBehind(t)'
  PROVE  IInv'
<1>1. \A s \in Linked : s \in Linked'
  BY DEF ListGrows, NextsKept
<1>2. th[t].item \notin done /\ done \subseteq Items
  BY CallHistoryAssumption DEF IInv, TypeOK, PutInv
<1>3. \A x \in Items : x # th[t].item /\ Secured(x) => Secured(x)'
  <2> SUFFICES ASSUME NEW x \in Items, x # th[t].item, Secured(x), x \notin Gone'
               PROVE  Secured(x)'
    BY DEF Secured
  <2>1. PICK s \in Linked, i \in Slots : Val(s, i) = x /\ Safe(s, i)
    BY DEF Secured, SlotsKeep
  <2>2. x # Null
    BY CallHistoryAssumption
  <2>3. Kept(s, i) /\ Safe(s, i)'
    BY <2>1, <2>2 DEF SlotsKeep, SafeStays
  <2>4. s \in Linked' /\ Val(s, i)' = x
    BY <1>1, <2>1, <2>3 DEF Kept, Val
  <2> QED BY <2>3, <2>4 DEF Secured
<1>4. DoneInv'
  BY <1>2, <1>3 DEF IInv, DoneInv
<1>5. ASSUME NEW u \in Threads, u # t
      PROVE  PcInv(u)' /\ ThreadInv(u)' /\ PutInv(u)' /\ EmptyInv(u)' /\ NotBehind(u)'
  <2>1. th'[u] = th[u] /\ th[u] \in Locals /\ th[u].top.seg \in Linked
    BY <1>5 DEF Others, IInv, TypeOK, ThreadInv
  <2>2. PcInv(u)' /\ EmptyInv(u)'
    BY <1>5, <2>1, EmptyKept DEF IInv, PcInv
  <2>3. TopBehind(u)'
    BY <1>5, TopMoves DEF TypeOK, ListGrows
  <2>4. ThreadInv(u)'
    <3>1. LastOne(u)' <=> LastOne(u)
      BY <2>1 DEF LastOne, ListGrows, NextsKept
    <3>2. Found(u)' <=> Found(u)
      BY <2>1 DEF Found
    <3> QED BY <1>1, <2>1, <2>3, <3>1, <3>2 DEF IInv, ThreadInv
  <2>5. NotBehind(u)'
    <3> SUFFICES ASSUME th[u].op = "put", th[u].pc \in {"scan", "check", "P_cas"},
                        NEW r \in Linked', NEW j \in Slots, Val(r, j)' \in older[th[u].item]
                 PROVE  r <= th[u].top.seg
      BY <2>1 DEF NotBehind
    <3>1. th[u].item \in Items
      BY DEF IInv, PcInv
    <3>2. Val(r, j)' # Null /\ Val(r, j)' # th[t].item
      BY <1>2, <3>1, CallHistoryAssumption DEF IInv, OrderInv
    <3>3. r \in Linked /\ Val(r, j) = Val(r, j)'
      BY <3>2 DEF SlotsKeep, Kept, Val
    <3> QED BY <3>3 DEF IInv, NotBehind
  <2>6. PutInv(u)'
    <3> SUFFICES ASSUME th[u].op = "put" PROVE PutInv(u)'
      BY <2>1 DEF PutInv
    <3>1. PutInv(u) /\ PcInv(u) /\ ThreadInv(u)
      BY DEF IInv
    <3>2. th[u].item \in Items /\ th[u].item # Null /\ th[u].item # th[t].item
      BY <1>5, <3>1, CallHistoryAssumption DEF PcInv, IInv, PlacesInv
    <3>3. CASE th[u].pc \in CommitPcs
      <4>1. th[u].index \in Slots
        BY <3>1, <3>3 DEF ThreadInv
      <4>2. InItsSlot(u) => Val(th[u].top.seg, th[u].index) = th[u].item
        BY DEF InItsSlot, Slot, NewItem, Word, Val
      <4>3. InItsSlot(u) => InItsSlot(u)' \/ th[u].item \in Gone'
        <5> SUFFICES ASSUME InItsSlot(u), th[u].item \notin Gone' PROVE InItsSlot(u)'
          OBVIOUS
        <5>1. Kept(th[u].top.seg, th[u].index)
          BY <2>1, <3>2, <4>1, <4>2 DEF SlotsKeep
        <5> QED BY <2>1, <5>1 DEF InItsSlot, Slot, NewItem, Kept
      <4> QED BY <2>1, <3>1, <3>3, <4>3 DEF PutInv, CommitPcs, SearchPcs, PushPcs, SlotsKeep
    <3>4. CASE th[u].pc \in SearchPcs \cup PushPcs
      <4>1. th[u].item \notin Gone /\ \A s \in Linked, i \in Slots : Val(s, i) # th[u].item
        BY <3>1, <3>4 DEF PutInv
      <4>2. th[u].item \notin Gone' /\ \A s \in Linked', i \in Slots : Val(s, i)' # th[u].item
        BY <3>2, <4>1 DEF SlotsKeep, Kept, Val
      <4> QED BY <2>1, <3>1, <3>4, <4>2 DEF PutInv, CommitPcs, SearchPcs, PushPcs
    <3>5. CASE th[u].pc \notin CommitPcs \cup SearchPcs \cup PushPcs
      <4>1. PICK x \in Items : x = th[u].item
        BY <3>2
      <4>2. th[u].pc = "return" => Secured(x)'
        BY <1>3, <3>1, <3>2, <4>1 DEF PutInv
      <4> QED BY <2>1, <3>1, <3>5, <4>1, <4>2 DEF PutInv, CommitPcs
    <3> QED BY <3>3, <3>4, <3>5
  <2> QED BY <2>2, <2>4, <2>5, <2>6
<1> QED BY <1>4, <1>5 DEF IInv

-----------------------------------------------------------------------------
\* The removal counters.

\* t is in the middle of removing a segment.
CountPcs == {"R_cas", "R_dec"} \cup EmptyPcs
Counted(t) == th[t].pc \in CountPcs /\ ~LastOne(t)

LEMMA RemovingIs == \A s : Removing(s) = {t \in Threads : Counted(t) /\ th[t].top.seg = s}
BY DEF Removing, Counted, CountPcs, EmptyPcs, LastOne

\* t neither begins nor ends a removal.
SameCount(t) ==
  IF Counted(t) THEN Counted(t)' /\ th'[t].top.seg = th[t].top.seg ELSE ~Counted(t)'

LEMMA OthersCounted ==
  ASSUME IInv, NEW t \in Threads, Others(t), NextsKept, NEW u \in Threads, u # t
  PROVE  (Counted(u)' <=> Counted(u)) /\ th'[u].top.seg = th[u].top.seg
BY DEF Others, Counted, LastOne, NextsKept, IInv, ThreadInv

LEMMA CountKept ==
  ASSUME IInv, NEW t \in Threads, Others(t), NextsKept, Linked' = Linked, Below' = Below,
         SameCount(t), \A s \in Linked : segs'[s].remove = segs[s].remove
  PROVE  CountInv'
<1>1. ASSUME NEW s PROVE Removing(s)' = Removing(s)
  <2>1. Removing(s)' = {u \in Threads : Counted(u)' /\ th'[u].top.seg = s}
    BY DEF Removing, Counted, CountPcs, EmptyPcs, LastOne
  <2> QED BY <2>1, RemovingIs, OthersCounted DEF SameCount
<1> QED BY <1>1 DEF IInv, CountInv

-----------------------------------------------------------------------------
\* Steps that leave the top and the slots alone.

\* t does not pass by an item in the segment that it may remove.
NoNewMiss(t) ==
  \A i \in Slots :
    th'[t].top = top /\ Missed(t, i)' =>
      \/ th[t].top = top /\ Missed(t, i)
      \/ Val(top.seg, i) = Null

\* Then what was safe stays safe, as long as the top stays.
LEMMA SafeKept ==
  ASSUME IInv, NEW t \in Threads, Others(t), top' = top, NextsKept, Below \subseteq Below',
         NoNewMiss(t), NEW s \in Linked, NEW i \in Slots, Val(s, i) # Null, Safe(s, i)
  PROVE  Safe(s, i)'
<1>1. s \in Below'
  BY DEF Safe
<1> SUFFICES ASSUME NEW u \in Threads, TopUnchanged(u)', top.seg = s, Missed(u, i)'
             PROVE  FALSE
  BY <1>1 DEF Safe
<1>2. CASE u = t
  BY <1>2 DEF NoNewMiss, Safe, TopUnchanged
<1>3. CASE u # t
  <2>1. th'[u] = th[u] /\ (LastOne(u)' <=> LastOne(u))
    BY <1>3 DEF Others, LastOne, NextsKept, IInv, ThreadInv
  <2> QED BY <2>1 DEF Safe, TopUnchanged, Missed, Ahead
<1> QED BY <1>2, <1>3

\* Nor is a put undone.
LEMMA SecuredKept ==
  ASSUME IInv, NEW t \in Threads, th' \in [Threads -> Locals], InCall(t), Local(t), NoNewMiss(t),
         NEW x \in Items, Secured(x)
  PROVE  Secured(x)'
<1>1. Gone' = Gone /\ top' = top /\ segs' = segs /\ Below' = Below /\ NextsKept
  BY QuietHistory, BelowKept DEF Local, shared, NextsKept, Linked
<1> SUFFICES ASSUME x \notin Gone PROVE Secured(x)'
  BY <1>1 DEF Secured
<1>2. PICK s \in Linked, i \in Slots : Val(s, i) = x /\ Safe(s, i)
  BY DEF Secured
<1>3. x # Null
  BY CallHistoryAssumption
<1>4. Safe(s, i)' /\ Val(s, i)' = x /\ s \in Linked'
  BY SafeKept, <1>1, <1>2, <1>3 DEF Val, Linked, InCall
<1> QED BY <1>4 DEF Secured

\* What a step in a call of t that leaves the slots alone keeps.
LEMMA SlotsStay ==
  ASSUME IInv, NEW t \in Threads, th' \in [Threads -> Locals], InCall(t), NEW held, Observe(t, held),
         Linked \subseteq Linked',
         \A s \in Linked', i \in Slots : Val(s, i)' = Null \/ (s \in Linked /\ Kept(s, i)),
         \A s \in Linked, i \in Slots : Kept(s, i)
  PROVE  PlacesInv' /\ OrderInv' /\ SlotsKeep(t)
<1>1. done' = done /\ older' = older /\ Begun' = Begun /\ Gone' = Gone
      /\ Hands' = Hands /\ out' = out /\ \A u \in Threads : InHand(u)' = InHand(u)
  BY QuietHistory
<1>2. \A u \in Threads : th'[u].op = th[u].op /\ th'[u].item = th[u].item
  BY DEF InCall, Others
<1>3. \A s \in Linked', i \in Slots : Val(s, i)' # Null => s \in Linked /\ Val(s, i)' = Val(s, i)
  BY DEF Kept, Val
<1>4. PlacesInv'
  <2>1. \A s, r \in Linked', i, j \in Slots :
          Val(s, i)' = Val(r, j)' /\ Val(s, i)' # Null => s = r /\ i = j
    BY <1>3 DEF IInv, PlacesInv
  <2>2. \A s \in Linked', i \in Slots : Val(s, i)' # Null => Val(s, i)' \in Begun' \ Gone'
    BY <1>1, <1>3 DEF IInv, PlacesInv
  <2>3. /\ Gone' \subseteq Begun' /\ Hands' \cap out' = {}
        /\ \A u, v \in Threads : u # v => InHand(u)' \cap InHand(v)' = {}
    BY <1>1 DEF IInv, PlacesInv
  <2>4. \A u, v \in Threads : u # v /\ th'[u].op = "put" /\ th'[v].op = "put" => th'[u].item # th'[v].item
    BY <1>2 DEF IInv, PlacesInv
  <2> QED BY <2>1, <2>2, <2>3, <2>4 DEF PlacesInv
<1>5. OrderInv'
  <2>1. \A x \in Items : older'[x] \subseteq done'
    BY <1>1 DEF IInv, OrderInv
  <2>2. ASSUME NEW s \in Linked', NEW r \in Linked', NEW i \in Slots, NEW j \in Slots,
               Val(s, i)' # Null, Val(r, j)' \in older[Val(s, i)']
        PROVE  r <= s
    <3>1. s \in Linked /\ Val(s, i)' = Val(s, i) /\ Val(s, i) \in Items
      BY <1>3, <2>2, SegmentTyped
    <3>2. Val(r, j)' # Null
      BY <2>2, <3>1, CallHistoryAssumption DEF IInv, TypeOK, OrderInv
    <3> QED BY <1>3, <2>2, <3>1, <3>2 DEF IInv, OrderInv
  <2> QED BY <1>1, <2>1, <2>2 DEF OrderInv
<1>6. SlotsKeep(t)
  BY <1>1 DEF SlotsKeep
<1> QED BY <1>4, <1>5, <1>6

\* A step that changes no shared word is one of t's own.
LEMMA LocalStep ==
  ASSUME IInv, NEW t \in Threads, th' \in [Threads -> Locals], InCall(t), Local(t),
         NoNewMiss(t), SameCount(t), th[t].op = "put" \/ th[t].item = Null,
         PcInv(t)', ThreadInv(t)', PutInv(t)', EmptyInv(t)', NotBehind(t)'
  PROVE  IInv'
<1> USE DEF Local, shared
<1>1. /\ done' = done /\ out' = out /\ older' = older
      /\ sight' = [u \in Threads |-> th'[u].op = "get" /\ (sight[u] \/ done \cap Held = {})]
      /\ \A u \in Threads : InHand(u)' = InHand(u)
      /\ Hands' = Hands /\ Begun' = Begun /\ Gone' = Gone
  BY QuietHistory
<1>2. TypeOK'
  BY <1>1 DEF IInv, TypeOK
<1>3. ListInv'
  BY DEF IInv, ListInv, Linked
<1>4. /\ Linked' = Linked /\ NextsKept /\ Below' = Below
      /\ \A s \in Linked, i \in Slots : Kept(s, i)
  BY BelowKept DEF Linked, NextsKept, Kept
<1>5. SafeStays
  BY <1>4, SafeKept DEF SafeStays, InCall
<1>6. ListGrows
  BY <1>4 DEF ListGrows, TopLater, WordsGrow
<1>7. PlacesInv' /\ OrderInv' /\ SlotsKeep(t)
  BY <1>4, SlotsStay
<1>8. CountInv'
  BY <1>4, CountKept DEF InCall
<1> QED BY <1>1, <1>2, <1>3, <1>5, <1>6, <1>7, <1>8, SharedStep DEF InCall

\* A step that neither swaps a word nor loses an item is a local one.
LEMMA FailedSwap ==
  ASSUME NEW t \in Threads, UNCHANGED shared, Observe(t, Held')
  PROVE  Local(t)
<1>1. Held' = Held
  BY DEF shared, Held, Below, Downward
<1> QED BY <1>1 DEF Local

\* The records that the steps write.
LEMMA IdleTyped == Idle \in Locals
BY KStackAssumption
   DEF Idle, Locals, Pcs, FirstTop, TopWords, Empty, Word, Words, Slots, SegmentSize

LEMMA IdlingTyped ==
  ASSUME NEW t, NEW label \in Pcs, th[t] \in Locals
  PROVE  /\ Idling(t, label) \in Locals
         /\ Idling(t, label).pc = label /\ Idling(t, label).top = FirstTop
         /\ Idling(t, label).op = th[t].op /\ Idling(t, label).item = th[t].item
<1>1. Idle.top = FirstTop
  BY DEF Idle
<1> QED BY <1>1, IdleTyped DEF Idling, Locals

\* A step that changes t's locals to r, and keeps its call and its item.
LEMMA InCallEffect ==
  ASSUME IInv, NEW t \in Threads, NEW r \in Locals, th' = [th EXCEPT ![t] = r],
         r.op = th[t].op, r.item = th[t].item
  PROVE  /\ th' \in [Threads -> Locals] /\ th'[t] = r /\ InCall(t)
<1>1. th \in [Threads -> Locals]
  BY DEF IInv, TypeOK
<1> QED BY <1>1 DEF InCall, Others

LEMMA FinishEffect ==
  ASSUME IInv, NEW t \in Threads, NEW label \in Pcs, Finish(t, label)
  PROVE  /\ th' \in [Threads -> Locals] /\ InCall(t)
         /\ th'[t].pc = label /\ th'[t].top = FirstTop
         /\ th'[t].op = th[t].op /\ th'[t].item = th[t].item
<1>1. th[t] \in Locals
  BY DEF IInv, TypeOK
<1>2. /\ Idling(t, label) \in Locals
      /\ Idling(t, label).pc = label /\ Idling(t, label).top = FirstTop
      /\ Idling(t, label).op = th[t].op /\ Idling(t, label).item = th[t].item
  BY <1>1, IdlingTyped
<1>3. th' = [th EXCEPT ![t] = Idling(t, label)]
  BY DEF Finish
<1> HIDE DEF Idling
<1>4. th' \in [Threads -> Locals] /\ th'[t] = Idling(t, label) /\ InCall(t)
  BY <1>2, <1>3, InCallEffect
<1> QED BY <1>2, <1>4

LEMMA GotoEffect ==
  ASSUME IInv, NEW t \in Threads, NEW label \in Pcs, Goto(t, label)
  PROVE  /\ th' \in [Threads -> Locals] /\ InCall(t) /\ th'[t].pc = label
         /\ th'[t].top = th[t].top /\ th'[t].index = th[t].index
         /\ th'[t].left = th[t].left /\ th'[t].old = th[t].old /\ th'[t].seg = th[t].seg
         /\ th'[t].rec = th[t].rec
         /\ th'[t].op = th[t].op /\ th'[t].item = th[t].item
<1>1. th[t] \in Locals /\ th \in [Threads -> Locals]
  BY DEF IInv, TypeOK
<1>2. [th[t] EXCEPT !.pc = label] \in Locals
  BY <1>1 DEF Locals
<1>3. th' = [th EXCEPT ![t] = [th[t] EXCEPT !.pc = label]]
  BY <1>1 DEF Goto
<1> QED BY <1>1, <1>2, <1>3, InCallEffect DEF Locals

\* A thread between its rounds, and between its calls.
LEMMA Resting ==
  ASSUME NEW t \in Threads, TypeOK', ListInv', th'[t].top = FirstTop,
         th'[t].pc \in {"idle", "top", "return"}
  PROVE  /\ ThreadInv(t)' /\ NotBehind(t)' /\ ~Counted(t)'
         /\ \A i \in Slots : ~Missed(t, i)'
         /\ ~SaysEmpty(t)' => EmptyInv(t)'
<1>1. top' \in TopWords /\ top'.seg \in Linked' /\ Linked' = 1 .. Len(segs') /\ Len(segs') \in Nat
  BY DEF TypeOK, ListInv, Linked
<1>2. 1 \in Linked'
  BY <1>1
<1>3. TopBehind(t)'
  BY <1>1 DEF TopBehind, FirstTop, TopWords
<1>4. ThreadInv(t)'
  BY <1>2, <1>3 DEF ThreadInv, FirstTop, CommitPcs, RemovePcs
<1> QED BY <1>4 DEF NotBehind, Counted, CountPcs, EmptyPcs, Missed, EmptyInv

\* An item whose push has returned is in the segments from the top down.
LEMMA DoneBelow ==
  ASSUME IInv, NEW s \in Linked, NEW i \in Slots, Val(s, i) \in done
  PROVE  Safe(s, i) /\ s \in Below /\ s <= top.seg
<1>1. Val(s, i) # Null /\ Secured(Val(s, i))
  BY CallHistoryAssumption DEF IInv, TypeOK, DoneInv
<1>2. Val(s, i) \notin Gone
  BY <1>1 DEF IInv, PlacesInv
<1>3. PICK r \in Linked, j \in Slots : Val(r, j) = Val(s, i) /\ Safe(r, j)
  BY <1>1, <1>2 DEF Secured
<1>4. r = s /\ j = i
  BY <1>1, <1>3 DEF IInv, PlacesInv
<1> QED BY <1>3, <1>4, BelowFacts DEF Safe

\* What is left to show where t goes on in a call,
LEMMA LocalMove ==
  ASSUME IInv, NEW t \in Threads, th' \in [Threads -> Locals], InCall(t), Local(t),
         th[t].pc \notin {"idle", "return"}, th'[t].pc \notin {"idle", "return"},
         ThreadInv(t)', EmptyInv(t)', NoNewMiss(t), SameCount(t),
         th[t].op = "put" =>
           \/ {th[t].pc, th'[t].pc} \subseteq SearchPcs \cup PushPcs
           \/ /\ {th[t].pc, th'[t].pc} \subseteq CommitPcs
              /\ th'[t].top = th[t].top /\ th'[t].index = th[t].index /\ th'[t].old = th[t].old,
         th'[t].pc \in PushPcs \cup CommitPcs => th[t].op = "put",
         th'[t].pc \in PopPcs \cup RemovePcs \cup EmptyPcs => th[t].op = "get",
         th[t].op = "put" /\ th'[t].pc \in {"scan", "check", "P_cas"} =>
           \/ th'[t].top = top
           \/ th[t].pc \in {"scan", "check", "P_cas"} /\ th'[t].top = th[t].top
  PROVE  IInv'
<1>1. /\ th[t].op \in {"put", "get"} /\ th'[t].op = th[t].op /\ th'[t].item = th[t].item
      /\ PcInv(t) /\ PutInv(t) /\ (th[t].op = "get" => th[t].item = Null)
  BY DEF IInv, TypeOK, Locals, PcInv, InCall
<1>2. PcInv(t)'
  BY <1>1 DEF PcInv
<1>3. done' = done /\ Gone' = Gone /\ older' = older /\ segs' = segs /\ top' = top
  BY QuietHistory DEF Local, shared
<1>4. PutInv(t)'
  BY <1>1, <1>3 DEF PutInv, SearchPcs, PushPcs, CommitPcs, InItsSlot, Slot, NewItem, Linked, Val
<1>5. NotBehind(t)'
  <2> SUFFICES ASSUME th[t].op = "put", th'[t].pc \in {"scan", "check", "P_cas"},
                      NEW r \in Linked, NEW j \in Slots, Val(r, j) \in older[th[t].item]
               PROVE  r <= th'[t].top.seg
    BY <1>1, <1>3 DEF NotBehind, Linked, Val
  <2>1. th[t].item \in Items
    BY <1>1 DEF PcInv
  <2>2. Val(r, j) \in done
    BY <2>1 DEF IInv, OrderInv
  <2>3. r <= top.seg
    BY <2>2, DoneBelow
  <2> QED BY <2>3 DEF IInv, NotBehind
<1> QED BY <1>1, <1>2, <1>4, <1>5, LocalStep

\* away from is_empty,
LEMMA QuietMove ==
  ASSUME IInv, NEW t \in Threads, th' \in [Threads -> Locals], InCall(t), Local(t),
         th[t].pc \notin {"idle", "return"} \cup CountPcs,
         th'[t].pc \notin {"idle", "return", "O_empty"} \cup CountPcs,
         ThreadInv(t)',
         th[t].op = "put" =>
           \/ {th[t].pc, th'[t].pc} \subseteq SearchPcs \cup PushPcs
           \/ /\ {th[t].pc, th'[t].pc} \subseteq CommitPcs
              /\ th'[t].top = th[t].top /\ th'[t].index = th[t].index /\ th'[t].old = th[t].old,
         th'[t].pc \in PushPcs \cup CommitPcs => th[t].op = "put",
         th'[t].pc \in PopPcs \cup RemovePcs \cup EmptyPcs => th[t].op = "get",
         th[t].op = "put" /\ th'[t].pc \in {"scan", "check", "P_cas"} =>
           \/ th'[t].top = top
           \/ th[t].pc \in {"scan", "check", "P_cas"} /\ th'[t].top = th[t].top
  PROVE  IInv'
<1>1. EmptyInv(t)' /\ NoNewMiss(t) /\ SameCount(t)
  BY DEF EmptyInv, SaysEmpty, NoNewMiss, Missed, SameCount, Counted, CountPcs, EmptyPcs
<1> QED BY <1>1, LocalMove

\* and where it starts over, or is about to return.
LEMMA FinishStep ==
  ASSUME IInv, NEW t \in Threads, NEW label \in {"top", "return"},
         Finish(t, label), Local(t), th[t].pc # "return", th[t].pc # "idle", ~Counted(t),
         label = "top" /\ th[t].op = "put" => th[t].pc \in SearchPcs \cup PushPcs,
         label = "return" => IF th[t].op = "put" THEN Secured(th[t].item) ELSE sight[t]
  PROVE  IInv'
<1>1. /\ th' \in [Threads -> Locals] /\ InCall(t)
      /\ th'[t].pc = label /\ th'[t].top = FirstTop /\ th'[t].op = th[t].op
      /\ th'[t].item = th[t].item
  BY FinishEffect DEF Pcs, SearchPcs
<1>2. /\ done' = done /\ out' = out /\ older' = older /\ Gone' = Gone /\ segs' = segs /\ top' = top
      /\ sight' = [u \in Threads |-> th'[u].op = "get" /\ (sight[u] \/ done \cap Held = {})]
  BY <1>1, QuietHistory DEF Local, shared
<1>3. TypeOK' /\ ListInv'
  BY <1>1, <1>2 DEF IInv, TypeOK, ListInv, Linked
<1>4. /\ ThreadInv(t)' /\ NotBehind(t)' /\ ~Counted(t)' /\ (\A i \in Slots : ~Missed(t, i)')
      /\ ~SaysEmpty(t)' => EmptyInv(t)'
  BY <1>1, <1>3, Resting
<1>5. NoNewMiss(t) /\ SameCount(t)
  BY <1>4 DEF NoNewMiss, SameCount
<1>6. th[t].op \in {"put", "get"} /\ PcInv(t) /\ PutInv(t)
  BY DEF IInv, TypeOK, Locals, PcInv
<1>7. PcInv(t)'
  BY <1>1, <1>6 DEF PcInv, PushPcs, CommitPcs, PopPcs, RemovePcs, EmptyPcs
<1>8. EmptyInv(t)'
  BY <1>1, <1>2, <1>4, <1>6 DEF EmptyInv, SaysEmpty, PcInv
<1>9. PutInv(t)'
  <2>1. CASE label = "top"
    BY <1>1, <1>2, <1>6, <2>1 DEF PutInv, SearchPcs, PushPcs, CommitPcs, Linked, Val
  <2>2. CASE label = "return" /\ th[t].op = "put"
    <3>1. PICK x \in Items : x = th[t].item
      BY <1>6, <2>2 DEF PcInv
    <3>2. Secured(x)'
      BY <1>1, <1>5, <2>2, <3>1, SecuredKept
    <3> QED BY <1>1, <1>2, <1>6, <2>2, <3>1, <3>2 DEF PutInv, SearchPcs, PushPcs, CommitPcs
  <2> QED BY <1>1, <1>6, <2>1, <2>2 DEF PutInv
<1> QED BY <1>1, <1>4, <1>5, <1>6, <1>7, <1>8, <1>9, LocalStep DEF PcInv

-----------------------------------------------------------------------------
\* The search for a slot.

LEMMA ReadTopStep ==
  ASSUME IInv, NEW t \in Threads, ReadTop(t)
  PROVE  IInv'
<1> USE DEF ReadTop, At
<1>1. /\ th[t] \in Locals /\ th \in [Threads -> Locals] /\ top \in TopWords /\ top.seg \in Linked
      /\ th[t].pc = "top" /\ Local(t) /\ SegmentSize \in Nat \ {0}
  BY KStackAssumption DEF IInv, TypeOK, ListInv, SegmentSize
<1>2. PICK random \in Slots :
        th' = [th EXCEPT ![t].pc = "scan", ![t].top = top,
                         ![t].index = random, ![t].left = SegmentSize]
  OBVIOUS
<1> DEFINE r == [th[t] EXCEPT !.pc = "scan", !.top = top, !.index = random, !.left = SegmentSize]
<1>3. r \in Locals /\ th' = [th EXCEPT ![t] = r]
  BY <1>1, <1>2 DEF Locals, Pcs, SearchPcs
<1>4. /\ r.op = th[t].op /\ r.item = th[t].item /\ r.pc = "scan" /\ r.top = top
      /\ r.index = random /\ r.left = SegmentSize
  BY <1>1 DEF Locals
<1> HIDE DEF r
<1>5. th' \in [Threads -> Locals] /\ InCall(t) /\ th'[t] = r
  BY <1>3, <1>4, InCallEffect
<1>6. ThreadInv(t)'
  BY <1>1, <1>4, <1>5 DEF ThreadInv, TopBehind, Local, shared, Linked, CommitPcs, RemovePcs, TopWords
<1> QED BY <1>1, <1>4, <1>5, <1>6, QuietMove DEF SearchPcs, PushPcs, CommitPcs, PopPcs, RemovePcs,
           EmptyPcs, CountPcs

LEMMA SlotAfter ==
  ASSUME NEW j \in Slots
  PROVE  /\ (j + 1) % SegmentSize = IF j + 1 = SegmentSize THEN 0 ELSE j + 1
         /\ (j + 1) % SegmentSize \in Slots
<1>1. SegmentSize \in Nat \ {0} /\ j \in 0 .. SegmentSize-1 /\ Slots = 0 .. SegmentSize-1
  BY KStackAssumption DEF SegmentSize, Slots
<1> HIDE DEF SegmentSize
<1>2. j + 1 \in 0 .. 2*SegmentSize-1
  BY <1>1
<1>3. (j + 1) % SegmentSize = IF j + 1 < SegmentSize THEN j + 1 ELSE (j + 1) - SegmentSize
  BY <1>1, <1>2, ModOnce
<1> QED BY <1>1, <1>3

LEMMA ScanStep ==
  ASSUME IInv, NEW t \in Threads, Scan(t)
  PROVE  IInv'
<1> USE DEF Scan, At
<1>1. th[t] \in Locals /\ th \in [Threads -> Locals] /\ Local(t) /\ th[t].pc = "scan"
  BY DEF IInv, TypeOK
<1>2. /\ th[t].index \in Slots /\ th[t].top.seg \in Linked /\ th[t].left \in 1 .. SegmentSize
      /\ TopBehind(t) /\ th[t].op \in {"put", "get"} /\ Slot(t) \in Words
  BY <1>1, SegmentTyped DEF IInv, ThreadInv, PcInv, Locals, Slot
<1>3. SegmentSize \in Nat \ {0} /\ -1 \notin Slots
  BY KStackAssumption DEF SegmentSize, Slots
<1> HIDE DEF SegmentSize
<1>4. CASE Fits(t)
  <2> DEFINE r == [th[t] EXCEPT !.pc = "check", !.left = 0, !.old = Slot(t)]
  <2>1. r \in Locals /\ th' = [th EXCEPT ![t] = r]
    BY <1>1, <1>2, <1>4 DEF Locals, Pcs, SearchPcs
  <2>2. /\ r.op = th[t].op /\ r.item = th[t].item /\ r.pc = "check" /\ r.top = th[t].top
        /\ r.index = th[t].index /\ r.old = Slot(t)
    BY <1>1 DEF Locals
  <2> HIDE DEF r
  <2>3. th' \in [Threads -> Locals] /\ InCall(t) /\ th'[t] = r
    BY <2>1, <2>2, InCallEffect
  <2>4. ThreadInv(t)'
    BY <1>1, <1>2, <1>4, <2>2, <2>3 DEF Fits, ThreadInv, TopBehind, Local, shared, Linked, CommitPcs,
       RemovePcs
  <2> QED BY <1>1, <2>2, <2>3, <2>4, QuietMove DEF SearchPcs, PushPcs, CommitPcs, PopPcs, RemovePcs,
             EmptyPcs, CountPcs
<1>5. CASE ~Fits(t) /\ th[t].left = 1
  <2> DEFINE r == [th[t] EXCEPT !.pc = "check", !.left = 0, !.index = kNoIndexFound]
  <2>1. r \in Locals /\ th' = [th EXCEPT ![t] = r]
    BY <1>1, <1>5 DEF Locals, Pcs, SearchPcs
  <2>2. /\ r.op = th[t].op /\ r.item = th[t].item /\ r.pc = "check" /\ r.top = th[t].top
        /\ r.index = kNoIndexFound
    BY <1>1 DEF Locals
  <2> HIDE DEF r
  <2>3. th' \in [Threads -> Locals] /\ InCall(t) /\ th'[t] = r
    BY <2>1, <2>2, InCallEffect
  <2>4. ThreadInv(t)'
    BY <1>1, <1>2, <2>2, <2>3 DEF Found, ThreadInv, TopBehind, Local, shared, Linked, CommitPcs,
       RemovePcs
  <2> QED BY <1>1, <2>2, <2>3, <2>4, QuietMove DEF SearchPcs, PushPcs, CommitPcs, PopPcs, RemovePcs,
             EmptyPcs, CountPcs
<1>6. CASE ~Fits(t) /\ th[t].left # 1
  <2> DEFINE r == [th[t] EXCEPT !.left = @ - 1, !.index = (@ + 1) % SegmentSize]
  <2>1. /\ (th[t].index + 1) % SegmentSize \in Slots
        /\ th[t].left - 1 \in 1 .. SegmentSize /\ th[t].left - 1 \in Nat
    BY <1>2, <1>3, <1>6, SlotAfter
  <2>2. r \in Locals /\ th' = [th EXCEPT ![t] = r]
    BY <1>1, <1>6, <2>1 DEF Locals
  <2>3. /\ r.op = th[t].op /\ r.item = th[t].item /\ r.pc = "scan" /\ r.top = th[t].top
        /\ r.index \in Slots /\ r.left \in 1 .. SegmentSize
    BY <1>1, <2>1 DEF Locals
  <2> HIDE DEF r
  <2>4. th' \in [Threads -> Locals] /\ InCall(t) /\ th'[t] = r
    BY <2>2, <2>3, InCallEffect
  <2>5. ThreadInv(t)'
    BY <1>1, <1>2, <2>3, <2>4 DEF ThreadInv, TopBehind, Local, shared, Linked, CommitPcs, RemovePcs,
       SegmentSize
  <2> QED BY <1>1, <2>3, <2>4, <2>5, QuietMove DEF SearchPcs, PushPcs, CommitPcs, PopPcs, RemovePcs,
             EmptyPcs, CountPcs
<1> QED BY <1>4, <1>5, <1>6

LEMMA CheckStep ==
  ASSUME IInv, NEW t \in Threads, Check(t)
  PROVE  IInv'
<1> USE DEF Check, At
<1>1. /\ th[t].pc = "check" /\ Local(t) /\ th[t].op \in {"put", "get"}
      /\ th[t].index \in Slots \cup {kNoIndexFound} /\ ThreadInv(t)
  BY DEF IInv, TypeOK, Locals, PcInv
<1>2. CASE ~TopUnchanged(t)
  BY <1>1, <1>2, FinishStep DEF SearchPcs, Counted, CountPcs, EmptyPcs
<1>3. CASE TopUnchanged(t)
  <2> DEFINE label == Proceed(t)
  <2>1. /\ Goto(t, label) /\ label \in {"P_cas", "P_add", "O_segment", "is_empty", "R_check"}
        /\ label \in {"P_cas", "P_add"} <=> th[t].op = "put"
        /\ label \in {"P_cas", "O_segment"} => Found(t)
        /\ label = "is_empty" => LastOne(t)
        /\ label = "R_check" => ~LastOne(t)
    BY <1>1, <1>3 DEF Proceed, LastOne
  <2> HIDE DEF label
  <2>2. label \in Pcs
    BY <2>1 DEF Pcs, PushPcs, PopPcs, EmptyPcs, RemovePcs
  <2>3. /\ th' \in [Threads -> Locals] /\ InCall(t) /\ th'[t].pc = label
        /\ th'[t].top = th[t].top /\ th'[t].index = th[t].index
        /\ th'[t].old = th[t].old /\ th'[t].op = th[t].op
    BY <2>1, <2>2, GotoEffect
  <2>4. LastOne(t)' <=> LastOne(t)
    BY <1>1, <2>3 DEF LastOne, Local, shared
  <2>5. ThreadInv(t)'
    BY <1>1, <2>1, <2>3, <2>4 DEF ThreadInv, TopBehind, Found, Local, shared, Linked, CommitPcs,
       RemovePcs
  <2>6. EmptyInv(t)' /\ NoNewMiss(t) /\ SameCount(t)
    BY <1>1, <2>1, <2>3, <2>4 DEF EmptyInv, SaysEmpty, NoNewMiss, Missed, SameCount, Counted, CountPcs,
       EmptyPcs
  <2> QED BY <1>1, <2>1, <2>3, <2>5, <2>6, LocalMove DEF SearchPcs, PushPcs, CommitPcs, PopPcs,
             RemovePcs, EmptyPcs
<1> QED BY <1>2, <1>3

-----------------------------------------------------------------------------
\* committed, as long as it changes nothing.

LEMMA CommitMove ==
  ASSUME IInv, NEW t \in Threads, Local(t), th[t].pc \in CommitPcs,
         NEW label \in CommitPcs, Goto(t, label)
  PROVE  IInv'
<1>1. /\ th' \in [Threads -> Locals] /\ InCall(t) /\ th'[t].pc = label
      /\ th'[t].top = th[t].top /\ th'[t].index = th[t].index
      /\ th'[t].old = th[t].old /\ th'[t].op = th[t].op
  BY GotoEffect DEF Pcs
<1>2. th[t].op = "put" /\ ThreadInv(t)
  BY DEF IInv, PcInv
<1>3. ThreadInv(t)'
  BY <1>1, <1>2 DEF ThreadInv, TopBehind, Local, shared, Linked, CommitPcs, RemovePcs
<1> QED BY <1>1, <1>2, <1>3, QuietMove DEF SearchPcs, PushPcs, CommitPcs, PopPcs, RemovePcs,
           EmptyPcs, CountPcs

LEMMA CommitTakenStep ==
  ASSUME IInv, NEW t \in Threads, CommitTaken(t)
  PROVE  IInv'
<1> USE DEF CommitTaken, At
<1>1. /\ th[t].pc = "C_slot" /\ Local(t) /\ th[t].op = "put" /\ (th[t].item \in Gone \/ InItsSlot(t))
  BY DEF IInv, PcInv, PutInv, CommitPcs
<1>2. CASE Slot(t) = NewItem(t)
  BY <1>1, <1>2, CommitMove DEF CommitPcs
<1>3. CASE Slot(t) # NewItem(t)
  BY <1>1, <1>3, FinishStep DEF InItsSlot, Secured, Counted, CountPcs, EmptyPcs
<1> QED BY <1>2, <1>3

\* Where the counter of a segment is 0 nobody is about to remove it.
LEMMA NoRemover ==
  ASSUME IInv, NEW s \in Linked, segs[s].remove = 0, NEW i \in Slots
  PROVE  Safe(s, i)
<1>1. /\ IsFiniteSet(Removing(s))
      /\ 0 = Cardinality(Removing(s)) + (IF s \in Below THEN 0 ELSE 1)
  BY DEF IInv, CountInv
<1>2. Cardinality(Removing(s)) \in Nat
  BY <1>1, FS_CardinalityType
<1>3. s \in Below /\ Cardinality(Removing(s)) = 0
  BY <1>1, <1>2
<1>4. Removing(s) = {}
  BY <1>1, <1>3, FS_EmptySet
<1> SUFFICES ASSUME NEW u \in Threads, TopUnchanged(u), top.seg = s, Missed(u, i)
             PROVE  FALSE
  BY <1>3 DEF Safe
<1>5. Counted(u) /\ th[u].top.seg = s
  BY DEF Missed, Counted, CountPcs, EmptyPcs, TopUnchanged
<1> QED BY <1>4, <1>5, RemovingIs

LEMMA CommitRemoveStep ==
  ASSUME ~Reload, IInv, NEW t \in Threads, CommitRemove(t)
  PROVE  IInv'
<1>1. th[t].pc \in Pcs /\ th[t].pc \in {"C_remove", "C_remove_again"} /\ Local(t)
  BY DEF CommitRemove, IInv, TypeOK, Locals
<1>2. th[t].pc = "C_remove"
  BY <1>1 DEF Pcs, SearchPcs, PushPcs, CommitPcs, PopPcs, RemovePcs, EmptyPcs
<1>3. /\ th[t].op = "put" /\ (th[t].item \in Gone \/ InItsSlot(t))
      /\ th[t].top.seg \in Linked /\ th[t].index \in Slots
  BY <1>2 DEF IInv, PcInv, PutInv, ThreadInv, CommitPcs
<1>4. IF Removal(t) THEN Goto(t, "C_top") ELSE Finish(t, "return")
  BY <1>2 DEF CommitRemove, At, Goto, Finish
<1>5. CASE Removal(t)
  BY <1>1, <1>2, <1>4, <1>5, CommitMove DEF CommitPcs
<1>6. CASE ~Removal(t)
  <2>1. Safe(th[t].top.seg, th[t].index)
    BY <1>3, <1>6, NoRemover DEF Removal
  <2>2. Secured(th[t].item)
    BY <1>3, <2>1 DEF Secured, InItsSlot, Slot, NewItem, Word, Val
  <2>3. ~Counted(t)
    BY <1>2 DEF Counted, CountPcs, EmptyPcs
  <2> QED BY <1>1, <1>2, <1>3, <1>4, <1>6, <2>2, <2>3, FinishStep
<1> QED BY <1>5, <1>6

LEMMA CommitReadTopStep ==
  ASSUME IInv, NEW t \in Threads, CommitReadTop(t)
  PROVE  IInv'
BY CommitMove DEF CommitReadTop, At, CommitPcs

-----------------------------------------------------------------------------
\* pop, as long as it changes nothing.

LEMMA PopReadSegmentStep ==
  ASSUME IInv, NEW t \in Threads, PopReadSegment(t)
  PROVE  IInv'
<1> USE DEF PopReadSegment, At
<1>1. /\ th[t] \in Locals /\ th \in [Threads -> Locals] /\ top \in TopWords /\ top.seg \in Linked
      /\ th[t].pc = "O_segment" /\ Local(t) /\ th[t].op = "get" /\ ThreadInv(t)
  BY DEF IInv, TypeOK, ListInv, PcInv, PopPcs
<1> DEFINE r == [th[t] EXCEPT !.pc = "O_cas", !.seg = top.seg]
<1>2. r \in Locals /\ th' = [th EXCEPT ![t] = r]
  BY <1>1 DEF Locals, Pcs, PopPcs, TopWords
<1>3. /\ r.op = th[t].op /\ r.item = th[t].item /\ r.pc = "O_cas" /\ r.top = th[t].top
      /\ r.index = th[t].index /\ r.old = th[t].old /\ r.seg = top.seg
  BY <1>1 DEF Locals
<1> HIDE DEF r
<1>4. th' \in [Threads -> Locals] /\ InCall(t) /\ th'[t] = r
  BY <1>2, <1>3, InCallEffect
<1>5. ThreadInv(t)'
  BY <1>1, <1>3, <1>4 DEF ThreadInv, TopBehind, Local, shared, Linked, CommitPcs, RemovePcs
<1> QED BY <1>1, <1>3, <1>4, <1>5, QuietMove DEF SearchPcs, PushPcs, CommitPcs, PopPcs, RemovePcs,
           EmptyPcs, CountPcs

LEMMA PopEmptyStep ==
  ASSUME IInv, NEW t \in Threads, PopEmpty(t)
  PROVE  IInv'
<1>1. /\ th[t].pc = "O_empty" /\ Local(t) /\ th[t].op = "get" /\ (TopUnchanged(t) => sight[t])
      /\ Finish(t, IF TopUnchanged(t) THEN "return" ELSE "top")
  BY DEF PopEmpty, At, IInv, PcInv, PopPcs, EmptyInv
<1>2. ~Counted(t)
  BY <1>1 DEF Counted, CountPcs, EmptyPcs
<1> QED BY <1>1, <1>2, FinishStep

LEMMA TryRemoveCheckStep ==
  ASSUME IInv, NEW t \in Threads, TryRemoveCheck(t)
  PROVE  IInv'
<1>1. th[t].pc = "R_check" /\ Local(t) /\ th[t].op = "get" /\ ThreadInv(t) /\ "R_inc" \in Pcs
  BY DEF TryRemoveCheck, At, IInv, PcInv, RemovePcs, Pcs
<1>2. CASE ~TopUnchanged(t)
  BY <1>1, <1>2, FinishStep DEF TryRemoveCheck, Counted, CountPcs, EmptyPcs
<1>3. CASE TopUnchanged(t)
  <2>1. /\ th' \in [Threads -> Locals] /\ InCall(t) /\ th'[t].pc = "R_inc" /\ th'[t].top = th[t].top
    BY <1>1, <1>3, GotoEffect DEF TryRemoveCheck
  <2>2. ThreadInv(t)'
    BY <1>1, <2>1 DEF ThreadInv, TopBehind, LastOne, Local, shared, Linked, CommitPcs, RemovePcs
  <2> QED BY <1>1, <2>1, <2>2, QuietMove DEF SearchPcs, PushPcs, CommitPcs, PopPcs, RemovePcs,
             EmptyPcs, CountPcs
<1> QED BY <1>2, <1>3

-----------------------------------------------------------------------------
\* is_empty.

LEMMA DistanceAfter ==
  ASSUME NEW j \in Slots, NEW i \in Slots, i # j
  PROVE  Distance((j + 1) % SegmentSize, i) = Distance(j, i) - 1
<1>1. SegmentSize \in Nat \ {0} /\ j \in 0 .. SegmentSize-1 /\ i \in 0 .. SegmentSize-1
  BY KStackAssumption DEF SegmentSize, Slots
<1>2. (j + 1) % SegmentSize = IF j + 1 = SegmentSize THEN 0 ELSE j + 1
  BY SlotAfter
<1> HIDE DEF SegmentSize
<1>3. CASE j + 1 = SegmentSize
  BY <1>1, <1>2, <1>3 DEF Distance
<1>4. CASE j + 1 # SegmentSize
  BY <1>1, <1>2, <1>4 DEF Distance
<1> QED BY <1>3, <1>4

LEMMA Distances ==
  ASSUME NEW j \in Slots, NEW i \in Slots
  PROVE  /\ Distance(j, i) \in Nat /\ Distance(j, i) < SegmentSize
         /\ Distance(j, i) < 1 <=> i = j
<1>1. SegmentSize \in Nat \ {0} /\ j \in 0 .. SegmentSize-1 /\ i \in 0 .. SegmentSize-1
  BY KStackAssumption DEF SegmentSize, Slots
<1> HIDE DEF SegmentSize
<1> QED BY <1>1 DEF Distance

\* The next slot of a loop, which after the last one starts over.
LEMMA NextSlotTyped ==
  ASSUME IInv, NEW t \in Threads, th[t].pc \in {"record", "compare"}, NEW last \in Pcs
  PROVE  LET n == NextSlot(t, last) IN
         /\ n \in Locals /\ n.op = th[t].op /\ n.item = th[t].item /\ n.top = th[t].top
         /\ n.rec = th[t].rec /\ n.index \in Slots /\ n.left \in 1 .. SegmentSize
         /\ n.pc = IF th[t].left = 1 THEN last ELSE th[t].pc
         /\ n.index = (th[t].index + 1) % SegmentSize
         /\ n.left = IF th[t].left = 1 THEN SegmentSize ELSE th[t].left - 1
<1>1. th[t] \in Locals /\ th[t].index \in Slots /\ th[t].left \in 1 .. SegmentSize
  BY DEF IInv, TypeOK, ThreadInv
<1>2. SegmentSize \in Nat \ {0}
  BY KStackAssumption DEF SegmentSize
<1> HIDE DEF SegmentSize
<1>3. (th[t].index + 1) % SegmentSize \in Slots
  BY <1>1, SlotAfter
<1>4. /\ (IF th[t].left = 1 THEN SegmentSize ELSE th[t].left - 1) \in 1 .. SegmentSize
      /\ (IF th[t].left = 1 THEN SegmentSize ELSE th[t].left - 1) \in Nat
  BY <1>1, <1>2
<1> QED BY <1>1, <1>3, <1>4 DEF NextSlot, Locals

\* Then one slot fewer is ahead, or all are.
LEMMA NextAhead ==
  ASSUME IInv, NEW t \in Threads, th[t].pc \in {"record", "compare"},
         th'[t].index = (th[t].index + 1) % SegmentSize,
         th'[t].left = IF th[t].left = 1 THEN SegmentSize ELSE th[t].left - 1
  PROVE  /\ th[t].left = 1 => Ahead(t) = {th[t].index} /\ Ahead(t)' = Slots
         /\ Ahead(t) \subseteq Ahead(t)' \cup {th[t].index}
<1>1. th[t].index \in Slots /\ th[t].left \in 1 .. SegmentSize /\ SegmentSize \in Nat \ {0}
  BY KStackAssumption DEF IInv, ThreadInv, SegmentSize
<1>2. th'[t].index \in Slots
  BY <1>1, SlotAfter
<1>3. CASE th[t].left = 1
  <2>1. Ahead(t) = {th[t].index}
    BY <1>1, <1>3, Distances DEF Ahead
  <2>2. Ahead(t)' = Slots
    BY <1>2, <1>3, Distances DEF Ahead
  <2> QED BY <1>1, <2>1, <2>2
<1>4. CASE th[t].left # 1
  <2>1. ASSUME NEW i \in Slots, i # th[t].index, i \in Ahead(t) PROVE i \in Ahead(t)'
    <3>1. /\ Distance(th'[t].index, i) = Distance(th[t].index, i) - 1
          /\ Distance(th[t].index, i) < th[t].left /\ Distance(th[t].index, i) \in Nat
      BY <1>1, <2>1, DistanceAfter, Distances DEF Ahead
    <3>2. Distance(th'[t].index, i) < th'[t].left
      BY <1>1, <1>4, <3>1
    <3> QED BY <3>2 DEF Ahead
  <2> QED BY <1>4, <2>1 DEF Ahead
<1> QED BY <1>3, <1>4

LEMMA IsEmptyStep ==
  ASSUME IInv, NEW t \in Threads, IsEmpty(t)
  PROVE  IInv'
<1> USE DEF IsEmpty, At
<1>1. /\ th[t] \in Locals /\ th \in [Threads -> Locals] /\ th[t].pc = "is_empty" /\ Local(t)
      /\ th[t].op = "get" /\ ThreadInv(t) /\ SegmentSize \in Nat \ {0}
  BY KStackAssumption DEF IInv, TypeOK, PcInv, EmptyPcs, SegmentSize
<1>2. PICK random \in Slots :
        th' = [th EXCEPT ![t].pc = "record", ![t].index = random, ![t].left = SegmentSize]
  OBVIOUS
<1> DEFINE r == [th[t] EXCEPT !.pc = "record", !.index = random, !.left = SegmentSize]
<1>3. r \in Locals /\ th' = [th EXCEPT ![t] = r]
  BY <1>1, <1>2 DEF Locals, Pcs, EmptyPcs
<1>4. /\ r.op = th[t].op /\ r.item = th[t].item /\ r.pc = "record" /\ r.top = th[t].top
      /\ r.index = random /\ r.left = SegmentSize
  BY <1>1 DEF Locals
<1> HIDE DEF r
<1>5. th' \in [Threads -> Locals] /\ InCall(t) /\ th'[t] = r
  BY <1>3, <1>4, InCallEffect
<1>6. ThreadInv(t)'
  BY <1>1, <1>4, <1>5 DEF ThreadInv, TopBehind, Local, shared, Linked, CommitPcs, RemovePcs,
     SegmentSize
<1>7. Ahead(t)' = Slots
  BY <1>4, <1>5, Distances DEF Ahead
<1>8. EmptyInv(t)'
  BY <1>4, <1>5, <1>7 DEF EmptyInv, SaysEmpty
<1>9. NoNewMiss(t)
  BY <1>4, <1>5, <1>7 DEF NoNewMiss, Missed
<1>10. SameCount(t)
  BY <1>1, <1>4, <1>5 DEF SameCount, Counted, CountPcs, EmptyPcs, LastOne, Local, shared
<1> QED BY <1>1, <1>4, <1>5, <1>6, <1>8, <1>9, <1>10, LocalMove DEF SearchPcs, PushPcs, CommitPcs,
           PopPcs, RemovePcs, EmptyPcs

\* The segment was not empty, or not all the time.
LEMMA NotEmptyStep ==
  ASSUME IInv, NEW t \in Threads, th[t].pc \in {"record", "compare"}, NotEmpty(t), Local(t)
  PROVE  IInv'
<1>1. th[t].op = "get" /\ ThreadInv(t)
  BY DEF IInv, PcInv, EmptyPcs
<1>2. CASE LastOne(t)
  BY <1>1, <1>2, FinishStep DEF NotEmpty, Counted
<1>3. CASE ~LastOne(t)
  <2>1. Goto(t, "R_dec") /\ "R_dec" \in Pcs
    BY <1>3 DEF NotEmpty, Pcs, RemovePcs
  <2>2. /\ th' \in [Threads -> Locals] /\ InCall(t) /\ th'[t].pc = "R_dec" /\ th'[t].top = th[t].top
    BY <2>1, GotoEffect
  <2>3. ThreadInv(t)'
    BY <1>1, <1>3, <2>2 DEF ThreadInv, TopBehind, LastOne, Local, shared, Linked, CommitPcs, RemovePcs
  <2>4. EmptyInv(t)' /\ NoNewMiss(t)
    BY <2>2 DEF EmptyInv, SaysEmpty, NoNewMiss, Missed
  <2>5. SameCount(t)
    BY <1>3, <2>2 DEF SameCount, Counted, CountPcs, EmptyPcs, LastOne, Local, shared
  <2> QED BY <1>1, <2>2, <2>3, <2>4, <2>5, LocalMove DEF SearchPcs, PushPcs, CommitPcs,
             PopPcs, RemovePcs, EmptyPcs
<1> QED BY <1>2, <1>3

\* A bottom segment with empty slots that is the top is an empty stack.
LEMMA NothingHeld ==
  ASSUME IInv, segs[top.seg].next = 0, \A i \in Slots : Val(top.seg, i) = Null
  PROVE  Held = {}
BY BelowLast DEF Held, Val

LEMMA IsEmptyRecordStep ==
  ASSUME IInv, NEW t \in Threads, IsEmptyRecord(t)
  PROVE  IInv'
<1> USE DEF IsEmptyRecord, At
<1> DEFINE s == th[t].top.seg
<1>1. /\ th[t] \in Locals /\ th[t].pc = "record" /\ Local(t) /\ th[t].op = "get" /\ ThreadInv(t)
      /\ s \in Linked /\ th[t].index \in Slots /\ th[t].left \in 1 .. SegmentSize /\ "compare" \in Pcs
      /\ th[t].rec \in [Slots -> Words]
  BY DEF IInv, TypeOK, Locals, PcInv, ThreadInv, EmptyPcs, Pcs
<1> PICK j \in Slots : j = th[t].index
  BY <1>1
<1>2. CASE Slot(t).val # Null
  BY <1>1, <1>2, NotEmptyStep
<1>3. CASE Slot(t).val = Null
  <2> DEFINE n == NextSlot(t, "compare")
             r == [n EXCEPT !.rec[j] = Slot(t)]
  <2>1. /\ n \in Locals /\ n.op = th[t].op /\ n.item = th[t].item /\ n.top = th[t].top
        /\ n.rec = th[t].rec /\ n.index \in Slots /\ n.left \in 1 .. SegmentSize
        /\ n.pc = IF th[t].left = 1 THEN "compare" ELSE "record"
        /\ n.index = (th[t].index + 1) % SegmentSize
        /\ n.left = IF th[t].left = 1 THEN SegmentSize ELSE th[t].left - 1
    BY <1>1, NextSlotTyped
  <2>2. th' = [th EXCEPT ![t] = r]
    BY <1>3
  <2> HIDE DEF n
  <2>3. Slot(t) \in Words /\ Slot(t).aba \in Nat /\ Slot(t) = segs[s].items[j]
    BY <1>1, SegmentTyped DEF Slot
  <2>4. /\ r \in Locals /\ r.op = n.op /\ r.item = n.item /\ r.top = n.top /\ r.index = n.index
        /\ r.left = n.left /\ r.pc = n.pc /\ r.rec = [th[t].rec EXCEPT ![j] = Slot(t)]
    <3>1. r.rec = [th[t].rec EXCEPT ![j] = Slot(t)]
      BY <2>1 DEF Locals
    <3>2. [th[t].rec EXCEPT ![j] = Slot(t)] \in [Slots -> Words]
      BY <1>1, <2>3
    <3>3. r = [n EXCEPT !.rec = [th[t].rec EXCEPT ![j] = Slot(t)]]
      BY <2>1
    <3> QED BY <2>1, <3>1, <3>2, <3>3 DEF Locals
  <2> HIDE DEF r
  <2>5. th' \in [Threads -> Locals] /\ InCall(t) /\ th'[t] = r
    BY <2>1, <2>2, <2>4, InCallEffect
  <2>6. /\ th'[t].pc = IF th[t].left = 1 THEN "compare" ELSE "record"
        /\ th'[t].top = th[t].top /\ th'[t].op = "get" /\ segs' = segs /\ top' = top
        /\ th'[t].rec[j] = Slot(t) /\ \A i \in Slots \ {j} : th'[t].rec[i] = th[t].rec[i]
    BY <1>1, <2>1, <2>4, <2>5 DEF Local, shared
  <2>7. /\ th[t].left = 1 => Ahead(t) = {j} /\ Ahead(t)' = Slots
        /\ Ahead(t) \subseteq Ahead(t)' \cup {j}
    BY <1>1, <2>1, <2>4, <2>5, NextAhead
  <2>8. LastOne(t)' <=> LastOne(t)
    BY <2>6 DEF LastOne
  <2> HIDE DEF s
  <2>9. Recorded(t, j)'
    BY <1>3, <2>3, <2>6 DEF Recorded, s
  <2>10. \A i \in Slots \ {j} : Recorded(t, i) => Recorded(t, i)'
    BY <2>6 DEF Recorded
  <2>11. \A i \in Slots \ Ahead(t) : Recorded(t, i)
    BY <1>1 DEF IInv, EmptyInv
  <2>12. ThreadInv(t)'
    <3>1. th'[t].index \in Slots /\ th'[t].left \in 1 .. SegmentSize
      BY <2>1, <2>4, <2>5
    <3> QED BY <1>1, <2>6, <2>8, <3>1 DEF ThreadInv, TopBehind, Linked, CommitPcs, RemovePcs, SegmentSize
  <2>13. EmptyInv(t)'
    <3>1. CASE th[t].left # 1
      BY <2>6, <2>7, <2>9, <2>10, <2>11, <3>1 DEF EmptyInv, SaysEmpty
    <3>2. CASE th[t].left = 1
      <4>1. \A i \in Slots : Recorded(t, i)'
        BY <2>7, <2>9, <2>10, <2>11, <3>2
      <4>2. ASSUME LastOne(t)', TopUnchanged(t)', ~Changed(t)' PROVE sight'[t]
        <5>1. top.seg = s /\ segs[top.seg].next = 0
          BY <2>6, <4>2 DEF TopUnchanged, LastOne, s
        <5>2. ASSUME NEW i \in Slots PROVE Val(s, i) = Null
          <6> DEFINE w == segs[s].items[i]
                     q == th'[t].rec[i]
          <6>1. q.val = Null /\ q.aba <= w.aba /\ (q.aba = w.aba => w = q)
            BY <2>6, <4>1 DEF Recorded, s
          <6>2. ~(q.aba < w.aba)
            BY <2>6, <2>7, <3>2, <4>2 DEF Changed, s
          <6>3. w.aba \in Nat /\ q.aba \in Nat
            <7>1. q \in Words
              BY <2>4, <2>5 DEF Locals
            <7> QED BY <1>1, <7>1, SegmentTyped DEF Words
          <6>4. w = q
            BY <6>1, <6>2, <6>3
          <6> QED BY <6>1, <6>4 DEF Val
        <5>3. Held = {}
          BY <5>1, <5>2, NothingHeld
        <5>4. done \cap Held = {}
          BY <5>3
        <5>5. sight' = [u \in Threads |-> th'[u].op = "get" /\ (sight[u] \/ done \cap Held = {})]
          BY <1>1, <2>5, QuietHistory DEF Local
        <5> QED BY <2>6, <5>4, <5>5
      <4> QED BY <2>6, <3>2, <4>1, <4>2 DEF EmptyInv, SaysEmpty
    <3> QED BY <3>1, <3>2
  <2>14. NoNewMiss(t)
    <3> SUFFICES ASSUME NEW i \in Slots, th'[t].top = top, Missed(t, i)'
                 PROVE  Missed(t, i) \/ Val(top.seg, i) = Null
      BY <2>6 DEF NoNewMiss
    <3>1. i = j => Val(top.seg, i) = Null
      BY <1>3, <2>3, <2>6 DEF Val, s
    <3>2. i # j => i \notin Ahead(t)
      BY <2>6, <2>7 DEF Missed
    <3> QED BY <1>1, <2>8, <3>1, <3>2 DEF Missed
  <2>15. SameCount(t)
    BY <1>1, <2>6, <2>8 DEF SameCount, Counted, CountPcs, EmptyPcs
  <2> QED BY <1>1, <2>5, <2>6, <2>12, <2>13, <2>14, <2>15, LocalMove DEF SearchPcs, PushPcs,
             CommitPcs, PopPcs, RemovePcs, EmptyPcs
<1> QED BY <1>2, <1>3

LEMMA IsEmptyCompareStep ==
  ASSUME IInv, NEW t \in Threads, IsEmptyCompare(t)
  PROVE  IInv'
<1> USE DEF IsEmptyCompare, At
<1> DEFINE j == th[t].index
           last == IF LastOne(t) THEN "O_empty" ELSE "R_cas"
<1>1. /\ th[t] \in Locals /\ th[t].pc = "compare" /\ Local(t) /\ th[t].op = "get" /\ ThreadInv(t)
      /\ th[t].top.seg \in Linked /\ j \in Slots /\ th[t].left \in 1 .. SegmentSize /\ last \in Pcs
  BY DEF IInv, TypeOK, Locals, PcInv, ThreadInv, EmptyPcs, Pcs, PopPcs, RemovePcs
<1>2. CASE ~SameAsRecord(t)
  BY <1>1, <1>2, NotEmptyStep
<1>3. CASE SameAsRecord(t)
  <2> DEFINE n == NextSlot(t, last)
  <2>1. /\ n \in Locals /\ n.op = th[t].op /\ n.item = th[t].item /\ n.top = th[t].top
        /\ n.rec = th[t].rec /\ n.index \in Slots /\ n.left \in 1 .. SegmentSize
        /\ n.pc = IF th[t].left = 1 THEN last ELSE "compare"
        /\ n.index = (th[t].index + 1) % SegmentSize
        /\ n.left = IF th[t].left = 1 THEN SegmentSize ELSE th[t].left - 1
    <3> HIDE DEF last
    <3> QED BY <1>1, NextSlotTyped
  <2>2. th' = [th EXCEPT ![t] = n]
    BY <1>3
  <2> HIDE DEF n
  <2>3. th' \in [Threads -> Locals] /\ InCall(t) /\ th'[t] = n
    BY <2>1, <2>2, InCallEffect
  <2>4. /\ th'[t].pc = IF th[t].left = 1 THEN last ELSE "compare"
        /\ th'[t].top = th[t].top /\ th'[t].op = "get" /\ segs' = segs /\ top' = top
        /\ th'[t].rec = th[t].rec
    BY <1>1, <2>1, <2>3 DEF Local, shared
  <2>5. /\ th[t].left = 1 => Ahead(t) = {j} /\ Ahead(t)' = Slots
        /\ Ahead(t) \subseteq Ahead(t)' \cup {j}
    BY <1>1, <2>1, <2>3, NextAhead
  <2>6. LastOne(t)' <=> LastOne(t)
    BY <2>4 DEF LastOne
  <2>7. ~(th[t].rec[j].aba < segs[th[t].top.seg].items[j].aba)
    <3>1. th[t].rec[j] = segs[th[t].top.seg].items[j] /\ segs[th[t].top.seg].items[j].aba \in Nat
      BY <1>1, <1>3, SegmentTyped DEF SameAsRecord, Slot
    <3> QED BY <3>1
  <2> HIDE DEF j
  <2>8. Changed(t) => th[t].left # 1 /\ Changed(t)'
    BY <2>4, <2>5, <2>7 DEF Changed
  <2>9. ThreadInv(t)'
    <3>1. th'[t].index \in Slots /\ th'[t].left \in 1 .. SegmentSize
      BY <2>1, <2>3
    <3> QED BY <1>1, <2>4, <2>6, <3>1 DEF ThreadInv, TopBehind, Linked, CommitPcs, RemovePcs, SegmentSize
  <2>10. sight[t] => sight'[t]
    BY <1>1, <2>3, <2>4, QuietHistory DEF Local
  <2>11. \A i \in Slots : Recorded(t, i)'
    BY <1>1, <2>4 DEF Recorded, IInv, EmptyInv
  <2>12. LastOne(t) /\ TopUnchanged(t) => sight[t] \/ Changed(t)
    BY <1>1 DEF IInv, EmptyInv
  <2>13. TopUnchanged(t)' <=> TopUnchanged(t)
    BY <2>4 DEF TopUnchanged
  <2>14. EmptyInv(t)'
    BY <2>4, <2>6, <2>8, <2>10, <2>11, <2>12, <2>13 DEF EmptyInv, SaysEmpty
  <2>15. NoNewMiss(t)
    BY <1>1, <2>4, <2>6 DEF NoNewMiss, Missed
  <2>16. SameCount(t)
    BY <1>1, <2>4, <2>6 DEF SameCount, Counted, CountPcs, EmptyPcs
  <2> QED BY <1>1, <2>3, <2>4, <2>9, <2>14, <2>15, <2>16, LocalMove DEF SearchPcs, PushPcs,
             CommitPcs, PopPcs, RemovePcs, EmptyPcs
<1> QED BY <1>2, <1>3

-----------------------------------------------------------------------------
\* Steps that change the top.

LEMMA RemovingAfter ==
  \A s : Removing(s)' = {u \in Threads : Counted(u)' /\ th'[u].top.seg = s}
BY DEF Removing, Counted, CountPcs, EmptyPcs, LastOne

LEMMA TopStep ==
  ASSUME IInv, NEW t \in Threads, NEW label \in {"top", "return"}, Finish(t, label),
         th[t].pc # "return", th[t].pc # "idle", Observe(t, Held'),
         segs' \in Seq(Segments), top' \in TopWords, ListInv', CountInv',
         TopLater, top' # top, NextsKept,
         \A s \in Linked', i \in Slots : Val(s, i)' = Null \/ (s \in Linked /\ Kept(s, i)),
         \A s \in Linked, i \in Slots : Kept(s, i),
         \A s \in Linked, i \in Slots : Val(s, i) # Null /\ Safe(s, i) => s \in Below',
         label = "top" /\ th[t].op = "put" => th[t].pc \in PushPcs,
         label = "return" =>
           /\ th[t].op = "put"
           /\ th[t].item \in Gone \/ \E s \in Linked, i \in Slots :
                                       Val(s, i) = th[t].item /\ s \in Below'
  PROVE  IInv'
<1>1. /\ th' \in [Threads -> Locals] /\ InCall(t) /\ th'[t].pc = label /\ th'[t].top = FirstTop
      /\ th'[t].op = th[t].op /\ th'[t].item = th[t].item
  BY FinishEffect DEF Pcs, SearchPcs
<1>2. /\ done' = done /\ out' = out /\ older' = older /\ Gone' = Gone
      /\ sight' = [u \in Threads |-> th'[u].op = "get" /\ (sight[u] \/ done \cap Held' = {})]
  BY <1>1, QuietHistory
<1>3. Linked \subseteq Linked'
  BY DEF NextsKept
<1>4. PlacesInv' /\ OrderInv' /\ SlotsKeep(t)
  BY <1>1, <1>3, SlotsStay
<1>5. TypeOK'
  BY <1>1, <1>2 DEF IInv, TypeOK
<1>6. ListGrows
  BY DEF ListGrows, WordsGrow
<1>7. /\ ThreadInv(t)' /\ NotBehind(t)' /\ (\A i \in Slots : ~Missed(t, i)')
      /\ ~SaysEmpty(t)' => EmptyInv(t)'
  BY <1>1, <1>5, Resting
<1>8. \A u \in Threads : u # t => ~TopUnchanged(u)'
  BY <1>1, TopMoves DEF InCall
<1>9. \A s \in Below', i \in Slots : Safe(s, i)'
  BY <1>7, <1>8 DEF Safe
<1>10. SafeStays
  BY <1>9 DEF SafeStays
<1>11. PcInv(t) /\ PutInv(t) /\ th[t].op \in {"put", "get"}
  BY DEF IInv, TypeOK, Locals, PcInv
<1>12. PcInv(t)'
  BY <1>1, <1>11 DEF PcInv, PushPcs, CommitPcs, PopPcs, RemovePcs, EmptyPcs
<1>13. EmptyInv(t)'
  BY <1>1, <1>7, <1>11 DEF SaysEmpty
<1>14. th[t].op = "put" => th[t].item \in Items /\ th[t].item # Null
  BY <1>11, CallHistoryAssumption DEF PcInv
<1>15. \A s \in Linked', i \in Slots : Val(s, i)' # Null => s \in Linked /\ Val(s, i)' = Val(s, i)
  BY DEF Kept, Val
<1>16. PutInv(t)'
  <2>1. CASE label = "top"
    BY <1>1, <1>2, <1>11, <1>14, <1>15, <2>1 DEF PutInv, SearchPcs, PushPcs, CommitPcs
  <2>2. CASE label = "return"
    <3>1. PICK x \in Items : x = th[t].item
      BY <1>14, <2>2
    <3>2. Secured(x)'
      <4>1. CASE x \in Gone
        BY <1>2, <4>1 DEF Secured
      <4>2. ASSUME NEW s \in Linked, NEW i \in Slots, Val(s, i) = x, s \in Below'
            PROVE  Secured(x)'
        <5>1. Val(s, i)' = x /\ s \in Linked' /\ Safe(s, i)'
          BY <1>3, <1>9, <4>2 DEF Kept, Val
        <5> QED BY <5>1 DEF Secured
      <4> QED BY <2>2, <3>1, <4>1, <4>2
    <3> QED BY <1>1, <1>2, <1>11, <2>2, <3>1, <3>2 DEF PutInv, SearchPcs, PushPcs, CommitPcs
  <2> QED BY <2>1, <2>2
<1>17. th[t].op = "put" \/ th[t].item = Null
  BY <1>1, <1>11 DEF PcInv
<1> QED BY <1>1, <1>2, <1>4, <1>5, <1>6, <1>7, <1>10, <1>12, <1>13, <1>16, <1>17, SharedStep
        DEF InCall

\* What is left of it to show where the segments stay.
LEMMA TopMoveOnly ==
  ASSUME IInv, NEW t \in Threads, UNCHANGED segs, top'.seg \in Linked
  PROVE  /\ segs' \in Seq(Segments) /\ ListInv' /\ NextsKept /\ Linked' = Linked
         /\ \A s \in Linked', i \in Slots : Val(s, i)' = Null \/ (s \in Linked /\ Kept(s, i))
         /\ \A s \in Linked, i \in Slots : Kept(s, i)
BY DEF IInv, TypeOK, ListInv, NextsKept, Linked, Kept

LEMMA CommitBumpTopStep ==
  ASSUME IInv, NEW t \in Threads, CommitBumpTop(t)
  PROVE  IInv'
<1> USE DEF CommitBumpTop, At
<1>1. /\ th[t].pc = "C_bump" /\ th[t].op = "put" /\ top \in TopWords /\ top.seg \in Linked
      /\ th[t].index \in Slots /\ (th[t].item \in Gone \/ InItsSlot(t))
  BY DEF IInv, TypeOK, ListInv, PcInv, PutInv, ThreadInv, CommitPcs
<1>2. CASE ~TopUnchanged(t)
  <2>1. UNCHANGED shared /\ Observe(t, Held') /\ Goto(t, "C_undo")
    BY <1>2 DEF shared
  <2> QED BY <1>1, <2>1, FailedSwap, CommitMove DEF CommitPcs
<1>3. CASE TopUnchanged(t)
  <2>1. /\ top' = [top EXCEPT !.aba = @ + 1] /\ Finish(t, "return")
        /\ UNCHANGED segs /\ Observe(t, Held')
    BY <1>3
  <2>2. top' \in TopWords /\ top'.seg = top.seg /\ top'.aba > top.aba /\ top' # top /\ TopLater
    BY <1>1, <2>1 DEF TopWords, TopLater
  <2>3. /\ segs' \in Seq(Segments) /\ ListInv' /\ NextsKept /\ Linked' = Linked
        /\ \A s \in Linked', i \in Slots : Val(s, i)' = Null \/ (s \in Linked /\ Kept(s, i))
        /\ \A s \in Linked, i \in Slots : Kept(s, i)
    BY <1>1, <2>1, <2>2, TopMoveOnly
  <2>4. Below' = Below /\ top.seg \in Below
    BY <2>2, <2>3, BelowKept, BelowFacts
  <2>5. InCall(t) /\ th'[t].pc = "return"
    BY <2>1, FinishEffect DEF Pcs
  <2>6. CountInv'
    <3>1. SameCount(t)
      BY <1>1, <2>5 DEF SameCount, Counted, CountPcs, EmptyPcs
    <3> QED BY <2>1, <2>3, <2>4, <2>5, <3>1, CountKept DEF InCall
  <2>7. th[t].item \in Gone \/ \E s \in Linked, i \in Slots : Val(s, i) = th[t].item /\ s \in Below'
    BY <1>1, <1>3, <2>4 DEF InItsSlot, Slot, NewItem, Word, Val, TopUnchanged
  <2>8. \A s \in Linked, i \in Slots : Val(s, i) # Null /\ Safe(s, i) => s \in Below'
    BY <2>4 DEF Safe
  <2> QED BY <1>1, <2>1, <2>2, <2>3, <2>6, <2>7, <2>8, TopStep
<1> QED BY <1>2, <1>3

LEMMA TryRemoveCasStep ==
  ASSUME IInv, NEW t \in Threads, TryRemoveCas(t)
  PROVE  IInv'
<1> USE DEF TryRemoveCas, At
<1>1. /\ th[t].pc = "R_cas" /\ th[t].op = "get" /\ top \in TopWords /\ top.seg \in Linked
      /\ ~LastOne(t) /\ ThreadInv(t) /\ th[t].top.seg \in Linked
  BY DEF IInv, TypeOK, ListInv, PcInv, ThreadInv, RemovePcs
<1>2. CASE ~TopUnchanged(t)
  <2>1. UNCHANGED shared /\ Observe(t, Held') /\ Goto(t, "R_dec") /\ "R_dec" \in Pcs
    BY <1>2 DEF shared, Pcs, RemovePcs
  <2>2. Local(t)
    BY <2>1, FailedSwap
  <2>3. /\ th' \in [Threads -> Locals] /\ InCall(t) /\ th'[t].pc = "R_dec" /\ th'[t].top = th[t].top
    BY <2>1, GotoEffect
  <2>4. ThreadInv(t)'
    BY <1>1, <2>1, <2>3 DEF ThreadInv, TopBehind, LastOne, shared, Linked, CommitPcs, RemovePcs
  <2>5. EmptyInv(t)' /\ NoNewMiss(t)
    BY <2>3 DEF EmptyInv, SaysEmpty, NoNewMiss, Missed
  <2>6. SameCount(t)
    BY <1>1, <2>1, <2>3 DEF SameCount, Counted, CountPcs, EmptyPcs, LastOne, shared
  <2> QED BY <1>1, <2>2, <2>3, <2>4, <2>5, <2>6, LocalMove DEF SearchPcs, PushPcs, CommitPcs,
             PopPcs, RemovePcs, EmptyPcs
<1>3. CASE TopUnchanged(t)
  <2> PICK s \in Linked : s = top.seg
    BY <1>1
  <2>1. /\ top' = [seg |-> segs[s].next, aba |-> top.aba + 1] /\ Finish(t, "top")
        /\ UNCHANGED segs /\ Observe(t, Held')
    BY <1>3 DEF Removed
  <2>2. segs[s].next # 0 /\ segs[s].next \in Nat /\ segs[s].next \in Linked
    <3>1. segs[s].next # 0
      BY <1>1, <1>3 DEF LastOne, TopUnchanged
    <3>2. segs[s].next \in Below /\ Below \subseteq Linked
      BY <3>1, BelowFacts
    <3> QED BY <1>1, <3>1, <3>2, SegmentTyped
  <2>3. top' \in TopWords /\ top'.seg = segs[s].next /\ top'.aba > top.aba /\ top' # top /\ TopLater
    BY <1>1, <2>1, <2>2 DEF TopWords, TopLater
  <2>4. /\ segs' \in Seq(Segments) /\ ListInv' /\ NextsKept /\ Linked' = Linked
        /\ \A r \in Linked', i \in Slots : Val(r, i)' = Null \/ (r \in Linked /\ Kept(r, i))
        /\ \A r \in Linked, i \in Slots : Kept(r, i)
    BY <1>1, <2>1, <2>2, <2>3, TopMoveOnly
  <2>5. Below' = Below \ {s} /\ s \in Below
    BY <2>1, <2>2, <2>3, BelowRemoved, BelowFacts
  <2>6. th' \in [Threads -> Locals] /\ InCall(t) /\ th'[t].pc = "top"
    BY <2>1, FinishEffect DEF Pcs, SearchPcs
  <2>7. Counted(t) /\ th[t].top.seg = s /\ ~Counted(t)'
    BY <1>1, <1>3, <2>6 DEF Counted, CountPcs, EmptyPcs, TopUnchanged
  <2>8. Removing(s)' = Removing(s) \ {t} /\ t \in Removing(s)
    BY <2>4, <2>6, <2>7, RemovingIs, RemovingAfter, OthersCounted DEF InCall
  <2>9. \A r \in Linked : r # s => Removing(r)' = Removing(r)
    BY <2>4, <2>6, <2>7, RemovingIs, RemovingAfter, OthersCounted DEF InCall
  <2>10. CountInv'
    <3> SUFFICES ASSUME NEW r \in Linked
                 PROVE  /\ IsFiniteSet(Removing(r)')
                        /\ segs[r].remove = Cardinality(Removing(r)') + (IF r \in Below' THEN 0 ELSE 1)
      BY <2>1, <2>4 DEF CountInv
    <3>1. /\ IsFiniteSet(Removing(r))
          /\ segs[r].remove = Cardinality(Removing(r)) + (IF r \in Below THEN 0 ELSE 1)
      BY DEF IInv, CountInv
    <3>2. CASE r # s
      BY <2>5, <2>9, <3>1, <3>2
    <3>3. CASE r = s
      <4>1. /\ IsFiniteSet(Removing(s)')
            /\ Cardinality(Removing(s)') = Cardinality(Removing(s)) - 1
        BY <2>8, <3>1, <3>3, FS_RemoveElement
      <4>2. Cardinality(Removing(s)) \in Nat
        BY <3>1, <3>3, FS_CardinalityType
      <4>3. segs[s].remove = Cardinality(Removing(s))
        BY <2>5, <3>1, <3>3, <4>2
      <4> QED BY <2>5, <3>3, <4>1, <4>2, <4>3
    <3> QED BY <3>2, <3>3
  <2>11. \A r \in Linked, i \in Slots : Val(r, i) # Null /\ Safe(r, i) => r \in Below'
    <3>1. \A i \in Slots : ~Safe(s, i)
      BY <1>1, <1>3 DEF Safe, Missed
    <3> QED BY <2>5, <3>1 DEF Safe
  <2> QED BY <1>1, <2>1, <2>3, <2>4, <2>10, <2>11, TopStep
<1> QED BY <1>2, <1>3

LEMMA TryAddStep ==
  ASSUME IInv, NEW t \in Threads, TryAdd(t)
  PROVE  IInv'
<1> USE DEF TryAdd, At
<1>1. /\ th[t].pc = "P_add" /\ th[t].op = "put" /\ top \in TopWords /\ top.seg \in Linked
      /\ segs \in Seq(Segments) /\ Len(segs) \in Nat /\ Finish(t, "top") /\ Observe(t, Held')
      /\ top.seg \in Nat
  BY DEF IInv, TypeOK, ListInv, PcInv, PushPcs, Linked
<1>2. CASE UNCHANGED shared
  <2>1. ~Counted(t) /\ Local(t)
    BY <1>1, <1>2, FailedSwap DEF Counted, CountPcs, EmptyPcs
  <2> QED BY <1>1, <2>1, FinishStep DEF PushPcs
<1>3. CASE /\ segs' = Append(segs, NewSegment(top.seg))
           /\ top' = [top EXCEPT !.seg = Len(segs) + 1]
  <2> PICK n : n = Len(segs) + 1
    OBVIOUS
  <2>1. /\ NewSegment(top.seg) \in Segments /\ NewSegment(top.seg).next = top.seg
        /\ NewSegment(top.seg).remove = 0 /\ \A i \in Slots : NewSegment(top.seg).items[i].val = Null
    BY <1>1 DEF NewSegment, Segments, Empty, Word, Words
  <2> DEFINE g == NewSegment(top.seg)
  <2> HIDE DEF g
  <2>2. segs' = Append(segs, g) /\ g \in Segments
    BY <1>3, <2>1 DEF g
  <2>3. /\ segs' \in Seq(Segments) /\ Len(segs') = n /\ segs'[n] = g
        /\ \A s \in Linked : segs'[s] = segs[s]
    BY <1>1, <2>2 DEF Linked
  <2>4. Linked' = Linked \cup {n} /\ n \notin Linked /\ n \in Nat \ {0} /\ top.seg < n
    BY <1>1, <2>3 DEF Linked
  <2>5. top' \in TopWords /\ top'.seg = n /\ top'.aba = top.aba /\ top' # top /\ TopLater
    <3>1. top' \in TopWords /\ top'.seg = n /\ top'.aba = top.aba
      BY <1>1, <1>3, <2>4 DEF TopWords
    <3> QED BY <2>4, <3>1 DEF TopLater
  <2>6. NextsKept /\ \A s \in Linked, i \in Slots : Kept(s, i)
    BY <2>3, <2>4 DEF NextsKept, Kept
  <2>7. \A s \in Linked', i \in Slots : Val(s, i)' = Null \/ (s \in Linked /\ Kept(s, i))
    BY <2>1, <2>3, <2>4, <2>6 DEF Val, g
  <2>8. segs'[n].next = top.seg /\ segs'[n].remove = 0
    BY <2>1, <2>3 DEF g
  <2>9. ListInv'
    <3>1. \A s \in Linked : segs'[s].next < s
      BY <2>3 DEF IInv, ListInv
    <3> QED BY <2>4, <2>5, <2>8, <3>1 DEF ListInv
  <2>10. Below' = Below \cup {n}
    BY <2>4, <2>5, <2>6, <2>8, BelowAdded
  <2>11. th' \in [Threads -> Locals] /\ InCall(t) /\ th'[t].pc = "top"
    BY <1>1, FinishEffect DEF Pcs, SearchPcs
  <2>12. ~Counted(t) /\ ~Counted(t)'
    BY <1>1, <2>11 DEF Counted, CountPcs, EmptyPcs
  <2>13. \A s : Removing(s)' = Removing(s)
    BY <2>6, <2>11, <2>12, RemovingIs, RemovingAfter, OthersCounted DEF InCall
  <2>14. Removing(n) = {}
    BY <2>4, RemovingIs DEF IInv, ThreadInv
  <2>15. CountInv'
    <3>1. ASSUME NEW s \in Linked
          PROVE  /\ IsFiniteSet(Removing(s)')
                 /\ segs'[s].remove = Cardinality(Removing(s)') + (IF s \in Below' THEN 0 ELSE 1)
      <4>1. /\ IsFiniteSet(Removing(s))
            /\ segs[s].remove = Cardinality(Removing(s)) + (IF s \in Below THEN 0 ELSE 1)
        BY DEF IInv, CountInv
      <4>2. s \in Below' <=> s \in Below
        BY <2>4, <2>10
      <4> QED BY <2>3, <2>13, <4>1, <4>2
    <3>2. /\ IsFiniteSet(Removing(n)')
          /\ segs'[n].remove = Cardinality(Removing(n)') + (IF n \in Below' THEN 0 ELSE 1)
      <4>1. Removing(n)' = {}
        BY <2>13, <2>14
      <4>2. IsFiniteSet(Removing(n)') /\ Cardinality(Removing(n)') = 0
        BY <4>1, FS_EmptySet, Zenon
      <4>3. n \in Below'
        BY <2>10
      <4> QED BY <2>8, <4>2, <4>3
    <3>3. \A s \in Linked' : s \in Linked \/ s = n
      BY <2>4
    <3>4. \A s \in Linked' :
            /\ IsFiniteSet(Removing(s)')
            /\ segs'[s].remove = Cardinality(Removing(s)') + (IF s \in Below' THEN 0 ELSE 1)
      BY <3>1, <3>2, <3>3
    <3> QED BY <3>4 DEF CountInv
  <2>16. \A s \in Linked, i \in Slots : Val(s, i) # Null /\ Safe(s, i) => s \in Below'
    BY <2>10 DEF Safe
  <2>17. th[t].pc \in PushPcs
    BY <1>1 DEF PushPcs
  <2> QED BY <1>1, <2>3, <2>5, <2>6, <2>7, <2>9, <2>15, <2>16, <2>17, TopStep
<1> QED BY <1>2, <1>3

-----------------------------------------------------------------------------
\* Steps that change a removal counter.

\* A step of which this is what the segments show.
Counts(s, c) == segs' = [segs EXCEPT ![s].remove = c] /\ top' = top

LEMMA CountEffect ==
  ASSUME IInv, NEW s \in Linked, NEW c \in Int, Counts(s, c)
  PROVE  /\ segs' \in Seq(Segments) /\ Linked' = Linked /\ NextsKept /\ Below' = Below
         /\ \A r \in Linked : segs'[r].remove = IF r = s THEN c ELSE segs[r].remove
         /\ \A r \in Linked, i \in Slots : Kept(r, i)
         /\ ListInv' /\ ListGrows
<1> USE DEF Counts
<1>1. segs \in Seq(Segments) /\ segs \in [1 .. Len(segs) -> Segments] /\ Len(segs) \in Nat
  BY DEF IInv, TypeOK
<1> DEFINE g == [segs[s] EXCEPT !.remove = c]
<1>2. segs[s] \in Segments
  BY <1>1 DEF Linked
<1>3. segs' = [segs EXCEPT ![s] = g]
  BY <1>1, <1>2 DEF Linked
<1>4. g \in Segments /\ g.items = segs[s].items /\ g.next = segs[s].next /\ g.remove = c
  BY <1>2 DEF Segments
<1> HIDE DEF g
<1>5. segs' \in [1 .. Len(segs) -> Segments]
  BY <1>1, <1>3, <1>4
<1>6. segs' \in Seq(Segments) /\ Len(segs') = Len(segs) /\ Linked' = Linked
  BY <1>1, <1>5 DEF Linked
<1>7. segs'[s] = g /\ \A r \in Linked : r # s => segs'[r] = segs[r]
  BY <1>1, <1>3 DEF Linked
<1>8. NextsKept
  BY <1>4, <1>6, <1>7 DEF NextsKept
<1>9. Below' = Below
  BY <1>6, <1>8, BelowKept
<1>10. \A r \in Linked, i \in Slots : Kept(r, i)
  BY <1>4, <1>7 DEF Kept
<1>11. \A r \in Linked : segs'[r].remove = IF r = s THEN c ELSE segs[r].remove
  BY <1>4, <1>7
<1>12. ListInv'
  BY <1>6, <1>8 DEF IInv, ListInv, NextsKept
<1>13. ListGrows
  BY <1>8, <1>10 DEF ListGrows, TopLater, WordsGrow
<1> QED BY <1>6, <1>8, <1>9, <1>10, <1>11, <1>12, <1>13

LEMMA CounterStep ==
  ASSUME IInv, NEW t \in Threads, th' \in [Threads -> Locals], InCall(t), Observe(t, Held'),
         NEW s \in Linked, NEW c \in Int, Counts(s, c), CountInv',
         th[t].op = "get", th[t].pc # "return", th'[t].pc \notin {"idle", "return"},
         th'[t].pc \notin PushPcs \cup CommitPcs,
         TypeOK' /\ ListInv' => ThreadInv(t)' /\ EmptyInv(t)' /\ NoNewMiss(t)
  PROVE  IInv'
<1>1. /\ segs' \in Seq(Segments) /\ Linked' = Linked /\ NextsKept /\ Below' = Below
      /\ \A r \in Linked, i \in Slots : Kept(r, i)
      /\ ListInv' /\ ListGrows
  BY CountEffect
<1>2. /\ done' = done /\ out' = out /\ older' = older
      /\ sight' = [u \in Threads |-> th'[u].op = "get" /\ (sight[u] \/ done \cap Held' = {})]
  BY QuietHistory
<1>3. TypeOK'
  BY <1>1, <1>2 DEF IInv, TypeOK, Counts
<1>4. PlacesInv' /\ OrderInv' /\ SlotsKeep(t)
  BY <1>1, SlotsStay
<1>5. ThreadInv(t)' /\ EmptyInv(t)' /\ NoNewMiss(t)
  BY <1>1, <1>3
<1>6. SafeStays
  BY <1>1, <1>5, SafeKept DEF SafeStays, InCall, Counts
<1>7. th[t].item = Null /\ th'[t].op = "get" /\ th'[t].item = Null
  BY DEF IInv, PcInv, InCall
<1>8. PcInv(t)' /\ PutInv(t)' /\ NotBehind(t)'
  BY <1>7 DEF PcInv, PutInv, NotBehind
<1> QED BY <1>1, <1>2, <1>3, <1>4, <1>5, <1>6, <1>7, <1>8, SharedStep DEF InCall

LEMMA TryRemoveIncStep ==
  ASSUME IInv, NEW t \in Threads, TryRemoveInc(t)
  PROVE  IInv'
<1> USE DEF TryRemoveInc, At
<1>1. /\ th[t].pc = "R_inc" /\ th[t].op = "get" /\ ~LastOne(t) /\ ThreadInv(t)
      /\ th[t].top.seg \in Linked /\ Goto(t, "is_empty") /\ "is_empty" \in Pcs /\ Observe(t, Held')
  BY DEF IInv, PcInv, ThreadInv, RemovePcs, Pcs, EmptyPcs
<1> PICK s \in Linked : s = th[t].top.seg
  BY <1>1
<1> PICK c : c = segs[s].remove + 1
  OBVIOUS
<1>2. c \in Int /\ Counts(s, c)
  BY SegmentTyped DEF Counts
<1>3. /\ segs' \in Seq(Segments) /\ Linked' = Linked /\ NextsKept /\ Below' = Below
      /\ \A r \in Linked : segs'[r].remove = IF r = s THEN c ELSE segs[r].remove
  BY <1>2, CountEffect
<1>4. /\ th' \in [Threads -> Locals] /\ InCall(t) /\ th'[t].pc = "is_empty" /\ th'[t].top = th[t].top
  BY <1>1, GotoEffect
<1>5. LastOne(t)' <=> LastOne(t)
  BY <1>3, <1>4 DEF LastOne, NextsKept
<1>6. ~Counted(t) /\ Counted(t)' /\ th'[t].top.seg = s
  BY <1>1, <1>4, <1>5 DEF Counted, CountPcs, EmptyPcs
<1>7. Removing(s)' = Removing(s) \cup {t} /\ t \notin Removing(s)
  BY <1>3, <1>4, <1>6, RemovingIs, RemovingAfter, OthersCounted DEF InCall
<1>8. \A r \in Linked : r # s => Removing(r)' = Removing(r)
  BY <1>3, <1>4, <1>6, RemovingIs, RemovingAfter, OthersCounted DEF InCall
<1>9. CountInv'
  <2> SUFFICES ASSUME NEW r \in Linked
               PROVE  /\ IsFiniteSet(Removing(r)')
                      /\ segs'[r].remove = Cardinality(Removing(r)') + (IF r \in Below THEN 0 ELSE 1)
    BY <1>3 DEF CountInv
  <2>1. /\ IsFiniteSet(Removing(r))
        /\ segs[r].remove = Cardinality(Removing(r)) + (IF r \in Below THEN 0 ELSE 1)
    BY DEF IInv, CountInv
  <2>2. CASE r # s
    BY <1>3, <1>8, <2>1, <2>2
  <2>3. CASE r = s
    <3>1. /\ IsFiniteSet(Removing(s)')
          /\ Cardinality(Removing(s)') = Cardinality(Removing(s)) + 1
      BY <1>7, <2>1, <2>3, FS_AddElement
    <3>2. Cardinality(Removing(s)) \in Nat
      BY <2>1, <2>3, FS_CardinalityType
    <3> QED BY <1>3, <2>1, <2>3, <3>1, <3>2
  <2> QED BY <2>2, <2>3
<1>10. ThreadInv(t)'
  BY <1>1, <1>2, <1>3, <1>4 DEF ThreadInv, TopBehind, Counts, CommitPcs, RemovePcs
<1>11. EmptyInv(t)' /\ NoNewMiss(t)
  BY <1>4 DEF EmptyInv, SaysEmpty, NoNewMiss, Missed
<1> QED BY <1>1, <1>2, <1>4, <1>9, <1>10, <1>11, CounterStep DEF PushPcs, CommitPcs

LEMMA TryRemoveDecStep ==
  ASSUME IInv, NEW t \in Threads, TryRemoveDec(t)
  PROVE  IInv'
<1> USE DEF TryRemoveDec, At
<1>1. /\ th[t].pc = "R_dec" /\ th[t].op = "get" /\ ~LastOne(t)
      /\ th[t].top.seg \in Linked /\ Finish(t, "top") /\ "top" \in Pcs /\ Observe(t, Held')
  BY DEF IInv, PcInv, ThreadInv, RemovePcs, Pcs, SearchPcs
<1> PICK s \in Linked : s = th[t].top.seg
  BY <1>1
<1> PICK c : c = segs[s].remove - 1
  OBVIOUS
<1>2. c \in Int /\ Counts(s, c)
  BY SegmentTyped DEF Counts
<1>3. /\ segs' \in Seq(Segments) /\ Linked' = Linked /\ NextsKept /\ Below' = Below
      /\ \A r \in Linked : segs'[r].remove = IF r = s THEN c ELSE segs[r].remove
  BY <1>2, CountEffect
<1>4. /\ th' \in [Threads -> Locals] /\ InCall(t) /\ th'[t].pc = "top" /\ th'[t].top = FirstTop
  BY <1>1, FinishEffect
<1>5. Counted(t) /\ ~Counted(t)'
  BY <1>1, <1>4 DEF Counted, CountPcs, EmptyPcs
<1>6. Removing(s)' = Removing(s) \ {t} /\ t \in Removing(s)
  BY <1>3, <1>4, <1>5, RemovingIs, RemovingAfter, OthersCounted DEF InCall
<1>7. \A r \in Linked : r # s => Removing(r)' = Removing(r)
  BY <1>3, <1>4, <1>5, RemovingIs, RemovingAfter, OthersCounted DEF InCall
<1>8. CountInv'
  <2> SUFFICES ASSUME NEW r \in Linked
               PROVE  /\ IsFiniteSet(Removing(r)')
                      /\ segs'[r].remove = Cardinality(Removing(r)') + (IF r \in Below THEN 0 ELSE 1)
    BY <1>3 DEF CountInv
  <2>1. /\ IsFiniteSet(Removing(r))
        /\ segs[r].remove = Cardinality(Removing(r)) + (IF r \in Below THEN 0 ELSE 1)
    BY DEF IInv, CountInv
  <2>2. CASE r # s
    BY <1>3, <1>7, <2>1, <2>2
  <2>3. CASE r = s
    <3>1. /\ IsFiniteSet(Removing(s)')
          /\ Cardinality(Removing(s)') = Cardinality(Removing(s)) - 1
      BY <1>6, <2>1, <2>3, FS_RemoveElement
    <3>2. Cardinality(Removing(s)) \in Nat
      BY <2>1, <2>3, FS_CardinalityType
    <3> QED BY <1>3, <2>1, <2>3, <3>1, <3>2
  <2> QED BY <2>2, <2>3
<1>9. TypeOK' /\ ListInv' => ThreadInv(t)' /\ EmptyInv(t)' /\ NoNewMiss(t)
  BY <1>4, Resting DEF SaysEmpty, NoNewMiss
<1> QED BY <1>1, <1>2, <1>4, <1>8, <1>9, CounterStep DEF PushPcs, CommitPcs

-----------------------------------------------------------------------------
\* Steps that write a slot.

\* A step of which this is what the slots show.
Writes(s, i, w) ==
  /\ segs' = [segs EXCEPT ![s].items[i] = w] /\ top' = top
  /\ segs[s].items[i].aba < w.aba

Written(s, i, w) ==
  /\ segs' \in Seq(Segments) /\ Linked' = Linked /\ NextsKept /\ Below' = Below
  /\ segs'[s].items[i] = w
  /\ \A r \in Linked, j \in Slots : Kept(r, j) \/ (r = s /\ j = i)
  /\ \A r \in Linked, j \in Slots : Val(r, j)' = IF r = s /\ j = i THEN w.val ELSE Val(r, j)
  /\ \A r \in Linked : segs'[r].remove = segs[r].remove
  /\ ListInv' /\ ListGrows

LEMMA WriteEffect ==
  ASSUME IInv, NEW s \in Linked, NEW i \in Slots, NEW w \in Words, Writes(s, i, w)
  PROVE  Written(s, i, w)
<1> USE DEF Writes
<1>1. segs \in Seq(Segments) /\ segs \in [1 .. Len(segs) -> Segments] /\ Len(segs) \in Nat
  BY DEF IInv, TypeOK
<1> DEFINE g == [segs[s] EXCEPT !.items = [segs[s].items EXCEPT ![i] = w]]
<1>2. segs[s] \in Segments /\ segs[s].items \in [Slots -> Words]
  BY <1>1 DEF Linked, Segments
<1>3. segs' = [segs EXCEPT ![s] = g]
  BY <1>1, <1>2 DEF Linked
<1>4. /\ g \in Segments /\ g.items = [segs[s].items EXCEPT ![i] = w]
      /\ g.remove = segs[s].remove /\ g.next = segs[s].next
  BY <1>2 DEF Segments
<1> HIDE DEF g
<1>5. segs' \in [1 .. Len(segs) -> Segments]
  BY <1>1, <1>3, <1>4
<1>6. segs' \in Seq(Segments) /\ Len(segs') = Len(segs) /\ Linked' = Linked
  BY <1>1, <1>5 DEF Linked
<1>7. segs'[s] = g /\ \A r \in Linked : r # s => segs'[r] = segs[r]
  BY <1>1, <1>3 DEF Linked
<1>8. segs'[s].items[i] = w /\ \A j \in Slots : j # i => segs'[s].items[j] = segs[s].items[j]
  BY <1>2, <1>4, <1>7
<1>9. \A r \in Linked, j \in Slots : Kept(r, j) \/ (r = s /\ j = i)
  BY <1>7, <1>8 DEF Kept
<1>10. \A r \in Linked, j \in Slots : Val(r, j)' = IF r = s /\ j = i THEN w.val ELSE Val(r, j)
  BY <1>8, <1>9 DEF Val, Kept
<1>11. \A r \in Linked : segs'[r].remove = segs[r].remove
  BY <1>4, <1>7
<1>12. NextsKept
  BY <1>4, <1>6, <1>7 DEF NextsKept
<1>13. Below' = Below
  BY <1>6, <1>12, BelowKept
<1>14. ListInv'
  BY <1>6, <1>12 DEF IInv, ListInv, NextsKept
<1>15. ListGrows
  <2>1. WordsGrow
    BY <1>8, <1>9 DEF WordsGrow
  <2> QED BY <1>12, <2>1 DEF ListGrows, TopLater
<1> QED BY <1>6, <1>8, <1>9, <1>10, <1>11, <1>12, <1>13, <1>14, <1>15 DEF Written

LEMMA PushCasStep ==
  ASSUME IInv, NEW t \in Threads, PushCas(t)
  PROVE  IInv'
<1> USE DEF PushCas, At
<1> DEFINE s == th[t].top.seg
           i == th[t].index
           x == th[t].item
<1>1. /\ th[t] \in Locals /\ th[t].pc = "P_cas" /\ th[t].op = "put"
      /\ s \in Linked /\ i \in Slots /\ x \in Items /\ x # Null
      /\ th[t].old \in Words /\ th[t].old.val = Null /\ "C_slot" \in Pcs /\ PutInv(t) /\ NotBehind(t)
  BY CallHistoryAssumption DEF IInv, TypeOK, Locals, PcInv, ThreadInv, PushPcs, Pcs, CommitPcs
<1>2. CASE Slot(t) # th[t].old
  <2>1. UNCHANGED shared /\ Observe(t, Held') /\ Finish(t, "top") /\ ~Counted(t)
    BY <1>1, <1>2 DEF shared, Counted, CountPcs, EmptyPcs
  <2> QED BY <1>1, <2>1, FailedSwap, FinishStep DEF PushPcs
<1>3. CASE Slot(t) = th[t].old
  <2>1. /\ segs' = [segs EXCEPT ![s].items[i] = NewItem(t)] /\ Goto(t, "C_slot")
        /\ top' = top /\ Observe(t, Held')
    BY <1>3
  <2>2. NewItem(t) \in Words /\ NewItem(t).val = x /\ th[t].old.aba < NewItem(t).aba
    BY <1>1 DEF NewItem, Word, Words
  <2>3. Val(s, i) = Null /\ segs[s].items[i] = th[t].old
    BY <1>1, <1>3 DEF Slot, Val
  <2>4. /\ th' \in [Threads -> Locals] /\ InCall(t) /\ th'[t].pc = "C_slot"
        /\ th'[t].top = th[t].top /\ th'[t].index = th[t].index
        /\ th'[t].old = th[t].old /\ th'[t].op = th[t].op /\ th'[t].item = th[t].item
    BY <1>1, <2>1, GotoEffect
  <2>5. /\ done' = done /\ out' = out /\ older' = older /\ Gone' = Gone /\ Begun' = Begun
        /\ Hands' = Hands /\ \A u \in Threads : InHand(u)' = InHand(u)
        /\ sight' = [u \in Threads |-> th'[u].op = "get" /\ (sight[u] \/ done \cap Held' = {})]
    BY <2>1, <2>4, QuietHistory
  <2>6. /\ x \notin done /\ x \notin Gone /\ x \in Begun
        /\ \A r \in Linked, j \in Slots : Val(r, j) # x
    BY <1>1 DEF PutInv, PushPcs, Begun
  <2>7. \A r \in Linked, j \in Slots : Val(r, j) \in older[x] => r <= s
    BY <1>1 DEF NotBehind
  <2> HIDE DEF s, i, x
  <2>8. /\ segs' \in Seq(Segments) /\ Linked' = Linked /\ segs'[s].items[i] = NewItem(t)
        /\ NextsKept /\ Below' = Below
        /\ \A r \in Linked, j \in Slots : Kept(r, j) \/ (r = s /\ j = i)
        /\ \A r \in Linked, j \in Slots : Val(r, j)' = IF r = s /\ j = i THEN x ELSE Val(r, j)
        /\ \A r \in Linked : segs'[r].remove = segs[r].remove
        /\ ListInv' /\ ListGrows
    <3>1. Writes(s, i, NewItem(t))
      BY <1>1, <2>1, <2>2, <2>3 DEF Writes
    <3>2. Written(s, i, NewItem(t))
      BY <1>1, <2>2, <3>1, WriteEffect
    <3> QED BY <2>2, <3>2 DEF Written
  <2>9. TypeOK'
    BY <2>1, <2>4, <2>5, <2>8 DEF IInv, TypeOK
  <2>10. PlacesInv'
    <3>1. \A r, q \in Linked', j, k \in Slots :
            Val(r, j)' = Val(q, k)' /\ Val(r, j)' # Null => r = q /\ j = k
      BY <2>6, <2>8 DEF IInv, PlacesInv
    <3>2. \A r \in Linked', j \in Slots : Val(r, j)' # Null => Val(r, j)' \in Begun' \ Gone'
      BY <2>5, <2>6, <2>8 DEF IInv, PlacesInv
    <3>3. \A u \in Threads : th'[u].op = th[u].op /\ th'[u].item = th[u].item
      BY <2>4 DEF InCall, Others
    <3> QED BY <2>5, <3>1, <3>2, <3>3 DEF IInv, PlacesInv
  <2>11. OrderInv'
    <3>1. \A y \in Items : older[y] \subseteq done /\ x \notin older[y] /\ Null \notin older[y]
      BY <2>6, CallHistoryAssumption DEF IInv, TypeOK, OrderInv
    <3>2. \A r \in Linked, j \in Slots : Val(r, j) \in Items \cup {Null}
      BY SegmentTyped
    <3>3. ASSUME NEW q \in Linked, NEW r \in Linked, NEW j \in Slots, NEW k \in Slots,
                 Val(q, j)' # Null, Val(r, k)' \in older[Val(q, j)']
          PROVE  r <= q
      <4>1. Val(q, j)' \in Items
        BY <1>1, <2>8, <3>2, <3>3
      <4>2. Val(r, k)' = Val(r, k)
        BY <2>8, <3>1, <3>3, <4>1
      <4>3. CASE q = s /\ j = i
        BY <2>7, <2>8, <3>3, <4>2, <4>3
      <4>4. CASE ~(q = s /\ j = i)
        BY <2>8, <3>3, <4>2, <4>4 DEF IInv, OrderInv
      <4> QED BY <4>3, <4>4
    <3> QED BY <2>5, <2>8, <3>1, <3>3 DEF OrderInv
  <2>12. SlotsKeep(t)
    BY <2>3, <2>5, <2>8 DEF SlotsKeep, x
  <2>13. NoNewMiss(t) /\ SameCount(t)
    BY <1>1, <2>4 DEF NoNewMiss, Missed, SameCount, Counted, CountPcs, EmptyPcs
  <2>14. SafeStays
    BY <2>1, <2>4, <2>8, <2>13, SafeKept DEF SafeStays, InCall
  <2>15. CountInv'
    BY <2>4, <2>8, <2>13, CountKept DEF InCall
  <2>16. PcInv(t)' /\ EmptyInv(t)' /\ NotBehind(t)'
    BY <1>1, <2>4 DEF IInv, PcInv, EmptyInv, SaysEmpty, NotBehind, PushPcs, CommitPcs, PopPcs,
       RemovePcs, EmptyPcs
  <2>17. ThreadInv(t)'
    BY <1>1, <2>1, <2>4, <2>8 DEF IInv, ThreadInv, TopBehind, CommitPcs, RemovePcs, s, i
  <2>18. PutInv(t)'
    <3>1. InItsSlot(t)'
      BY <2>4, <2>8 DEF InItsSlot, Slot, NewItem, s, i
    <3> QED BY <2>4, <2>5, <2>6, <3>1 DEF PutInv, SearchPcs, PushPcs, CommitPcs, x
  <2> QED BY <1>1, <2>4, <2>5, <2>8, <2>9, <2>10, <2>11, <2>12, <2>14, <2>15, <2>16, <2>17, <2>18,
             SharedStep DEF InCall
<1> QED BY <1>2, <1>3

\* Emptying a slot does not disturb the order of what is left.
LEMMA OrderKept ==
  ASSUME IInv, Linked' = Linked, done' = done, older' = older,
         \A r \in Linked, j \in Slots : Val(r, j)' = Null \/ Val(r, j)' = Val(r, j)
  PROVE  OrderInv'
<1>1. \A y \in Items : older[y] \subseteq done /\ Null \notin older[y]
  BY CallHistoryAssumption DEF IInv, TypeOK, OrderInv
<1>2. \A r \in Linked, j \in Slots : Val(r, j) \in Items \cup {Null}
  BY SegmentTyped
<1> QED BY <1>1, <1>2 DEF IInv, OrderInv

LEMMA CommitUndoStep ==
  ASSUME IInv, NEW t \in Threads, CommitUndo(t)
  PROVE  IInv'
<1> USE DEF CommitUndo, At
<1> DEFINE s == th[t].top.seg
           i == th[t].index
           x == th[t].item
           w == Word(Null, NewItem(t).aba + 1)
<1>1. /\ th[t] \in Locals /\ th[t].pc = "C_undo" /\ th[t].op = "put" /\ th[t].old \in Words
      /\ s \in Linked /\ i \in Slots /\ x \in Items /\ x # Null /\ PutInv(t)
  BY CallHistoryAssumption DEF IInv, TypeOK, Locals, PcInv, ThreadInv, CommitPcs
<1>2. ~Counted(t)
  BY <1>1 DEF Counted, CountPcs, EmptyPcs
<1>3. CASE Slot(t) # NewItem(t)
  <2>1. UNCHANGED shared /\ Observe(t, Held') /\ Finish(t, "return")
    BY <1>3 DEF shared
  <2>2. Secured(th[t].item)
    BY <1>1, <1>3 DEF PutInv, InItsSlot, Secured, CommitPcs
  <2> QED BY <1>1, <1>2, <2>1, <2>2, FailedSwap, FinishStep
<1>4. CASE Slot(t) = NewItem(t)
  <2>1. /\ segs' = [segs EXCEPT ![s].items[i] = w] /\ Finish(t, "top")
        /\ top' = top /\ Observe(t, Held')
    BY <1>4
  <2>2. w \in Words /\ w.val = Null /\ NewItem(t).aba < w.aba
    <3>1. NewItem(t).aba \in Nat
      BY <1>1 DEF NewItem, Word, Words
    <3> QED BY <3>1 DEF Word, Words
  <2>3. Val(s, i) = x /\ segs[s].items[i] = NewItem(t)
    BY <1>4 DEF Slot, Val, NewItem, Word
  <2>4. /\ th' \in [Threads -> Locals] /\ InCall(t) /\ th'[t].pc = "top"
        /\ th'[t].top = FirstTop /\ th'[t].op = th[t].op /\ th'[t].item = th[t].item
    BY <2>1, FinishEffect DEF Pcs, SearchPcs
  <2>5. /\ done' = done /\ out' = out /\ older' = older /\ Gone' = Gone /\ Begun' = Begun
        /\ Hands' = Hands /\ \A u \in Threads : InHand(u)' = InHand(u)
        /\ sight' = [u \in Threads |-> th'[u].op = "get" /\ (sight[u] \/ done \cap Held' = {})]
    BY <2>1, <2>4, QuietHistory
  <2>6. /\ x \notin done /\ x \notin Gone
        /\ \A r \in Linked, j \in Slots : Val(r, j) = x => r = s /\ j = i
    BY <1>1, <2>3 DEF PutInv, IInv, PlacesInv
  <2> HIDE DEF s, i, x, w
  <2>7. /\ segs' \in Seq(Segments) /\ Linked' = Linked /\ NextsKept /\ Below' = Below
        /\ \A r \in Linked, j \in Slots : Kept(r, j) \/ (r = s /\ j = i)
        /\ \A r \in Linked, j \in Slots : Val(r, j)' = IF r = s /\ j = i THEN Null ELSE Val(r, j)
        /\ \A r \in Linked : segs'[r].remove = segs[r].remove
        /\ ListInv' /\ ListGrows
    <3>1. Writes(s, i, w)
      BY <1>1, <2>1, <2>2, <2>3 DEF Writes
    <3>2. Written(s, i, w)
      BY <1>1, <2>2, <3>1, WriteEffect
    <3> QED BY <2>2, <3>2 DEF Written
  <2>8. TypeOK'
    BY <2>1, <2>4, <2>5, <2>7 DEF IInv, TypeOK
  <2>9. PlacesInv'
    <3>1. \A r, q \in Linked', j, k \in Slots :
            Val(r, j)' = Val(q, k)' /\ Val(r, j)' # Null => r = q /\ j = k
      BY <2>7 DEF IInv, PlacesInv
    <3>2. \A r \in Linked', j \in Slots : Val(r, j)' # Null => Val(r, j)' \in Begun' \ Gone'
      BY <2>5, <2>7 DEF IInv, PlacesInv
    <3>3. \A u \in Threads : th'[u].op = th[u].op /\ th'[u].item = th[u].item
      BY <2>4 DEF InCall, Others
    <3> QED BY <2>5, <3>1, <3>2, <3>3 DEF IInv, PlacesInv
  <2>10. OrderInv'
    <3>1. \A r \in Linked, j \in Slots : Val(r, j)' = Null \/ Val(r, j)' = Val(r, j)
      BY <2>7
    <3> QED BY <2>5, <2>7, <3>1, OrderKept
  <2>11. SlotsKeep(t)
    BY <2>3, <2>5, <2>7 DEF SlotsKeep, x
  <2>12. /\ ThreadInv(t)' /\ NotBehind(t)' /\ ~Counted(t)' /\ (\A j \in Slots : ~Missed(t, j)')
         /\ EmptyInv(t)'
    BY <1>1, <2>4, <2>7, <2>8, Resting DEF SaysEmpty
  <2>13. NoNewMiss(t) /\ SameCount(t)
    BY <1>2, <2>12 DEF NoNewMiss, SameCount
  <2>14. SafeStays
    BY <2>1, <2>4, <2>7, <2>13, SafeKept DEF SafeStays, InCall
  <2>15. CountInv'
    BY <2>4, <2>7, <2>13, CountKept DEF InCall
  <2>16. PcInv(t)'
    BY <1>1, <2>4 DEF IInv, PcInv, PushPcs, CommitPcs, PopPcs, RemovePcs, EmptyPcs
  <2>17. PutInv(t)'
    BY <1>1, <2>4, <2>5, <2>6, <2>7 DEF PutInv, SearchPcs, PushPcs, CommitPcs, x
  <2> QED BY <1>1, <2>4, <2>5, <2>7, <2>8, <2>9, <2>10, <2>11, <2>12, <2>14, <2>15, <2>16, <2>17,
             SharedStep DEF InCall
<1> QED BY <1>3, <1>4

LEMMA PopCasStep ==
  ASSUME IInv, NEW t \in Threads, PopCas(t)
  PROVE  IInv'
<1> USE DEF PopCas, At
<1> DEFINE s == th[t].seg
           i == th[t].index
           x == th[t].old.val
           w == Word(Null, th[t].old.aba + 1)
<1>1. /\ th[t] \in Locals /\ th \in [Threads -> Locals] /\ th[t].pc = "O_cas" /\ th[t].op = "get"
      /\ th[t].item = Null /\ s \in Linked /\ i \in Slots /\ x # Null /\ x \in Items
      /\ th[t].old \in Words /\ "return" \in Pcs
  BY DEF IInv, TypeOK, Locals, PcInv, ThreadInv, PopPcs, Pcs, Words
<1>2. ~Counted(t)
  BY <1>1 DEF Counted, CountPcs, EmptyPcs
<1>3. CASE segs[s].items[i] # th[t].old
  <2>1. UNCHANGED shared /\ Observe(t, Held') /\ Finish(t, "top")
    BY <1>3 DEF shared
  <2> QED BY <1>1, <1>2, <2>1, FailedSwap, FinishStep
<1>4. CASE segs[s].items[i] = th[t].old
  <2> DEFINE now == [Idling(t, "return") EXCEPT !.item = th[t].old.val]
  <2>1. /\ segs' = [segs EXCEPT ![s].items[i] = w] /\ th' = [th EXCEPT ![t] = now]
        /\ top' = top /\ Observe(t, Held')
    BY <1>1, <1>4
  <2>2. w \in Words /\ w.val = Null /\ th[t].old.aba < w.aba
    BY <1>1 DEF Word, Words
  <2>3. Val(s, i) = x
    BY <1>4 DEF Val
  <2>4. now \in Locals /\ now.pc = "return" /\ now.top = FirstTop /\ now.op = "get" /\ now.item = x
    <3>1. /\ Idling(t, "return") \in Locals
          /\ Idling(t, "return").pc = "return" /\ Idling(t, "return").top = FirstTop
          /\ Idling(t, "return").op = th[t].op
      BY <1>1, IdlingTyped
    <3> HIDE DEF Idling
    <3> QED BY <1>1, <3>1 DEF Locals
  <2> HIDE DEF s, i, x, w, now
  <2>5. th' \in [Threads -> Locals] /\ th'[t] = now /\ Others(t)
    BY <1>1, <2>1, <2>4 DEF Others
  <2>6. done' = done /\ out' = out /\ older' = older
    BY <1>1, <2>1, <2>4, <2>5 DEF Observe
  <2>7. sight' = [u \in Threads |-> th'[u].op = "get" /\ (sight[u] \/ done \cap Held' = {})]
    BY <2>1, <2>6 DEF Observe
  <2>8. /\ InHand(t) = {} /\ InHand(t)' = {x}
        /\ \A u \in Threads : u # t => InHand(u)' = InHand(u)
    BY <1>1, <2>4, <2>5 DEF InHand, Others
  <2>9. Hands' = Hands \cup {x} /\ Gone' = Gone \cup {x}
    BY <2>6, <2>8 DEF Hands, Gone
  <2>10. Begun' = Begun
    BY <1>1, <2>4, <2>5, <2>6 DEF Begun, Others
  <2>11. /\ x \in Begun /\ x \notin Gone
         /\ \A r \in Linked, j \in Slots : Val(r, j) = x => r = s /\ j = i
    BY <1>1, <2>3 DEF IInv, PlacesInv
  <2>12. /\ segs' \in Seq(Segments) /\ Linked' = Linked /\ NextsKept /\ Below' = Below
         /\ \A r \in Linked, j \in Slots : Kept(r, j) \/ (r = s /\ j = i)
         /\ \A r \in Linked, j \in Slots : Val(r, j)' = IF r = s /\ j = i THEN Null ELSE Val(r, j)
         /\ \A r \in Linked : segs'[r].remove = segs[r].remove
         /\ ListInv' /\ ListGrows
    <3>1. Writes(s, i, w)
      BY <1>1, <1>4, <2>1, <2>2 DEF Writes, s, i
    <3>2. Written(s, i, w)
      BY <1>1, <2>2, <3>1, WriteEffect
    <3> QED BY <2>2, <3>2 DEF Written
  <2>13. TypeOK'
    BY <2>1, <2>5, <2>6, <2>7, <2>12 DEF IInv, TypeOK
  <2>14. PlacesInv'
    <3>1. \A r, p \in Linked', j, k \in Slots :
            Val(r, j)' = Val(p, k)' /\ Val(r, j)' # Null => r = p /\ j = k
      BY <2>12 DEF IInv, PlacesInv
    <3>2. \A r \in Linked', j \in Slots : Val(r, j)' # Null => Val(r, j)' \in Begun' \ Gone'
      BY <2>9, <2>10, <2>11, <2>12 DEF IInv, PlacesInv
    <3>3. Gone' \subseteq Begun'
      BY <2>9, <2>10, <2>11 DEF IInv, PlacesInv
    <3>4. Hands' \cap out' = {}
      BY <2>6, <2>9, <2>11 DEF IInv, PlacesInv, Gone
    <3>5. \A u, v \in Threads : u # v => InHand(u)' \cap InHand(v)' = {}
      <4>1. \A u \in Threads : x \notin InHand(u)
        BY <2>11 DEF Gone, Hands
      <4> QED BY <2>8, <4>1 DEF IInv, PlacesInv
    <3>6. \A u, v \in Threads :
            u # v /\ th'[u].op = "put" /\ th'[v].op = "put" => th'[u].item # th'[v].item
      BY <2>4, <2>5 DEF IInv, PlacesInv, Others
    <3> QED BY <3>1, <3>2, <3>3, <3>4, <3>5, <3>6 DEF PlacesInv
  <2>15. OrderInv'
    <3>1. \A r \in Linked, j \in Slots : Val(r, j)' = Null \/ Val(r, j)' = Val(r, j)
      BY <2>12
    <3> QED BY <2>6, <2>12, <3>1, OrderKept
  <2>16. SlotsKeep(t)
    BY <1>1, <2>3, <2>9, <2>12 DEF SlotsKeep
  <2>17. /\ ThreadInv(t)' /\ NotBehind(t)' /\ ~Counted(t)' /\ (\A j \in Slots : ~Missed(t, j)')
         /\ EmptyInv(t)'
    BY <1>1, <2>4, <2>5, <2>12, <2>13, Resting DEF SaysEmpty
  <2>18. NoNewMiss(t) /\ SameCount(t)
    BY <1>2, <2>17 DEF NoNewMiss, SameCount
  <2>19. SafeStays
    BY <2>1, <2>5, <2>12, <2>18, SafeKept DEF SafeStays
  <2>20. CountInv'
    BY <2>5, <2>12, <2>18, CountKept
  <2>21. PcInv(t)' /\ PutInv(t)'
    BY <1>1, <2>4, <2>5 DEF PcInv, PutInv, PushPcs, CommitPcs, PopPcs, RemovePcs, EmptyPcs
  <2> QED BY <1>1, <2>5, <2>6, <2>7, <2>12, <2>13, <2>14, <2>15, <2>16, <2>17, <2>19, <2>20, <2>21,
             SharedStep
<1> QED BY <1>3, <1>4

-----------------------------------------------------------------------------
\* A call and its return.

\* What they leave alone.
LEMMA CallKeeps ==
  ASSUME IInv, NEW t \in Threads, Others(t), UNCHANGED shared, th' \in [Threads -> Locals],
         NEW r \in Locals, th'[t] = r, r.pc \in {"idle", "top"}, r.top = FirstTop,
         th[t].pc \in {"idle", "return"}
  PROVE  /\ ListInv' /\ CountInv' /\ ThreadInv(t)' /\ EmptyInv(t)' /\ NotBehind(t)'
         /\ \A s \in Linked, i \in Slots : Val(s, i) # Null /\ Safe(s, i) => Safe(s, i)'
<1>1. ListInv' /\ Linked' = Linked /\ NextsKept /\ segs' = segs /\ top' = top
  BY DEF IInv, ListInv, Linked, NextsKept, shared
<1>2. Below' = Below
  BY <1>1, BelowKept
<1>3. ThreadInv(t)'
  <2>1. 1 \in Linked' /\ top' \in TopWords
    BY <1>1 DEF IInv, TypeOK, ListInv, Linked
  <2> QED BY <2>1 DEF ThreadInv, TopBehind, FirstTop, TopWords, CommitPcs, RemovePcs
<1>4. EmptyInv(t)' /\ NotBehind(t)'
  BY DEF EmptyInv, SaysEmpty, NotBehind
<1>5. NoNewMiss(t) /\ SameCount(t)
  BY DEF NoNewMiss, Missed, SameCount, Counted, CountPcs, EmptyPcs
<1>6. CountInv'
  BY <1>1, <1>2, <1>5, CountKept
<1> QED BY <1>1, <1>2, <1>3, <1>4, <1>5, <1>6, SafeKept

\* What holds of the other threads, if the items done are others than theirs.
LEMMA CallOthers ==
  ASSUME IInv, NEW t \in Threads, Others(t), UNCHANGED shared, TypeOK',
         \A s \in Linked, i \in Slots : Val(s, i) # Null /\ Safe(s, i) => Safe(s, i)',
         Gone' = Gone, \A u \in Threads : sight[u] /\ th'[u].op = "get" => sight'[u],
         NEW u \in Threads, u # t,
         th[u].op = "put" => th[u].item \notin done' /\ older'[th[u].item] = older[th[u].item]
  PROVE  PcInv(u)' /\ ThreadInv(u)' /\ PutInv(u)' /\ EmptyInv(u)' /\ NotBehind(u)'
<1> USE DEF shared
<1>1. th'[u] = th[u]
  BY DEF Others
<1>2. PcInv(u)' /\ ThreadInv(u)'
  BY <1>1 DEF IInv, PcInv, ThreadInv, TopBehind, Found, LastOne, Linked
<1>3. NotBehind(u)'
  BY <1>1 DEF IInv, PcInv, NotBehind, Linked, Val
<1>4. EmptyInv(u)'
  <2>1. ListGrows
    BY DEF ListGrows, TopLater, NextsKept, WordsGrow, Kept, Linked
  <2> QED BY <2>1, EmptyKept
<1>5. PutInv(u)'
  <2> SUFFICES ASSUME th[u].op = "put" PROVE PutInv(u)'
    BY <1>1 DEF PutInv
  <2>1. PutInv(u) /\ PcInv(u)
    BY DEF IInv
  <2>2. th[u].item \in Items /\ th[u].item # Null
    BY <2>1, CallHistoryAssumption DEF PcInv
  <2>3. InItsSlot(u)' <=> InItsSlot(u)
    BY <1>1 DEF InItsSlot, Slot, NewItem
  <2>4. PICK y \in Items : y = th[u].item
    BY <2>2
  <2>5. Secured(y) => Secured(y)'
    BY <2>2, <2>4 DEF Secured, Linked, Val
  <2> QED BY <1>1, <2>1, <2>3, <2>4, <2>5 DEF PutInv, Linked, Val
<1> QED BY <1>2, <1>3, <1>4, <1>5

LEMMA CallPushStep ==
  ASSUME IInv, NEW t \in Threads, CallPush(t)
  PROVE  IInv'
<1>1. PICK x \in Fresh :
        th' = [th EXCEPT ![t] = [Idle EXCEPT !.pc = "top", !.op = "put", !.item = x]]
  BY DEF CallPush
<1>2. /\ x \in Items /\ x # Null /\ x \notin Begun /\ x \notin Gone /\ x \notin done
      /\ \A s \in Linked, i \in Slots : Val(s, i) # x
  BY <1>1, CallHistoryAssumption DEF Fresh, Gone, Begun, IInv, PlacesInv
<1>3. /\ th[t].pc = "idle" /\ th[t].op = "none" /\ th[t].item = Null /\ th \in [Threads -> Locals]
      /\ UNCHANGED shared /\ Observe(t, Held)
  BY DEF CallPush, Local, At, IInv, TypeOK, PcInv
<1> DEFINE r == [Idle EXCEPT !.pc = "top", !.op = "put", !.item = x]
<1>4. r \in Locals /\ r.pc = "top" /\ r.op = "put" /\ r.item = x /\ r.top = FirstTop
  <2>1. Idle.top = FirstTop
    BY DEF Idle
  <2> QED BY <1>2, <2>1, IdleTyped DEF Locals, Pcs, SearchPcs
<1> HIDE DEF r
<1>5. th' \in [Threads -> Locals] /\ th'[t] = r /\ Others(t)
  BY <1>1, <1>3, <1>4 DEF Others, r
<1>6. done' = done /\ out' = out /\ older' = [older EXCEPT ![x] = done]
  BY <1>3, <1>4, <1>5 DEF Observe
<1>7. sight' = [u \in Threads |-> th'[u].op = "get" /\ (sight[u] \/ done \cap Held = {})]
  BY <1>3, <1>6 DEF Observe
<1>8. \A u \in Threads : InHand(u)' = InHand(u)
  BY <1>3, <1>4, <1>5 DEF InHand, Others
<1>9. Hands' = Hands /\ Gone' = Gone
  BY <1>6, <1>8 DEF Hands, Gone
<1>10. Begun' = Begun \cup {x}
  BY <1>3, <1>4, <1>5, <1>6 DEF Begun, Others
<1>11. /\ ListInv' /\ CountInv' /\ ThreadInv(t)' /\ EmptyInv(t)' /\ NotBehind(t)'
       /\ \A s \in Linked, i \in Slots : Val(s, i) # Null /\ Safe(s, i) => Safe(s, i)'
  BY <1>3, <1>4, <1>5, CallKeeps
<1>12. Linked' = Linked /\ \A s, i : Val(s, i)' = Val(s, i)
  BY <1>3 DEF shared, Linked, Val
<1>13. older \in [Items -> SUBSET Items] /\ done \subseteq Items
  BY DEF IInv, TypeOK
<1>14. TypeOK'
  BY <1>2, <1>3, <1>5, <1>6, <1>7, <1>13 DEF IInv, TypeOK, shared
<1>15. DoneInv'
  BY <1>6, <1>9, <1>11, <1>12, <1>13, CallHistoryAssumption DEF IInv, DoneInv, Secured
<1>16. PlacesInv'
  <2>1. \A u, v \in Threads :
          u # v /\ th'[u].op = "put" /\ th'[v].op = "put" => th'[u].item # th'[v].item
    BY <1>2, <1>4, <1>5 DEF IInv, PlacesInv, Others, Begun
  <2>2. \A s \in Linked', i \in Slots : Val(s, i)' # Null => Val(s, i)' \in Begun' \ Gone'
    BY <1>9, <1>10, <1>12 DEF IInv, PlacesInv
  <2>3. Gone' \subseteq Begun' /\ Hands' \cap out' = {}
    BY <1>6, <1>9, <1>10 DEF IInv, PlacesInv
  <2> QED BY <1>8, <1>12, <2>1, <2>2, <2>3 DEF IInv, PlacesInv
<1>17. OrderInv'
  <2>1. \A y \in Items : older'[y] \subseteq done'
    BY <1>6, <1>13 DEF IInv, OrderInv
  <2>2. ASSUME NEW s \in Linked, NEW q \in Linked, NEW i \in Slots, NEW j \in Slots,
               Val(s, i) # Null, Val(q, j) \in older'[Val(s, i)]
        PROVE  q <= s
    <3>1. older'[Val(s, i)] = older[Val(s, i)]
      BY <1>2, <1>6, <1>13, <2>2, SegmentTyped
    <3> QED BY <2>2, <3>1 DEF IInv, OrderInv
  <2> QED BY <1>12, <2>1, <2>2 DEF OrderInv
<1>18. PcInv(t)' /\ PutInv(t)'
  BY <1>2, <1>4, <1>5, <1>6, <1>9, <1>12 DEF PcInv, PutInv, SearchPcs, PushPcs, CommitPcs,
     PopPcs, RemovePcs, EmptyPcs
<1>19. ASSUME NEW u \in Threads, u # t
       PROVE  PcInv(u)' /\ ThreadInv(u)' /\ PutInv(u)' /\ EmptyInv(u)' /\ NotBehind(u)'
  <2>1. th[u].op = "put" => th[u].item \notin done' /\ older'[th[u].item] = older[th[u].item]
    BY <1>2, <1>6, <1>13 DEF IInv, PcInv, PutInv, Begun
  <2> QED BY <1>3, <1>5, <1>7, <1>9, <1>11, <1>14, <1>19, <2>1, CallOthers
<1> QED BY <1>11, <1>14, <1>15, <1>16, <1>17, <1>18, <1>19 DEF IInv

LEMMA CallPopStep ==
  ASSUME IInv, NEW t \in Threads, CallPop(t)
  PROVE  IInv'
<1>1. /\ th[t].pc = "idle" /\ th[t].op = "none" /\ th[t].item = Null /\ th \in [Threads -> Locals]
      /\ UNCHANGED shared /\ Observe(t, Held)
  BY DEF CallPop, Local, At, IInv, TypeOK, PcInv
<1> DEFINE r == [Idle EXCEPT !.pc = "top", !.op = "get"]
<1>2. r \in Locals /\ r.pc = "top" /\ r.op = "get" /\ r.item = Null /\ r.top = FirstTop
  <2>1. Idle.top = FirstTop /\ Idle.item = Null
    BY DEF Idle
  <2> QED BY <2>1, IdleTyped DEF Locals, Pcs, SearchPcs
<1> HIDE DEF r
<1>3. th' \in [Threads -> Locals] /\ th'[t] = r /\ Others(t)
  BY <1>1, <1>2 DEF CallPop, Others, r
<1>4. done' = done /\ out' = out /\ older' = older
  BY <1>1, <1>2, <1>3 DEF Observe
<1>5. sight' = [u \in Threads |-> th'[u].op = "get" /\ (sight[u] \/ done \cap Held = {})]
  BY <1>1, <1>4 DEF Observe
<1>6. \A u \in Threads : InHand(u)' = InHand(u)
  BY <1>1, <1>2, <1>3 DEF InHand, Others
<1>7. Hands' = Hands /\ Gone' = Gone
  BY <1>4, <1>6 DEF Hands, Gone
<1>8. Begun' = Begun
  BY <1>1, <1>2, <1>3, <1>4 DEF Begun, Others
<1>9. /\ ListInv' /\ CountInv' /\ ThreadInv(t)' /\ EmptyInv(t)' /\ NotBehind(t)'
      /\ \A s \in Linked, i \in Slots : Val(s, i) # Null /\ Safe(s, i) => Safe(s, i)'
  BY <1>1, <1>2, <1>3, CallKeeps
<1>10. Linked' = Linked /\ \A s, i : Val(s, i)' = Val(s, i)
  BY <1>1 DEF shared, Linked, Val
<1>11. TypeOK'
  BY <1>1, <1>3, <1>4, <1>5 DEF IInv, TypeOK, shared
<1>12. DoneInv'
  BY <1>4, <1>7, <1>9, <1>10, CallHistoryAssumption DEF IInv, TypeOK, DoneInv, Secured
<1>13. PlacesInv'
  <2>1. \A u, v \in Threads :
          u # v /\ th'[u].op = "put" /\ th'[v].op = "put" => th'[u].item # th'[v].item
    BY <1>2, <1>3 DEF IInv, PlacesInv, Others
  <2> QED BY <1>4, <1>6, <1>7, <1>8, <1>10, <2>1 DEF IInv, PlacesInv
<1>14. OrderInv'
  BY <1>4, <1>10 DEF IInv, OrderInv
<1>15. PcInv(t)' /\ PutInv(t)'
  BY <1>2, <1>3 DEF PcInv, PutInv, SearchPcs, PushPcs, CommitPcs, PopPcs, RemovePcs,
     EmptyPcs
<1>16. ASSUME NEW u \in Threads, u # t
       PROVE  PcInv(u)' /\ ThreadInv(u)' /\ PutInv(u)' /\ EmptyInv(u)' /\ NotBehind(u)'
  <2>1. th[u].op = "put" => th[u].item \notin done' /\ older'[th[u].item] = older[th[u].item]
    BY <1>4 DEF IInv, PutInv
  <2> QED BY <1>1, <1>3, <1>5, <1>7, <1>9, <1>11, <1>16, <2>1, CallOthers
<1> QED BY <1>9, <1>11, <1>12, <1>13, <1>14, <1>15, <1>16 DEF IInv

LEMMA ReturnStep ==
  ASSUME IInv, NEW t \in Threads, Return(t)
  PROVE  IInv'
<1> DEFINE x == th[t].item
           put == th[t].op = "put"
           got == th[t].op = "get" /\ x # Null
<1>1. /\ th[t].op # "none" /\ th[t].pc = "return" /\ th \in [Threads -> Locals]
      /\ UNCHANGED shared /\ Observe(t, Held) /\ th' = [th EXCEPT ![t] = Idle]
      /\ th[t].op \in {"put", "get"} /\ x \in Items \cup {Null} /\ (put => x \in Items /\ x # Null)
  BY CallHistoryAssumption DEF Return, Local, At, IInv, TypeOK, Locals, PcInv
<1>2. Idle \in Locals /\ Idle.pc = "idle" /\ Idle.op = "none" /\ Idle.item = Null /\ Idle.top = FirstTop
  BY IdleTyped DEF Idle
<1>3. th' \in [Threads -> Locals] /\ th'[t] = Idle /\ Others(t)
  BY <1>1, <1>2 DEF Others
<1> HIDE DEF x
<1>4. /\ done' = IF put THEN done \cup {x} ELSE done
      /\ out' = IF got THEN out \cup {x} ELSE out
      /\ older' = older
  BY <1>1, <1>2, <1>3 DEF Observe, x
<1>5. sight' = [u \in Threads |-> th'[u].op = "get" /\ (sight[u] \/ done' \cap Held = {})]
  BY <1>1 DEF Observe
<1>6. /\ InHand(t) = IF got THEN {x} ELSE {}
      /\ InHand(t)' = {}
      /\ \A u \in Threads : u # t => InHand(u)' = InHand(u)
  BY <1>1, <1>2, <1>3 DEF InHand, Others, x
<1>7. Hands = Hands' \cup InHand(t) /\ Hands' \subseteq Hands
  BY <1>6 DEF Hands
<1>8. Gone' = Gone
  BY <1>4, <1>6, <1>7 DEF Gone
<1>9. Begun' = Begun
  BY <1>1, <1>2, <1>3, <1>4 DEF Begun, Others, x
<1>10. /\ ListInv' /\ CountInv' /\ ThreadInv(t)' /\ EmptyInv(t)' /\ NotBehind(t)'
       /\ \A s \in Linked, i \in Slots : Val(s, i) # Null /\ Safe(s, i) => Safe(s, i)'
  BY <1>1, <1>2, <1>3, CallKeeps
<1>11. Linked' = Linked /\ \A s, i : Val(s, i)' = Val(s, i)
  BY <1>1 DEF shared, Linked, Val
<1>12. TypeOK'
  BY <1>1, <1>3, <1>4, <1>5 DEF IInv, TypeOK, shared
<1>13. DoneInv'
  <2>1. \A y \in done' : y \in Items /\ Secured(y)
    BY <1>1, <1>4 DEF IInv, TypeOK, DoneInv, PutInv, x
  <2> QED BY <1>8, <1>10, <1>11, <2>1, CallHistoryAssumption DEF DoneInv, Secured
<1>14. PlacesInv'
  <2>1. \A u, v \in Threads :
          u # v /\ th'[u].op = "put" /\ th'[v].op = "put" => th'[u].item # th'[v].item
    BY <1>2, <1>3 DEF IInv, PlacesInv, Others
  <2>2. \A u, v \in Threads : u # v => InHand(u)' \cap InHand(v)' = {}
    BY <1>6 DEF IInv, PlacesInv
  <2>3. Hands' \cap out' = {}
    <3>1. got => x \notin Hands'
      BY <1>6 DEF IInv, PlacesInv, Hands
    <3> QED BY <1>4, <1>7, <3>1 DEF IInv, PlacesInv
  <2> QED BY <1>8, <1>9, <1>11, <2>1, <2>2, <2>3 DEF IInv, PlacesInv
<1>15. OrderInv'
  BY <1>4, <1>11 DEF IInv, OrderInv
<1>16. PcInv(t)' /\ PutInv(t)'
  BY <1>2, <1>3 DEF PcInv, PutInv, SearchPcs, PushPcs, CommitPcs, PopPcs, RemovePcs,
     EmptyPcs
<1>17. ASSUME NEW u \in Threads, u # t
       PROVE  PcInv(u)' /\ ThreadInv(u)' /\ PutInv(u)' /\ EmptyInv(u)' /\ NotBehind(u)'
  <2>1. th[u].op = "put" => th[u].item \notin done' /\ older'[th[u].item] = older[th[u].item]
    BY <1>4, <1>17 DEF IInv, PutInv, PlacesInv, x
  <2>2. \A v \in Threads : sight[v] /\ th'[v].op = "get" => sight'[v]
    BY <1>5
  <2> QED BY <1>1, <1>3, <1>8, <1>10, <1>12, <1>17, <2>1, <2>2, CallOthers
<1> QED BY <1>10, <1>12, <1>13, <1>14, <1>15, <1>16, <1>17 DEF IInv

-----------------------------------------------------------------------------
\* The inductive invariant.

LEMMA Initially == Init => IInv
<1> SUFFICES ASSUME Init PROVE IInv
  OBVIOUS
<1> USE DEF Init, HistoryInit
<1>1. /\ segs = <<NewSegment(0)>> /\ top = FirstTop /\ th = [t \in Threads |-> Idle]
      /\ done = {} /\ out = {}
  OBVIOUS
<1> DEFINE g == NewSegment(0)
<1>2. /\ g \in Segments /\ g.next = 0 /\ g.remove = 0 /\ (\A i \in Slots : g.items[i].val = Null)
      /\ FirstTop \in TopWords /\ FirstTop.seg = 1 /\ FirstTop.aba = 0
  BY DEF NewSegment, Segments, Empty, Word, Words, FirstTop, TopWords
<1> HIDE DEF g
<1>3. segs = <<g>>
  BY <1>1 DEF g
<1>4. Len(segs) = 1 /\ segs[1] = g /\ segs \in Seq(Segments) /\ Linked = {1}
  BY <1>2, <1>3 DEF Linked
<1>5. \A s \in Linked, i \in Slots : Val(s, i) = Null
  BY <1>2, <1>4 DEF Val
<1>6. /\ Idle \in Locals /\ Idle.pc = "idle" /\ Idle.op = "none" /\ Idle.item = Null
      /\ Idle.top = FirstTop
  BY IdleTyped DEF Idle
<1>7. TypeOK
  BY <1>1, <1>2, <1>4, <1>6 DEF TypeOK
<1>8. ListInv
  BY <1>1, <1>2, <1>4 DEF ListInv
<1>9. \A t \in Threads : InHand(t) = {} /\ th[t] = Idle
  BY <1>1, <1>6 DEF InHand
<1>10. Hands = {} /\ Gone = {}
  BY <1>1, <1>9 DEF Hands, Gone
<1>11. PlacesInv
  BY <1>1, <1>5, <1>6, <1>9, <1>10 DEF PlacesInv
<1>12. DoneInv /\ OrderInv
  BY <1>1, <1>5 DEF DoneInv, OrderInv
<1>13. ASSUME NEW t \in Threads
       PROVE  PcInv(t) /\ ThreadInv(t) /\ PutInv(t) /\ EmptyInv(t) /\ NotBehind(t)
  <2>1. PcInv(t) /\ PutInv(t) /\ EmptyInv(t) /\ NotBehind(t)
    BY <1>6, <1>9 DEF PcInv, PutInv, EmptyInv, SaysEmpty, NotBehind, PushPcs, CommitPcs, PopPcs,
       RemovePcs, EmptyPcs
  <2>2. ThreadInv(t)
    BY <1>1, <1>2, <1>4, <1>6, <1>9 DEF ThreadInv, TopBehind, CommitPcs, RemovePcs
  <2> QED BY <2>1, <2>2
<1>14. CountInv
  <2>1. Removing(1) = {}
    BY <1>6, <1>9 DEF Removing
  <2>2. 1 \in Below
    BY <1>1, <1>2, <1>4 DEF Below, Downward, Linked
  <2>3. IsFiniteSet(Removing(1)) /\ Cardinality(Removing(1)) = 0
    BY <2>1, FS_EmptySet, Zenon
  <2> QED BY <1>2, <1>4, <2>2, <2>3 DEF CountInv
<1> QED BY <1>7, <1>8, <1>11, <1>12, <1>13, <1>14 DEF IInv

LEMMA Stutter ==
  ASSUME IInv, UNCHANGED vars
  PROVE  IInv'
<1>1. UNCHANGED <<th, top, segs, done, out, older, sight>>
  BY DEF vars, shared, history
<1>2. Gone' = Gone /\ Begun' = Begun /\ Hands' = Hands /\ \A u \in Threads : InHand(u)' = InHand(u)
  BY <1>1 DEF Gone, Hands, InHand, Begun
<1>3. Below' = Below
  BY <1>1 DEF Below, Downward
<1>4. /\ Linked' = Linked /\ (\A s, i : Val(s, i)' = Val(s, i) /\ (Safe(s, i)' <=> Safe(s, i)))
      /\ \A s : Removing(s)' = Removing(s)
  BY <1>1, <1>3 DEF Linked, Val, Safe, TopUnchanged, Missed, Ahead, LastOne, Removing
<1>5. TypeOK' /\ ListInv' /\ OrderInv' /\ PlacesInv' /\ CountInv'
  BY <1>1, <1>2, <1>3, <1>4 DEF IInv, TypeOK, ListInv, OrderInv, PlacesInv, CountInv
<1>6. DoneInv'
  BY <1>1, <1>2, <1>4 DEF IInv, DoneInv, Secured
<1>7. ASSUME NEW u \in Threads
      PROVE  PcInv(u)' /\ ThreadInv(u)' /\ PutInv(u)' /\ EmptyInv(u)' /\ NotBehind(u)'
  <2>1. PcInv(u)' /\ ThreadInv(u)' /\ NotBehind(u)'
    BY <1>1, <1>4 DEF IInv, PcInv, ThreadInv, TopBehind, Found, LastOne, NotBehind
  <2>2. EmptyInv(u)'
    BY <1>1 DEF IInv, EmptyInv, SaysEmpty, Recorded, Changed, Ahead, LastOne, TopUnchanged
  <2>3. InItsSlot(u)' <=> InItsSlot(u)
    BY <1>1 DEF InItsSlot, Slot, NewItem
  <2>4. Secured(th[u].item)' <=> Secured(th[u].item)
    BY <1>1, <1>2, <1>4 DEF Secured
  <2>5. PutInv(u)'
    BY <1>1, <1>2, <1>4, <2>3, <2>4 DEF IInv, PutInv
  <2> QED BY <2>1, <2>2, <2>5
<1> QED BY <1>5, <1>6, <1>7 DEF IInv

LEMMA NextStep ==
  ASSUME ~Reload, IInv, [Next]_vars
  PROVE  IInv'
<1>1. CASE UNCHANGED vars
  BY <1>1, Stutter
<1>2. ASSUME NEW t \in Threads, CallPush(t) PROVE IInv'
  BY <1>2, CallPushStep
<1>3. ASSUME NEW t \in Threads, CallPop(t) PROVE IInv'
  BY <1>3, CallPopStep
<1>4. ASSUME NEW t \in Threads, Step(t) PROVE IInv'
  <2>1. CASE ReadTop(t) \/ Scan(t) \/ Check(t)
    BY <2>1, ReadTopStep, ScanStep, CheckStep
  <2>2. CASE PushCas(t) \/ TryAdd(t)
    BY <2>2, PushCasStep, TryAddStep
  <2>3. CASE CommitTaken(t) \/ CommitRemove(t) \/ CommitReadTop(t) \/ CommitBumpTop(t) \/ CommitUndo(t)
    BY <2>3, CommitTakenStep, CommitRemoveStep, CommitReadTopStep, CommitBumpTopStep, CommitUndoStep
  <2>4. CASE PopReadSegment(t) \/ PopCas(t) \/ PopEmpty(t)
    BY <2>4, PopReadSegmentStep, PopCasStep, PopEmptyStep
  <2>5. CASE IsEmpty(t) \/ IsEmptyRecord(t) \/ IsEmptyCompare(t)
    BY <2>5, IsEmptyStep, IsEmptyRecordStep, IsEmptyCompareStep
  <2>6. CASE TryRemoveCheck(t) \/ TryRemoveInc(t) \/ TryRemoveCas(t) \/ TryRemoveDec(t)
    BY <2>6, TryRemoveCheckStep, TryRemoveIncStep, TryRemoveCasStep, TryRemoveDecStep
  <2>7. CASE Return(t)
    BY <2>7, ReturnStep
  <2> QED BY <1>4, <2>1, <2>2, <2>3, <2>4, <2>5, <2>6, <2>7 DEF Step
<1> QED BY <1>1, <1>2, <1>3, <1>4 DEF Next

\* IInv is an inductive invariant: types; what each thread knows of the top and of
\* the slots it recorded; that an item is in one place; the removal counters; and
\* that an item whose push has returned is out of reach of every try_remove_ksegment
\* under way (Secured).
THEOREM Inductive ==
  ASSUME ~Reload
  PROVE  Spec => []IInv
<1>1. Init => IInv
  BY Initially
<1>2. IInv /\ [Next]_vars => IInv'
  BY NextStep
<1> QED BY <1>1, <1>2, PTL DEF Spec

\* try_remove_ksegment: the counter of a segment is the number of pops that are in
\* the middle of removing it, plus one once it is gone.
THEOREM RemoversCounted ==
  ASSUME ~Reload
  PROVE  Spec => []RemoveCounts
<1>1. IInv => RemoveCounts
  BY DEF IInv, CountInv, RemoveCounts, Linked
<1> QED BY <1>1, Inductive, PTL

LEMMA HeldVals ==
  \A x : x \in Held <=> x # Null /\ \E s \in Below, i \in Slots : Val(s, i) = x
BY DEF Held, Val

\* committed and try_remove_ksegment: no item is lost with a segment that is
\* removed, or popped twice.
THEOREM ItemsConserved ==
  ASSUME ~Reload
  PROVE  Spec => []Conserved
<1>1. IInv => Conserved
  <2> SUFFICES ASSUME IInv PROVE Conserved
    OBVIOUS
  <2>1. Below \subseteq Linked
    BY BelowFacts
  <2>2. done \subseteq Held \cup Hands \cup out
    BY HeldVals, CallHistoryAssumption DEF IInv, TypeOK, DoneInv, Secured, Safe, Gone
  <2>3. Held \cap (Hands \cup out) = {}
    BY <2>1, HeldVals DEF IInv, PlacesInv, Gone
  <2> QED BY <2>2, <2>3 DEF IInv, PlacesInv, Gone, Conserved, ConservedIn
<1> QED BY <1>1, Inductive, PTL

\* pop answers "empty" only if the stack was, at some instant of the call.
THEOREM EmptyAnswersTrue ==
  ASSUME ~Reload
  PROVE  Spec => []EmptyIsTrue
<1>1. IInv => EmptyIsTrue
  BY DEF IInv, EmptyInv, EmptyIsTrue
<1> QED BY <1>1, Inductive, PTL

-----------------------------------------------------------------------------
\* The k-out-of-order property.

\* A pop that is about to return an item: the items it has passed by are those
\* pushed after that item and before the call.
Passed(t) == {y \in start[t].done \cap Held : th[t].item \in older[y]}
PassInv(t) ==
  At(t, "return") /\ th[t].op = "get" /\ th[t].item # Null =>
    IsFiniteSet(Passed(t)) /\ Cardinality(Passed(t)) < K

\* What pop relies on: no item pushed before the call lies above the segment where it
\* is to swap a slot.
StartInv ==
  /\ start \in [Threads -> [done : SUBSET Items, late : SUBSET Items]]
  /\ \A t \in Threads : start[t].done \subseteq done
PopInv(t) ==
  th[t].pc = "O_cas" =>
    \A r \in Linked, j \in Slots : Val(r, j) \in start[t].done => r <= th[t].seg

OrderedInv == StartInv /\ \A t \in Threads : PopInv(t) /\ PassInv(t)

\* No step brings an item back, or moves it, whose push had returned.
DoneStay == \A s \in Linked', i \in Slots : Val(s, i)' \in done => s \in Linked /\ Val(s, i)' = Val(s, i)

LEMMA DoneStays ==
  ASSUME IInv, NEW t \in Threads, CallPush(t) \/ CallPop(t) \/ Step(t)
  PROVE  DoneStay
<1> USE DEF At
<1>1. CASE segs' = segs
  BY <1>1 DEF DoneStay, Val, Linked
<1>2. Null \notin done
  BY CallHistoryAssumption DEF IInv, TypeOK
<1>3. ASSUME NEW s \in Linked, NEW i \in Slots, NEW w \in Words, Writes(s, i, w), w.val \notin done
      PROVE  DoneStay
  <2>1. Written(s, i, w)
    BY <1>3, WriteEffect
  <2> QED BY <1>3, <2>1 DEF Written, DoneStay
<1>4. CASE TryAdd(t)
  <2> DEFINE g == NewSegment(top.seg)
  <2>1. segs \in Seq(Segments) /\ (segs' = segs \/ segs' = Append(segs, g))
    BY <1>4 DEF TryAdd, shared, IInv, TypeOK
  <2>2. \A i \in Slots : g.items[i].val = Null
    BY DEF NewSegment, Empty, Word
  <2>3. g \in Segments
    BY DEF NewSegment, Segments, Empty, Word, Words, IInv, TypeOK, TopWords
  <2> HIDE DEF g
  <2>4. \A s \in Linked' : (s \in Linked /\ segs'[s] = segs[s]) \/ segs'[s] = g
    BY <2>1, <2>3 DEF Linked
  <2> QED BY <1>2, <2>2, <2>4 DEF DoneStay, Val
<1>5. CASE TryRemoveInc(t) \/ TryRemoveDec(t)
  <2> DEFINE s == th[t].top.seg
             c == IF th[t].pc = "R_inc" THEN segs[s].remove + 1 ELSE segs[s].remove - 1
  <2>1. s \in Linked
    BY DEF IInv, ThreadInv
  <2>2. c \in Int
    BY <2>1, SegmentTyped
  <2>3. Counts(s, c)
    BY <1>5 DEF TryRemoveInc, TryRemoveDec, Counts
  <2> HIDE DEF s, c
  <2>4. Linked' = Linked /\ \A r \in Linked, i \in Slots : Kept(r, i)
    BY <2>1, <2>2, <2>3, CountEffect
  <2> QED BY <2>4 DEF DoneStay, Kept, Val
<1>6. CASE PushCas(t)
  <2> DEFINE s == th[t].top.seg
             i == th[t].index
  <2>1. /\ th[t].op = "put" /\ PutInv(t) /\ s \in Linked /\ i \in Slots
        /\ th[t].item \in Items /\ th[t].old \in Words
    BY <1>6 DEF PushCas, IInv, TypeOK, Locals, PcInv, ThreadInv, PushPcs
  <2>2. /\ NewItem(t) \in Words /\ NewItem(t).val = th[t].item /\ th[t].item \notin done
        /\ th[t].old.aba < NewItem(t).aba
    BY <2>1 DEF NewItem, Word, Words, PutInv
  <2>3. CASE Slot(t) = th[t].old
    <3>1. Writes(s, i, NewItem(t))
      BY <1>6, <2>2, <2>3 DEF PushCas, Writes, Slot
    <3> QED BY <1>3, <2>1, <2>2, <3>1
  <2> QED BY <1>1, <1>6, <2>3 DEF PushCas
<1>7. CASE CommitUndo(t)
  <2> DEFINE s == th[t].top.seg
             i == th[t].index
             w == Word(Null, NewItem(t).aba + 1)
  <2>1. s \in Linked /\ i \in Slots /\ th[t].old \in Words
    BY <1>7 DEF CommitUndo, IInv, TypeOK, Locals, ThreadInv, CommitPcs
  <2>2. w \in Words /\ w.val = Null /\ NewItem(t).aba < w.aba
    <3>1. NewItem(t).aba \in Nat
      BY <2>1 DEF NewItem, Word, Words
    <3> QED BY <3>1 DEF Word, Words
  <2>3. CASE Slot(t) = NewItem(t)
    <3>1. Writes(s, i, w)
      BY <1>7, <2>2, <2>3 DEF CommitUndo, Writes, Slot
    <3> QED BY <1>2, <1>3, <2>1, <2>2, <3>1
  <2> QED BY <1>1, <1>7, <2>3 DEF CommitUndo
<1>8. CASE PopCas(t)
  <2> DEFINE s == th[t].seg
             i == th[t].index
             w == Word(Null, th[t].old.aba + 1)
  <2>1. s \in Linked /\ i \in Slots /\ th[t].old \in Words
    BY <1>8 DEF PopCas, IInv, TypeOK, Locals, ThreadInv
  <2>2. w \in Words /\ w.val = Null /\ th[t].old.aba < w.aba
    BY <2>1 DEF Word, Words
  <2>3. CASE segs[s].items[i] = th[t].old
    <3>1. Writes(s, i, w)
      BY <1>8, <2>2, <2>3 DEF PopCas, Writes
    <3> QED BY <1>2, <1>3, <2>1, <2>2, <3>1
  <2> QED BY <1>1, <1>8, <2>3 DEF PopCas
<1>9. CASE \/ CallPush(t) \/ CallPop(t) \/ Return(t) \/ ReadTop(t) \/ Scan(t) \/ Check(t)
           \/ CommitTaken(t) \/ CommitRemove(t) \/ CommitReadTop(t) \/ PopReadSegment(t)
           \/ PopEmpty(t) \/ IsEmpty(t) \/ IsEmptyRecord(t) \/ IsEmptyCompare(t) \/ TryRemoveCheck(t)
  <2>1. Local(t)
    BY <1>9 DEF CallPush, CallPop, Return, ReadTop, Scan, Check, CommitTaken, CommitRemove,
       CommitReadTop, PopReadSegment, PopEmpty, IsEmpty, IsEmptyRecord, IsEmptyCompare,
       TryRemoveCheck
  <2> QED BY <1>1, <2>1 DEF Local, shared
<1>10. CASE CommitBumpTop(t) \/ TryRemoveCas(t)
  BY <1>1, <1>10 DEF CommitBumpTop, TryRemoveCas
<1> QED BY <1>4, <1>5, <1>6, <1>7, <1>8, <1>9, <1>10 DEF Step

LEMMA DoneNotBack ==
  ASSUME IInv, DoneStay
  PROVE  done \cap Held' \subseteq Held
<1> SUFFICES ASSUME NEW x \in done, x \in Held' PROVE x \in Held
  OBVIOUS
<1>1. Below' \subseteq Linked'
  BY DEF Below, Linked
<1>2. PICK s \in Linked', i \in Slots : Val(s, i)' = x /\ x # Null
  BY <1>1 DEF Held, Val
<1>3. s \in Linked /\ Val(s, i) = x
  BY <1>2 DEF DoneStay
<1>4. s \in Below
  BY <1>3, DoneBelow
<1> QED BY <1>2, <1>3, <1>4, HeldVals

\* A step of t is t's own; but for the swap in pop none gets an item.
OwnStep(t) ==
  /\ Others(t)
  /\ th'[t].op \in {th[t].op, "none"}
  /\ th'[t].pc = "return" => th[t].pc # "return" /\ th'[t].op = th[t].op /\ th'[t].item = th[t].item
  /\ th'[t].pc # "O_cas"

LEMMA OwnMove ==
  ASSUME IInv, NEW t \in Threads, th[t].pc # "return", NEW label \in Pcs, label # "O_cas",
         Goto(t, label) \/ Finish(t, label)
  PROVE  OwnStep(t)
<1>1. CASE Goto(t, label)
  BY <1>1, GotoEffect DEF OwnStep, InCall
<1>2. CASE Finish(t, label)
  BY <1>2, FinishEffect DEF OwnStep, InCall
<1> QED BY <1>1, <1>2

LEMMA OwnSteps ==
  ASSUME ~Reload, IInv, NEW t \in Threads, Step(t), ~PopCas(t), ~PopReadSegment(t)
  PROVE  OwnStep(t)
<1>1. th \in [Threads -> Locals] /\ th[t] \in Locals
  BY DEF IInv, TypeOK
<1> USE DEF At
<1> DEFINE Labels == {"top", "return", "P_cas", "P_add", "O_segment", "is_empty", "R_check", "R_inc",
                      "R_dec", "C_slot", "C_remove", "C_top", "C_bump", "C_undo"}
<1>2. Labels \subseteq Pcs /\ "O_cas" \notin Labels
  BY DEF Pcs, SearchPcs, PushPcs, CommitPcs, PopPcs, RemovePcs, EmptyPcs
<1>3. ASSUME NEW label \in Labels, Goto(t, label) \/ Finish(t, label), th[t].pc # "return"
      PROVE  OwnStep(t)
  BY <1>2, <1>3, OwnMove
<1>4. CASE Check(t)
  <2>1. PICK label \in Labels : Goto(t, label) \/ Finish(t, label)
    <3>1. Proceed(t) \in Labels
      BY DEF Proceed
    <3>2. Goto(t, Proceed(t)) \/ Finish(t, "top")
      BY <1>4 DEF Check
    <3> QED BY <3>1, <3>2
  <2> QED BY <1>3, <1>4, <2>1 DEF Check
<1>5. CASE PushCas(t) \/ TryAdd(t)
  <2>1. Goto(t, "C_slot") \/ Finish(t, "top")
    BY <1>5 DEF PushCas, TryAdd
  <2> QED BY <1>3, <1>5, <2>1 DEF PushCas, TryAdd
<1>6. CASE CommitTaken(t) \/ CommitBumpTop(t) \/ CommitUndo(t)
  <2>1. Goto(t, "C_remove") \/ Finish(t, "return") \/ Goto(t, "C_undo") \/ Finish(t, "top")
    BY <1>6 DEF CommitTaken, CommitBumpTop, CommitUndo
  <2> QED BY <1>3, <1>6, <2>1 DEF CommitTaken, CommitBumpTop, CommitUndo
<1>7. CASE CommitRemove(t) \/ CommitReadTop(t)
  <2>1. Goto(t, "C_top") \/ Finish(t, "return") \/ Finish(t, "top") \/ Goto(t, "C_bump") \/ Goto(t, "C_undo")
    BY <1>7 DEF CommitRemove, CommitReadTop, Goto, Finish
  <2>2. th[t].pc # "return"
    BY <1>7 DEF CommitRemove, CommitReadTop
  <2> QED BY <1>3, <2>1, <2>2
<1>8. CASE PopEmpty(t)
  <2>1. Finish(t, "return") \/ Finish(t, "top")
    BY <1>8 DEF PopEmpty, Finish
  <2> QED BY <1>3, <1>8, <2>1 DEF PopEmpty
<1>9. CASE TryRemoveCheck(t) \/ TryRemoveInc(t) \/ TryRemoveCas(t) \/ TryRemoveDec(t)
  <2>1. Goto(t, "R_inc") \/ Finish(t, "top") \/ Goto(t, "is_empty") \/ Goto(t, "R_dec")
    BY <1>9 DEF TryRemoveCheck, TryRemoveInc, TryRemoveCas, TryRemoveDec, Removed
  <2>2. th[t].pc # "return"
    BY <1>9 DEF TryRemoveCheck, TryRemoveInc, TryRemoveCas, TryRemoveDec
  <2> QED BY <1>3, <2>1, <2>2
<1>10. CASE ReadTop(t)
  <2>1. PICK random \in Slots :
          th' = [th EXCEPT ![t].pc = "scan", ![t].top = top,
                           ![t].index = random, ![t].left = SegmentSize]
    BY <1>10 DEF ReadTop
  <2> QED BY <1>1, <2>1 DEF OwnStep, Others, Locals
<1>11. CASE Scan(t)
  BY <1>1, <1>11 DEF Scan, OwnStep, Others, Locals
<1>12. CASE IsEmpty(t)
  <2>1. PICK random \in Slots :
          th' = [th EXCEPT ![t].pc = "record", ![t].index = random, ![t].left = SegmentSize]
    BY <1>12 DEF IsEmpty
  <2> QED BY <1>1, <2>1 DEF OwnStep, Others, Locals
<1>13. CASE (IsEmptyRecord(t) \/ IsEmptyCompare(t)) /\ NotEmpty(t)
  <2>1. (Finish(t, "top") \/ Goto(t, "R_dec")) /\ th[t].pc # "return"
    BY <1>13 DEF NotEmpty, IsEmptyRecord, IsEmptyCompare
  <2> QED BY <1>3, <2>1
<1>14. CASE IsEmptyRecord(t) /\ ~NotEmpty(t)
  <2> DEFINE n == NextSlot(t, "compare")
  <2>1. n \in Locals /\ n.op = th[t].op /\ n.pc \in {"record", "compare"}
    BY <1>14, NextSlotTyped DEF IsEmptyRecord, Pcs, EmptyPcs
  <2>2. th' = [th EXCEPT ![t] = [n EXCEPT !.rec[th[t].index] = Slot(t)]]
    BY <1>14 DEF IsEmptyRecord
  <2> HIDE DEF n
  <2>3. Others(t) /\ th'[t].op = n.op /\ th'[t].pc = n.pc
    BY <1>1, <2>1, <2>2 DEF Others, Locals
  <2> QED BY <2>1, <2>3 DEF OwnStep
<1>15. CASE IsEmptyCompare(t) /\ ~NotEmpty(t)
  <2> DEFINE last == IF LastOne(t) THEN "O_empty" ELSE "R_cas"
             n == NextSlot(t, last)
  <2>1. last \in Pcs /\ last \in {"O_empty", "R_cas"}
    BY DEF Pcs, PopPcs, RemovePcs
  <2>2. th' = [th EXCEPT ![t] = n] /\ th[t].pc = "compare"
    BY <1>15 DEF IsEmptyCompare
  <2> HIDE DEF last
  <2>3. n \in Locals /\ n.op = th[t].op /\ n.pc \in {"compare", "O_empty", "R_cas"}
    BY <2>1, <2>2, NextSlotTyped
  <2> HIDE DEF n
  <2> QED BY <1>1, <2>2, <2>3 DEF OwnStep, Others
<1>16. CASE Return(t)
  <2>1. Idle.op = "none" /\ Idle.pc = "idle"
    BY DEF Idle
  <2> QED BY <1>1, <1>16, <2>1 DEF Return, OwnStep, Others
<1> QED BY <1>4, <1>5, <1>6, <1>7, <1>8, <1>9, <1>10, <1>11, <1>12, <1>13, <1>14, <1>15, <1>16 DEF Step

\* A call begins, or goes on.
LEMMA Calling ==
  ASSUME IInv, NEW t \in Threads, CallPush(t) \/ CallPop(t) \/ Step(t)
  PROVE  /\ \E held : Observe(t, held)
         /\ th[t].op = "none" => CallPush(t) \/ CallPop(t)
<1>1. \E held : Observe(t, held)
  BY DEF Step, Local, CallPush, CallPop, ReadTop, Scan, Check, PushCas, TryAdd, CommitTaken,
     CommitRemove, CommitReadTop, CommitBumpTop, CommitUndo, PopReadSegment, PopCas, PopEmpty,
     IsEmpty, IsEmptyRecord, IsEmptyCompare, TryRemoveCheck, TryRemoveInc, TryRemoveCas,
     TryRemoveDec, Return
<1>2. Step(t) => th[t].pc # "idle"
  BY DEF At, Step, ReadTop, Scan, Check, PushCas, TryAdd, CommitTaken,
     CommitRemove, CommitReadTop, CommitBumpTop, CommitUndo, PopReadSegment, PopCas, PopEmpty,
     IsEmpty, IsEmptyRecord, IsEmptyCompare, TryRemoveCheck, TryRemoveInc, TryRemoveCas,
     TryRemoveDec, Return
<1> QED BY <1>1, <1>2 DEF IInv, PcInv

LEMMA CallEffect ==
  ASSUME IInv, NEW t \in Threads, CallPush(t) \/ CallPop(t)
  PROVE  /\ Others(t) /\ th'[t].pc = "top" /\ th'[t].op \in {"put", "get"}
         /\ th'[t].op = "put" => th'[t].item \notin done
<1>1. th \in [Threads -> Locals]
  BY DEF IInv, TypeOK
<1>2. CASE CallPush(t)
  <2>1. PICK x \in Fresh :
          th' = [th EXCEPT ![t] = [Idle EXCEPT !.pc = "top", !.op = "put", !.item = x]]
    BY <1>2 DEF CallPush
  <2> DEFINE r == [Idle EXCEPT !.pc = "top", !.op = "put", !.item = x]
  <2>2. r.pc = "top" /\ r.op = "put" /\ r.item = x
    BY IdleTyped DEF Locals
  <2> HIDE DEF r
  <2>3. th'[t] = r /\ Others(t)
    BY <1>1, <2>1 DEF Others, r
  <2> QED BY <2>2, <2>3 DEF Fresh, Begun
<1>3. CASE CallPop(t)
  <2> DEFINE r == [Idle EXCEPT !.pc = "top", !.op = "get"]
  <2>1. r.pc = "top" /\ r.op = "get"
    BY IdleTyped DEF Locals
  <2>2. th' = [th EXCEPT ![t] = r]
    BY <1>3 DEF CallPop
  <2> HIDE DEF r
  <2> QED BY <1>1, <2>1, <2>2 DEF Others
<1> QED BY <1>2, <1>3

\* What a pop recalls of the items done before it stays, and so does what an item
\* done is newer than.
LEMMA Recalled ==
  ASSUME Order = "klifo", IInv, IInv', StartInv,
         NEW t \in Threads, CallPush(t) \/ CallPop(t) \/ Step(t)
  PROVE  /\ StartInv'
         /\ \A u \in Threads :
              u # t \/ (th[t].op # "none" /\ th'[t].op # "none") => start'[u] = start[u]
         /\ \A y \in done : older'[y] = older[y]
<1>1. PICK held : Observe(t, held)
  BY Calling
<1>2. done \subseteq done' /\ done' \subseteq Items
  BY <1>1 DEF Observe, IInv, TypeOK
<1>3. \/ start' = start
      \/ start' = [start EXCEPT ![t] = Memo] /\ th[t].op = "none"
      \/ start' = [start EXCEPT ![t] = NoMemo] /\ th'[t].op = "none"
  BY <1>1 DEF Observe
<1>4. Memo \in [done : SUBSET Items, late : SUBSET Items] /\ Memo.done = done
  BY DEF Memo, Strict, IInv, TypeOK
<1>5. NoMemo \in [done : SUBSET Items, late : SUBSET Items] /\ NoMemo.done = {}
  BY DEF NoMemo
<1> HIDE DEF Memo, NoMemo
<1>6. StartInv'
  <2>1. start' \in [Threads -> [done : SUBSET Items, late : SUBSET Items]]
    BY <1>3, <1>4, <1>5 DEF StartInv
  <2>2. ASSUME NEW u \in Threads PROVE start'[u].done \subseteq done'
    BY <1>2, <1>3, <1>4, <1>5 DEF StartInv
  <2> QED BY <2>1, <2>2 DEF StartInv
<1>7. \A u \in Threads : u # t \/ (th[t].op # "none" /\ th'[t].op # "none") => start'[u] = start[u]
  BY <1>3 DEF StartInv
<1>8. ASSUME NEW y \in done PROVE older'[y] = older[y]
  <2>1. CASE th[t].op # "none" \/ th'[t].op # "put"
    BY <1>1, <2>1 DEF Observe
  <2>2. CASE th[t].op = "none" /\ th'[t].op = "put"
    <3>1. th'[t].item # y /\ older \in [Items -> SUBSET Items]
      BY <2>2, Calling, CallEffect DEF IInv, TypeOK
    <3>2. older' = [older EXCEPT ![th'[t].item] = done]
      BY <1>1, <2>2 DEF Observe
    <3> QED BY <1>2, <3>1, <3>2
  <2> QED BY <2>1, <2>2
<1> QED BY <1>6, <1>7, <1>8

\* The other threads stay where they are.
LEMMA Alone ==
  ASSUME ~Reload, IInv, NEW t \in Threads, CallPush(t) \/ CallPop(t) \/ Step(t)
  PROVE  Others(t)
<1>1. CASE CallPush(t) \/ CallPop(t)
  BY <1>1, CallEffect
<1>2. CASE PopCas(t) \/ PopReadSegment(t)
  BY <1>2 DEF PopCas, PopReadSegment, Finish, Others, IInv, TypeOK
<1>3. CASE Step(t) /\ ~PopCas(t) /\ ~PopReadSegment(t)
  BY <1>3, OwnSteps DEF OwnStep
<1> QED BY <1>1, <1>2, <1>3

LEMMA PopStep ==
  ASSUME ~Reload, Order = "klifo", IInv, IInv', OrderedInv,
         NEW t \in Threads, CallPush(t) \/ CallPop(t) \/ Step(t), NEW u \in Threads
  PROVE  PopInv(u)'
<1> SUFFICES ASSUME th'[u].pc = "O_cas" PROVE PopInv(u)'
  BY DEF PopInv
<1>1. /\ StartInv /\ DoneStay /\ Others(t)
      /\ \A v \in Threads :
           v # t \/ (th[t].op # "none" /\ th'[t].op # "none") => start'[v] = start[v]
  BY Recalled, DoneStays, Alone DEF OrderedInv
<1>2. CASE u # t
  <2>1. th'[u] = th[u] /\ start'[u] = start[u] /\ start[u].done \subseteq done /\ PopInv(u)
    BY <1>1, <1>2 DEF Others, StartInv, OrderedInv
  <2>2. ASSUME NEW r \in Linked', NEW j \in Slots, Val(r, j)' \in start[u].done
        PROVE  r <= th[u].seg
    <3>1. r \in Linked /\ Val(r, j) = Val(r, j)'
      BY <1>1, <2>1, <2>2 DEF DoneStay
    <3> QED BY <2>1, <2>2, <3>1 DEF PopInv
  <2> QED BY <2>1, <2>2 DEF PopInv
<1>3. CASE u = t
  <2>1. ~(CallPush(t) \/ CallPop(t))
    BY <1>3, CallEffect
  <2>2. ~PopCas(t)
    <3> SUFFICES ASSUME PopCas(t) PROVE FALSE
      OBVIOUS
    <3>1. th[t] \in Locals /\ th \in [Threads -> Locals]
      BY DEF IInv, TypeOK
    <3>2. /\ Idling(t, "return") \in Locals /\ Idling(t, "return").pc = "return"
          /\ Idling(t, "top").pc = "top"
      BY <3>1, IdlingTyped DEF Pcs, SearchPcs
    <3>3. \/ th' = [th EXCEPT ![t] = [Idling(t, "return") EXCEPT !.item = th[t].old.val]]
          \/ th' = [th EXCEPT ![t] = Idling(t, "top")]
      BY DEF PopCas, Finish
    <3> HIDE DEF Idling
    <3>4. th'[t].pc \in {"return", "top"}
      BY <3>1, <3>2, <3>3 DEF Locals
    <3> QED BY <1>3, <3>4
  <2>3. PopReadSegment(t)
    BY <1>3, <2>1, <2>2, OwnSteps DEF OwnStep
  <2>4. th'[t].seg = top.seg /\ th'[t].op = "get" /\ th[t].op = "get" /\ segs' = segs
    <3>1. th[t].op = "get" /\ th[t] \in Locals /\ th \in [Threads -> Locals]
      BY <2>3 DEF PopReadSegment, At, IInv, TypeOK, PcInv, PopPcs
    <3> QED BY <2>3, <3>1 DEF PopReadSegment, Local, shared, Locals
  <2>5. start'[t] = start[t] /\ start[t].done \subseteq done
    BY <1>1, <2>4 DEF StartInv
  <2>6. \A r \in Linked, j \in Slots : Val(r, j) \in done => r <= top.seg
    BY DoneBelow
  <2> QED BY <1>3, <2>4, <2>5, <2>6 DEF PopInv, Linked, Val
<1> QED BY <1>2, <1>3

\* The pop has just swapped the item out of its slot: the items it passes by are in
\* the other slots of the segment.
LEMMA FewPassedAtCas ==
  ASSUME Order = "klifo", IInv, IInv', OrderedInv, NEW t \in Threads, PopCas(t), Step(t),
         th'[t].pc = "return", th'[t].item # Null
  PROVE  PassInv(t)'
<1> DEFINE s == th[t].seg
           i == th[t].index
           x == th'[t].item
           w == Word(Null, th[t].old.aba + 1)
<1>1. /\ th[t] \in Locals /\ th \in [Threads -> Locals] /\ th[t].op = "get" /\ th[t].pc = "O_cas"
      /\ s \in Linked /\ i \in Slots /\ th[t].old \in Words
      /\ th[t].old.val \in Items /\ th[t].old.val # Null
  BY DEF PopCas, At, IInv, TypeOK, Locals, PcInv, ThreadInv, PopPcs, Words
<1>2. segs[s].items[i] = th[t].old
  <2> SUFFICES ASSUME segs[s].items[i] # th[t].old PROVE FALSE
    OBVIOUS
  <2>1. Finish(t, "top")
    BY DEF PopCas
  <2>2. th'[t].pc = "top"
    BY <2>1, FinishEffect DEF Pcs, SearchPcs
  <2> QED BY <2>2
<1>3. /\ segs' = [segs EXCEPT ![s].items[i] = w]
      /\ th' = [th EXCEPT ![t] = [Idling(t, "return") EXCEPT !.item = th[t].old.val]]
      /\ top' = top /\ Observe(t, Held')
  BY <1>1, <1>2 DEF PopCas
<1>4. th'[t].item = th[t].old.val /\ th'[t].op = "get"
  <2>1. /\ Idling(t, "return") \in Locals /\ Idling(t, "return").op = th[t].op
    BY <1>1, IdlingTyped DEF Pcs
  <2> HIDE DEF Idling
  <2> QED BY <1>1, <1>3, <2>1 DEF Locals
<1>5. Val(s, i) = x /\ x # Null /\ x \in Items
  BY <1>1, <1>2, <1>4 DEF Val
<1>6. /\ start'[t] = start[t] /\ start[t].done \subseteq done
      /\ \A y \in done : older'[y] = older[y]
  BY <1>1, <1>4, Recalled DEF OrderedInv, StartInv
<1>7. \A r \in Linked, j \in Slots : Val(r, j) \in start[t].done => r <= s
  BY <1>1 DEF OrderedInv, PopInv
<1> HIDE DEF s, i, x, w
<1>8. Linked' = Linked /\ \A q \in Linked, j \in Slots : Val(q, j)' = IF q = s /\ j = i THEN Null ELSE Val(q, j)
  <2>1. w \in Words /\ w.val = Null /\ th[t].old.aba < w.aba
    BY <1>1 DEF Word, Words, w
  <2>2. Writes(s, i, w)
    BY <1>2, <1>3, <2>1 DEF Writes
  <2>3. Written(s, i, w)
    BY <1>1, <2>1, <2>2, WriteEffect
  <2> QED BY <2>1, <2>3 DEF Written
<1> DEFINE passed == Passed(t)'
           others == Slots \ {i}
           f == [j \in others |-> Val(s, j)]
           R == {f[j] : j \in others}
<1>9. passed \subseteq R
  <2> SUFFICES ASSUME NEW y \in passed PROVE y \in R
    OBVIOUS
  <2>1. y \in start[t].done /\ y \in Held' /\ x \in older[y]
    BY <1>6 DEF Passed, x
  <2>2. PICK q \in Linked, j \in Slots : Val(q, j)' = y /\ y # Null
    <3>1. Below' \subseteq Linked'
      BY DEF Below, Linked
    <3> QED BY <1>8, <2>1, <3>1 DEF Held, Val
  <2>3. Val(q, j) = y /\ ~(q = s /\ j = i)
    BY <1>8, <2>2
  <2>4. s <= q
    BY <1>1, <1>5, <2>1, <2>2, <2>3 DEF IInv, OrderInv
  <2>5. q <= s
    BY <1>7, <2>1, <2>3
  <2>6. q \in Nat /\ s \in Nat
    BY <1>1 DEF Linked
  <2>7. q = s
    BY <2>4, <2>5, <2>6
  <2> QED BY <2>3, <2>7
<1>10. IsFiniteSet(others) /\ Cardinality(others) = K - 1
  <2>1. K \in Nat \ {0} /\ Slots = 0 .. K-1
    BY KStackAssumption DEF Slots, SegmentSize
  <2>2. IsFiniteSet(Slots) /\ Cardinality(Slots) = K
    <3>1. /\ IsFiniteSet(0 .. K-1)
          /\ Cardinality(0 .. K-1) = IF 0 > K-1 THEN 0 ELSE (K-1) - 0 + 1
      BY <2>1, FS_Interval
    <3> QED BY <2>1, <3>1
  <2>3. /\ IsFiniteSet(Slots \ {i})
        /\ Cardinality(Slots \ {i}) = IF i \in Slots THEN Cardinality(Slots) - 1 ELSE Cardinality(Slots)
    BY <2>2, FS_RemoveElement
  <2> QED BY <1>1, <2>2, <2>3
<1>11. IsFiniteSet(R) /\ Cardinality(R) <= K - 1
  <2>1. f \in Surjection(others, R)
    BY DEF Surjection
  <2> QED BY <1>10, <2>1, FS_Surjection
<1>12. IsFiniteSet(passed) /\ Cardinality(passed) <= Cardinality(R)
  BY <1>9, <1>11, FS_Subset
<1>13. Cardinality(passed) \in Nat /\ Cardinality(R) \in Nat
  BY <1>11, <1>12, FS_CardinalityType
<1>14. Cardinality(passed) < K
  BY <1>11, <1>12, <1>13, KStackAssumption
<1> QED BY <1>12, <1>14 DEF PassInv

LEMMA PassStep ==
  ASSUME ~Reload, Order = "klifo", IInv, IInv', OrderedInv,
         NEW t \in Threads, CallPush(t) \/ CallPop(t) \/ Step(t), NEW u \in Threads
  PROVE  PassInv(u)'
<1> SUFFICES ASSUME th'[u].pc = "return", th'[u].op = "get", th'[u].item # Null
             PROVE  PassInv(u)'
  BY DEF PassInv, At
<1>1. /\ StartInv /\ DoneStay /\ Others(t)
      /\ \A v \in Threads :
           v # t \/ (th[t].op # "none" /\ th'[t].op # "none") => start'[v] = start[v]
      /\ \A y \in done : older'[y] = older[y]
  BY Recalled, DoneStays, Alone DEF OrderedInv
<1>2. CASE u # t
  <2>1. th'[u] = th[u] /\ start'[u] = start[u] /\ start[u].done \subseteq done
    BY <1>1, <1>2 DEF Others, StartInv
  <2>2. IsFiniteSet(Passed(u)) /\ Cardinality(Passed(u)) < K
    BY <2>1 DEF OrderedInv, PassInv, At
  <2>3. Passed(u)' \subseteq Passed(u)
    BY <1>1, <2>1, DoneNotBack DEF Passed
  <2>4. /\ IsFiniteSet(Passed(u)') /\ Cardinality(Passed(u)') <= Cardinality(Passed(u))
        /\ Cardinality(Passed(u)') \in Nat /\ Cardinality(Passed(u)) \in Nat
    BY <2>2, <2>3, FS_Subset, FS_CardinalityType
  <2>5. Cardinality(Passed(u)') < K
    BY <2>2, <2>4, KStackAssumption
  <2> QED BY <2>4, <2>5 DEF PassInv
<1>3. CASE u = t
  <2>1. ~(CallPush(t) \/ CallPop(t))
    BY <1>3, CallEffect
  <2>2. CASE PopCas(t)
    BY <1>3, <2>1, <2>2, FewPassedAtCas
  <2>3. CASE PopReadSegment(t)
    <3>1. th'[t].pc = "O_cas"
      BY <2>3 DEF PopReadSegment, IInv, TypeOK, Locals
    <3> QED BY <1>3, <3>1
  <2>4. CASE ~PopCas(t) /\ ~PopReadSegment(t)
    \* A pop before its return has no item.
    BY <1>3, <2>1, <2>4, OwnSteps DEF OwnStep, IInv, PcInv
  <2> QED BY <2>2, <2>3, <2>4
<1> QED BY <1>2, <1>3

\* pop returns an item that passes by fewer than k items in the stack that were pushed
\* after it and before the call, whatever pushes, pops, failed commits and removals
\* are under way.
THEOREM KOutOfOrderHolds ==
  ASSUME ~Reload, Order = "klifo"
  PROVE  Spec => []KOutOfOrder
<1>1. Init => OrderedInv
  <2> SUFFICES ASSUME Init PROVE OrderedInv
    OBVIOUS
  <2>1. StartInv
    BY DEF Init, HistoryInit, StartInv, NoMemo
  <2>2. \A t \in Threads : th[t].pc = "idle"
    BY DEF Init, Idle
  <2> QED BY <2>1, <2>2 DEF OrderedInv, PopInv, PassInv, At
<1>2. IInv /\ IInv' /\ OrderedInv /\ [Next]_vars => OrderedInv'
  <2> SUFFICES ASSUME IInv, IInv', OrderedInv, [Next]_vars PROVE OrderedInv'
    OBVIOUS
  <2>1. CASE UNCHANGED vars
    <3>1. UNCHANGED <<th, segs, top, start, older, done>>
      BY <2>1 DEF vars, shared, history
    <3>2. Held' = Held /\ Linked' = Linked
      BY <3>1 DEF Held, Below, Downward, Linked
    <3> QED BY <3>1, <3>2 DEF OrderedInv, StartInv, PopInv, PassInv, Passed, At, Val
  <2>2. ASSUME NEW t \in Threads, CallPush(t) \/ CallPop(t) \/ Step(t) PROVE OrderedInv'
    <3>1. StartInv'
      BY <2>2, Recalled DEF OrderedInv
    <3>2. \A u \in Threads : PopInv(u)' /\ PassInv(u)'
      BY <2>2, PopStep, PassStep
    <3> QED BY <3>1, <3>2 DEF OrderedInv
  <2> QED BY <2>1, <2>2 DEF Next
<1>3. OrderedInv => KOutOfOrder
  BY DEF OrderedInv, PassInv, Passed, KOutOfOrder, PassedBy
<1> QED BY <1>1, <1>2, <1>3, Inductive, PTL DEF Spec
=============================================================================
