--------------------------- MODULE TSStackProofs ---------------------------
(***************************************************************************)
(* Proofs about TSStack for every set of threads, every finite set of      *)
(* items and each class of timestamps: first of the lists, then of the     *)
(* stamps, then of what a pop knows of both.                               *)
(***************************************************************************)
EXTENDS TSStack, FiniteSetTheorems, TLAPS

Buffers == Threads \cup {Entry}

\* Where a thread may be: a push before and after its item is in the list, and a
\* pop, in a round over the buffers or not.
PushPcs == {"register", "I_walk", "I_list"}
StampPcs == {"S_read", "S_clock", "S_store"}
LookPcs == {"list", "walk", "stamp", "eliminate"}
RoundPcs == LookPcs \cup {"entry", "top"}
PopPcs == RoundPcs \cup {"time", "start", "take", "adjust"}
Pcs == {"idle", "return"} \cup PushPcs \cup StampPcs \cup PopPcs

Words == [item : Items \cup {Null}, aba : Int]
Bests == [item : Items \cup {Null}, buf : Buffers, top : Words, stamp : Nat \X Nat]
Locals == [pc : Pcs, op : {"none", "put", "get"}, item : Items \cup {Null}, now : Nat,
           i : Nat, stamp : Nat \X Nat, cur : Buffers, start : Buffers, top : Words,
           cand : Items \cup {Null}, again : BOOLEAN, best : Bests, empty : BOOLEAN]

TypeOK ==
  /\ kind \in Kinds /\ clock \in Nat
  /\ clocks \in [Threads -> Nat] /\ ts \in [Items -> Nat \X Nat]
  /\ link \in [Buffers -> Buffers] /\ list \in [Threads -> Words]
  /\ next \in [Items -> Items \cup {Null}] /\ taken \in SUBSET Items
  /\ seen \in [Threads -> [Threads -> Words]]
  /\ th \in [Threads -> Locals]
  /\ done \in SUBSET Items /\ out \in SUBSET Items
  /\ older \in [Items -> SUBSET Items]
  /\ late \in SUBSET Items
  /\ start \in [Threads -> [done : SUBSET Items, late : SUBSET Items]]
  /\ sight \in [Threads -> BOOLEAN]

\* The program counter, the operation and the item agree, and so does the index of
\* the clock, or part of a timestamp, that is next.
PcInv(t) ==
  LET r == th[t] IN
  /\ (r.op = "none") <=> (r.pc = "idle")
  /\ r.op = "put" => r.pc \in PushPcs \cup StampPcs \cup {"return"} /\ r.item \in Items
  /\ r.op = "get" => r.pc \in PopPcs \cup {"return"}
  /\ r.op # "put" /\ r.pc \notin {"adjust", "return"} => r.item = Null
  /\ r.pc = "adjust" => r.item \in Items
  /\ r.pc = "S_clock" => kind = "stutter"
  /\ r.i # 0 => \/ kind = "stutter" /\ r.pc \in {"time", "S_read"} /\ r.i < NumThreads
                \/ kind = "interval" /\ r.pc \in {"S_read", "S_store", "stamp"} /\ r.i = 1

-----------------------------------------------------------------------------
\* Items.

\* The items that are, or were, in a list.
Linked(t) == th[t].op = "put" /\ th[t].pc \notin PushPcs
Inserted == done \cup {th[t].item : t \in {u \in Threads : Linked(u)}}

Putting(t) == th[t].op = "put"

PlacesInv ==
  /\ \A t, u \in Threads : t # u /\ Putting(t) /\ Putting(u) => th[t].item # th[u].item
  /\ \A t \in Threads : Putting(t) => th[t].item \notin done
  /\ taken = Hands \cup out
  /\ Hands \cap out = {}
  /\ \A t, u \in Threads : t # u => InHand(t) \cap InHand(u) = {}
  /\ taken \subseteq Inserted

\* What was put before: whoever puts an item or has put it.
OlderInv ==
  /\ \A x \in done : older[x] \subseteq done
  /\ \A t \in Threads : Putting(t) => older[th[t].item] \subseteq done

\* A list leads only to items inserted, and of them older ones first; no item that
\* is not taken is lost.
ListInv ==
  /\ \A x \in Inserted : next[x] \in Inserted \cup {Null} /\ Chain(next[x]) \subseteq older[x]
  /\ \A b \in Threads : list[b].item \in Inserted \cup {Null}
  /\ \A x \in Inserted \ taken : \E b \in Threads : x \in Chain(list[b].item)

\* What thread b has put so far.
Ours(b) ==
  IF Putting(b) THEN older[th[b].item] \cup (IF Linked(b) THEN {th[b].item} ELSE {}) ELSE done

\* x is from the list of b, which still has what is not taken of the items from x on.
Known(b, x) ==
  /\ x \in Inserted \cup {Null}
  /\ Chain(x) \ taken \subseteq Chain(list[b].item)
  /\ Chain(x) \subseteq Ours(b)

\* The list may be cut from w to x.
Cuttable(w, x) == w.item \in Inserted \cup {Null} /\ Chain(w.item) \ taken \subseteq Chain(x)

Registered == After(Entry)

\* What a thread remembers.
BestInv(best) ==
  best # NoBest => /\ best.item \in Items /\ best.buf \in Registered
                   /\ Known(best.buf, best.item) /\ Cuttable(best.top, best.item)

RememberInv(t) ==
  LET r == th[t] IN
  /\ r.pc = "I_list" =>
       /\ next[r.item] \in Inserted \cup {Null}
       /\ Chain(list[t].item) \ taken \subseteq Chain(next[r.item])
       /\ Chain(next[r.item]) \subseteq older[r.item]
  /\ r.pc = "list" => Cuttable(r.top, list[r.cur].item)
  /\ r.pc \in {"walk", "stamp", "eliminate"} => Known(r.cur, r.cand) /\ Cuttable(r.top, r.cand)
  /\ r.pc \in {"stamp", "eliminate"} => r.cand \in Items
  /\ BestInv(r.best)
  /\ r.pc = "take" => r.best # NoBest
  /\ r.pc = "adjust" => r.cur \in Registered /\ Known(r.cur, r.item) /\ Cuttable(r.top, r.item)

-----------------------------------------------------------------------------
\* The ring.

RingInv ==
  /\ \A b \in Threads : b \notin Registered => link[b] = b /\ list[b].item = Null
  /\ \A b \in Registered : b \notin After(b)
  /\ \A b \in Threads : Chain(list[b].item) \subseteq Ours(b)
  /\ \A t \in Threads : Putting(t) => (th[t].pc = "register" <=> t \notin Registered)

RoundInv(t) ==
  LET r == th[t] IN
  /\ r.pc \in RoundPcs => r.start \in Registered \cup {Entry}
  /\ r.pc \in LookPcs \cup {"top"} => r.cur \in Registered
  /\ r.pc = "entry" => r.cur = Entry /\ r.start # Entry

\* The buffers that a round that started at s has yet to visit after b, and those that
\* a thread with the locals r has.
Rest(s, b) ==
  IF s # Entry /\ b \notin After(s) THEN After(b) \ After(s)
  ELSE After(b) \cup (IF s = Entry THEN {} ELSE Registered \ After(s))

Left(r) ==
  CASE r.pc = "top" -> {r.cur} \cup Rest(r.start, r.cur)
    [] r.pc \in LookPcs -> Rest(r.start, r.cur)
    [] r.pc = "entry" -> Registered \ After(r.start)
    [] OTHER -> {}

\* The list of b leads into D, items of which all are taken, no more.
Buried(b, D) ==
  /\ list[b].item \notin D \cup {Null}
  /\ \A t \in Threads : th[t].pc = "adjust" /\ th[t].cur = b /\ th[t].item \in D
                        => th[t].top.item \in D \cup {Null}

SeenInv == \A t, b \in Threads : seen[t][b].item \in Inserted \cup {Null}
                                 /\ Chain(seen[t][b].item) \subseteq taken

\* A round that found nothing so far, in a pop that did not see the stack empty, is
\* going to find something: a list that is not what it was when it was empty.
Finds(t, S) ==
  \E b \in S : \E D \in SUBSET taken : Buried(b, D) /\ seen[t][b].item \in D \cup {Null}
WillFind(t) ==
  \/ th[t].pc \in {"list", "walk"} /\ th[t].top # seen[t][th[t].cur]
  \/ Finds(t, Left(th[t]))

EmptyInv(t) ==
  LET r == th[t] IN
  /\ r.pc \in RoundPcs /\ r.empty /\ ~sight[t] => WillFind(t)
  /\ r.pc \in {"stamp", "eliminate", "take"} => ~r.empty
  /\ r.again => ~r.empty
  /\ r.best # NoBest => ~r.empty
  /\ SaysEmpty(t) => sight[t]

-----------------------------------------------------------------------------
\* The inductive invariant.
IInv1 ==
  /\ TypeOK /\ PlacesInv /\ OlderInv /\ ListInv /\ RingInv /\ SeenInv
  /\ \A t \in Threads : PcInv(t) /\ RememberInv(t) /\ RoundInv(t) /\ EmptyInv(t)

-----------------------------------------------------------------------------
\* Pointers.

LEMMA OnwardLeast ==
  ASSUME NEW S, NEW f, NEW x, NEW T \in SUBSET S, x \in S => x \in T,
         \A z \in T : f[z] \in S => f[z] \in T
  PROVE  Onward(S, f, x) \subseteq T
BY DEF Onward

LEMMA OnwardWithin == ASSUME NEW S, NEW f, NEW x PROVE Onward(S, f, x) \in SUBSET S
BY DEF Onward

LEMMA OnwardNone == ASSUME NEW S, NEW f, NEW x, x \notin S PROVE Onward(S, f, x) = {}
<1>1. PICK T \in SUBSET S : T = {}
  OBVIOUS
<1>2. Onward(S, f, x) \subseteq T
  BY <1>1, OnwardLeast
<1>. QED BY <1>1, <1>2

LEMMA OnwardSelf == ASSUME NEW S, NEW f, NEW x \in S PROVE x \in Onward(S, f, x)
BY DEF Onward

LEMMA OnwardNext ==
  ASSUME NEW S, NEW f, NEW x, NEW z \in Onward(S, f, x), f[z] \in S
  PROVE  f[z] \in Onward(S, f, x)
BY DEF Onward

LEMMA OnwardTrans ==
  ASSUME NEW S, NEW f, NEW x, NEW y \in Onward(S, f, x)
  PROVE  Onward(S, f, y) \subseteq Onward(S, f, x)
BY OnwardLeast, OnwardWithin, OnwardNext

LEMMA OnwardStep ==
  ASSUME NEW S, NEW f, NEW x \in S
  PROVE  Onward(S, f, x) = {x} \cup Onward(S, f, f[x])
<1> DEFINE T == {x} \cup Onward(S, f, f[x])
<1>1. T \in SUBSET S
  BY OnwardWithin
<1>2. ASSUME NEW z \in T, f[z] \in S PROVE f[z] \in T
  BY <1>2, OnwardNext, OnwardSelf
<1>3. Onward(S, f, x) \subseteq T
  <2>1. x \in T
    OBVIOUS
  <2>. HIDE DEF T
  <2>. QED BY <1>1, <1>2, <2>1, OnwardLeast
<1>4. x \in Onward(S, f, x)
  BY OnwardSelf
<1>5. Onward(S, f, f[x]) \subseteq Onward(S, f, x)
  <2>1. CASE f[x] \in S
    <3>1. f[x] \in Onward(S, f, x)
      BY <1>4, <2>1, OnwardNext
    <3>. QED BY <3>1, OnwardTrans
  <2>2. CASE f[x] \notin S
    BY <2>2, OnwardNone
  <2>. QED BY <2>1, <2>2
<1>. QED BY <1>3, <1>4, <1>5

\* Pointers that do not lie on the way do not matter.
LEMMA OnwardSame ==
  ASSUME NEW S, NEW f, NEW g, NEW x, \A z \in Onward(S, f, x) : g[z] = f[z]
  PROVE  Onward(S, g, x) = Onward(S, f, x)
<1>1. Onward(S, g, x) \subseteq Onward(S, f, x)
  BY OnwardLeast, OnwardWithin, OnwardNext, OnwardSelf
<1>2. \A z \in Onward(S, g, x) : f[z] \in S => f[z] \in Onward(S, g, x)
  BY <1>1, OnwardNext
<1>3. Onward(S, f, x) \subseteq Onward(S, g, x)
  BY <1>2, OnwardLeast, OnwardWithin, OnwardSelf
<1>. QED BY <1>1, <1>3

-----------------------------------------------------------------------------
\* Lists.

LEMMA ChainNull == Chain(Null) = {}
BY OnwardNone, CallHistoryAssumption DEF Chain

LEMMA ChainSelf == ASSUME NEW x \in Items PROVE x \in Chain(x)
BY OnwardSelf DEF Chain

LEMMA ChainStep == ASSUME NEW x \in Items PROVE Chain(x) = {x} \cup Chain(next[x])
BY OnwardStep DEF Chain

LEMMA ChainTrans == ASSUME NEW x, NEW y \in Chain(x) PROVE Chain(y) \subseteq Chain(x)
BY OnwardTrans DEF Chain

LEMMA ChainItems == ASSUME NEW x PROVE Chain(x) \in SUBSET Items
BY OnwardWithin DEF Chain

\* A walk over taken items loses none that is not.
LEMMA FirstUntakenFact ==
  ASSUME NEW x, NEW y, y = FirstUntaken(x)
  PROVE  /\ Chain(x) \ taken \subseteq Chain(y)
         /\ Chain(y) \subseteq Chain(x)
         /\ y # Null => y \in Chain(x) \ taken
         /\ y = Null => Chain(x) \subseteq taken
<1> DEFINE left == Chain(x) \ taken
           first == \E z \in left : left \subseteq Chain(z)
           T == {z \in Chain(x) : left \subseteq Chain(z)}
<1>1. ASSUME ~first PROVE left = {}
  <2>1. \A z \in T : z \in taken /\ z \in Items
    BY <1>1, ChainItems
  <2>2. ASSUME NEW z \in T, next[z] \in Items PROVE next[z] \in T
    <3>1. next[z] \in Chain(x)
      BY <2>2, OnwardNext DEF Chain
    <3>2. Chain(z) = {z} \cup Chain(next[z])
      BY <2>1, ChainStep
    <3>. QED BY <3>1, <3>2, <2>1
  <2>3. x \in Items => x \in T
    BY ChainSelf
  <2>4. T \in SUBSET Items
    BY ChainItems
  <2>5. Chain(x) \subseteq T
    <3>. HIDE DEF T
    <3>. QED BY <2>2, <2>3, <2>4, OnwardLeast DEF Chain
  <2>. QED BY <2>1, <2>5
<1>2. CASE left = {}
  BY <1>2, ChainNull DEF FirstUntaken
<1>3. CASE left # {}
  <2>1. first
    BY <1>1, <1>3
  <2>2. y = CHOOSE z \in left : left \subseteq Chain(z)
    BY <1>3 DEF FirstUntaken
  <2>3. y \in left /\ left \subseteq Chain(y)
    BY <2>1, <2>2
  <2>4. y # Null
    BY <2>3, ChainItems, CallHistoryAssumption
  <2>. QED BY <2>3, <2>4, ChainTrans
<1>. QED BY <1>2, <1>3

LEMMA HeldFact ==
  ASSUME NEW z
  PROVE  z \in Held <=> z \notin taken /\ \E b \in Threads : z \in Chain(list[b].item)
BY DEF Held

-----------------------------------------------------------------------------
\* The ring of buffers.

LEMMA AfterStep ==
  ASSUME TypeOK, NEW b \in Buffers
  PROVE  After(b) = IF link[b] = Entry THEN {} ELSE {link[b]} \cup After(link[b])
<1>1. link[b] \in Buffers
  BY DEF TypeOK
<1>2. CASE link[b] = Entry
  BY <1>2, OnwardNone, TSStackAssumption DEF After
<1>3. CASE link[b] # Entry
  <2>1. link[b] \in Threads
    BY <1>1, <1>3 DEF Buffers
  <2>. QED BY <2>1, <1>3, OnwardStep DEF After
<1>. QED BY <1>2, <1>3

LEMMA AfterThreads == ASSUME NEW b PROVE After(b) \in SUBSET Threads /\ Entry \notin After(b)
BY OnwardWithin, TSStackAssumption DEF After

LEMMA AfterNext ==
  ASSUME TypeOK, NEW b, NEW c \in After(b), link[c] # Entry
  PROVE  link[c] \in After(b)
<1>1. c \in Threads /\ link[c] \in Threads
  BY AfterThreads DEF TypeOK, Buffers
<1>. QED BY <1>1, OnwardNext DEF After

LEMMA AfterTrans == ASSUME TypeOK, NEW b, NEW c \in After(b) PROVE After(c) \subseteq After(b)
<1>1. c \in Buffers
  BY AfterThreads DEF Buffers
<1>2. CASE link[c] = Entry
  BY <1>1, <1>2, AfterStep
<1>3. CASE link[c] # Entry
  <2>1. link[c] \in After(b)
    BY <1>3, AfterNext
  <2>. QED BY <2>1, OnwardTrans DEF After
<1>. QED BY <1>2, <1>3

LEMMA LeftFact ==
  ASSUME NEW r
  PROVE  /\ r.pc = "top" => Left(r) = {r.cur} \cup Rest(r.start, r.cur)
         /\ r.pc \in LookPcs => Left(r) = Rest(r.start, r.cur)
         /\ r.pc = "entry" => Left(r) = Registered \ After(r.start)
<1>1. r.pc = "top" => Left(r) = {r.cur} \cup Rest(r.start, r.cur)
  BY DEF Left, LookPcs
<1>2. r.pc = "list" => Left(r) = Rest(r.start, r.cur)
  BY DEF Left, LookPcs
<1>3. r.pc = "walk" => Left(r) = Rest(r.start, r.cur)
  BY DEF Left, LookPcs
<1>4. r.pc = "stamp" => Left(r) = Rest(r.start, r.cur)
  BY DEF Left, LookPcs
<1>5. r.pc = "eliminate" => Left(r) = Rest(r.start, r.cur)
  BY DEF Left, LookPcs
<1>6. r.pc = "entry" => Left(r) = Registered \ After(r.start)
  BY DEF Left, LookPcs
<1>. QED BY <1>1, <1>2, <1>3, <1>4, <1>5, <1>6 DEF LookPcs

\* From one buffer of a round to the next.
LEMMA RoundAhead ==
  ASSUME TypeOK, NEW s \in Registered \cup {Entry}, NEW b \in Registered, b # s, link[b] # Entry
  PROVE  /\ link[b] \in Registered
         /\ Rest(s, b) \subseteq {link[b]} \cup Rest(s, link[b])
<1>1. link[b] \in Registered /\ b \in Buffers
  BY AfterNext, AfterThreads DEF Registered, Buffers
<1>2. After(b) = {link[b]} \cup After(link[b])
  BY <1>1, AfterStep
<1>3. CASE s = Entry
  BY <1>1, <1>2, <1>3 DEF Rest
<1>4. CASE s # Entry /\ b \in After(s)
  <2>1. link[b] \in After(s)
    BY <1>4, AfterNext
  <2>. QED BY <2>1, <1>1, <1>2, <1>4 DEF Rest
<1>5. CASE s # Entry /\ b \notin After(s)
  <2>1. Rest(s, b) = After(b) \ After(s)
    BY <1>5 DEF Rest
  <2>2. CASE link[b] \in After(s)
    BY <2>1, <2>2, <1>1, <1>2, AfterTrans
  <2>3. CASE link[b] \notin After(s)
    BY <2>1, <2>3, <1>1, <1>2, <1>5 DEF Rest
  <2>. QED BY <2>2, <2>3
<1>. QED BY <1>1, <1>3, <1>4, <1>5

LEMMA RoundOver ==
  ASSUME TypeOK, RingInv, NEW s \in Registered \cup {Entry}, NEW b \in Registered,
         b = s \/ (s = Entry /\ link[b] = Entry)
  PROVE  Rest(s, b) = {}
<1>1. b \in Buffers /\ b # Entry
  BY AfterThreads DEF Registered, Buffers
<1>2. CASE b = s
  <2>1. b \notin After(s)
    BY <1>2 DEF RingInv
  <2>. QED BY <1>1, <1>2, <2>1 DEF Rest
<1>3. CASE s = Entry /\ link[b] = Entry
  BY <1>1, <1>3, AfterStep DEF Rest
<1>. QED BY <1>2, <1>3

LEMMA RoundEntry ==
  ASSUME TypeOK, NEW s \in Registered, NEW b \in Registered, link[b] = Entry
  PROVE  s # Entry /\ Rest(s, b) \subseteq Registered \ After(s)
<1>1. b \in Buffers /\ s # Entry
  BY AfterThreads DEF Registered, Buffers
<1>2. After(b) = {}
  BY <1>1, AfterStep
<1>. QED BY <1>1, <1>2 DEF Rest

\* From the entry buffer on.
LEMMA RoundNext ==
  ASSUME TypeOK, NEW s \in Registered \cup {Entry}, link[Entry] # Entry
  PROVE  /\ link[Entry] \in Registered
         /\ Registered \ After(s) \subseteq {link[Entry]} \cup Rest(s, link[Entry])
         /\ s = Entry => Registered \subseteq {link[Entry]} \cup Rest(s, link[Entry])
<1>1. Registered = {link[Entry]} \cup After(link[Entry])
  BY AfterStep DEF Registered, Buffers
<1>. QED BY <1>1 DEF Rest

\* The start of a round.
LEMMA RoundFirst ==
  ASSUME TypeOK, NEW s \in Registered
  PROVE  /\ s # Entry
         /\ link[s] # Entry => /\ link[s] \in Registered
                               /\ Registered \subseteq {link[s]} \cup Rest(s, link[s])
         /\ link[s] = Entry => Registered \subseteq Registered \ After(s)
<1>1. s \in Buffers /\ s # Entry
  BY AfterThreads DEF Registered, Buffers
<1>2. CASE link[s] = Entry
  BY <1>1, <1>2, AfterStep
<1>3. CASE link[s] # Entry
  <2>1. link[s] \in Registered
    BY <1>3, AfterNext DEF Registered
  <2>2. After(s) = {link[s]} \cup After(link[s])
    BY <1>1, <1>3, AfterStep
  <2>. QED BY <1>1, <1>3, <2>1, <2>2 DEF Rest
<1>. QED BY <1>1, <1>2, <1>3

-----------------------------------------------------------------------------
\* What a step does to the locals of its thread.

Becomes(t, r) == th' = [th EXCEPT ![t] = r]

LEMMA BecomesFact ==
  ASSUME TypeOK, NEW t \in Threads, NEW r \in Locals, Becomes(t, r)
  PROVE  /\ th' \in [Threads -> Locals]
         /\ th'[t] = r
         /\ \A u \in Threads \ {t} : th'[u] = th[u]
BY DEF Becomes, TypeOK

LEMMA IdleType == Idle \in Locals /\ NoBest \in Bests /\ NoWord \in Words /\ Sentinel \in Nat \X Nat
BY DEF Idle, Locals, NoBest, Bests, NoWord, Words, Word, Sentinel, Pcs, PushPcs, StampPcs, PopPcs,
       RoundPcs, LookPcs, Buffers

\* The locals s of a thread that leaves a buffer with the locals r.
Leaves(r, s) ==
  /\ s \in Locals /\ s.op = "get" /\ s.item = Null /\ s.i = r.i
  /\ s.pc \in {"top", "entry", "take", "start"} => s.now = r.now
  /\ s.again => r.again
  /\ \/ /\ s.pc = "top" /\ link[r.cur] # Entry /\ s.cur = link[r.cur]
        /\ s.start = r.start /\ s.best = r.best /\ s.empty = r.empty
     \/ /\ s.pc = "entry" /\ link[r.cur] = Entry /\ r.start # Entry /\ s.cur = Entry
        /\ s.start = r.start /\ s.best = r.best /\ s.empty = r.empty
     \/ /\ r.cur = r.start \/ (r.start = Entry /\ link[r.cur] = Entry)
        /\ \/ s.pc = "take" /\ r.best # NoBest /\ s.best = r.best /\ s.empty = r.empty
           \/ s.pc = "return" /\ r.best = NoBest /\ r.empty /\ s.best = NoBest /\ s.empty /\ ~s.again
           \/ s.pc = "start" /\ r.best = NoBest /\ ~r.empty /\ s.best = NoBest /\ s.empty /\ ~s.again

LEMMA NewRoundType ==
  ASSUME TypeOK, NEW t \in Threads, NEW label \in Pcs, NEW r, r = NewRound(t, label)
  PROVE  /\ r \in Locals /\ r.op = "get" /\ r.item = Null /\ r.i = 0 /\ r.now = th[t].now
         /\ r.pc = label /\ ~r.again /\ r.best = NoBest /\ r.empty
<1>1. th[t].now \in Nat
  BY DEF TypeOK, Locals
<1>2. r = [Idle EXCEPT !.pc = label, !.op = "get", !.now = th[t].now]
  BY DEF NewRound
<1>3. r \in Locals
  BY <1>1, <1>2, IdleType DEF Locals
<1>. QED BY <1>2, <1>3 DEF Idle

LEMMA EndRoundFact ==
  ASSUME TypeOK, NEW t \in Threads, NEW r \in Locals, r.op = "get", r.item = Null, r.i = 0,
         r.now = th[t].now, r.cur = r.start \/ (r.start = Entry /\ link[r.cur] = Entry),
         NEW s, s = EndRound(t, r)
  PROVE  Leaves(r, s) /\ s.pc \notin {"top", "entry"}
<1>1. CASE r.best # NoBest
  <2>1. s = [r EXCEPT !.pc = "take", !.cand = Null, !.stamp = Sentinel]
    BY <1>1 DEF EndRound
  <2>2. s \in Locals
    BY <2>1, IdleType DEF Locals, Pcs, PopPcs
  <2>. QED BY <1>1, <2>1, <2>2 DEF Leaves, Locals
<1>2. CASE r.best = NoBest /\ r.empty
  <2>1. s = [Idle EXCEPT !.pc = "return", !.op = "get"]
    BY <1>2 DEF EndRound
  <2>2. s \in Locals
    BY <2>1, IdleType DEF Locals, Pcs, PopPcs
  <2>. QED BY <1>2, <2>1, <2>2 DEF Leaves, Idle
<1>3. CASE r.best = NoBest /\ ~r.empty
  <2>1. s = NewRound(t, "start")
    BY <1>3 DEF EndRound
  <2>2. "start" \in Pcs
    BY DEF Pcs, PopPcs
  <2>. QED BY <1>3, <2>1, <2>2, NewRoundType DEF Leaves
<1>. QED BY <1>1, <1>2, <1>3

LEMMA AheadFact ==
  ASSUME TypeOK, NEW t \in Threads, NEW r \in Locals, r.op = "get", r.item = Null, r.i = 0,
         r.now = th[t].now, NEW s, s = Ahead(t, r)
  PROVE  Leaves(r, s) /\ (s.pc \in {"top", "entry"} \/ (r.start = Entry /\ link[r.cur] = Entry))
<1>1. r.cur \in Buffers /\ link[r.cur] \in Buffers
  BY DEF TypeOK, Locals
<1>2. CASE link[r.cur] # Entry
  <2>1. s = [r EXCEPT !.pc = "top", !.cur = link[r.cur]]
    BY <1>2 DEF Ahead, Locals
  <2>2. s \in Locals
    BY <1>1, <2>1 DEF Locals, Pcs, PopPcs, RoundPcs
  <2>. QED BY <1>2, <2>1, <2>2 DEF Leaves, Locals
<1>3. CASE link[r.cur] = Entry /\ r.start = Entry
  BY <1>3, EndRoundFact DEF Ahead
<1>4. CASE link[r.cur] = Entry /\ r.start # Entry
  <2>1. s = [r EXCEPT !.pc = "entry", !.cur = Entry]
    BY <1>4 DEF Ahead
  <2>2. s \in Locals
    BY <2>1 DEF Locals, Pcs, PopPcs, RoundPcs, Buffers
  <2>. QED BY <1>4, <2>1, <2>2 DEF Leaves, Locals
<1>. QED BY <1>2, <1>3, <1>4

LEMMA ScannedFact ==
  ASSUME TypeOK, NEW t \in Threads, NEW r \in Locals, r.op = "get", r.item = Null, r.i = 0,
         r.now = th[t].now, NEW s, s = Scanned(t, r)
  PROVE  Leaves(r, s) /\ (s.pc \in {"top", "entry"} => r.cur # r.start)
<1>1. CASE r.cur = r.start
  BY <1>1, EndRoundFact DEF Scanned
<1>2. CASE r.cur # r.start
  <2>1. PICK q : q = [r EXCEPT !.top = NoWord, !.cand = Null, !.stamp = Sentinel, !.again = FALSE]
    OBVIOUS
  <2>2. q \in Locals
    BY <2>1, IdleType DEF Locals
  <2>3. /\ q.op = r.op /\ q.item = r.item /\ q.i = r.i /\ q.now = r.now /\ q.cur = r.cur
        /\ q.start = r.start /\ q.best = r.best /\ q.empty = r.empty /\ q.again = FALSE
    BY <2>1 DEF Locals
  <2>4. s = Ahead(t, q)
    BY <1>2, <2>1 DEF Scanned
  <2>5. Leaves(q, s)
    BY <2>2, <2>3, <2>4, AheadFact
  <2>. QED BY <1>2, <2>3, <2>5 DEF Leaves
<1>. QED BY <1>1, <1>2

-----------------------------------------------------------------------------
\* The history.

Kept == done' = done /\ out' = out /\ older' = older /\ late' = late /\ start' = start
Sights(h) == sight' = [u \in Threads |-> th'[u].op = "get" /\ (sight[u] \/ done' \cap h = {})]

LEMMA ObserveQuiet ==
  ASSUME TypeOK, NEW t \in Threads, NEW r \in Locals, Becomes(t, r), r.op = th[t].op,
         NEW h, Observe(t, h)
  PROVE  Kept /\ Sights(h)
<1>1. th'[t] = r
  BY BecomesFact
<1>. QED BY <1>1 DEF Observe, Kept, Sights

LEMMA ObservePush ==
  ASSUME TypeOK, NEW t \in Threads, NEW r \in Locals, Becomes(t, r), th[t].op = "none",
         r.op = "put", NEW h, Observe(t, h)
  PROVE  /\ done' = done /\ out' = out /\ late' = late /\ start' = start
         /\ older' = [older EXCEPT ![r.item] = done]
         /\ Sights(h)
<1>1. th'[t] = r
  BY BecomesFact
<1>. QED BY <1>1 DEF Observe, Sights

LEMMA ObservePop ==
  ASSUME TypeOK, NEW t \in Threads, NEW r \in Locals, Becomes(t, r), th[t].op = "none",
         r.op = "get", NEW h, Observe(t, h)
  PROVE  /\ done' = done /\ out' = out /\ late' = late /\ older' = older
         /\ start' = [start EXCEPT ![t] = Memo]
         /\ Sights(h)
<1>1. th'[t] = r
  BY BecomesFact
<1>. QED BY <1>1 DEF Observe, Sights

LEMMA ObserveReturn ==
  ASSUME TypeOK, NEW t \in Threads, NEW r \in Locals, Becomes(t, r), th[t].op # "none",
         r.op = "none", NEW h, Observe(t, h)
  PROVE  /\ done' = IF th[t].op = "put" /\ th[t].item # Null THEN done \cup {th[t].item} ELSE done
         /\ out' = IF th[t].op = "get" /\ th[t].item # Null THEN out \cup {th[t].item} ELSE out
         /\ late' = IF th[t].op = "get" /\ th[t].item # Null /\ Strict
                    THEN late \cup (First(t, th[t].item) \cap h) ELSE late
         /\ older' = older
         /\ start' = [start EXCEPT ![t] = NoMemo]
         /\ Sights(h)
<1>1. th'[t] = r
  BY BecomesFact
<1>. QED BY <1>1 DEF Observe, Sights

LEMMA SightsFact ==
  ASSUME TypeOK, NEW h, Sights(h)
  PROVE  /\ sight' \in [Threads -> BOOLEAN]
         /\ \A u \in Threads : th'[u].op = "get" /\ sight[u] => sight'[u]
         /\ \A u \in Threads : th'[u].op = "get" /\ done' \cap h = {} => sight'[u]
<1>1. \A u \in Threads : sight'[u] = (th'[u].op = "get" /\ (sight[u] \/ done' \cap h = {}))
  BY DEF Sights
<1>2. sight' \in [Threads -> BOOLEAN]
  BY DEF Sights
<1>3. \A u \in Threads : th'[u].op = "get" /\ sight[u] => sight'[u]
  BY <1>1
<1>4. \A u \in Threads : th'[u].op = "get" /\ done' \cap h = {} => sight'[u]
  BY <1>1
<1>. QED BY <1>2, <1>3, <1>4

-----------------------------------------------------------------------------
\* Steps that leave the items and the lists alone.

Lists == <<link, list, next, taken>>

Still ==
  /\ Inserted' = Inserted /\ Hands' = Hands
  /\ \A u \in Threads : /\ Putting(u)' <=> Putting(u)
                        /\ Linked(u)' <=> Linked(u)
                        /\ InHand(u)' = InHand(u)
                        /\ Ours(u)' = Ours(u)
                        /\ th'[u].item = th[u].item
  /\ done' = done /\ out' = out /\ older' = older
  /\ link' = link /\ list' = list /\ next' = next /\ taken' = taken
  /\ \A x : Chain(x)' = Chain(x)
  /\ \A b : After(b)' = After(b)

LEMMA StillFact ==
  ASSUME TypeOK, NEW t \in Threads, NEW r \in Locals, Becomes(t, r),
         r.op = th[t].op \/ (th[t].op = "none" /\ r.op = "get"),
         r.item = th[t].item, r.op = "get" => r.item = Null \/ r.op = th[t].op,
         r.op = "put" => (r.pc \in PushPcs <=> th[t].pc \in PushPcs),
         done' = done, out' = out, older' = older, UNCHANGED Lists
  PROVE  Still
<1>1. \A u \in Threads : u # t => th'[u] = th[u]
  BY BecomesFact
<1>2. th'[t] = r
  BY BecomesFact
<1>3. \A u \in Threads : /\ Putting(u)' <=> Putting(u)
                         /\ Linked(u)' <=> Linked(u)
                         /\ InHand(u)' = InHand(u)
                         /\ th'[u].item = th[u].item
  BY <1>1, <1>2 DEF Putting, Linked, InHand
<1>4. Inserted' = Inserted /\ Hands' = Hands
  BY <1>3 DEF Inserted, Hands
<1>5. \A u \in Threads : Ours(u)' = Ours(u)
  BY <1>3 DEF Ours
<1>6. \A x : Chain(x)' = Chain(x)
  BY DEF Chain, Lists
<1>7. \A b : After(b)' = After(b)
  BY DEF After, Lists
<1>. QED BY <1>3, <1>4, <1>5, <1>6, <1>7 DEF Still, Lists

LEMMA StillKnown ==
  ASSUME Still
  PROVE  /\ \A b \in Threads : \A x : Known(b, x)' <=> Known(b, x)
         /\ \A w, x : Cuttable(w, x)' <=> Cuttable(w, x)
<1>1. \A b \in Threads : \A x : Known(b, x)' <=> Known(b, x)
  BY DEF Still, Known
<1>2. \A w, x : Cuttable(w, x)' <=> Cuttable(w, x)
  BY DEF Still, Cuttable
<1>. QED BY <1>1, <1>2

LEMMA StillWorld ==
  ASSUME Still, PlacesInv, OlderInv, ListInv
  PROVE  PlacesInv' /\ OlderInv' /\ ListInv'
<1>1. PlacesInv'
  BY DEF Still, PlacesInv
<1>2. OlderInv'
  BY DEF Still, OlderInv
<1>3. ListInv'
  BY DEF Still, ListInv
<1>. QED BY <1>1, <1>2, <1>3

LEMMA StillRing ==
  ASSUME Still, RingInv, NEW t \in Threads,
         \A u \in Threads : u # t => th'[u].pc = th[u].pc,
         Putting(t) => (th'[t].pc = "register" <=> th[t].pc = "register")
  PROVE  RingInv' /\ Registered' = Registered /\ \A s, b : Rest(s, b)' = Rest(s, b)
<1>1. Registered' = Registered
  BY DEF Still, Registered
<1>2. RingInv'
  BY <1>1 DEF Still, RingInv
<1>3. \A s, b : Rest(s, b)' = Rest(s, b)
  BY <1>1 DEF Still, Rest
<1>. QED BY <1>1, <1>2, <1>3

LEMMA RegisteredThreads == Registered \subseteq Threads
BY AfterThreads DEF Registered

LEMMA StillBest == ASSUME Still, NEW best, BestInv(best) PROVE BestInv(best)'
<1>1. Registered' = Registered
  BY DEF Still, Registered
<1>2. best # NoBest => best.buf \in Threads
  BY RegisteredThreads DEF BestInv
<1>. QED BY <1>1, <1>2, StillKnown DEF BestInv

\* The threads that do not move.
LEMMA StillRemember ==
  ASSUME Still, NEW u \in Threads, th'[u] = th[u], RememberInv(u),
         th[u].pc \in {"list", "walk", "stamp", "eliminate", "adjust"} => th[u].cur \in Threads
  PROVE  RememberInv(u)'
<1>1. BestInv(th[u].best)'
  BY StillBest DEF RememberInv
<1>2. Registered' = Registered
  BY DEF Still, Registered
<1>. QED BY <1>1, <1>2, StillKnown DEF Still, RememberInv

LEMMA StillRound ==
  ASSUME Still, NEW u \in Threads, th'[u] = th[u], RoundInv(u)
  PROVE  RoundInv(u)' /\ Left(th[u])' = Left(th[u])
<1>1. Registered' = Registered
  BY DEF Still, Registered
<1>2. \A s, b : Rest(s, b)' = Rest(s, b)
  BY <1>1 DEF Still, Rest
<1>3. Left(th[u])' = Left(th[u])
  BY <1>1, <1>2 DEF Still, Left
<1>4. RoundInv(u)'
  BY <1>1 DEF RoundInv
<1>. QED BY <1>3, <1>4

-----------------------------------------------------------------------------
\* The emptiness check.

LEMMA BuriedKept ==
  ASSUME NEW b, NEW D \in SUBSET taken, Buried(b, D), list' = list, NEW t \in Threads,
         \A u \in Threads : u # t => th'[u] = th[u],
         th'[t].pc = "adjust" => th'[t].item \notin taken
  PROVE  Buried(b, D)'
BY DEF Buried

LEMMA EmptyOthers ==
  ASSUME TypeOK, NEW u \in Threads, th'[u] = th[u], EmptyInv(u), PcInv(u),
         th[u].op = "get" /\ sight[u] => sight'[u],
         Left(th[u]) \subseteq Left(th[u])',
         seen'[u] = seen[u], taken \subseteq taken',
         \A b : \A D \in SUBSET taken : Buried(b, D) => Buried(b, D)'
  PROVE  EmptyInv(u)'
<1>1. Finds(u, Left(th[u])) => Finds(u, Left(th[u]))'
  BY DEF Finds
<1>2. WillFind(u) => WillFind(u)'
  BY <1>1 DEF WillFind
<1>3. th[u].pc \in RoundPcs => th[u].op = "get"
  <2>1. th[u].op \in {"none", "put", "get"}
    BY DEF TypeOK, Locals
  <2>. QED BY <2>1 DEF PcInv, RoundPcs, LookPcs, PushPcs, StampPcs
<1>4. SaysEmpty(u)' => sight'[u]
  BY DEF EmptyInv, SaysEmpty
<1>. QED BY <1>2, <1>3, <1>4 DEF EmptyInv

\* An item that is in the structure when a round begins will make it find one.
LEMMA RoundFinds ==
  ASSUME TypeOK, RingInv, SeenInv, \A u \in Threads : RememberInv(u), ListInv,
         Inserted \subseteq Items, NEW t \in Threads, done \cap Held # {}
  PROVE  Finds(t, Registered)
<1> DEFINE D == {x \in Items : Chain(x) \subseteq taken}
<1>1. PICK z \in Items, b \in Threads : z \in Chain(list[b].item) /\ z \notin taken
  <2>1. PICK z : z \in done /\ z \in Held
    OBVIOUS
  <2>2. z \notin taken /\ \E b \in Threads : z \in Chain(list[b].item)
    BY <2>1, HeldFact
  <2>. QED BY <2>1, <2>2 DEF TypeOK
<1>2. D \in SUBSET taken
  BY ChainSelf
<1>3. list[b].item \notin D \cup {Null}
  BY <1>1, ChainNull
<1>4. b \in Registered
  BY <1>3 DEF RingInv
<1>5. ASSUME NEW u \in Threads, th[u].pc = "adjust", th[u].item \in D
      PROVE  th[u].top.item \in D \cup {Null}
  BY <1>5 DEF RememberInv, Cuttable
<1>6. Buried(b, D)
  BY <1>3, <1>5 DEF Buried
<1>7. seen[t][b].item \in D \cup {Null}
  BY DEF SeenInv
<1>. QED BY <1>2, <1>4, <1>6, <1>7 DEF Finds

LEMMA InsertedItems ==
  ASSUME TypeOK, \A t \in Threads : PcInv(t)
  PROVE  Inserted \subseteq Items
BY DEF TypeOK, PcInv, Inserted, Linked

-----------------------------------------------------------------------------
\* A list leads from what it led to before, but for taken items, on to the same items.
Grows ==
  /\ Inserted \subseteq Inserted' /\ taken \subseteq taken'
  /\ \A x \in Inserted \cup {Null} : Chain(x)' = Chain(x)
  /\ \A b \in Threads : /\ Ours(b) \subseteq Ours(b)'
                        /\ Chain(list[b].item) \ taken' \subseteq Chain(list[b].item)'
  /\ Registered \subseteq Registered'

\* What a step of t is to the other threads, and that t goes on with its call.
World(t) ==
  /\ Grows
  /\ \A u \in Threads \ {t} : th'[u] = th[u] /\ Left(th[u]) \subseteq Left(th[u])'
  /\ th[t].op # "none" /\ th[t].pc # "return" => th'[t].op = th[t].op
  /\ \A x \in Inserted : older'[x] = older[x]
  /\ done \subseteq done'

LEMMA StillGrows == Still => Grows
<1>1. SUFFICES ASSUME Still PROVE Grows
  OBVIOUS
<1>2. \A b \in Threads : Chain(list[b].item)' = Chain(list[b].item)
  BY <1>1 DEF Still
<1>3. Registered' = Registered
  BY <1>1 DEF Still, Registered
<1>. QED BY <1>1, <1>2, <1>3 DEF Still, Grows

-----------------------------------------------------------------------------
\* A step of t that leaves the items and the lists alone.

Quiet(t, r) ==
  /\ Becomes(t, r)
  /\ r.op = th[t].op \/ (th[t].op = "none" /\ r.op = "get" /\ th[t].item = Null)
  /\ r.item = th[t].item
  /\ r.op = "put" => (r.pc \in PushPcs <=> th[t].pc \in PushPcs)
  /\ r.op = "put" => (r.pc = "register" <=> th[t].pc = "register")
  /\ r.pc # "adjust"
  /\ done' = done /\ out' = out /\ older' = older
  /\ UNCHANGED Lists /\ kind' = kind
  /\ Sights(Held)
  /\ \A u \in Threads : u # t => seen'[u] = seen[u]

LEMMA QuietStill ==
  ASSUME TypeOK, NEW t \in Threads, NEW r \in Locals, Quiet(t, r)
  PROVE  Still
<1>1. r.op = "get" => r.item = Null \/ r.op = th[t].op
  BY DEF Quiet
<1>. QED BY <1>1, StillFact DEF Quiet

LEMMA QuietStep ==
  ASSUME IInv1, NEW t \in Threads, NEW r \in Locals, Quiet(t, r), TypeOK', SeenInv',
         PcInv(t)', RememberInv(t)', RoundInv(t)', EmptyInv(t)'
  PROVE  IInv1' /\ World(t)
<1>1. TypeOK /\ PlacesInv /\ OlderInv /\ ListInv /\ RingInv
  BY DEF IInv1
<1>2. Still
  BY <1>1, QuietStill
<1>3. /\ th'[t] = r
      /\ \A u \in Threads : u # t => th'[u] = th[u] /\ seen'[u] = seen[u]
  BY <1>1, BecomesFact DEF Quiet
<1>4. PlacesInv' /\ OlderInv' /\ ListInv'
  BY <1>1, <1>2, StillWorld
<1>5. RingInv'
  <2>1. Putting(t) => (th'[t].pc = "register" <=> th[t].pc = "register")
    BY <1>3 DEF Quiet, Putting
  <2>. QED BY <1>1, <1>2, <1>3, <2>1, StillRing
<1>6. ASSUME NEW u \in Threads, u # t
      PROVE  PcInv(u)' /\ RememberInv(u)' /\ RoundInv(u)' /\ EmptyInv(u)'
  <2>1. PcInv(u) /\ RememberInv(u) /\ RoundInv(u) /\ EmptyInv(u)
    BY DEF IInv1
  <2>2. th'[u] = th[u] /\ seen'[u] = seen[u]
    BY <1>3, <1>6
  <2>3. PcInv(u)'
    BY <2>1, <2>2 DEF PcInv, Quiet, NumThreads
  <2>4. th[u].pc \in {"list", "walk", "stamp", "eliminate", "adjust"} => th[u].cur \in Threads
    BY <2>1, AfterThreads DEF RoundInv, RememberInv, LookPcs, Registered
  <2>5. RememberInv(u)'
    BY <1>2, <2>1, <2>2, <2>4, StillRemember
  <2>6. RoundInv(u)' /\ Left(th[u])' = Left(th[u])
    BY <1>2, <2>1, <2>2, StillRound
  <2>7. th[u].op = "get" /\ sight[u] => sight'[u]
    BY <1>1, <2>2, SightsFact DEF Quiet
  <2>8. \A b : \A D \in SUBSET taken : Buried(b, D) => Buried(b, D)'
    <3>1. list' = list /\ th'[t].pc # "adjust"
      BY <1>2, <1>3 DEF Still, Quiet
    <3>. QED BY <3>1, <1>3, BuriedKept
  <2>9. taken' = taken
    BY <1>2 DEF Still
  <2>10. EmptyInv(u)'
    BY <1>1, <2>1, <2>2, <2>6, <2>7, <2>8, <2>9, EmptyOthers
  <2>. QED BY <2>3, <2>5, <2>6, <2>10
<1>7. \A u \in Threads : PcInv(u)' /\ RememberInv(u)' /\ RoundInv(u)' /\ EmptyInv(u)'
  BY <1>6
<1>8. World(t)
  <2>1. Grows
    BY <1>2, StillGrows
  <2>2. ASSUME NEW u \in Threads, u # t PROVE th'[u] = th[u] /\ Left(th[u]) \subseteq Left(th[u])'
    <3>1. RoundInv(u)
      BY DEF IInv1
    <3>. QED BY <1>2, <1>3, <2>2, <3>1, StillRound
  <2>3. th[t].op # "none" => th'[t].op = th[t].op
    BY <1>3 DEF Quiet
  <2>. QED BY <1>2, <2>1, <2>2, <2>3 DEF World, Still
<1>. QED BY <1>4, <1>5, <1>7, <1>8 DEF IInv1

\* t leaves a buffer, with the locals r.
LEMMA LeavesStep ==
  ASSUME IInv1, NEW t \in Threads, NEW r \in Locals, NEW s \in Locals, Quiet(t, s),
         TypeOK', SeenInv', Leaves(r, s), r.i = 0,
         r.start \in Registered \cup {Entry}, s.pc = "top" => s.cur \in Registered,
         r.again => ~r.empty, r.best # NoBest => ~r.empty, BestInv(r.best),
         r.empty /\ ~sight'[t] => s.pc \in {"top", "entry"} /\ Finds(t, Left(s))'
  PROVE  IInv1' /\ World(t)
<1>1. Still /\ th'[t] = s
  BY QuietStill, BecomesFact DEF Quiet, IInv1
<1>2. Registered' = Registered
  BY <1>1 DEF Still, Registered
<1>3. s.pc \in {"top", "entry", "take", "return", "start"}
  BY DEF Leaves
<1>4. PcInv(t)'
  BY <1>1, <1>3 DEF PcInv, Leaves, PushPcs, StampPcs, PopPcs, RoundPcs
<1>5. RememberInv(t)'
  <2>1. BestInv(r.best)'
    BY <1>1, StillBest
  <2>2. BestInv(NoBest)'
    BY DEF BestInv
  <2>3. BestInv(s.best)'
    BY <2>1, <2>2 DEF Leaves
  <2>. QED BY <1>1, <1>3, <2>3 DEF RememberInv, Leaves
<1>6. RoundInv(t)'
  BY <1>1, <1>2, <1>3 DEF RoundInv, Leaves, RoundPcs, LookPcs
<1>7. EmptyInv(t)'
  <2>1. s.pc \in RoundPcs /\ s.empty /\ ~sight'[t] => WillFind(t)'
    BY <1>1, <1>3 DEF WillFind, Leaves, RoundPcs, LookPcs
  <2>2. s.pc = "return" => sight'[t]
    BY DEF Leaves
  <2>3. s.pc \in {"stamp", "eliminate", "take"} => ~s.empty
    BY <1>3 DEF Leaves
  <2>4. s.again => ~s.empty
    BY DEF Leaves
  <2>5. s.best # NoBest => ~s.empty
    BY DEF Leaves
  <2>. QED BY <1>1, <2>1, <2>2, <2>3, <2>4, <2>5 DEF EmptyInv, SaysEmpty
<1>. QED BY <1>4, <1>5, <1>6, <1>7, QuietStep

-----------------------------------------------------------------------------
\* The steps of a pop that change nothing but what it remembers.

LEMMA PopFact ==
  ASSUME IInv1, NEW t \in Threads, th[t].pc \in PopPcs
  PROVE  /\ th[t].op = "get" /\ th[t] \in Locals
         /\ th[t].pc # "adjust" => th[t].item = Null
         /\ th[t].pc \notin {"time", "stamp"} => th[t].i = 0
         /\ PcInv(t) /\ RememberInv(t) /\ RoundInv(t) /\ EmptyInv(t)
         /\ BestInv(th[t].best)
<1>1. PcInv(t) /\ RememberInv(t) /\ RoundInv(t) /\ EmptyInv(t) /\ th[t] \in Locals
  BY DEF IInv1, TypeOK
<1>2. th[t].op = "get"
  BY <1>1 DEF PcInv, Locals, PopPcs, RoundPcs, LookPcs, PushPcs, StampPcs
<1>3. th[t].pc \notin {"time", "stamp"} => th[t].i = 0
  BY <1>1 DEF PcInv, PopPcs, RoundPcs, LookPcs
<1>4. th[t].pc # "adjust" => th[t].item = Null
  BY <1>1, <1>2 DEF PcInv, PopPcs, RoundPcs, LookPcs
<1>5. BestInv(th[t].best)
  BY <1>1 DEF RememberInv
<1>. QED BY <1>1, <1>2, <1>3, <1>4, <1>5

LEMMA LocalQuiet ==
  ASSUME TypeOK, NEW t \in Threads, NEW r \in Locals, Becomes(t, r),
         r.op = "get", th[t].op = "get", r.item = th[t].item, r.pc # "adjust",
         Observe(t, Held), UNCHANGED stamps, UNCHANGED Lists,
         seen' \in [Threads -> [Threads -> Words]],
         \A u \in Threads : u # t => seen'[u] = seen[u]
  PROVE  Quiet(t, r) /\ TypeOK' /\ start' = start /\ late' = late
<1>1. Kept /\ Sights(Held)
  BY ObserveQuiet
<1>2. Quiet(t, r)
  BY <1>1 DEF Quiet, Kept, stamps
<1>3. th' \in [Threads -> Locals] /\ sight' \in [Threads -> BOOLEAN]
  BY <1>1, BecomesFact, SightsFact
<1>4. TypeOK'
  BY <1>1, <1>3 DEF TypeOK, Kept, stamps, Lists
<1>. QED BY <1>1, <1>2, <1>4 DEF Kept

LEMMA SeenSame ==
  ASSUME SeenInv, Still, seen' = seen
  PROVE  SeenInv'
BY DEF SeenInv, Still

LEMMA FindsSame ==
  ASSUME TypeOK, NEW t \in Threads, NEW r \in Locals, Quiet(t, r), seen'[t] = seen[t], NEW S,
         Finds(t, S), NEW T, S \subseteq T
  PROVE  Finds(t, T)'
<1>1. list' = list /\ taken' = taken /\ r.pc # "adjust"
  BY DEF Quiet, Lists
<1>2. /\ th'[t] = r
      /\ \A u \in Threads : u # t => th'[u] = th[u]
  BY BecomesFact DEF Quiet
<1>3. PICK b \in S, D \in SUBSET taken : Buried(b, D) /\ seen[t][b].item \in D \cup {Null}
  BY DEF Finds
<1>4. Buried(b, D)'
  BY <1>1, <1>2, <1>3, BuriedKept
<1>. QED BY <1>1, <1>3, <1>4 DEF Finds

LEMMA LocalFact ==
  ASSUME TypeOK, NEW t \in Threads, NEW r \in Locals, Becomes(t, r),
         r.op = "get", th[t].op = "get", r.item = th[t].item, r.pc # "adjust", Local(t)
  PROVE  /\ Quiet(t, r) /\ TypeOK' /\ Still /\ seen' = seen /\ start' = start /\ late' = late
         /\ SeenInv => SeenInv'
<1>1. /\ Observe(t, Held) /\ UNCHANGED stamps /\ UNCHANGED Lists /\ seen' = seen
  BY DEF Local, shared, Lists
<1>2. seen' \in [Threads -> [Threads -> Words]]
  BY <1>1 DEF TypeOK
<1>3. Quiet(t, r) /\ TypeOK' /\ start' = start /\ late' = late
  BY <1>1, <1>2, LocalQuiet
<1>4. Still
  BY <1>3, QuietStill
<1>. QED BY <1>1, <1>3, <1>4, SeenSame

LEMMA RemoveTopStep ==
  ASSUME IInv1, NEW t \in Threads, RemoveTop(t)
  PROVE  IInv1' /\ World(t)
<1>1. th[t].pc = "top" /\ th[t].pc \in PopPcs
  BY DEF RemoveTop, At, PopPcs, RoundPcs
<1>2. PICK r : r = [th[t] EXCEPT !.pc = "list", !.top = list[th[t].cur]]
  OBVIOUS
<1>3. TypeOK /\ th[t] \in Locals /\ th[t].op = "get" /\ th[t].item = Null
  BY <1>1, PopFact DEF IInv1
<1>4. th[t].cur \in Registered /\ th[t].cur \in Threads /\ th[t].start \in Registered \cup {Entry}
  BY <1>1, PopFact, AfterThreads DEF RoundInv, RoundPcs, Registered
<1>5. /\ r \in Locals /\ r.pc = "list" /\ r.top = list[th[t].cur]
      /\ r.op = "get" /\ r.item = Null /\ r.cur = th[t].cur /\ r.start = th[t].start
      /\ r.i = th[t].i /\ r.best = th[t].best /\ r.again = th[t].again /\ r.empty = th[t].empty
  BY <1>2, <1>3, <1>4 DEF Locals, TypeOK, Pcs, PopPcs, RoundPcs, LookPcs
<1>6. Becomes(t, r)
  BY <1>2, <1>3 DEF RemoveTop, Becomes, TypeOK
<1>7. Quiet(t, r) /\ TypeOK' /\ Still /\ seen' = seen /\ SeenInv' /\ th'[t] = r
  BY <1>3, <1>5, <1>6, LocalFact, BecomesFact DEF RemoveTop, IInv1
<1>8. PcInv(t)'
  BY <1>1, <1>5, <1>7, PopFact DEF PcInv, PopPcs, RoundPcs, LookPcs, PushPcs
<1>9. RememberInv(t)'
  <2>1. list[th[t].cur].item \in Inserted \cup {Null}
    BY <1>4 DEF IInv1, ListInv
  <2>2. Cuttable(r.top, list[r.cur].item)
    BY <1>5, <2>1 DEF Cuttable
  <2>3. BestInv(r.best)
    BY <1>1, <1>5, PopFact
  <2>4. Cuttable(r.top, list[r.cur].item)' /\ BestInv(r.best)'
    BY <1>4, <1>5, <1>7, <2>2, <2>3, StillKnown, StillBest DEF Still
  <2>. QED BY <1>5, <1>7, <2>4 DEF RememberInv
<1>10. RoundInv(t)'
  BY <1>4, <1>5, <1>7 DEF RoundInv, Still, Registered
<1>11. EmptyInv(t)'
  <2>1. EmptyInv(t)
    BY <1>1, PopFact
  <2>2. (th[t].again => ~th[t].empty) /\ (th[t].best # NoBest => ~th[t].empty)
    BY <2>1 DEF EmptyInv
  <2>3. ASSUME th[t].empty, ~sight'[t]
        PROVE  WillFind(t)'
    <3>1. ~sight[t]
      <4>1. th'[t].op = "get" /\ Sights(Held)
        BY <1>5, <1>7 DEF Quiet
      <4>. QED BY <4>1, <1>3, <2>3, SightsFact
    <3>2. Finds(t, {th[t].cur} \cup Rest(th[t].start, th[t].cur))
      <4>1. WillFind(t)
        BY <1>1, <2>1, <2>3, <3>1 DEF EmptyInv, RoundPcs
      <4>2. Left(th[t]) = {th[t].cur} \cup Rest(th[t].start, th[t].cur)
        BY <1>1, LeftFact
      <4>. QED BY <1>1, <4>1, <4>2 DEF WillFind
    <3>3. PICK b \in {th[t].cur} \cup Rest(th[t].start, th[t].cur), D \in SUBSET taken :
             Buried(b, D) /\ seen[t][b].item \in D \cup {Null}
      BY <3>2 DEF Finds
    <3>4. CASE b = th[t].cur
      <4>1. r.top # seen[t][r.cur]
        BY <1>5, <3>3, <3>4 DEF Buried
      <4>. QED BY <4>1, <1>5, <1>7 DEF WillFind
    <3>5. CASE b \in Rest(th[t].start, th[t].cur)
      <4>1. PICK T : T = Rest(th[t].start, th[t].cur)
        OBVIOUS
      <4>2. Finds(t, T)
        BY <3>3, <3>5, <4>1 DEF Finds
      <4>3. Left(th[t])' = T
        BY <1>5, <1>7, <4>1 DEF Left, Rest, Still, LookPcs, Registered
      <4>4. Finds(t, T)'
        BY <1>3, <1>5, <1>7, <4>2, FindsSame
      <4>. QED BY <4>3, <4>4 DEF WillFind, Finds
    <3>. QED BY <3>3, <3>4, <3>5
  <2>. QED BY <1>5, <1>7, <2>2, <2>3 DEF EmptyInv, SaysEmpty
<1>. QED BY <1>5, <1>7, <1>8, <1>9, <1>10, <1>11, QuietStep

-----------------------------------------------------------------------------
\* The rounds of a pop.

LEMMA ClockFact ==
  ASSUME TypeOK
  PROVE  /\ NumThreads \in Nat \ {0}
         /\ DOMAIN Thread[kind] = 0 .. NumThreads - 1
         /\ \A j \in DOMAIN Thread[kind] : Thread[kind][j] \in Threads
<1>1. PICK n \in 0 .. Cardinality(Threads) - 1 : Thread[kind] \in [0 .. n -> Threads]
  BY TSTimestampAssumption DEF TypeOK
<1>2. n \in Nat
  BY <1>1
<1>3. DOMAIN Thread[kind] = 0 .. n
  BY <1>1
<1>4. Cardinality(0 .. n) = n + 1
  BY <1>2, FS_Interval
<1>5. NumThreads = n + 1
  BY <1>3, <1>4 DEF NumThreads
<1>6. \A j \in DOMAIN Thread[kind] : Thread[kind][j] \in Threads
  BY <1>1
<1>. QED BY <1>2, <1>3, <1>5, <1>6

LEMMA TimeReadFact ==
  ASSUME TypeOK, NEW t \in Threads, PcInv(t), th[t].pc \in {"time", "S_read"}
  PROVE  /\ TimeRead(t) \in Nat
         /\ kind = "stutter" => th[t].i \in DOMAIN Thread[kind]
<1>1. th[t].i \in Nat /\ th[t].now \in Nat /\ clock \in Nat
  BY DEF TypeOK, Locals
<1>2. CASE kind = "stutter"
  <2>1. th[t].i < NumThreads
    BY <1>1, <1>2, ClockFact DEF PcInv
  <2>2. th[t].i \in DOMAIN Thread[kind]
    BY <1>1, <2>1, ClockFact
  <2>3. clocks[Thread[kind][th[t].i]] \in Nat
    BY <2>2, ClockFact DEF TypeOK
  <2>4. TimeRead(t) = LatestSoFar(t)
    BY <1>2 DEF TimeRead
  <2>. QED BY <1>1, <2>2, <2>3, <2>4 DEF LatestSoFar
<1>3. CASE kind # "stutter"
  <2>1. TimeRead(t) = ReadClock
    BY <1>3 DEF TimeRead
  <2>2. ReadClock \in Nat
    BY <1>1 DEF ReadClock, Hwptime
  <2>. QED BY <1>3, <2>1, <2>2
<1>. QED BY <1>2, <1>3

\* t begins, or gives up, a round.
LEMMA PlainStep ==
  ASSUME IInv1, NEW t \in Threads, NEW r \in Locals, Quiet(t, r), TypeOK', SeenInv',
         r.op = "get", r.pc \in {"time", "start"}, r.item = Null,
         r.i # 0 => kind = "stutter" /\ r.pc = "time" /\ r.i < NumThreads,
         BestInv(r.best), r.again => ~r.empty, r.best # NoBest => ~r.empty
  PROVE  IInv1' /\ World(t)
<1>1. Still /\ th'[t] = r /\ kind' = kind
  BY QuietStill, BecomesFact DEF Quiet, IInv1
<1>2. NumThreads' = NumThreads
  BY <1>1 DEF NumThreads
<1>3. PcInv(t)'
  BY <1>1, <1>2 DEF PcInv, PopPcs
<1>4. RememberInv(t)'
  BY <1>1, StillBest DEF RememberInv
<1>5. RoundInv(t)' /\ EmptyInv(t)'
  BY <1>1 DEF RoundInv, EmptyInv, SaysEmpty, RoundPcs, LookPcs
<1>. QED BY <1>3, <1>4, <1>5, QuietStep

LEMMA CallPopStep ==
  ASSUME IInv1, NEW t \in Threads, CallPop(t)
  PROVE  IInv1' /\ World(t)
<1>1. TypeOK /\ PcInv(t) /\ th[t].pc = "idle"
  BY DEF IInv1, CallPop, At
<1>2. th[t].op = "none" /\ th[t].item = Null
  BY <1>1 DEF PcInv
<1>3. PICK r : r = [Idle EXCEPT !.op = "get", !.pc = "time"]
  OBVIOUS
<1>4. /\ r \in Locals /\ r.pc = "time" /\ r.op = "get" /\ r.item = Null /\ r.i = 0
      /\ ~r.again /\ r.best = NoBest
  BY <1>3, IdleType DEF Locals, Idle, Pcs, PopPcs
<1>5. Becomes(t, r)
  BY <1>3 DEF CallPop, Becomes
<1>6. Observe(t, Held) /\ UNCHANGED stamps /\ UNCHANGED Lists /\ seen' = seen
  BY DEF CallPop, Local, shared, Lists
<1>7. /\ done' = done /\ out' = out /\ late' = late /\ older' = older
      /\ start' = [start EXCEPT ![t] = Memo] /\ Sights(Held)
  BY <1>1, <1>2, <1>4, <1>5, <1>6, ObservePop
<1>8. Quiet(t, r)
  BY <1>2, <1>4, <1>5, <1>6, <1>7 DEF Quiet, stamps
<1>9. TypeOK'
  <2>1. th' \in [Threads -> Locals] /\ sight' \in [Threads -> BOOLEAN]
    BY <1>1, <1>4, <1>5, <1>7, BecomesFact, SightsFact
  <2>2. Memo \in [done : SUBSET Items, late : SUBSET Items]
    BY <1>1 DEF Memo, TypeOK
  <2>3. start' \in [Threads -> [done : SUBSET Items, late : SUBSET Items]]
    BY <1>1, <1>7, <2>2 DEF TypeOK
  <2>. QED BY <1>1, <1>6, <1>7, <2>1, <2>3 DEF TypeOK, stamps, Lists
<1>10. SeenInv'
  BY <1>1, <1>4, <1>6, <1>8, QuietStill, SeenSame DEF IInv1
<1>11. BestInv(r.best)
  BY <1>4 DEF BestInv
<1>. QED BY <1>4, <1>8, <1>9, <1>10, <1>11, PlainStep

LEMMA PopTimeStep ==
  ASSUME IInv1, NEW t \in Threads, PopTime(t)
  PROVE  IInv1' /\ World(t)
<1>1. th[t].pc = "time" /\ th[t].pc \in PopPcs
  BY DEF PopTime, ReadTime, PopPcs
<1>2. TypeOK /\ th[t] \in Locals /\ th[t].op = "get" /\ th[t].item = Null /\ PcInv(t)
      /\ EmptyInv(t) /\ BestInv(th[t].best)
  BY <1>1, PopFact DEF IInv1
<1>3. (th[t].again => ~th[t].empty) /\ (th[t].best # NoBest => ~th[t].empty)
  BY <1>2 DEF EmptyInv
<1>4. PICK now \in Nat : now = TimeRead(t)
  BY <1>1, <1>2, TimeReadFact
<1>5. \E r \in Locals : /\ Becomes(t, r) /\ r.op = "get" /\ r.item = Null
                        /\ r.best = th[t].best /\ r.again = th[t].again /\ r.empty = th[t].empty
                        /\ r.pc \in {"time", "start"}
                        /\ r.i # 0 => kind = "stutter" /\ r.pc = "time" /\ r.i < NumThreads
  <2>1. CASE MoreClocks(t)
    <3>0. PICK i \in Nat : i = th[t].i + 1
      BY <1>2 DEF Locals
    <3>1. PICK r : r = [th[t] EXCEPT !.now = now, !.i = i]
      OBVIOUS
    <3>2. Becomes(t, r)
      BY <1>2, <1>4, <2>1, <3>0, <3>1 DEF PopTime, ReadTime, Becomes, TypeOK
    <3>3. r \in Locals /\ r.i = th[t].i + 1
      BY <1>2, <3>0, <3>1 DEF Locals
    <3>4. kind = "stutter" /\ r.i < NumThreads
      BY <2>1, <3>3 DEF MoreClocks
    <3>5. r.op = "get" /\ r.item = Null /\ r.pc = "time"
          /\ r.best = th[t].best /\ r.again = th[t].again /\ r.empty = th[t].empty
      BY <1>1, <1>2, <3>1 DEF Locals
    <3>. QED BY <3>2, <3>3, <3>4, <3>5
  <2>2. CASE ~MoreClocks(t)
    <3>1. PICK r : r = [th[t] EXCEPT !.pc = "start", !.now = now, !.i = 0]
      OBVIOUS
    <3>2. Becomes(t, r)
      BY <1>4, <2>2, <3>1 DEF PopTime, ReadTime, Becomes
    <3>3. r \in Locals /\ r.i = 0 /\ r.pc = "start"
      BY <1>2, <3>1 DEF Locals, Pcs, PopPcs
    <3>4. r.op = "get" /\ r.item = Null
          /\ r.best = th[t].best /\ r.again = th[t].again /\ r.empty = th[t].empty
      BY <1>1, <1>2, <3>1 DEF Locals
    <3>. QED BY <3>2, <3>3, <3>4
  <2>. QED BY <2>1, <2>2
<1>6. PICK r \in Locals : /\ Becomes(t, r) /\ r.op = "get" /\ r.item = Null
                          /\ r.best = th[t].best /\ r.again = th[t].again /\ r.empty = th[t].empty
                          /\ r.pc \in {"time", "start"}
                          /\ r.i # 0 => kind = "stutter" /\ r.pc = "time" /\ r.i < NumThreads
  BY <1>5
<1>7. Local(t)
  BY DEF PopTime, ReadTime, Local
<1>8. Quiet(t, r) /\ TypeOK' /\ (SeenInv => SeenInv')
  BY <1>2, <1>6, <1>7, LocalFact
<1>9. SeenInv'
  BY <1>8 DEF IInv1
<1>. QED BY <1>2, <1>3, <1>6, <1>8, <1>9, PlainStep

LEMMA LeftSame == ASSUME Still, NEW r PROVE Left(r)' = Left(r)
<1>1. Registered' = Registered
  BY DEF Still, Registered
<1>2. \A s, b : Rest(s, b)' = Rest(s, b)
  BY <1>1 DEF Still, Rest
<1>. QED BY <1>1, <1>2 DEF Still, Left

LEMMA LeftFinds ==
  ASSUME TypeOK, NEW t \in Threads, NEW r \in Locals, Quiet(t, r), seen'[t] = seen[t], NEW S,
         Finds(t, S), S \subseteq Left(r)
  PROVE  Finds(t, Left(r))'
<1>1. PICK T : T = Left(r)
  OBVIOUS
<1>2. Finds(t, T)'
  BY <1>1, FindsSame
<1>3. Left(r)' = T
  BY <1>1, QuietStill, LeftSame
<1>. QED BY <1>2, <1>3 DEF Finds

LEMMA RemoveStartStep ==
  ASSUME IInv1, NEW t \in Threads, RemoveStart(t)
  PROVE  IInv1' /\ World(t)
<1>1. th[t].pc = "start" /\ th[t].pc \in PopPcs
  BY DEF RemoveStart, At, PopPcs
<1>2. TypeOK /\ th[t] \in Locals /\ th[t].op = "get" /\ th[t].item = Null /\ RingInv
      /\ SeenInv /\ ListInv /\ \A u \in Threads : RememberInv(u)
  BY <1>1, PopFact DEF IInv1
<1>3. PICK s \in Starts : Becomes(t, Ahead(t, [NewRound(t, "start") EXCEPT !.cur = s, !.start = s]))
  BY Zenon DEF RemoveStart, Becomes
<1>4. s \in Registered \cup {Entry} /\ s \in Buffers
  BY <1>3, AfterThreads DEF Starts, Registered, Buffers
<1>5. PICK o : o = NewRound(t, "start")
  OBVIOUS
<1>6. /\ o \in Locals /\ o.op = "get" /\ o.item = Null /\ o.i = 0 /\ o.now = th[t].now
      /\ ~o.again /\ o.best = NoBest /\ o.empty
  BY <1>2, <1>5, NewRoundType DEF Pcs, PopPcs
<1>7. PICK r : r = [o EXCEPT !.cur = s, !.start = s]
  OBVIOUS
<1>8. /\ r \in Locals /\ r.op = "get" /\ r.item = Null /\ r.i = 0 /\ r.now = th[t].now
      /\ ~r.again /\ r.best = NoBest /\ r.empty /\ r.cur = s /\ r.start = s
  BY <1>4, <1>6, <1>7 DEF Locals
<1>9. PICK q : q = Ahead(t, r)
  OBVIOUS
<1>10. Leaves(r, q) /\ (q.pc \in {"top", "entry"} \/ (r.start = Entry /\ link[r.cur] = Entry))
  BY <1>2, <1>8, <1>9, AheadFact
<1>11. q \in Locals /\ q.op = "get" /\ q.item = Null /\ q.pc # "adjust"
  BY <1>10 DEF Leaves
<1>12. Becomes(t, q) /\ Local(t)
  BY <1>3, <1>5, <1>7, <1>9 DEF RemoveStart
<1>13. Quiet(t, q) /\ TypeOK' /\ seen' = seen /\ SeenInv'
  BY <1>2, <1>11, <1>12, LocalFact
<1>14. q.pc = "top" => q.cur \in Registered /\ Registered \subseteq Left(q)
  <2>1. SUFFICES ASSUME q.pc = "top" PROVE q.cur \in Registered /\ Registered \subseteq Left(q)
    OBVIOUS
  <2>2. link[s] # Entry /\ q.cur = link[s] /\ q.start = s
    BY <1>8, <1>10, <2>1 DEF Leaves
  <2>3. Left(q) = {link[s]} \cup Rest(s, link[s])
    BY <2>1, <2>2, LeftFact
  <2>4. CASE s = Entry
    BY <1>2, <2>2, <2>3, <2>4, RoundNext
  <2>5. CASE s \in Registered
    BY <1>2, <2>2, <2>3, <2>5, RoundFirst
  <2>. QED BY <1>4, <2>4, <2>5
<1>15. q.pc = "entry" => Registered \subseteq Left(q)
  <2>1. SUFFICES ASSUME q.pc = "entry" PROVE Registered \subseteq Left(q)
    OBVIOUS
  <2>2. link[s] = Entry /\ s # Entry /\ q.start = s
    BY <1>8, <1>10, <2>1 DEF Leaves
  <2>3. Left(q) = Registered \ After(s)
    BY <2>1, <2>2, LeftFact
  <2>. QED BY <1>2, <1>4, <2>2, <2>3, RoundFirst
<1>16. ASSUME ~sight'[t] PROVE q.pc \in {"top", "entry"} /\ Finds(t, Left(q))'
  <2>1. th'[t].op = "get" /\ Sights(Held) /\ done' = done
    BY <1>2, <1>11, <1>12, <1>13, BecomesFact DEF Quiet
  <2>2. done \cap Held # {}
    BY <1>2, <1>16, <2>1, SightsFact
  <2>3. Finds(t, Registered)
    <3>1. Inserted \subseteq Items
      BY InsertedItems DEF IInv1
    <3>. QED BY <1>2, <2>2, <3>1, RoundFinds
  <2>4. q.pc \in {"top", "entry"}
    <3>1. Registered # {}
      BY <2>3 DEF Finds
    <3>2. link[Entry] # Entry
      BY <1>2, <3>1, AfterStep DEF Registered, Buffers
    <3>. QED BY <1>8, <1>10, <3>2
  <2>. QED BY <1>2, <1>11, <1>13, <1>14, <1>15, <2>3, <2>4, LeftFinds
<1>17. BestInv(r.best)
  BY <1>8 DEF BestInv
<1>. QED BY <1>4, <1>8, <1>10, <1>11, <1>13, <1>14, <1>16, <1>17, LeavesStep

LEMMA RemoveNextStep ==
  ASSUME IInv1, NEW t \in Threads, RemoveNext(t)
  PROVE  IInv1' /\ World(t)
<1>1. th[t].pc = "entry" /\ th[t].pc \in PopPcs /\ th[t].pc \in RoundPcs
  BY DEF RemoveNext, At, PopPcs, RoundPcs
<1>2. PICK r : r = th[t]
  OBVIOUS
<1>3. /\ TypeOK /\ RingInv /\ SeenInv /\ EmptyInv(t) /\ BestInv(r.best)
      /\ r \in Locals /\ r.op = "get" /\ r.item = Null /\ r.i = 0 /\ r.now = th[t].now
  BY <1>1, <1>2, PopFact DEF IInv1
<1>4. r.cur = Entry /\ r.start # Entry /\ r.start \in Registered
  BY <1>1, <1>2, PopFact DEF RoundInv
<1>5. link[Entry] # Entry
  BY <1>3, <1>4, AfterStep DEF Registered, Buffers
<1>6. PICK q : q = Ahead(t, r)
  OBVIOUS
<1>7. Leaves(r, q) /\ q.pc \in {"top", "entry"}
  BY <1>3, <1>4, <1>6, AheadFact
<1>8. q \in Locals /\ q.op = "get" /\ q.item = Null /\ q.pc = "top" /\ q.cur = link[Entry] /\ q.start = r.start
  BY <1>4, <1>5, <1>7 DEF Leaves
<1>9. Becomes(t, q) /\ Local(t)
  BY <1>2, <1>6 DEF RemoveNext, Becomes
<1>10. Quiet(t, q) /\ TypeOK' /\ seen' = seen /\ SeenInv' /\ th'[t] = q
  BY <1>2, <1>3, <1>8, <1>9, LocalFact, BecomesFact
<1>11. q.cur \in Registered /\ Registered \ After(r.start) \subseteq Left(q)
  <2>1. Left(q) = {link[Entry]} \cup Rest(r.start, link[Entry])
    BY <1>8, LeftFact
  <2>. QED BY <1>3, <1>4, <1>5, <1>8, <2>1, RoundNext
<1>12. ASSUME r.empty, ~sight'[t] PROVE Finds(t, Left(q))'
  <2>1. ~sight[t]
    <3>1. th'[t].op = "get" /\ Sights(Held)
      BY <1>8, <1>10 DEF Quiet
    <3>. QED BY <3>1, <1>3, <1>12, SightsFact
  <2>2. Finds(t, Left(r))
    BY <1>1, <1>2, <1>3, <1>12, <2>1 DEF EmptyInv, WillFind
  <2>3. Left(r) = Registered \ After(r.start)
    BY <1>1, <1>2, LeftFact
  <2>. QED BY <1>3, <1>8, <1>10, <1>11, <2>2, <2>3, LeftFinds
<1>13. (r.again => ~r.empty) /\ (r.best # NoBest => ~r.empty)
  BY <1>2, <1>3 DEF EmptyInv
<1>. QED BY <1>3, <1>4, <1>7, <1>8, <1>10, <1>11, <1>12, <1>13, LeavesStep

LEMMA RemoveListStep ==
  ASSUME IInv1, NEW t \in Threads, RemoveList(t)
  PROVE  IInv1' /\ World(t)
<1>1. th[t].pc = "list" /\ th[t].pc \in PopPcs /\ th[t].pc \in RoundPcs /\ th[t].pc \in LookPcs
  BY DEF RemoveList, At, PopPcs, RoundPcs, LookPcs
<1>2. PICK r : r = [th[t] EXCEPT !.pc = "walk", !.cand = list[th[t].cur].item]
  OBVIOUS
<1>3. TypeOK /\ th[t] \in Locals /\ th[t].op = "get" /\ th[t].item = Null /\ SeenInv
      /\ RememberInv(t) /\ EmptyInv(t) /\ PcInv(t) /\ th[t].i = 0 /\ BestInv(th[t].best)
  BY <1>1, PopFact DEF IInv1
<1>4. th[t].cur \in Registered /\ th[t].cur \in Threads /\ th[t].start \in Registered \cup {Entry}
  BY <1>1, PopFact, AfterThreads DEF RoundInv, Registered
<1>5. list[th[t].cur].item \in Items \cup {Null}
  BY <1>3, <1>4 DEF TypeOK, Words
<1>6. /\ r \in Locals /\ r.pc = "walk" /\ r.cand = list[th[t].cur].item /\ r.top = th[t].top
      /\ r.op = "get" /\ r.item = Null /\ r.cur = th[t].cur /\ r.start = th[t].start
      /\ r.i = 0 /\ r.best = th[t].best /\ r.again = th[t].again /\ r.empty = th[t].empty
  BY <1>2, <1>3, <1>5 DEF Locals, Pcs, PopPcs, RoundPcs, LookPcs
<1>7. Becomes(t, r)
  BY <1>2, <1>3 DEF RemoveList, Becomes, TypeOK
<1>8. Quiet(t, r) /\ TypeOK' /\ Still /\ seen' = seen /\ SeenInv' /\ th'[t] = r
  BY <1>3, <1>6, <1>7, LocalFact, BecomesFact DEF RemoveList
<1>9. PcInv(t)'
  BY <1>6, <1>8 DEF PcInv, PopPcs, RoundPcs, LookPcs, PushPcs
<1>10. RememberInv(t)'
  <2>1. Known(r.cur, r.cand)
    BY <1>4, <1>6 DEF Known, IInv1, ListInv, RingInv
  <2>2. Cuttable(r.top, r.cand)
    BY <1>1, <1>3, <1>6 DEF RememberInv
  <2>3. Known(r.cur, r.cand)' /\ Cuttable(r.top, r.cand)' /\ BestInv(r.best)'
    BY <1>3, <1>4, <1>6, <1>8, <2>1, <2>2, StillKnown, StillBest
  <2>. QED BY <1>6, <1>8, <2>3 DEF RememberInv
<1>11. RoundInv(t)'
  BY <1>4, <1>6, <1>8 DEF RoundInv, Still, Registered
<1>12. EmptyInv(t)'
  <2>1. (th[t].again => ~th[t].empty) /\ (th[t].best # NoBest => ~th[t].empty)
    BY <1>3 DEF EmptyInv
  <2>2. ASSUME th[t].empty, ~sight'[t] PROVE WillFind(t)'
    <3>1. ~sight[t]
      <4>1. th'[t].op = "get" /\ Sights(Held)
        BY <1>6, <1>8 DEF Quiet
      <4>. QED BY <4>1, <1>3, <2>2, SightsFact
    <3>2. WillFind(t)
      BY <1>1, <1>3, <2>2, <3>1 DEF EmptyInv
    <3>3. CASE th[t].top # seen[t][th[t].cur]
      BY <1>6, <1>8, <3>3 DEF WillFind
    <3>4. CASE Finds(t, Left(th[t]))
      <4>1. Left(r) = Left(th[t])
        BY <1>1, <1>6, LeftFact DEF LookPcs
      <4>2. Finds(t, Left(r))'
        BY <1>3, <1>6, <1>8, <3>4, <4>1, LeftFinds
      <4>. QED BY <4>2, <1>8 DEF WillFind
    <3>. QED BY <3>2, <3>3, <3>4 DEF WillFind
  <2>. QED BY <1>6, <1>8, <2>1, <2>2 DEF EmptyInv, SaysEmpty
<1>. QED BY <1>6, <1>8, <1>9, <1>10, <1>11, <1>12, QuietStep

\* A buffer that is left behind although something is still to be found.
LEMMA ScanFinds ==
  ASSUME TypeOK, RingInv, NEW r, NEW s, Leaves(r, s), s.pc \in {"top", "entry"} => r.cur # r.start,
         r.start \in Registered \cup {Entry}, r.cur \in Registered
  PROVE  /\ s.pc = "top" => s.cur \in Registered
         /\ Rest(r.start, r.cur) # {} => s.pc \in {"top", "entry"} /\ Rest(r.start, r.cur) \subseteq Left(s)
<1>1. CASE s.pc = "top"
  <2>1. link[r.cur] # Entry /\ s.cur = link[r.cur] /\ s.start = r.start /\ r.cur # r.start
    BY <1>1 DEF Leaves
  <2>2. Left(s) = {link[r.cur]} \cup Rest(r.start, link[r.cur])
    BY <1>1, <2>1, LeftFact
  <2>. QED BY <1>1, <2>1, <2>2, RoundAhead
<1>2. CASE s.pc = "entry"
  <2>1. link[r.cur] = Entry /\ s.start = r.start /\ r.start # Entry
    BY <1>2 DEF Leaves
  <2>2. Left(s) = Registered \ After(r.start)
    BY <1>2, <2>1, LeftFact
  <2>. QED BY <1>2, <2>1, <2>2, RoundEntry
<1>3. CASE s.pc \notin {"top", "entry"}
  <2>1. r.cur = r.start \/ (r.start = Entry /\ link[r.cur] = Entry)
    BY <1>3 DEF Leaves
  <2>2. Rest(r.start, r.cur) = {}
    BY <2>1, RoundOver
  <2>. QED BY <1>3, <2>2
<1>. QED BY <1>1, <1>2, <1>3

LEMMA OursInserted ==
  ASSUME OlderInv, NEW b \in Threads
  PROVE  Ours(b) \subseteq Inserted
BY DEF OlderInv, Ours, Inserted, Putting, Linked

\* Down a list from what is known of it.
LEMMA KnownBelow ==
  ASSUME OlderInv, NEW b \in Threads, NEW x, Known(b, x), NEW y \in Chain(x)
  PROVE  Known(b, y)
<1>1. Chain(y) \subseteq Chain(x)
  BY ChainTrans
<1>2. Chain(x) \subseteq Ours(b)
  BY DEF Known
<1>3. y \in Inserted
  BY <1>2, OursInserted
<1>. QED BY <1>1, <1>3 DEF Known

\* The locals of t once its walk found y.
WalkFound(t, y) == [th[t] EXCEPT !.cand = y, !.pc = "stamp", !.empty = FALSE]

LEMMA WalkFoundStep ==
  ASSUME IInv1, NEW t \in Threads, th[t].pc = "walk", NEW y, y = FirstUntaken(th[t].cand),
         y # Null, NEW r, r = WalkFound(t, y),
         Becomes(t, r), Local(t)
  PROVE  IInv1' /\ World(t)
<1>1. th[t].pc \in PopPcs /\ th[t].pc \in RoundPcs /\ th[t].pc \in LookPcs
  BY DEF PopPcs, RoundPcs, LookPcs
<1>3. TypeOK /\ th[t] \in Locals /\ th[t].op = "get" /\ th[t].item = Null /\ SeenInv
      /\ RememberInv(t) /\ EmptyInv(t) /\ PcInv(t) /\ th[t].i = 0 /\ BestInv(th[t].best)
      /\ OlderInv
  BY <1>1, PopFact DEF IInv1
<1>4. th[t].cur \in Registered /\ th[t].cur \in Threads /\ th[t].start \in Registered \cup {Entry}
  BY <1>1, PopFact, AfterThreads DEF RoundInv, Registered
<1>5. /\ Chain(th[t].cand) \ taken \subseteq Chain(y)
      /\ y \in Chain(th[t].cand)
  BY FirstUntakenFact
<1>6. y \in Items
  BY <1>5, ChainItems
<1>7. /\ r \in Locals /\ r.pc = "stamp" /\ r.cand = y /\ r.top = th[t].top
      /\ r.op = "get" /\ r.item = Null /\ r.cur = th[t].cur /\ r.start = th[t].start
      /\ r.i = 0 /\ r.best = th[t].best /\ ~r.empty
  BY <1>3, <1>6 DEF WalkFound, Locals, Pcs, PopPcs, RoundPcs, LookPcs
<1>9. Quiet(t, r) /\ TypeOK' /\ Still /\ seen' = seen /\ SeenInv' /\ th'[t] = r
  BY <1>3, <1>7, LocalFact, BecomesFact
<1>10. PcInv(t)'
  BY <1>7, <1>9 DEF PcInv, PopPcs, RoundPcs, LookPcs, PushPcs
<1>11. RememberInv(t)'
  <2>1. Known(r.cur, r.cand)
    BY <1>3, <1>4, <1>5, <1>7, KnownBelow DEF RememberInv
  <2>2. Cuttable(r.top, r.cand)
    <3>1. Cuttable(th[t].top, th[t].cand)
      BY <1>3 DEF RememberInv
    <3>. QED BY <1>5, <1>7, <3>1 DEF Cuttable
  <2>3. Known(r.cur, r.cand)' /\ Cuttable(r.top, r.cand)' /\ BestInv(r.best)'
    BY <1>3, <1>4, <1>7, <1>9, <2>1, <2>2, StillKnown, StillBest
  <2>. QED BY <1>6, <1>7, <1>9, <2>3 DEF RememberInv
<1>12. RoundInv(t)'
  BY <1>4, <1>7, <1>9 DEF RoundInv, Still, Registered
<1>13. EmptyInv(t)'
  BY <1>7, <1>9 DEF EmptyInv, SaysEmpty
<1>. QED BY <1>7, <1>9, <1>10, <1>11, <1>12, <1>13, QuietStep

\* The list of a buffer leads to no item that is not taken.
WalkEmpty(t) ==
  [th[t] EXCEPT !.cand = Null, !.empty = th[t].empty /\ (th[t].again \/ SeenBefore(t))]

LEMMA WalkEmptyStep ==
  ASSUME IInv1, NEW t \in Threads, th[t].pc = "walk", FirstUntaken(th[t].cand) = Null,
         NEW r, r = WalkEmpty(t),
         Becomes(t, Scanned(t, r)), UNCHANGED stamps, UNCHANGED Lists, Observe(t, Held),
         seen' = IF th[t].again \/ SeenBefore(t) THEN seen ELSE [seen EXCEPT ![t][th[t].cur] = th[t].top]
  PROVE  IInv1' /\ World(t)
<1>1. th[t].pc \in PopPcs /\ th[t].pc \in RoundPcs /\ th[t].pc \in LookPcs
  BY DEF PopPcs, RoundPcs, LookPcs
<1>2. TypeOK /\ th[t] \in Locals /\ th[t].op = "get" /\ th[t].item = Null /\ SeenInv /\ RingInv
      /\ RememberInv(t) /\ EmptyInv(t) /\ th[t].i = 0 /\ BestInv(th[t].best)
  BY <1>1, PopFact DEF IInv1
<1>3. th[t].cur \in Registered /\ th[t].cur \in Threads /\ th[t].start \in Registered \cup {Entry}
  BY <1>1, PopFact, AfterThreads DEF RoundInv, Registered
<1>4. PICK e \in BOOLEAN : e <=> th[t].empty /\ (th[t].again \/ SeenBefore(t))
  OBVIOUS
<1>5. r = [th[t] EXCEPT !.cand = Null, !.empty = e]
  BY <1>2, <1>4 DEF WalkEmpty, Locals
<1>6. /\ r \in Locals /\ r.op = "get" /\ r.item = Null /\ r.i = 0 /\ r.now = th[t].now
      /\ r.cur = th[t].cur /\ r.start = th[t].start /\ r.best = th[t].best
      /\ r.again = th[t].again /\ r.empty = e
  BY <1>2, <1>5 DEF Locals
<1>7. PICK s : s = Scanned(t, r)
  OBVIOUS
<1>8. Leaves(r, s) /\ (s.pc \in {"top", "entry"} => r.cur # r.start)
  BY <1>2, <1>6, <1>7, ScannedFact
<1>9. s \in Locals /\ s.op = "get" /\ s.item = Null /\ s.pc # "adjust"
  BY <1>8 DEF Leaves
<1>10. (th[t].again => ~th[t].empty) /\ (th[t].best # NoBest => ~th[t].empty)
  BY <1>2 DEF EmptyInv
<1>11. /\ seen' \in [Threads -> [Threads -> Words]]
       /\ \A u \in Threads : u # t => seen'[u] = seen[u]
       /\ \A u, b \in Threads : seen'[u][b] = seen[u][b] \/ seen'[u][b] = th[t].top
       /\ e => seen' = seen /\ th[t].top = seen[t][th[t].cur] /\ th[t].empty
  <2>1. th[t].top \in Words /\ seen \in [Threads -> [Threads -> Words]]
    BY <1>2 DEF Locals, TypeOK
  <2>2. CASE th[t].again \/ SeenBefore(t)
    BY <1>4, <1>10, <2>1, <2>2 DEF SeenBefore
  <2>3. CASE ~(th[t].again \/ SeenBefore(t))
    <3>1. seen' = [seen EXCEPT ![t][th[t].cur] = th[t].top]
      BY <2>3
    <3>2. seen' \in [Threads -> [Threads -> Words]]
      BY <1>3, <2>1, <3>1
    <3>3. \A u \in Threads : u # t => seen'[u] = seen[u]
      BY <2>1, <3>1
    <3>4. \A u, b \in Threads : seen'[u][b] = seen[u][b] \/ seen'[u][b] = th[t].top
      BY <1>3, <2>1, <3>1
    <3>. QED BY <3>2, <3>3, <3>4, <2>3, <1>4
  <2>. QED BY <2>2, <2>3
<1>12. Quiet(t, s) /\ TypeOK'
  BY <1>2, <1>7, <1>9, <1>11, LocalQuiet
<1>13. Still
  BY <1>2, <1>9, <1>12, QuietStill
<1>14. SeenInv'
  <2>1. Chain(th[t].cand) \subseteq taken
    BY FirstUntakenFact
  <2>2. Cuttable(th[t].top, th[t].cand)
    BY <1>1, <1>2 DEF RememberInv
  <2>3. th[t].top.item \in Inserted \cup {Null} /\ Chain(th[t].top.item) \subseteq taken
    BY <2>1, <2>2 DEF Cuttable
  <2>4. ASSUME NEW u \in Threads, NEW b \in Threads
        PROVE  seen'[u][b].item \in Inserted \cup {Null} /\ Chain(seen'[u][b].item) \subseteq taken
    BY <1>2, <1>11, <2>3 DEF SeenInv
  <2>. QED BY <1>13, <2>4 DEF SeenInv, Still
<1>15. s.pc = "top" => s.cur \in Registered
  BY <1>2, <1>3, <1>6, <1>8, ScanFinds
<1>16. ASSUME e, ~sight'[t] PROVE s.pc \in {"top", "entry"} /\ Finds(t, Left(s))'
  <2>1. ~sight[t]
    <3>1. th'[t].op = "get" /\ Sights(Held)
      BY <1>2, <1>9, <1>12, BecomesFact DEF Quiet
    <3>. QED BY <3>1, <1>2, <1>16, SightsFact
  <2>2. seen' = seen /\ th[t].top = seen[t][th[t].cur] /\ th[t].empty
    BY <1>11, <1>16
  <2>3. Finds(t, Left(th[t]))
    BY <1>1, <1>2, <2>1, <2>2 DEF EmptyInv, WillFind
  <2>4. Left(th[t]) = Rest(r.start, r.cur)
    BY <1>1, <1>6, LeftFact
  <2>5. Rest(r.start, r.cur) # {}
    BY <2>3, <2>4 DEF Finds
  <2>6. s.pc \in {"top", "entry"} /\ Rest(r.start, r.cur) \subseteq Left(s)
    BY <1>2, <1>3, <1>6, <1>8, <2>5, ScanFinds
  <2>. QED BY <1>2, <1>9, <1>12, <2>2, <2>3, <2>4, <2>6, LeftFinds
<1>17. (r.again => ~r.empty) /\ (r.best # NoBest => ~r.empty) /\ BestInv(r.best)
  BY <1>2, <1>6, <1>10, <1>11
<1>18. r.empty /\ ~sight'[t] => s.pc \in {"top", "entry"} /\ Finds(t, Left(s))'
  BY <1>6, <1>16
<1>19. r.start \in Registered \cup {Entry} /\ r.i = 0
  BY <1>3, <1>6
<1>. QED BY <1>6, <1>8, <1>9, <1>12, <1>14, <1>15, <1>17, <1>18, <1>19, LeavesStep

LEMMA RemoveWalkCases ==
  ASSUME TypeOK, NEW t \in Threads, RemoveWalk(t), NEW y, y = FirstUntaken(th[t].cand)
  PROVE  /\ th[t].pc = "walk"
         /\ \/ y # Null /\ Becomes(t, WalkFound(t, y)) /\ Local(t)
            \/ /\ y = Null /\ Becomes(t, Scanned(t, WalkEmpty(t)))
               /\ UNCHANGED stamps /\ UNCHANGED Lists /\ Observe(t, Held)
               /\ seen' = IF th[t].again \/ SeenBefore(t) THEN seen
                          ELSE [seen EXCEPT ![t][th[t].cur] = th[t].top]
<1>1. th[t].pc = "walk" /\ th[t] \in Locals
  BY DEF RemoveWalk, At, TypeOK
<1>2. PICK q : q = [th[t] EXCEPT !.cand = y]
  OBVIOUS
<1>3. q = [th[t] EXCEPT !.cand = FirstUntaken(@)]
  BY <1>1, <1>2 DEF Locals
<1>4. q.cand = y /\ q.again = th[t].again /\ q.cur = th[t].cur /\ q.top = th[t].top /\ q.empty = th[t].empty
  BY <1>1, <1>2 DEF Locals
<1>5. /\ UNCHANGED <<stamps, link, list, next, taken>> /\ Observe(t, Held)
      /\ \/ /\ q.cand # Null
            /\ th' = [th EXCEPT ![t] = [q EXCEPT !.pc = "stamp", !.empty = FALSE]]
            /\ UNCHANGED seen
         \/ /\ q.cand = Null
            /\ seen' = IF q.again \/ SeenBefore(t) THEN seen
                       ELSE [seen EXCEPT ![t][q.cur] = q.top]
            /\ th' = [th EXCEPT ![t] =
                        Scanned(t, [q EXCEPT !.empty = @ /\ (q.again \/ SeenBefore(t))])]
  BY <1>3 DEF RemoveWalk
<1>6. CASE y # Null
  <2>1. Local(t)
    BY <1>4, <1>5, <1>6 DEF Local, shared
  <2>2. WalkFound(t, y) = [q EXCEPT !.pc = "stamp", !.empty = FALSE]
    BY <1>1, <1>2 DEF WalkFound, Locals
  <2>3. Becomes(t, WalkFound(t, y))
    BY <1>4, <1>5, <1>6, <2>2 DEF Becomes
  <2>. QED BY <1>1, <1>6, <2>1, <2>3
<1>7. CASE y = Null
  <2>1. PICK r : r = WalkEmpty(t)
    OBVIOUS
  <2>2. r = [q EXCEPT !.empty = @ /\ (q.again \/ SeenBefore(t))]
    BY <1>1, <1>2, <1>4, <1>7, <2>1 DEF WalkEmpty, Locals
  <2>3. Becomes(t, Scanned(t, r))
    BY <1>4, <1>5, <1>7, <2>2 DEF Becomes
  <2>4. UNCHANGED stamps /\ UNCHANGED Lists /\ Observe(t, Held)
    BY <1>5 DEF Lists
  <2>5. seen' = IF th[t].again \/ SeenBefore(t) THEN seen
                ELSE [seen EXCEPT ![t][th[t].cur] = th[t].top]
    BY <1>4, <1>5, <1>7
  <2>. QED BY <1>1, <1>7, <2>1, <2>3, <2>4, <2>5
<1>. QED BY <1>6, <1>7

LEMMA RemoveWalkStep ==
  ASSUME IInv1, NEW t \in Threads, RemoveWalk(t)
  PROVE  IInv1' /\ World(t)
<1>1. TypeOK
  BY DEF IInv1
<1>2. PICK y : y = FirstUntaken(th[t].cand)
  OBVIOUS
<1>3. PICK r, q : r = WalkFound(t, y) /\ q = WalkEmpty(t)
  OBVIOUS
<1>4. CASE y # Null /\ Becomes(t, r) /\ Local(t)
  BY <1>1, <1>2, <1>3, <1>4, RemoveWalkCases, WalkFoundStep
<1>5. CASE /\ y = Null /\ Becomes(t, Scanned(t, q))
           /\ UNCHANGED stamps /\ UNCHANGED Lists /\ Observe(t, Held)
           /\ seen' = IF th[t].again \/ SeenBefore(t) THEN seen
                      ELSE [seen EXCEPT ![t][th[t].cur] = th[t].top]
  BY <1>1, <1>2, <1>3, <1>5, RemoveWalkCases, WalkEmptyStep
<1>. QED BY <1>1, <1>2, <1>3, <1>4, <1>5, RemoveWalkCases

-----------------------------------------------------------------------------
\* The item that is looked at.

LEMMA LoadedType ==
  ASSUME TypeOK, NEW t \in Threads, NEW x \in Items
  PROVE  Loaded(t, x) \in Nat \X Nat
BY DEF Loaded, TypeOK, Locals

LEMMA PairParts ==
  ASSUME NEW p \in Nat \X Nat, NEW n \in Nat
  PROVE  [p EXCEPT ![1] = n] = <<n, p[2]>> /\ [p EXCEPT ![2] = n] = <<p[1], n>>
OBVIOUS

\* The locals of t once it read one part of a timestamp, or all of it.
StampPart(t, p) == [th[t] EXCEPT !.stamp = p, !.i = 1]

LEMMA StampPartStep ==
  ASSUME IInv1, NEW t \in Threads, th[t].pc = "stamp", kind = "interval", th[t].i = 0,
         NEW p \in Nat \X Nat, NEW r, r = StampPart(t, p), Becomes(t, r), Local(t)
  PROVE  IInv1' /\ World(t)
<1>1. th[t].pc \in PopPcs /\ th[t].pc \in RoundPcs /\ th[t].pc \in LookPcs
  BY DEF PopPcs, RoundPcs, LookPcs
<1>2. TypeOK /\ th[t] \in Locals /\ th[t].op = "get" /\ th[t].item = Null /\ SeenInv
      /\ RememberInv(t) /\ EmptyInv(t) /\ PcInv(t) /\ BestInv(th[t].best)
  BY <1>1, PopFact DEF IInv1
<1>3. th[t].cur \in Registered /\ th[t].cur \in Threads /\ th[t].start \in Registered \cup {Entry}
  BY <1>1, PopFact, AfterThreads DEF RoundInv, Registered
<1>4. th[t].cand \in Items /\ Known(th[t].cur, th[t].cand) /\ Cuttable(th[t].top, th[t].cand)
  BY <1>2 DEF RememberInv
<1>8. /\ r \in Locals /\ r.pc = "stamp" /\ r.cand = th[t].cand /\ r.top = th[t].top
      /\ r.op = "get" /\ r.item = Null /\ r.cur = th[t].cur /\ r.start = th[t].start
      /\ r.i = 1 /\ r.best = th[t].best /\ r.empty = th[t].empty /\ r.again = th[t].again
  BY <1>2 DEF StampPart, Locals
<1>10. Quiet(t, r) /\ TypeOK' /\ Still /\ seen' = seen /\ SeenInv' /\ th'[t] = r /\ kind' = kind
  BY <1>2, <1>8, LocalFact, BecomesFact DEF Quiet
<1>11. PcInv(t)'
  BY <1>8, <1>10 DEF PcInv, PopPcs, RoundPcs, LookPcs, PushPcs
<1>12. RememberInv(t)'
  <2>1. Known(r.cur, r.cand)' /\ Cuttable(r.top, r.cand)' /\ BestInv(r.best)'
    BY <1>2, <1>3, <1>4, <1>8, <1>10, StillKnown, StillBest
  <2>. QED BY <1>4, <1>8, <1>10, <2>1 DEF RememberInv
<1>13. RoundInv(t)'
  BY <1>3, <1>8, <1>10 DEF RoundInv, Still, Registered
<1>14. EmptyInv(t)'
  BY <1>2, <1>8, <1>10 DEF EmptyInv, SaysEmpty
<1>. QED BY <1>8, <1>10, <1>11, <1>12, <1>13, <1>14, QuietStep

StampRead(t, s) == [th[t] EXCEPT !.stamp = s, !.i = 0]
StampAtOnce(t, s) == [th[t] EXCEPT !.stamp = s, !.i = 0, !.pc = "eliminate"]

LEMMA EliminateStep ==
  ASSUME IInv1, NEW t \in Threads, th[t].pc = "stamp", NEW s \in Nat \X Nat,
         NEW r, r = StampAtOnce(t, s), Becomes(t, r), Local(t)
  PROVE  IInv1' /\ World(t)
<1>1. th[t].pc \in PopPcs /\ th[t].pc \in RoundPcs /\ th[t].pc \in LookPcs
  BY DEF PopPcs, RoundPcs, LookPcs
<1>2. TypeOK /\ th[t] \in Locals /\ th[t].op = "get" /\ th[t].item = Null /\ SeenInv
      /\ RememberInv(t) /\ EmptyInv(t) /\ PcInv(t) /\ BestInv(th[t].best)
  BY <1>1, PopFact DEF IInv1
<1>3. th[t].cur \in Registered /\ th[t].cur \in Threads /\ th[t].start \in Registered \cup {Entry}
  BY <1>1, PopFact, AfterThreads DEF RoundInv, Registered
<1>4. th[t].cand \in Items /\ Known(th[t].cur, th[t].cand) /\ Cuttable(th[t].top, th[t].cand)
  BY <1>2 DEF RememberInv
<1>6. /\ r \in Locals /\ r.pc = "eliminate" /\ r.cand = th[t].cand /\ r.top = th[t].top
      /\ r.op = "get" /\ r.item = Null /\ r.cur = th[t].cur /\ r.start = th[t].start
      /\ r.i = 0 /\ r.best = th[t].best /\ r.empty = th[t].empty /\ r.again = th[t].again
  BY <1>2 DEF StampAtOnce, Locals, Pcs, PopPcs, RoundPcs, LookPcs
<1>8. Quiet(t, r) /\ TypeOK' /\ Still /\ seen' = seen /\ SeenInv' /\ th'[t] = r
  BY <1>2, <1>6, LocalFact, BecomesFact
<1>9. PcInv(t)'
  BY <1>6, <1>8 DEF PcInv, PopPcs, RoundPcs, LookPcs, PushPcs
<1>10. RememberInv(t)'
  <2>1. Known(r.cur, r.cand)' /\ Cuttable(r.top, r.cand)' /\ BestInv(r.best)'
    BY <1>2, <1>3, <1>4, <1>6, <1>8, StillKnown, StillBest
  <2>. QED BY <1>4, <1>6, <1>8, <2>1 DEF RememberInv
<1>11. RoundInv(t)'
  BY <1>3, <1>6, <1>8 DEF RoundInv, Still, Registered
<1>12. EmptyInv(t)'
  BY <1>2, <1>6, <1>8 DEF EmptyInv, SaysEmpty
<1>. QED BY <1>6, <1>8, <1>9, <1>10, <1>11, <1>12, QuietStep

LEMMA ComparedStep ==
  ASSUME IInv1, NEW t \in Threads, th[t].pc = "stamp", NEW s \in Nat \X Nat,
         NEW p, p = StampRead(t, s), Becomes(t, Compared(t, p)), Local(t)
  PROVE  IInv1' /\ World(t)
<1>1. th[t].pc \in PopPcs /\ th[t].pc \in RoundPcs /\ th[t].pc \in LookPcs
  BY DEF PopPcs, RoundPcs, LookPcs
<1>2. TypeOK /\ th[t] \in Locals /\ th[t].op = "get" /\ th[t].item = Null /\ SeenInv /\ RingInv
      /\ RememberInv(t) /\ EmptyInv(t) /\ BestInv(th[t].best)
  BY <1>1, PopFact DEF IInv1
<1>3. th[t].cur \in Registered /\ th[t].cur \in Threads /\ th[t].start \in Registered \cup {Entry}
  BY <1>1, PopFact, AfterThreads DEF RoundInv, Registered
<1>4. th[t].cand \in Items /\ Known(th[t].cur, th[t].cand) /\ Cuttable(th[t].top, th[t].cand)
  BY <1>2 DEF RememberInv
<1>5. ~th[t].empty
  BY <1>2 DEF EmptyInv
<1>7. /\ p \in Locals /\ p.op = "get" /\ p.item = Null /\ p.i = 0 /\ p.now = th[t].now
      /\ p.cur = th[t].cur /\ p.start = th[t].start /\ p.best = th[t].best /\ ~p.empty
      /\ p.cand = th[t].cand /\ p.top = th[t].top /\ p.stamp = s
  BY <1>2, <1>5 DEF StampRead, Locals
<1>8. PICK best : best = [item |-> p.cand, buf |-> p.cur, top |-> p.top, stamp |-> p.stamp]
  OBVIOUS
<1>9. best \in Bests /\ BestInv(best)
  BY <1>3, <1>4, <1>7, <1>8 DEF Bests, Buffers, Locals, BestInv
<1>10. PICK r : r = IF IsLater(p.stamp, p.best.stamp) THEN [p EXCEPT !.best = best] ELSE p
  OBVIOUS
<1>11. /\ r \in Locals /\ r.op = "get" /\ r.item = Null /\ r.i = 0 /\ r.now = th[t].now
       /\ r.cur = th[t].cur /\ r.start = th[t].start /\ ~r.empty /\ BestInv(r.best)
  BY <1>2, <1>7, <1>9, <1>10 DEF Locals
<1>12. PICK q : q = Scanned(t, r)
  OBVIOUS
<1>13. Leaves(r, q) /\ (q.pc \in {"top", "entry"} => r.cur # r.start)
  BY <1>2, <1>11, <1>12, ScannedFact
<1>14. q \in Locals /\ q.op = "get" /\ q.item = Null /\ q.pc # "adjust"
  BY <1>13 DEF Leaves
<1>15. Becomes(t, q)
  BY <1>8, <1>10, <1>12 DEF Compared
<1>16. Quiet(t, q) /\ TypeOK' /\ SeenInv'
  BY <1>2, <1>14, <1>15, LocalFact
<1>17. q.pc = "top" => q.cur \in Registered
  BY <1>2, <1>3, <1>11, <1>13, ScanFinds
<1>. QED BY <1>3, <1>11, <1>13, <1>14, <1>16, <1>17, LeavesStep

LEMMA RemoveStampCases ==
  ASSUME TypeOK, NEW t \in Threads, RemoveStamp(t), th[t].cand \in Items,
         NEW s, s = Loaded(t, th[t].cand)
  PROVE  /\ th[t].pc = "stamp" /\ Local(t)
         /\ \/ /\ kind = "interval" /\ th[t].i = 0
               /\ \E p \in Nat \X Nat : p[1] = ts[th[t].cand][1] /\ Becomes(t, StampPart(t, p))
            \/ /\ kind # "interval" \/ th[t].i # 0
               /\ \/ ~th[t].again /\ AtOnce(t, s) /\ Becomes(t, StampAtOnce(t, s))
                  \/ Becomes(t, Compared(t, StampRead(t, s)))
<1>1. th[t].pc = "stamp" /\ Local(t) /\ th[t] \in Locals
  BY DEF RemoveStamp, At, TypeOK
<1>2. PICK r : r = StampRead(t, s)
  OBVIOUS
<1>3. r.again = th[t].again /\ r.stamp = s
  BY <1>1, <1>2 DEF StampRead, Locals
<1>4. LoadTimestamp(t, th[t].cand, IF ~r.again /\ AtOnce(t, r.stamp) THEN [r EXCEPT !.pc = "eliminate"]
                                   ELSE Compared(t, r))
  BY <1>2 DEF StampRead, RemoveStamp
<1>5. CASE kind = "interval" /\ th[t].i = 0
  <2>1. PICK n \in Nat : n = ts[th[t].cand][1]
    BY DEF TypeOK
  <2>2. th' = [th EXCEPT ![t].stamp[1] = n, ![t].i = 1]
    BY <1>4, <1>5, <2>1 DEF LoadTimestamp
  <2>3. th[t].stamp \in Nat \X Nat /\ th \in [Threads -> Locals]
    BY <1>1 DEF Locals, TypeOK
  <2>4. PICK p \in Nat \X Nat : p = [th[t].stamp EXCEPT ![1] = n] /\ p[1] = n
    <3>1. [th[t].stamp EXCEPT ![1] = n] = <<n, th[t].stamp[2]>>
      BY <2>3, PairParts
    <3>2. <<n, th[t].stamp[2]>> \in Nat \X Nat
      BY <2>3
    <3>. QED BY <3>1, <3>2
  <2>5. [th EXCEPT ![t].stamp[1] = n] = [th EXCEPT ![t].stamp = p]
    BY <2>4, Zenon
  <2>6. th' = [th EXCEPT ![t].stamp = p, ![t].i = 1]
    BY <2>2, <2>5
  <2>7. th' = [th EXCEPT ![t] = [th[t] EXCEPT !.stamp = p, !.i = 1]]
    BY <1>1, <2>3, <2>6 DEF Locals
  <2>8. Becomes(t, StampPart(t, p))
    BY <2>7 DEF Becomes, StampPart
  <2>. QED BY <1>1, <1>5, <2>1, <2>4, <2>8
<1>6. CASE ~(kind = "interval" /\ th[t].i = 0) /\ ~r.again /\ AtOnce(t, r.stamp)
  <2>1. StampAtOnce(t, s) = [r EXCEPT !.pc = "eliminate"]
    BY <1>1, <1>2 DEF StampRead, StampAtOnce, Locals
  <2>2. Becomes(t, StampAtOnce(t, s))
    BY <1>4, <1>6, <2>1 DEF LoadTimestamp, Becomes
  <2>. QED BY <1>1, <1>3, <1>6, <2>2
<1>7. CASE ~(kind = "interval" /\ th[t].i = 0) /\ ~(~r.again /\ AtOnce(t, r.stamp))
  <2>1. Becomes(t, Compared(t, r))
    BY <1>4, <1>7 DEF LoadTimestamp, Becomes
  <2>. QED BY <1>1, <1>2, <1>7, <2>1
<1>. QED BY <1>5, <1>6, <1>7

LEMMA RemoveStampStep ==
  ASSUME IInv1, NEW t \in Threads, RemoveStamp(t)
  PROVE  IInv1' /\ World(t)
<1>1. TypeOK /\ th[t].cand \in Items
  BY DEF IInv1, RememberInv, RemoveStamp, At
<1>2. PICK s \in Nat \X Nat : s = Loaded(t, th[t].cand)
  BY <1>1, LoadedType
<1>3. PICK r, q : r = StampRead(t, s) /\ q = StampAtOnce(t, s)
  OBVIOUS
<1>4. th[t].pc = "stamp" /\ Local(t)
  BY <1>1, <1>2, RemoveStampCases
<1>5. CASE kind = "interval" /\ th[t].i = 0 /\ \E p \in Nat \X Nat : Becomes(t, StampPart(t, p))
  BY <1>4, <1>5, StampPartStep
<1>6. CASE Becomes(t, q)
  BY <1>3, <1>4, <1>6, EliminateStep
<1>7. CASE Becomes(t, Compared(t, r))
  BY <1>3, <1>4, <1>7, ComparedStep
<1>. QED BY <1>1, <1>2, <1>3, <1>5, <1>6, <1>7, RemoveStampCases

LEMMA HeldSame == UNCHANGED Lists => Held' = Held
BY DEF Lists, Held, Chain

\* The item was taken by another thread: the same list once more.
LookAgain(t) == [th[t] EXCEPT !.pc = "top", !.again = TRUE, !.top = NoWord, !.cand = Null,
                              !.stamp = Sentinel]

LEMMA EliminateFailsStep ==
  ASSUME IInv1, NEW t \in Threads, th[t].pc = "eliminate", NEW r, r = LookAgain(t),
         Becomes(t, r), Local(t)
  PROVE  IInv1' /\ World(t)
<1>1. th[t].pc \in PopPcs /\ th[t].pc \in RoundPcs /\ th[t].pc \in LookPcs
  BY DEF PopPcs, RoundPcs, LookPcs
<1>2. TypeOK /\ th[t] \in Locals /\ th[t].op = "get" /\ th[t].item = Null /\ SeenInv
      /\ EmptyInv(t) /\ th[t].i = 0 /\ BestInv(th[t].best)
  BY <1>1, PopFact DEF IInv1
<1>3. th[t].cur \in Registered /\ th[t].cur \in Threads /\ th[t].start \in Registered \cup {Entry}
  BY <1>1, PopFact, AfterThreads DEF RoundInv, Registered
<1>4. ~th[t].empty
  BY <1>2 DEF EmptyInv
<1>6. /\ r \in Locals /\ r.pc = "top" /\ r.op = "get" /\ r.item = Null /\ r.cur = th[t].cur
      /\ r.start = th[t].start /\ r.i = 0 /\ r.best = th[t].best /\ ~r.empty
  <2>1. NoWord \in Words /\ Sentinel \in Nat \X Nat /\ "top" \in Pcs
    BY IdleType DEF Pcs, PopPcs, RoundPcs
  <2>. QED BY <1>2, <1>4, <2>1 DEF LookAgain, Locals
<1>8. Quiet(t, r) /\ TypeOK' /\ Still /\ SeenInv' /\ th'[t] = r
  BY <1>2, <1>6, LocalFact, BecomesFact
<1>9. PcInv(t)'
  BY <1>6, <1>8 DEF PcInv, PopPcs, RoundPcs, LookPcs, PushPcs
<1>10. RememberInv(t)'
  <2>1. BestInv(r.best)'
    BY <1>2, <1>6, <1>8, StillBest
  <2>. QED BY <1>6, <1>8, <2>1 DEF RememberInv
<1>11. RoundInv(t)'
  BY <1>3, <1>6, <1>8 DEF RoundInv, Still, Registered
<1>12. EmptyInv(t)'
  BY <1>6, <1>8 DEF EmptyInv, SaysEmpty
<1>. QED BY <1>6, <1>8, <1>9, <1>10, <1>11, <1>12, QuietStep

LEMMA TakeFailsStep ==
  ASSUME IInv1, NEW t \in Threads, th[t].pc = "take", Becomes(t, NewRound(t, "start")), Local(t)
  PROVE  IInv1' /\ World(t)
<1>1. th[t].pc \in PopPcs
  BY DEF PopPcs
<1>2. TypeOK /\ th[t].op = "get" /\ th[t].item = Null /\ SeenInv
  BY <1>1, PopFact DEF IInv1
<1>3. PICK r : r = NewRound(t, "start")
  OBVIOUS
<1>4. /\ r \in Locals /\ r.op = "get" /\ r.item = Null /\ r.i = 0
      /\ r.pc = "start" /\ ~r.again /\ r.best = NoBest
  BY <1>2, <1>3, NewRoundType DEF Pcs, PopPcs
<1>5. Quiet(t, r) /\ TypeOK' /\ SeenInv'
  BY <1>2, <1>3, <1>4, LocalFact
<1>6. BestInv(r.best)
  BY <1>4 DEF BestInv
<1>. QED BY <1>4, <1>5, <1>6, PlainStep

-----------------------------------------------------------------------------
\* The timestamps of the items are nothing to the lists.

LEMMA StampQuiet ==
  ASSUME IInv1, NEW t \in Threads, th[t].pc \in StampPcs, NEW r \in Locals, Becomes(t, r),
         r.op = th[t].op, r.item = th[t].item, r.pc \in StampPcs \cup {"return"}, r.best = th[t].best,
         r.again = th[t].again, r.empty = th[t].empty,
         r.pc = "S_clock" => kind = "stutter",
         r.i # 0 => \/ kind = "stutter" /\ r.pc = "S_read" /\ r.i < NumThreads
                    \/ kind = "interval" /\ r.pc \in {"S_read", "S_store"} /\ r.i = 1,
         Observe(t, Held), UNCHANGED shared, kind' = kind,
         clock' \in Nat, clocks' \in [Threads -> Nat], ts' \in [Items -> Nat \X Nat]
  PROVE  IInv1' /\ World(t)
<1>1. TypeOK /\ SeenInv /\ PcInv(t) /\ RememberInv(t) /\ EmptyInv(t) /\ th[t] \in Locals
  BY DEF IInv1, TypeOK
<1>2. r.op = "put" /\ r.item \in Items
  BY <1>1 DEF PcInv, Locals, StampPcs, PopPcs, RoundPcs, LookPcs
<1>3. Kept /\ Sights(Held)
  BY <1>1, ObserveQuiet
<1>4. UNCHANGED Lists /\ seen' = seen
  BY DEF shared, Lists
<1>5. Quiet(t, r)
  BY <1>2, <1>3, <1>4 DEF Quiet, Kept, PushPcs, StampPcs
<1>6. Still /\ th'[t] = r
  BY <1>1, <1>5, QuietStill, BecomesFact
<1>7. TypeOK'
  <2>1. th' \in [Threads -> Locals] /\ sight' \in [Threads -> BOOLEAN]
    BY <1>1, <1>3, BecomesFact, SightsFact
  <2>. QED BY <1>1, <1>3, <1>4, <2>1 DEF TypeOK, Kept, Lists
<1>8. SeenInv'
  BY <1>1, <1>4, <1>6, SeenSame
<1>9. PcInv(t)'
  <2>1. NumThreads' = NumThreads
    BY DEF NumThreads
  <2>. QED BY <1>2, <1>6, <2>1 DEF PcInv, StampPcs
<1>10. RememberInv(t)'
  BY <1>1, <1>6, StillBest DEF RememberInv, StampPcs
<1>11. RoundInv(t)' /\ EmptyInv(t)'
  BY <1>1, <1>2, <1>6 DEF RoundInv, EmptyInv, SaysEmpty, RoundPcs, LookPcs, StampPcs
<1>. QED BY <1>5, <1>7, <1>8, <1>9, <1>10, <1>11, QuietStep

\* What a step of set_timestamp does to the locals of t.
Stamping(t, r) ==
  /\ Becomes(t, r) /\ r \in Locals
  /\ r.op = th[t].op /\ r.item = th[t].item /\ r.pc \in StampPcs \cup {"return"}
  /\ r.best = th[t].best /\ r.again = th[t].again /\ r.empty = th[t].empty
  /\ r.pc = "S_clock" => kind = "stutter"
  /\ r.i # 0 => \/ kind = "stutter" /\ r.pc = "S_read" /\ r.i < NumThreads
                \/ kind = "interval" /\ r.pc \in {"S_read", "S_store"} /\ r.i = 1

LEMMA TakeStampFact ==
  ASSUME TypeOK, NEW t \in Threads, PcInv(t), TakeStamp(t)
  PROVE  /\ \E r : Stamping(t, r)
         /\ kind' = kind /\ clock' \in Nat /\ clocks' = clocks /\ ts' = ts
<1>1. th[t] \in Locals /\ th[t].pc = "S_read" /\ kind # "stutter" /\ clock \in Nat
  BY DEF TakeStamp, TypeOK
<1>2. PICK n \in Nat : n = StampClock
  BY <1>1 DEF StampClock, Hwptime
<1>3. PICK r : r = [th[t] EXCEPT !.pc = "S_store", !.now = n]
  OBVIOUS
<1>4. /\ r \in Locals /\ r.op = th[t].op /\ r.item = th[t].item /\ r.pc = "S_store" /\ r.i = th[t].i
      /\ r.best = th[t].best /\ r.again = th[t].again /\ r.empty = th[t].empty
  BY <1>1, <1>3 DEF Locals, Pcs, StampPcs
<1>5. Becomes(t, r)
  BY <1>1, <1>2, <1>3 DEF TakeStamp, TypeOK, Becomes
<1>6. Stamping(t, r)
  BY <1>1, <1>4, <1>5 DEF Stamping, PcInv, StampPcs
<1>. QED BY <1>1, <1>6 DEF TakeStamp

LEMMA TakeLatestFact ==
  ASSUME TypeOK, NEW t \in Threads, PcInv(t), TakeLatest(t)
  PROVE  (\E r : Stamping(t, r)) /\ UNCHANGED stamps
<1>1. th[t] \in Locals /\ th[t].pc = "S_read" /\ kind = "stutter"
  BY DEF TakeLatest, ReadTime, TypeOK
<1>2. PICK n \in Nat : n = TimeRead(t)
  BY <1>1, TimeReadFact
<1>3. CASE MoreClocks(t)
  <2>1. PICK i \in Nat : i = th[t].i + 1
    BY <1>1 DEF Locals
  <2>2. PICK r : r = [th[t] EXCEPT !.now = n, !.i = i]
    OBVIOUS
  <2>3. /\ r \in Locals /\ r.op = th[t].op /\ r.item = th[t].item /\ r.pc = "S_read" /\ r.i = i
        /\ r.best = th[t].best /\ r.again = th[t].again /\ r.empty = th[t].empty
    BY <1>1, <2>2 DEF Locals
  <2>4. Becomes(t, r)
    BY <1>1, <1>2, <1>3, <2>1, <2>2 DEF TakeLatest, ReadTime, TypeOK, Becomes
  <2>5. i < NumThreads
    BY <1>3, <2>1 DEF MoreClocks
  <2>6. Stamping(t, r)
    BY <1>1, <2>3, <2>4, <2>5 DEF Stamping, StampPcs
  <2>. QED BY <2>6 DEF TakeLatest, ReadTime
<1>4. CASE ~MoreClocks(t)
  <2>1. PICK r : r = [th[t] EXCEPT !.pc = "S_clock", !.now = n, !.i = 0]
    OBVIOUS
  <2>2. /\ r \in Locals /\ r.op = th[t].op /\ r.item = th[t].item /\ r.pc = "S_clock" /\ r.i = 0
        /\ r.best = th[t].best /\ r.again = th[t].again /\ r.empty = th[t].empty
    BY <1>1, <2>1 DEF Locals, Pcs, StampPcs
  <2>3. Becomes(t, r)
    BY <1>2, <1>4, <2>1 DEF TakeLatest, ReadTime, Becomes
  <2>4. Stamping(t, r)
    BY <1>1, <2>2, <2>3 DEF Stamping, StampPcs
  <2>. QED BY <2>4 DEF TakeLatest, ReadTime
<1>. QED BY <1>3, <1>4

LEMMA SetClockFact ==
  ASSUME TypeOK, NEW t \in Threads, PcInv(t), SetClock(t)
  PROVE  /\ \E r : Stamping(t, r)
         /\ kind' = kind /\ clock' = clock /\ clocks' \in [Threads -> Nat] /\ ts' = ts
<1>1. th[t] \in Locals /\ th[t].pc = "S_clock" /\ kind = "stutter" /\ th[t].i = 0 /\ th[t].now \in Nat
  BY DEF SetClock, TypeOK, PcInv, Locals
<1>2. PICK n \in Nat : n = th[t].now + 1
  BY <1>1
<1>3. PICK r : r = [th[t] EXCEPT !.pc = "S_store", !.now = n]
  OBVIOUS
<1>4. /\ r \in Locals /\ r.op = th[t].op /\ r.item = th[t].item /\ r.pc = "S_store" /\ r.i = 0
      /\ r.best = th[t].best /\ r.again = th[t].again /\ r.empty = th[t].empty
  BY <1>1, <1>3 DEF Locals, Pcs, StampPcs
<1>5. Becomes(t, r)
  BY <1>1, <1>2, <1>3 DEF SetClock, TypeOK, Becomes
<1>6. Stamping(t, r)
  BY <1>1, <1>4, <1>5 DEF Stamping, StampPcs
<1>7. clocks' \in [Threads -> Nat]
  BY <1>2 DEF SetClock, TypeOK
<1>. QED BY <1>1, <1>6, <1>7 DEF SetClock

LEMMA StoreStampFact ==
  ASSUME TypeOK, NEW t \in Threads, PcInv(t), StoreStamp(t)
  PROVE  /\ \E r : Stamping(t, r)
         /\ kind' = kind /\ clock' = clock /\ clocks' = clocks /\ ts' \in [Items -> Nat \X Nat]
<1>1. th[t] \in Locals /\ th[t].pc = "S_store" /\ th[t].now \in Nat /\ th[t].i \in Nat
  BY DEF StoreStamp, TypeOK, Locals
<1>2. th[t].item \in Items
  BY <1>1 DEF PcInv, Locals, StampPcs, PopPcs, RoundPcs, LookPcs
<1>3. PICK x \in Items, now \in Nat : x = th[t].item /\ now = th[t].now
  BY <1>1, <1>2
<1>4. CASE kind # "interval"
  <2>1. ts' = [ts EXCEPT ![x] = <<now, now>>] /\ th' = [th EXCEPT ![t].pc = "return", ![t].now = 0]
    BY <1>3, <1>4 DEF StoreStamp
  <2>2. ts' \in [Items -> Nat \X Nat]
    BY <1>3, <2>1 DEF TypeOK
  <2>3. PICK r : r = [th[t] EXCEPT !.pc = "return", !.now = 0]
    OBVIOUS
  <2>4. /\ r \in Locals /\ r.op = th[t].op /\ r.item = th[t].item /\ r.pc = "return" /\ r.i = th[t].i
        /\ r.best = th[t].best /\ r.again = th[t].again /\ r.empty = th[t].empty
    BY <1>1, <2>3 DEF Locals, Pcs
  <2>5. Becomes(t, r)
    BY <1>1, <2>1, <2>3 DEF TypeOK, Becomes
  <2>6. Stamping(t, r)
    BY <1>1, <1>4, <2>4, <2>5 DEF Stamping, PcInv
  <2>. QED BY <2>2, <2>6 DEF StoreStamp
<1>5. CASE kind = "interval"
  <2>1. /\ ts' = [ts EXCEPT ![x][th[t].i + 1] = now]
        /\ th' = IF th[t].i = 0
                 THEN [th EXCEPT ![t].pc = "S_read", ![t].now = 0, ![t].i = 1]
                 ELSE [th EXCEPT ![t].pc = "return", ![t].now = 0, ![t].i = 0]
    BY <1>3, <1>5 DEF StoreStamp
  <2>2. ts' \in [Items -> Nat \X Nat]
    <3>1. th[t].i + 1 \in {1, 2}
      BY <1>1, <1>5 DEF PcInv
    <3>2. PICK j \in {1, 2} : j = th[t].i + 1
      BY <3>1
    <3>3. ts' = [ts EXCEPT ![x] = [ts[x] EXCEPT ![j] = now]]
      BY <2>1, <3>2 DEF TypeOK
    <3>4. [ts[x] EXCEPT ![j] = now] \in Nat \X Nat
      <4>1. ts[x] \in Nat \X Nat
        BY DEF TypeOK
      <4>. QED BY <4>1, PairParts
    <3>. QED BY <3>3, <3>4 DEF TypeOK
  <2>3. CASE th[t].i = 0
    <3>1. PICK r : r = [th[t] EXCEPT !.pc = "S_read", !.now = 0, !.i = 1]
      OBVIOUS
    <3>2. /\ r \in Locals /\ r.op = th[t].op /\ r.item = th[t].item /\ r.pc = "S_read" /\ r.i = 1
          /\ r.best = th[t].best /\ r.again = th[t].again /\ r.empty = th[t].empty
      BY <1>1, <3>1 DEF Locals, Pcs, StampPcs
    <3>3. Becomes(t, r)
      BY <1>1, <2>1, <2>3, <3>1 DEF TypeOK, Becomes
    <3>4. Stamping(t, r)
      BY <1>5, <3>2, <3>3 DEF Stamping, StampPcs
    <3>. QED BY <2>2, <3>4 DEF StoreStamp
  <2>4. CASE th[t].i # 0
    <3>1. PICK r : r = [th[t] EXCEPT !.pc = "return", !.now = 0, !.i = 0]
      OBVIOUS
    <3>2. /\ r \in Locals /\ r.op = th[t].op /\ r.item = th[t].item /\ r.pc = "return" /\ r.i = 0
          /\ r.best = th[t].best /\ r.again = th[t].again /\ r.empty = th[t].empty
      BY <1>1, <3>1 DEF Locals, Pcs
    <3>3. Becomes(t, r)
      BY <1>1, <2>1, <2>4, <3>1 DEF TypeOK, Becomes
    <3>4. Stamping(t, r)
      BY <3>2, <3>3 DEF Stamping
    <3>. QED BY <2>2, <3>4 DEF StoreStamp
  <2>. QED BY <2>3, <2>4
<1>. QED BY <1>4, <1>5

LEMMA StampStep ==
  ASSUME IInv1, NEW t \in Threads, Stamp(t)
  PROVE  IInv1' /\ World(t)
<1>1. TypeOK /\ PcInv(t)
  BY DEF IInv1
<1>2. /\ \E r : Stamping(t, r)
      /\ kind' = kind /\ clock' \in Nat /\ clocks' \in [Threads -> Nat] /\ ts' \in [Items -> Nat \X Nat]
  <2>1. CASE TakeStamp(t)
    BY <1>1, <2>1, TakeStampFact DEF TypeOK
  <2>2. CASE TakeLatest(t)
    BY <1>1, <2>2, TakeLatestFact DEF TypeOK, stamps
  <2>3. CASE SetClock(t)
    BY <1>1, <2>3, SetClockFact DEF TypeOK
  <2>4. CASE StoreStamp(t)
    BY <1>1, <2>4, StoreStampFact DEF TypeOK
  <2>. QED BY <2>1, <2>2, <2>3, <2>4 DEF Stamp, SetTimestamp
<1>3. PICK r : Stamping(t, r)
  BY <1>2
<1>4. th[t].pc \in StampPcs
  BY DEF Stamp, SetTimestamp, TakeStamp, TakeLatest, ReadTime, SetClock, StoreStamp, StampPcs
<1>5. Observe(t, Held) /\ UNCHANGED shared
  BY DEF Stamp
<1>. QED BY <1>2, <1>3, <1>4, <1>5, StampQuiet DEF Stamping

-----------------------------------------------------------------------------
\* Steps that change the items or the lists.

LEMMA GrowsKnown ==
  ASSUME Grows
  PROVE  /\ \A b \in Threads : \A x : Known(b, x) => Known(b, x)'
         /\ \A w, x : Cuttable(w, x) /\ x \in Inserted \cup {Null} => Cuttable(w, x)'
         /\ \A best : BestInv(best) => BestInv(best)'
<1>1. \A b \in Threads : \A x : Known(b, x) => Known(b, x)'
  BY DEF Grows, Known
<1>2. \A w, x : Cuttable(w, x) /\ x \in Inserted \cup {Null} => Cuttable(w, x)'
  BY DEF Grows, Cuttable
<1>3. ASSUME NEW best, BestInv(best) PROVE BestInv(best)'
  <2>1. CASE best = NoBest
    BY <2>1 DEF BestInv
  <2>2. CASE best # NoBest
    <3>1. /\ best.item \in Items /\ best.buf \in Registered /\ best.buf \in Threads
          /\ Known(best.buf, best.item) /\ Cuttable(best.top, best.item)
      BY <1>3, <2>2, RegisteredThreads DEF BestInv
    <3>2. best.item \in Inserted \cup {Null} /\ best.buf \in Registered'
      BY <3>1 DEF Known, Grows
    <3>. QED BY <1>1, <1>2, <3>1, <3>2 DEF BestInv
  <2>. QED BY <2>1, <2>2
<1>. QED BY <1>1, <1>2, <1>3

LEMMA GrowsSeen ==
  ASSUME SeenInv, Grows, seen' = seen
  PROVE  SeenInv'
BY DEF SeenInv, Grows

\* A thread that does not move remembers what it did.
LEMMA GrowsRemember ==
  ASSUME IInv1, Grows, NEW u \in Threads, th'[u] = th[u],
         th[u].pc = "I_list" => /\ next'[th[u].item] = next[th[u].item]
                                /\ older'[th[u].item] = older[th[u].item]
                                /\ Chain(list[u].item)' \ taken' \subseteq Chain(list[u].item)
  PROVE  RememberInv(u)'
<1>1. RememberInv(u) /\ RoundInv(u) /\ ListInv
  BY DEF IInv1
<1>2. PICK r : r = th[u]
  OBVIOUS
<1>3. BestInv(r.best)'
  BY <1>1, <1>2, GrowsKnown DEF RememberInv
<1>4. ASSUME r.pc = "I_list"
      PROVE  /\ next'[r.item] \in Inserted' \cup {Null}
             /\ (Chain(list[u].item) \ taken)' \subseteq Chain(next[r.item])'
             /\ Chain(next[r.item])' \subseteq older'[r.item]
  <2>1. /\ next[r.item] \in Inserted \cup {Null}
        /\ Chain(list[u].item) \ taken \subseteq Chain(next[r.item])
        /\ Chain(next[r.item]) \subseteq older[r.item]
    BY <1>1, <1>2, <1>4 DEF RememberInv
  <2>2. PICK n : n = next[r.item]
    OBVIOUS
  <2>3. Chain(n)' = Chain(n) /\ next'[r.item] = n
    BY <1>2, <1>4, <2>1, <2>2 DEF Grows
  <2>4. Chain(list[u].item)' \ taken' \subseteq Chain(n)
    BY <1>2, <1>4, <2>1, <2>2 DEF Grows
  <2>5. Chain(next[r.item])' = Chain(n)
    BY <2>3
  <2>6. older'[r.item] = older[r.item]
    BY <1>2, <1>4
  <2>. QED BY <2>1, <2>2, <2>3, <2>4, <2>5, <2>6 DEF Grows
<1>5. ASSUME r.pc = "list" PROVE Cuttable(r.top, list[r.cur].item)'
  <2>1. Cuttable(r.top, list[r.cur].item) /\ r.cur \in Threads
    BY <1>1, <1>2, <1>5, RegisteredThreads DEF RememberInv, RoundInv, LookPcs
  <2>2. list[r.cur].item \in Inserted \cup {Null}
    BY <1>1, <2>1 DEF ListInv
  <2>3. /\ r.top.item \in Inserted' \cup {Null} /\ Chain(r.top.item)' = Chain(r.top.item)
        /\ Chain(r.top.item) \ taken \subseteq Chain(list[r.cur].item)
    BY <2>1 DEF Cuttable, Grows
  <2>4. Chain(list[r.cur].item) \ taken' \subseteq Chain(list[r.cur].item)' /\ taken \subseteq taken'
    BY <2>1 DEF Grows
  <2>. QED BY <2>3, <2>4 DEF Cuttable
<1>6. ASSUME r.pc \in {"walk", "stamp", "eliminate"}
      PROVE  Known(r.cur, r.cand)' /\ Cuttable(r.top, r.cand)'
  <2>1. Known(r.cur, r.cand) /\ Cuttable(r.top, r.cand) /\ r.cur \in Threads
    BY <1>1, <1>2, <1>6, RegisteredThreads DEF RememberInv, RoundInv, LookPcs
  <2>2. r.cand \in Inserted \cup {Null}
    BY <2>1 DEF Known
  <2>. QED BY <2>1, <2>2, GrowsKnown
<1>7. ASSUME r.pc = "adjust"
      PROVE  r.cur \in Registered' /\ Known(r.cur, r.item)' /\ Cuttable(r.top, r.item)'
  <2>1. Known(r.cur, r.item) /\ Cuttable(r.top, r.item) /\ r.cur \in Threads /\ r.cur \in Registered
    BY <1>1, <1>2, <1>7, RegisteredThreads DEF RememberInv
  <2>2. r.item \in Inserted \cup {Null}
    BY <2>1 DEF Known
  <2>. QED BY <2>1, <2>2, GrowsKnown DEF Grows
<1>. QED BY <1>1, <1>2, <1>3, <1>4, <1>5, <1>6, <1>7 DEF RememberInv

\* All of that for the threads other than t.
LEMMA GrowsOther ==
  ASSUME IInv1, Grows, NEW u \in Threads, th'[u] = th[u], kind' = kind, seen' = seen,
         th[u].op = "get" /\ sight[u] => sight'[u],
         th[u].pc = "I_list" => /\ next'[th[u].item] = next[th[u].item]
                                /\ older'[th[u].item] = older[th[u].item]
                                /\ Chain(list[u].item)' \ taken' \subseteq Chain(list[u].item),
         Left(th[u]) \subseteq Left(th[u])',
         \A b : \A D \in SUBSET taken : Buried(b, D) => Buried(b, D)'
  PROVE  PcInv(u)' /\ RememberInv(u)' /\ RoundInv(u)' /\ EmptyInv(u)'
<1>1. TypeOK /\ PcInv(u) /\ RoundInv(u) /\ EmptyInv(u)
  BY DEF IInv1
<1>2. PcInv(u)'
  BY <1>1 DEF PcInv, NumThreads
<1>3. RememberInv(u)'
  BY GrowsRemember
<1>4. RoundInv(u)'
  BY <1>1 DEF RoundInv, Grows
<1>5. taken \subseteq taken'
  BY DEF Grows
<1>6. EmptyInv(u)'
  BY <1>1, <1>5, EmptyOthers
<1>. QED BY <1>2, <1>3, <1>4, <1>6

LEMMA LeftKept == ASSUME link' = link, NEW r PROVE Left(r)' = Left(r) /\ Registered' = Registered
<1>1. \A b : After(b)' = After(b)
  BY DEF After
<1>2. Registered' = Registered
  BY <1>1 DEF Registered
<1>3. \A s, b : Rest(s, b)' = Rest(s, b)
  BY <1>1, <1>2 DEF Rest
<1>. QED BY <1>1, <1>2, <1>3 DEF Left

LEMMA ChainInserted ==
  ASSUME ListInv, Inserted \subseteq Items, NEW x \in Inserted \cup {Null}
  PROVE  Chain(x) \subseteq Inserted
<1>1. x \in Items => x \in Inserted
  BY CallHistoryAssumption
<1>2. \A z \in Inserted : next[z] \in Items => next[z] \in Inserted
  BY CallHistoryAssumption DEF ListInv
<1>3. PICK T \in SUBSET Items : T = Inserted
  OBVIOUS
<1>. QED BY <1>1, <1>2, <1>3, OnwardLeast DEF Chain

LEMMA ChainSame ==
  ASSUME ListInv, Inserted \subseteq Items, \A z \in Inserted : next'[z] = next[z],
         NEW x \in Inserted \cup {Null}
  PROVE  Chain(x)' = Chain(x)
<1>1. Chain(x) \subseteq Inserted
  BY ChainInserted
<1>2. \A z \in Onward(Items, next, x) : next'[z] = next[z]
  BY <1>1 DEF Chain
<1>3. PICK f, g : f = next /\ g = next'
  OBVIOUS
<1>4. Onward(Items, g, x) = Onward(Items, f, x)
  BY <1>2, <1>3, OnwardSame
<1>5. Chain(x)' = Onward(Items, next', x)
  BY DEF Chain, Onward
<1>. QED BY <1>3, <1>4, <1>5 DEF Chain

\* The locals of a thread that begins a call, or is back from one.
Plain(t) == th[t].pc \notin PopPcs \cup {"return", "I_list"} /\ th[t].best = NoBest /\ ~th[t].again

LEMMA PlainLocals ==
  ASSUME NEW t \in Threads
  PROVE  /\ Plain(t) => RememberInv(t) /\ RoundInv(t) /\ EmptyInv(t)
         /\ Plain(t)' => RememberInv(t)' /\ RoundInv(t)' /\ EmptyInv(t)'
<1>1. Plain(t) => RememberInv(t) /\ RoundInv(t) /\ EmptyInv(t)
  <2>1. SUFFICES ASSUME Plain(t) PROVE RememberInv(t) /\ RoundInv(t) /\ EmptyInv(t)
    OBVIOUS
  <2>2. BestInv(th[t].best)
    BY <2>1 DEF Plain, BestInv
  <2>3. RememberInv(t)
    BY <2>1, <2>2 DEF Plain, RememberInv, PopPcs, RoundPcs, LookPcs
  <2>4. RoundInv(t) /\ EmptyInv(t)
    BY <2>1 DEF Plain, RoundInv, EmptyInv, SaysEmpty, PopPcs, RoundPcs, LookPcs
  <2>. QED BY <2>3, <2>4
<1>2. (Plain(t) => RememberInv(t) /\ RoundInv(t) /\ EmptyInv(t))'
  BY <1>1, PTL
<1>. QED BY <1>1, <1>2

LEMMA RegisteredLink ==
  ASSUME TypeOK, RingInv, NEW t \in Threads
  PROVE  link[t] = t <=> t \notin Registered
<1>1. ASSUME link[t] = t, t \in Registered PROVE FALSE
  <2>1. t \in Buffers /\ link[t] # Entry
    BY <1>1, TSStackAssumption DEF Buffers
  <2>2. t \in After(t)
    BY <1>1, <2>1, AfterStep
  <2>. QED BY <1>1, <2>2 DEF RingInv
<1>. QED BY <1>1 DEF RingInv

LEMMA CallPushStep ==
  ASSUME IInv1, NEW t \in Threads, CallPush(t)
  PROVE  IInv1' /\ World(t)
<1>1. /\ TypeOK /\ PlacesInv /\ OlderInv /\ ListInv /\ RingInv /\ SeenInv /\ PcInv(t)
      /\ Inserted \subseteq Items
  BY InsertedItems DEF IInv1
<1>2. th[t].pc = "idle" /\ th[t].op = "none" /\ th[t].item = Null
  BY <1>1 DEF CallPush, At, PcInv
<1>3. PICK x \in Fresh : Becomes(t, [Idle EXCEPT !.op = "put", !.item = x,
                                       !.pc = IF link[t] = t THEN "register" ELSE "I_walk"])
  BY Zenon DEF CallPush, Becomes
<1>4. x \in Items /\ x \notin Begun /\ x \notin out /\ x \notin Hands
  BY <1>3 DEF Fresh
<1>5. PICK r : r = [Idle EXCEPT !.op = "put", !.item = x,
                                !.pc = IF link[t] = t THEN "register" ELSE "I_walk"]
  OBVIOUS
<1>6. /\ r \in Locals /\ r.op = "put" /\ r.item = x /\ r.pc \in {"register", "I_walk"}
      /\ r.pc = "register" <=> link[t] = t
      /\ r.i = 0 /\ r.best = NoBest /\ ~r.again
  <2>1. (IF link[t] = t THEN "register" ELSE "I_walk") \in Pcs
    BY DEF Pcs, PushPcs
  <2>. QED BY <1>4, <1>5, <2>1, IdleType DEF Locals, Idle
<1>7. Becomes(t, r)
  BY <1>3, <1>5
<1>8. th'[t] = r /\ \A u \in Threads : u # t => th'[u] = th[u]
  BY <1>1, <1>6, <1>7, BecomesFact
<1>9. Observe(t, Held) /\ UNCHANGED stamps /\ UNCHANGED Lists /\ seen' = seen /\ kind' = kind
  BY DEF CallPush, Local, shared, Lists, stamps
<1>10. /\ done' = done /\ out' = out /\ late' = late /\ start' = start
       /\ older' = [older EXCEPT ![x] = done] /\ Sights(Held)
  BY <1>1, <1>2, <1>6, <1>7, <1>9, ObservePush
<1>11. \A u \in Threads : Putting(u) => th[u].item # x
  BY <1>4 DEF Begun, Putting
<1>12. x \notin done /\ x \notin Inserted
  BY <1>4, <1>11 DEF Begun, Inserted, Linked, Putting
<1>13. \A u \in Threads : /\ Linked(u)' <=> Linked(u)
                          /\ Linked(u) => th'[u].item = th[u].item
                          /\ InHand(u)' = InHand(u)
                          /\ Putting(u)' <=> Putting(u) \/ u = t
  BY <1>2, <1>6, <1>8 DEF Linked, InHand, Putting, PushPcs
<1>14. Inserted' = Inserted /\ Hands' = Hands
  BY <1>10, <1>13 DEF Inserted, Hands
<1>15. \A u \in Threads : Ours(u)' = Ours(u)
  <2>1. Ours(t)' = Ours(t)
    <3>1. ~Putting(t) /\ Putting(t)' /\ ~Linked(t)'
      BY <1>2, <1>6, <1>8 DEF Putting, Linked, PushPcs
    <3>2. older'[th'[t].item] = done
      BY <1>1, <1>4, <1>6, <1>8, <1>10 DEF TypeOK
    <3>. QED BY <1>10, <3>1, <3>2 DEF Ours
  <2>2. ASSUME NEW u \in Threads, u # t PROVE Ours(u)' = Ours(u)
    <3>1. th'[u] = th[u] /\ (Putting(u) => older'[th[u].item] = older[th[u].item])
      BY <1>1, <1>8, <1>10, <1>11, <2>2 DEF TypeOK
    <3>2. (Putting(u)' <=> Putting(u)) /\ (Linked(u)' <=> Linked(u))
      BY <3>1 DEF Putting, Linked
    <3>. QED BY <1>10, <3>1, <3>2 DEF Ours
  <2>. QED BY <2>1, <2>2
<1>16. Grows /\ link' = link /\ list' = list /\ next' = next /\ taken' = taken
       /\ \A c : Chain(c)' = Chain(c)
  <2>1. link' = link /\ list' = list /\ next' = next /\ taken' = taken
    BY <1>9 DEF Lists
  <2>2. \A c : Chain(c)' = Chain(c)
    BY <2>1 DEF Chain
  <2>3. Registered' = Registered
    BY <2>1, LeftKept
  <2>. QED BY <1>14, <1>15, <2>1, <2>2, <2>3 DEF Grows
<1>17. TypeOK'
  <2>1. th' \in [Threads -> Locals] /\ sight' \in [Threads -> BOOLEAN]
    BY <1>1, <1>6, <1>7, <1>10, BecomesFact, SightsFact
  <2>2. older' \in [Items -> SUBSET Items]
    BY <1>1, <1>10 DEF TypeOK
  <2>. QED BY <1>1, <1>9, <1>10, <2>1, <2>2 DEF TypeOK, stamps, Lists
<1>18. PlacesInv'
  BY <1>1, <1>6, <1>8, <1>10, <1>11, <1>12, <1>13, <1>14, <1>16 DEF PlacesInv
<1>19. OlderInv'
  <2>1. \A y \in done : older'[y] = older[y]
    BY <1>1, <1>10, <1>12 DEF TypeOK
  <2>2. ASSUME NEW u \in Threads, Putting(u)' PROVE older'[th'[u].item] \subseteq done
    <3>1. CASE u = t
      BY <1>1, <1>4, <1>6, <1>8, <1>10, <3>1 DEF TypeOK
    <3>2. CASE u # t
      <4>1. Putting(u) /\ th'[u] = th[u] /\ th[u].item # x
        BY <1>8, <1>11, <2>2, <3>2 DEF Putting
      <4>2. older'[th[u].item] = older[th[u].item]
        BY <1>1, <1>10, <4>1 DEF TypeOK
      <4>. QED BY <1>1, <4>1, <4>2 DEF OlderInv
    <3>. QED BY <3>1, <3>2
  <2>. QED BY <1>1, <1>10, <2>1, <2>2 DEF OlderInv
<1>20. ListInv'
  <2>1. \A y \in Inserted : older'[y] = older[y]
    BY <1>1, <1>10, <1>12 DEF TypeOK
  <2>. QED BY <1>1, <1>14, <1>16, <2>1 DEF ListInv
<1>21. RingInv'
  <2>1. Registered' = Registered /\ \A b : After(b)' = After(b)
    BY <1>16, LeftKept DEF After
  <2>2. link[t] = t <=> t \notin Registered
    BY <1>1, RegisteredLink
  <2>3. \A u \in Threads : Putting(u)' => (th'[u].pc = "register" <=> u \notin Registered)
    BY <1>1, <1>6, <1>8, <1>13, <2>2 DEF RingInv
  <2>. QED BY <1>1, <1>15, <1>16, <2>1, <2>3 DEF RingInv
<1>22. SeenInv'
  BY <1>1, <1>9, <1>16, GrowsSeen
<1>23. PcInv(t)' /\ RememberInv(t)' /\ RoundInv(t)' /\ EmptyInv(t)'
  <2>1. PcInv(t)'
    BY <1>4, <1>6, <1>8 DEF PcInv, PushPcs
  <2>2. r.pc \notin PopPcs \cup {"return", "I_list"}
    BY <1>6 DEF PopPcs, RoundPcs, LookPcs
  <2>3. Plain(t)'
    BY <1>6, <1>8, <2>2 DEF Plain
  <2>. QED BY <2>1, <2>3, PlainLocals
<1>24. ASSUME NEW u \in Threads, u # t
       PROVE  PcInv(u)' /\ RememberInv(u)' /\ RoundInv(u)' /\ EmptyInv(u)'
              /\ Left(th[u]) \subseteq Left(th[u])'
  <2>1. th'[u] = th[u]
    BY <1>8, <1>24
  <2>2. th[u].op = "get" /\ sight[u] => sight'[u]
    BY <1>1, <1>10, <2>1, SightsFact
  <2>3. th[u].pc = "I_list" => older'[th[u].item] = older[th[u].item]
    <3>1. th[u].pc = "I_list" => Putting(u)
      <4>1. PcInv(u) /\ th[u].op \in {"none", "put", "get"}
        BY <1>1 DEF IInv1, TypeOK, Locals
      <4>. QED BY <4>1 DEF Putting, PcInv, PopPcs, RoundPcs, LookPcs
    <3>. QED BY <1>1, <1>10, <1>11, <3>1 DEF TypeOK
  <2>4. Left(th[u])' = Left(th[u])
    <3>1. PICK q : q = th[u]
      OBVIOUS
    <3>2. Left(q)' = Left(q)
      BY <1>16, LeftKept
    <3>. QED BY <2>1, <3>1, <3>2
  <2>5. \A b : \A D \in SUBSET taken : Buried(b, D) => Buried(b, D)'
    BY <1>6, <1>8, <1>16, BuriedKept
  <2>. QED BY <1>9, <1>16, <2>1, <2>2, <2>3, <2>4, <2>5, GrowsOther
<1>25. World(t)
  BY <1>1, <1>2, <1>8, <1>10, <1>12, <1>16, <1>24 DEF World, TypeOK
<1>. QED BY <1>17, <1>18, <1>19, <1>20, <1>21, <1>22, <1>23, <1>24, <1>25 DEF IInv1

LEMMA ReturnStep ==
  ASSUME IInv1, NEW t \in Threads, Return(t)
  PROVE  IInv1' /\ World(t)
<1>1. /\ TypeOK /\ PlacesInv /\ OlderInv /\ ListInv /\ RingInv /\ SeenInv /\ PcInv(t)
      /\ Inserted \subseteq Items
  BY InsertedItems DEF IInv1
<1>2. th[t].pc = "return" /\ th[t].op \in {"put", "get"} /\ th[t].item \in Items \cup {Null}
      /\ (th[t].op = "put" => th[t].item \in Items /\ th[t].item # Null)
  BY <1>1, CallHistoryAssumption DEF Return, At, PcInv, TypeOK, Locals
<1>3. PICK r : r = Idle
  OBVIOUS
<1>4. /\ r \in Locals /\ r.op = "none" /\ r.item = Null /\ r.pc = "idle"
      /\ r.i = 0 /\ r.best = NoBest /\ ~r.again
  BY <1>3, IdleType DEF Idle
<1>5. Becomes(t, r)
  BY <1>3 DEF Return, Becomes
<1>6. th'[t] = r /\ \A u \in Threads : u # t => th'[u] = th[u]
  BY <1>1, <1>4, <1>5, BecomesFact
<1>7. Observe(t, Held) /\ UNCHANGED stamps /\ UNCHANGED Lists /\ seen' = seen /\ kind' = kind
  BY DEF Return, Local, shared, Lists, stamps
<1>8. /\ done' = IF th[t].op = "put" THEN done \cup {th[t].item} ELSE done
      /\ out' = out \cup InHand(t)
      /\ older' = older /\ start' = [start EXCEPT ![t] = NoMemo] /\ Sights(Held)
      /\ late' = IF th[t].op = "get" /\ th[t].item # Null /\ Strict
                 THEN late \cup (First(t, th[t].item) \cap Held) ELSE late
  <2>1. /\ done' = IF th[t].op = "put" /\ th[t].item # Null THEN done \cup {th[t].item} ELSE done
        /\ out' = IF th[t].op = "get" /\ th[t].item # Null THEN out \cup {th[t].item} ELSE out
        /\ late' = IF th[t].op = "get" /\ th[t].item # Null /\ Strict
                   THEN late \cup (First(t, th[t].item) \cap Held) ELSE late
        /\ older' = older /\ start' = [start EXCEPT ![t] = NoMemo] /\ Sights(Held)
    BY <1>1, <1>2, <1>4, <1>5, <1>7, ObserveReturn
  <2>. QED BY <1>2, <2>1 DEF InHand
<1>9. \A u \in Threads : u # t => /\ Linked(u)' <=> Linked(u)
                                  /\ InHand(u)' = InHand(u)
                                  /\ Putting(u)' <=> Putting(u)
  BY <1>6 DEF Linked, InHand, Putting
<1>10. ~Linked(t)' /\ ~Putting(t)' /\ InHand(t)' = {}
       /\ (Linked(t) <=> Putting(t)) /\ (Putting(t) <=> th[t].op = "put")
  BY <1>2, <1>4, <1>6 DEF Linked, Putting, InHand, PushPcs
<1>11. Inserted' = Inserted
  BY <1>6, <1>8, <1>9, <1>10 DEF Inserted
<1>12. Hands' \cup out' = Hands \cup out /\ Hands' \cap out' = {}
  <2>1. Hands = Hands' \cup InHand(t)
    BY <1>9, <1>10 DEF Hands
  <2>2. Hands' \cap InHand(t) = {}
    BY <1>1, <1>9, <1>10 DEF Hands, PlacesInv
  <2>. QED BY <1>1, <1>8, <2>1, <2>2 DEF PlacesInv
<1>13. \A u \in Threads : Ours(u) \subseteq Ours(u)'
  <2>1. Ours(t) \subseteq Ours(t)'
    BY <1>1, <1>8, <1>10 DEF Ours, OlderInv
  <2>2. ASSUME NEW u \in Threads, u # t PROVE Ours(u) \subseteq Ours(u)'
    BY <1>6, <1>8, <1>9, <2>2 DEF Ours
  <2>. QED BY <2>1, <2>2
<1>14. Grows /\ link' = link /\ list' = list /\ next' = next /\ taken' = taken
       /\ \A c : Chain(c)' = Chain(c)
  <2>1. link' = link /\ list' = list /\ next' = next /\ taken' = taken
    BY <1>7 DEF Lists
  <2>2. \A c : Chain(c)' = Chain(c)
    BY <2>1 DEF Chain
  <2>3. Registered' = Registered
    BY <2>1, LeftKept
  <2>. QED BY <1>11, <1>13, <2>1, <2>2, <2>3 DEF Grows
<1>15. TypeOK'
  <2>1. th' \in [Threads -> Locals] /\ sight' \in [Threads -> BOOLEAN]
    BY <1>1, <1>4, <1>5, <1>8, BecomesFact, SightsFact
  <2>2. done' \in SUBSET Items /\ out' \in SUBSET Items
    BY <1>1, <1>2, <1>8 DEF TypeOK, InHand
  <2>3. start' \in [Threads -> [done : SUBSET Items, late : SUBSET Items]]
    BY <1>1, <1>8 DEF TypeOK, NoMemo
  <2>4. late' \in SUBSET Items
    BY <1>1, <1>8, ChainItems DEF TypeOK, Held
  <2>. QED BY <1>1, <1>7, <1>8, <2>1, <2>2, <2>3, <2>4 DEF TypeOK, stamps, Lists
<1>16. PlacesInv'
  <2>1. \A u, v \in Threads : u # v /\ Putting(u)' /\ Putting(v)' => th'[u].item # th'[v].item
    BY <1>1, <1>6, <1>9, <1>10 DEF PlacesInv
  <2>2. \A u \in Threads : Putting(u)' => th'[u].item \notin done'
    BY <1>1, <1>6, <1>8, <1>9, <1>10 DEF PlacesInv
  <2>3. \A u, v \in Threads : u # v => InHand(u)' \cap InHand(v)' = {}
    BY <1>1, <1>9, <1>10 DEF PlacesInv
  <2>. QED BY <1>1, <1>11, <1>12, <1>14, <2>1, <2>2, <2>3 DEF PlacesInv
<1>17. OlderInv'
  <2>1. \A x \in done' : older[x] \subseteq done'
    BY <1>1, <1>8, <1>10 DEF OlderInv
  <2>2. \A u \in Threads : Putting(u)' => older[th'[u].item] \subseteq done'
    BY <1>1, <1>6, <1>8, <1>9, <1>10 DEF OlderInv
  <2>. QED BY <1>8, <2>1, <2>2 DEF OlderInv
<1>18. ListInv'
  BY <1>1, <1>8, <1>11, <1>14 DEF ListInv
<1>19. RingInv'
  <2>1. Registered' = Registered /\ \A b : After(b)' = After(b)
    BY <1>14, LeftKept DEF After
  <2>2. \A u \in Threads : Putting(u)' => (th'[u].pc = "register" <=> u \notin Registered)
    BY <1>1, <1>6, <1>9, <1>10 DEF RingInv
  <2>3. \A b \in Threads : Chain(list[b].item)' \subseteq Ours(b)'
    BY <1>1, <1>13, <1>14 DEF RingInv
  <2>. QED BY <1>1, <1>14, <2>1, <2>2, <2>3 DEF RingInv
<1>20. SeenInv'
  BY <1>1, <1>7, <1>14, GrowsSeen
<1>21. PcInv(t)' /\ RememberInv(t)' /\ RoundInv(t)' /\ EmptyInv(t)'
  <2>1. PcInv(t)'
    BY <1>4, <1>6 DEF PcInv
  <2>2. r.pc \notin PopPcs \cup {"return", "I_list"}
    BY <1>4 DEF PopPcs, RoundPcs, LookPcs
  <2>3. Plain(t)'
    BY <1>4, <1>6, <2>2 DEF Plain
  <2>. QED BY <2>1, <2>3, PlainLocals
<1>22. ASSUME NEW u \in Threads, u # t
       PROVE  PcInv(u)' /\ RememberInv(u)' /\ RoundInv(u)' /\ EmptyInv(u)'
              /\ Left(th[u]) \subseteq Left(th[u])'
  <2>1. th'[u] = th[u]
    BY <1>6, <1>22
  <2>2. th[u].op = "get" /\ sight[u] => sight'[u]
    BY <1>1, <1>8, <2>1, SightsFact
  <2>3. Left(th[u])' = Left(th[u])
    <3>1. PICK q : q = th[u]
      OBVIOUS
    <3>2. Left(q)' = Left(q)
      BY <1>14, LeftKept
    <3>. QED BY <2>1, <3>1, <3>2
  <2>4. \A b : \A D \in SUBSET taken : Buried(b, D) => Buried(b, D)'
    BY <1>4, <1>6, <1>14, BuriedKept
  <2>. QED BY <1>7, <1>8, <1>14, <2>1, <2>2, <2>3, <2>4, GrowsOther
<1>23. World(t)
  BY <1>2, <1>6, <1>8, <1>14, <1>22 DEF World
<1>. QED BY <1>15, <1>16, <1>17, <1>18, <1>19, <1>20, <1>21, <1>22, <1>23 DEF IInv1

\* What most steps of a push have in common.
LEMMA PushFact ==
  ASSUME IInv1, NEW t \in Threads, th[t].pc \in PushPcs
  PROVE  /\ th[t] \in Locals /\ th[t].op = "put" /\ th[t].item \in Items /\ th[t].i = 0
         /\ Putting(t) /\ ~Linked(t)
         /\ th[t].item \notin Inserted
         /\ older[th[t].item] \subseteq done
         /\ BestInv(th[t].best) /\ (th[t].again => ~th[t].empty)
<1>1. TypeOK /\ PlacesInv /\ OlderInv /\ PcInv(t) /\ RememberInv(t) /\ EmptyInv(t) /\ th[t] \in Locals
  BY DEF IInv1, TypeOK
<1>2. th[t].op = "put" /\ th[t].item \in Items /\ th[t].i = 0
  BY <1>1 DEF PcInv, Locals, PushPcs, PopPcs, RoundPcs, LookPcs
<1>3. Putting(t) /\ ~Linked(t)
  BY <1>2 DEF Putting, Linked
<1>4. th[t].item \notin Inserted
  BY <1>1, <1>3 DEF PlacesInv, Inserted, Linked, Putting
<1>. QED BY <1>1, <1>2, <1>3, <1>4 DEF OlderInv, RememberInv, EmptyInv

LEMMA ObserveSame ==
  ASSUME TypeOK, NEW t \in Threads, NEW r \in Locals, Becomes(t, r), r.op = th[t].op, r.op = "put",
         r.item = th[t].item, NEW h, Observe(t, h)
  PROVE  /\ Kept /\ Sights(h)
         /\ Hands' = Hands
         /\ \A u \in Threads : /\ Putting(u)' <=> Putting(u)
                               /\ InHand(u)' = InHand(u)
                               /\ th'[u].item = th[u].item
<1>1. th'[t] = r /\ \A u \in Threads : u # t => th'[u] = th[u]
  BY BecomesFact
<1>2. \A u \in Threads : /\ Putting(u)' <=> Putting(u)
                         /\ InHand(u)' = InHand(u)
                         /\ th'[u].item = th[u].item
  BY <1>1 DEF Putting, InHand
<1>3. Hands' = Hands
  BY <1>2 DEF Hands
<1>. QED BY <1>2, <1>3, ObserveQuiet

\* The ring grows by t, between the entry buffer and the first one.
LEMMA RegisterRing ==
  ASSUME TypeOK, RingInv, NEW t \in Threads, t \notin Registered,
         link' = [link EXCEPT ![t] = link[Entry], ![Entry] = t]
  PROVE  /\ \A b \in Registered : After(b)' = After(b)
         /\ Registered' = Registered \cup {t}
         /\ After(t)' = Registered
         /\ \A b \in Threads \ {t} : link'[b] = link[b]
         /\ \A s \in Registered \cup {Entry} :
              /\ \A b \in Registered : Rest(s, b) \subseteq Rest(s, b)'
              /\ s # Entry => Registered \ After(s) \subseteq (Registered \ After(s))'
<1>1. /\ link \in [Buffers -> Buffers] /\ t \in Buffers /\ Entry \in Buffers /\ t # Entry
      /\ \A b \in Buffers \ {t, Entry} : link'[b] = link[b]
      /\ link'[t] = link[Entry] /\ link'[Entry] = t
  BY TSStackAssumption DEF TypeOK, Buffers
<1>2. PICK g : g = link'
  OBVIOUS
<1>3. \A b : After(b)' = Onward(Threads, g, g[b])
  BY <1>2 DEF After, Onward
<1>4. \A b : After(b) = Onward(Threads, link, link[b])
  BY DEF After
<1>5. ASSUME NEW b \in Registered \cup {Entry} PROVE Onward(Threads, g, link[b]) = After(b)
  <2>1. After(b) \subseteq Registered
    <3>1. CASE b = Entry
      BY <3>1 DEF Registered
    <3>2. CASE b \in Registered
      BY <3>2, AfterTrans DEF Registered
    <3>. QED BY <1>5, <3>1, <3>2
  <2>2. \A z \in Onward(Threads, link, link[b]) : g[z] = link[z]
    <3>1. \A z \in Registered : z # t /\ z # Entry /\ z \in Buffers
      BY AfterThreads DEF Registered, Buffers
    <3>. QED BY <1>1, <1>2, <1>4, <2>1, <3>1
  <2>. QED BY <1>4, <2>2, OnwardSame
<1>6. \A b \in Registered : After(b)' = After(b)
  <2>1. \A b \in Registered : g[b] = link[b]
    BY <1>1, <1>2, AfterThreads DEF Registered, Buffers
  <2>. QED BY <1>3, <1>5, <2>1
<1>7. After(t)' = Registered
  BY <1>1, <1>2, <1>3, <1>5 DEF Registered
<1>8. Registered' = Registered \cup {t}
  <2>1. Registered' = Onward(Threads, g, t)
    BY <1>1, <1>2, <1>3 DEF Registered
  <2>2. Onward(Threads, g, t) = {t} \cup Onward(Threads, g, g[t])
    BY OnwardStep
  <2>. QED BY <1>3, <1>7, <2>1, <2>2
<1>9. \A b \in Threads \ {t} : link'[b] = link[b]
  BY <1>1, TSStackAssumption DEF Buffers
<1>10. ASSUME NEW s \in Registered \cup {Entry}
       PROVE  /\ \A b \in Registered : Rest(s, b) \subseteq Rest(s, b)'
              /\ s # Entry => Registered \ After(s) \subseteq (Registered \ After(s))'
  <2>1. s # Entry => After(s)' = After(s)
    BY <1>6, <1>10
  <2>2. s # Entry => Registered \ After(s) \subseteq Registered' \ After(s)'
    BY <1>8, <2>1
  <2>3. ASSUME NEW b \in Registered PROVE Rest(s, b) \subseteq Rest(s, b)'
    BY <1>6, <1>8, <2>1, <2>3 DEF Rest
  <2>. QED BY <2>2, <2>3
<1>. QED BY <1>6, <1>7, <1>8, <1>9, <1>10

LEMMA LeftNext ==
  ASSUME NEW r
  PROVE  /\ r.pc = "top" => Left(r)' = {r.cur} \cup Rest(r.start, r.cur)'
         /\ r.pc \in LookPcs => Left(r)' = Rest(r.start, r.cur)'
         /\ r.pc = "entry" => Left(r)' = (Registered \ After(r.start))'
<1>1. /\ r.pc = "top" => Left(r) = {r.cur} \cup Rest(r.start, r.cur)
      /\ r.pc \in LookPcs => Left(r) = Rest(r.start, r.cur)
      /\ r.pc = "entry" => Left(r) = Registered \ After(r.start)
  BY LeftFact
<1>2. (/\ r.pc = "top" => Left(r) = {r.cur} \cup Rest(r.start, r.cur)
       /\ r.pc \in LookPcs => Left(r) = Rest(r.start, r.cur)
       /\ r.pc = "entry" => Left(r) = Registered \ After(r.start))'
  BY <1>1, PTL
<1>. QED BY <1>2

LEMMA RegisterStep ==
  ASSUME IInv1, NEW t \in Threads, Register(t)
  PROVE  IInv1' /\ World(t)
<1>1. /\ TypeOK /\ PlacesInv /\ OlderInv /\ ListInv /\ RingInv /\ SeenInv
      /\ Inserted \subseteq Items
  BY InsertedItems DEF IInv1
<1>2. th[t].pc = "register" /\ th[t].pc \in PushPcs
  BY DEF Register, At, PushPcs
<1>3. /\ th[t] \in Locals /\ th[t].op = "put" /\ th[t].item \in Items /\ th[t].i = 0
      /\ Putting(t) /\ ~Linked(t) /\ BestInv(th[t].best) /\ (th[t].again => ~th[t].empty)
  BY <1>2, PushFact
<1>4. PICK r : r = [th[t] EXCEPT !.pc = "I_walk"]
  OBVIOUS
<1>5. /\ r \in Locals /\ r.pc = "I_walk" /\ r.op = "put" /\ r.item = th[t].item /\ r.i = 0
      /\ r.best = th[t].best /\ r.again = th[t].again /\ r.empty = th[t].empty
  BY <1>3, <1>4 DEF Locals, Pcs, PushPcs
<1>6. Becomes(t, r)
  BY <1>1, <1>4 DEF Register, Goto, Becomes, TypeOK
<1>7. th'[t] = r /\ \A u \in Threads : u # t => th'[u] = th[u]
  BY <1>1, <1>5, <1>6, BecomesFact
<1>8. /\ link' = [link EXCEPT ![t] = link[Entry], ![Entry] = t]
      /\ UNCHANGED stamps /\ list' = list /\ next' = next /\ taken' = taken /\ seen' = seen
      /\ kind' = kind /\ Observe(t, Held)
  BY DEF Register, stamps
<1>9. /\ Kept /\ Sights(Held) /\ Hands' = Hands
      /\ \A u \in Threads : /\ Putting(u)' <=> Putting(u)
                            /\ InHand(u)' = InHand(u)
                            /\ th'[u].item = th[u].item
  BY <1>1, <1>3, <1>5, <1>6, <1>8, ObserveSame
<1>10. \A u \in Threads : Linked(u)' <=> Linked(u)
  BY <1>2, <1>5, <1>7 DEF Linked, PushPcs
<1>11. Inserted' = Inserted
  BY <1>9, <1>10 DEF Inserted, Kept
<1>12. \A u \in Threads : Ours(u)' = Ours(u)
  BY <1>9, <1>10 DEF Ours, Kept
<1>13. t \notin Registered
  BY <1>1, <1>2, <1>3 DEF RingInv
<1>14. /\ \A b \in Registered : After(b)' = After(b)
       /\ Registered' = Registered \cup {t}
       /\ After(t)' = Registered
       /\ \A b \in Threads \ {t} : link'[b] = link[b]
       /\ \A s \in Registered \cup {Entry} :
            /\ \A b \in Registered : Rest(s, b) \subseteq Rest(s, b)'
            /\ s # Entry => Registered \ After(s) \subseteq (Registered \ After(s))'
  BY <1>1, <1>8, <1>13, RegisterRing
<1>15. \A c : Chain(c)' = Chain(c)
  BY <1>8 DEF Chain
<1>16. Grows
  BY <1>8, <1>11, <1>12, <1>14, <1>15 DEF Grows
<1>17. TypeOK'
  <2>1. th' \in [Threads -> Locals] /\ sight' \in [Threads -> BOOLEAN]
    BY <1>1, <1>5, <1>6, <1>9, BecomesFact, SightsFact
  <2>2. link' \in [Buffers -> Buffers]
    BY <1>1, <1>8 DEF TypeOK, Buffers
  <2>. QED BY <1>1, <1>8, <1>9, <2>1, <2>2 DEF TypeOK, stamps, Kept
<1>18. PlacesInv' /\ OlderInv' /\ ListInv'
  <2>1. PlacesInv'
    BY <1>1, <1>8, <1>9, <1>11 DEF PlacesInv, Kept
  <2>2. OlderInv'
    BY <1>1, <1>9 DEF OlderInv, Kept
  <2>3. ListInv'
    BY <1>1, <1>8, <1>9, <1>11, <1>15 DEF ListInv, Kept
  <2>. QED BY <2>1, <2>2, <2>3
<1>19. RingInv'
  <2>1. \A b \in Threads : b \notin Registered' => link'[b] = b /\ list'[b].item = Null
    BY <1>1, <1>8, <1>14 DEF RingInv
  <2>2. \A b \in Registered' : b \notin After(b)'
    BY <1>1, <1>13, <1>14 DEF RingInv
  <2>3. \A b \in Threads : Chain(list[b].item)' \subseteq Ours(b)'
    BY <1>1, <1>8, <1>12, <1>15 DEF RingInv
  <2>4. \A u \in Threads : Putting(u)' => (th'[u].pc = "register" <=> u \notin Registered')
    BY <1>1, <1>5, <1>7, <1>9, <1>14 DEF RingInv
  <2>. QED BY <1>8, <2>1, <2>2, <2>3, <2>4 DEF RingInv
<1>20. SeenInv'
  BY <1>1, <1>8, <1>16, GrowsSeen
<1>21. PcInv(t)' /\ RememberInv(t)' /\ RoundInv(t)' /\ EmptyInv(t)'
  <2>1. PcInv(t)'
    BY <1>3, <1>5, <1>7 DEF PcInv, PushPcs
  <2>2. RememberInv(t)'
    BY <1>3, <1>5, <1>7, <1>16, GrowsKnown DEF RememberInv
  <2>3. RoundInv(t)' /\ EmptyInv(t)'
    <3>1. r.best # NoBest => ~r.empty
      BY <1>5 DEF IInv1, EmptyInv
    <3>. QED BY <1>3, <1>5, <1>7, <3>1 DEF RoundInv, EmptyInv, SaysEmpty, RoundPcs, LookPcs
  <2>. QED BY <2>1, <2>2, <2>3
<1>22. ASSUME NEW u \in Threads, u # t
       PROVE  PcInv(u)' /\ RememberInv(u)' /\ RoundInv(u)' /\ EmptyInv(u)'
              /\ Left(th[u]) \subseteq Left(th[u])'
  <2>1. th'[u] = th[u]
    BY <1>7, <1>22
  <2>2. th[u].op = "get" /\ sight[u] => sight'[u]
    BY <1>1, <1>9, <2>1, SightsFact
  <2>3. Left(th[u]) \subseteq Left(th[u])'
    <3>1. PICK q : q = th[u]
      OBVIOUS
    <3>2. /\ q.pc \in RoundPcs => q.start \in Registered \cup {Entry}
          /\ q.pc \in LookPcs \cup {"top"} => q.cur \in Registered
          /\ q.pc = "entry" => q.start # Entry
      BY <3>1 DEF IInv1, RoundInv
    <3>3. q.pc \in LookPcs \cup {"top"} => Rest(q.start, q.cur) \subseteq Rest(q.start, q.cur)'
      BY <1>14, <3>2 DEF RoundPcs
    <3>4. q.pc = "entry" => Registered \ After(q.start) \subseteq (Registered \ After(q.start))'
      BY <1>14, <3>2 DEF RoundPcs
    <3>5. q.pc \in LookPcs => Left(q) \subseteq Left(q)'
      BY <3>3, LeftFact, LeftNext
    <3>6. q.pc = "top" => Left(q) \subseteq Left(q)'
      BY <3>3, LeftFact, LeftNext
    <3>7. q.pc = "entry" => Left(q) \subseteq Left(q)'
      BY <3>4, LeftFact, LeftNext
    <3>8. q.pc \notin RoundPcs => Left(q) \subseteq Left(q)'
      BY DEF Left, RoundPcs, LookPcs
    <3>9. Left(q) \subseteq Left(q)'
      BY <3>5, <3>6, <3>7, <3>8 DEF RoundPcs
    <3>. QED BY <2>1, <3>1, <3>9
  <2>4. \A b : \A D \in SUBSET taken : Buried(b, D) => Buried(b, D)'
    BY <1>5, <1>7, <1>8, BuriedKept
  <2>. QED BY <1>8, <1>9, <1>15, <1>16, <2>1, <2>2, <2>3, <2>4, GrowsOther DEF Kept
<1>23. World(t)
  BY <1>3, <1>5, <1>7, <1>9, <1>16, <1>22 DEF World, Kept
<1>. QED BY <1>17, <1>18, <1>19, <1>20, <1>21, <1>22, <1>23 DEF IInv1

LEMMA InsertWalkStep ==
  ASSUME IInv1, NEW t \in Threads, InsertWalk(t)
  PROVE  IInv1' /\ World(t)
<1>1. /\ TypeOK /\ PlacesInv /\ OlderInv /\ ListInv /\ RingInv /\ SeenInv
      /\ Inserted \subseteq Items
  BY InsertedItems DEF IInv1
<1>2. th[t].pc = "I_walk" /\ th[t].pc \in PushPcs
  BY DEF InsertWalk, At, PushPcs
<1>3. /\ th[t] \in Locals /\ th[t].op = "put" /\ th[t].item \in Items /\ th[t].i = 0
      /\ Putting(t) /\ ~Linked(t) /\ th[t].item \notin Inserted
      /\ BestInv(th[t].best) /\ (th[t].again => ~th[t].empty)
  BY <1>2, PushFact
<1>4. PICK r : r = [th[t] EXCEPT !.pc = "I_list"]
  OBVIOUS
<1>5. /\ r \in Locals /\ r.pc = "I_list" /\ r.op = "put" /\ r.item = th[t].item /\ r.i = 0
      /\ r.best = th[t].best /\ r.again = th[t].again /\ r.empty = th[t].empty
  BY <1>3, <1>4 DEF Locals, Pcs, PushPcs
<1>6. Becomes(t, r)
  BY <1>1, <1>4 DEF InsertWalk, Goto, Becomes, TypeOK
<1>7. th'[t] = r /\ \A u \in Threads : u # t => th'[u] = th[u]
  BY <1>1, <1>5, <1>6, BecomesFact
<1>8. PICK y : y = FirstUntaken(list[t].item)
  OBVIOUS
<1>9. /\ next' = [next EXCEPT ![th[t].item] = y]
      /\ UNCHANGED stamps /\ link' = link /\ list' = list /\ taken' = taken /\ seen' = seen
      /\ kind' = kind /\ Observe(t, Held)
  BY <1>8 DEF InsertWalk, InsertTop, stamps
<1>10. /\ Kept /\ Sights(Held) /\ Hands' = Hands
       /\ \A u \in Threads : /\ Putting(u)' <=> Putting(u)
                             /\ InHand(u)' = InHand(u)
                             /\ th'[u].item = th[u].item
  BY <1>1, <1>3, <1>5, <1>6, <1>9, ObserveSame
<1>11. \A u \in Threads : Linked(u)' <=> Linked(u)
  BY <1>2, <1>5, <1>7 DEF Linked, PushPcs
<1>12. Inserted' = Inserted
  BY <1>10, <1>11 DEF Inserted, Kept
<1>13. \A u \in Threads : Ours(u)' = Ours(u)
  BY <1>10, <1>11 DEF Ours, Kept
<1>14. \A z \in Items : z # th[t].item => next'[z] = next[z]
  BY <1>1, <1>9 DEF TypeOK
<1>15. \A x \in Inserted \cup {Null} : Chain(x)' = Chain(x)
  <2>1. \A z \in Inserted : next'[z] = next[z]
    BY <1>1, <1>3, <1>14
  <2>. QED BY <1>1, <2>1, ChainSame
<1>16. \A b \in Threads : list[b].item \in Inserted \cup {Null}
  BY <1>1 DEF ListInv
<1>17. \A b : After(b)' = After(b)
  BY <1>9 DEF After
<1>18. Registered' = Registered
  BY <1>17 DEF Registered
<1>19. Grows
  <2>1. \A b \in Threads : Chain(list[b].item)' = Chain(list[b].item)
    <3>1. ASSUME NEW b \in Threads PROVE Chain(list[b].item)' = Chain(list[b].item)
      <4>1. PICK x \in Inserted \cup {Null} : x = list[b].item /\ x = list'[b].item
        BY <1>9, <1>16
      <4>2. Chain(x)' = Chain(x)
        BY <1>15
      <4>. QED BY <4>1, <4>2
    <3>. QED BY <3>1
  <2>. QED BY <1>9, <1>12, <1>13, <1>15, <1>18, <2>1 DEF Grows
<1>20. /\ y \in Inserted \cup {Null}
       /\ Chain(list[t].item) \ taken \subseteq Chain(y)
       /\ Chain(y) \subseteq older[th[t].item]
  <2>1. /\ Chain(list[t].item) \ taken \subseteq Chain(y)
        /\ Chain(y) \subseteq Chain(list[t].item)
        /\ y # Null => y \in Chain(list[t].item)
    BY <1>8, FirstUntakenFact
  <2>2. Chain(list[t].item) \subseteq Inserted
    BY <1>1, <1>16, ChainInserted
  <2>3. Chain(list[t].item) \subseteq older[th[t].item]
    BY <1>1, <1>3 DEF RingInv, Ours
  <2>. QED BY <2>1, <2>2, <2>3
<1>21. next'[th[t].item] = y
  BY <1>1, <1>3, <1>9 DEF TypeOK
<1>22. TypeOK'
  <2>1. th' \in [Threads -> Locals] /\ sight' \in [Threads -> BOOLEAN]
    BY <1>1, <1>5, <1>6, <1>10, BecomesFact, SightsFact
  <2>2. next' \in [Items -> Items \cup {Null}]
    BY <1>1, <1>9, <1>20 DEF TypeOK
  <2>. QED BY <1>1, <1>9, <1>10, <2>1, <2>2 DEF TypeOK, stamps, Kept
<1>23. PlacesInv' /\ OlderInv'
  BY <1>1, <1>9, <1>10, <1>12 DEF PlacesInv, OlderInv, Kept
<1>24. ListInv'
  <2>1. ASSUME NEW x \in Inserted
        PROVE  next'[x] \in Inserted' \cup {Null} /\ Chain(next[x])' \subseteq older'[x]
    <3>1. next[x] \in Inserted \cup {Null} /\ Chain(next[x]) \subseteq older[x]
      BY <1>1, <2>1 DEF ListInv
    <3>2. PICK n \in Inserted \cup {Null} : n = next[x]
      BY <3>1
    <3>3. next'[x] = n
      BY <1>1, <1>3, <1>14, <2>1, <3>2
    <3>4. Chain(n)' = Chain(n)
      BY <1>15
    <3>. QED BY <1>10, <1>12, <3>1, <3>2, <3>3, <3>4 DEF Kept
  <2>2. \A b \in Threads : Chain(list[b].item) \ taken \subseteq Chain(list[b].item)'
    BY <1>9, <1>19 DEF Grows
  <2>3. \A x \in Inserted' \ taken' : \E b \in Threads : x \in Chain(list[b].item)'
    BY <1>1, <1>9, <1>12, <2>2 DEF ListInv
  <2>. QED BY <1>9, <1>12, <1>16, <2>1, <2>3 DEF ListInv
<1>25. RingInv'
  <2>1. \A b \in Threads : Chain(list[b].item)' \subseteq Ours(b)'
    <3>1. ASSUME NEW b \in Threads PROVE Chain(list[b].item)' \subseteq Ours(b)'
      <4>1. PICK x \in Inserted \cup {Null} : x = list[b].item /\ x = list'[b].item
        BY <1>9, <1>16
      <4>2. Chain(x)' = Chain(x)
        BY <1>15
      <4>3. Chain(x) \subseteq Ours(b)
        BY <1>1, <4>1 DEF RingInv
      <4>. QED BY <1>13, <4>1, <4>2, <4>3
    <3>. QED BY <3>1
  <2>2. \A u \in Threads : Putting(u)' => (th'[u].pc = "register" <=> u \notin Registered')
    BY <1>1, <1>2, <1>5, <1>7, <1>10, <1>18 DEF RingInv
  <2>. QED BY <1>1, <1>9, <1>17, <1>18, <2>1, <2>2 DEF RingInv
<1>26. SeenInv'
  BY <1>1, <1>9, <1>19, GrowsSeen
<1>27. PcInv(t)' /\ RememberInv(t)' /\ RoundInv(t)' /\ EmptyInv(t)'
  <2>1. PcInv(t)'
    BY <1>3, <1>5, <1>7 DEF PcInv, PushPcs
  <2>2. RememberInv(t)'
    <3>1. BestInv(r.best)'
      BY <1>3, <1>5, <1>19, GrowsKnown
    <3>2. Chain(y)' = Chain(y) /\ next'[r.item] = y
      BY <1>5, <1>15, <1>20, <1>21
    <3>3. Chain(list[t].item)' = Chain(list[t].item)
      <4>1. PICK x \in Inserted \cup {Null} : x = list[t].item /\ x = list'[t].item
        BY <1>9, <1>16
      <4>2. Chain(x)' = Chain(x)
        BY <1>15
      <4>. QED BY <4>1, <4>2
    <3>4. Chain(next[r.item])' = Chain(y)
      BY <3>2
    <3>5. (Chain(list[t].item) \ taken)' \subseteq Chain(next[r.item])'
      BY <1>9, <1>20, <3>3, <3>4
    <3>6. Chain(next[r.item])' \subseteq older'[r.item] /\ next'[r.item] \in Inserted' \cup {Null}
      BY <1>5, <1>10, <1>12, <1>20, <3>2, <3>4 DEF Kept
    <3>. QED BY <1>5, <1>7, <3>1, <3>5, <3>6 DEF RememberInv
  <2>3. RoundInv(t)' /\ EmptyInv(t)'
    <3>1. r.best # NoBest => ~r.empty
      BY <1>5 DEF IInv1, EmptyInv
    <3>. QED BY <1>3, <1>5, <1>7, <3>1 DEF RoundInv, EmptyInv, SaysEmpty, RoundPcs, LookPcs
  <2>. QED BY <2>1, <2>2, <2>3
<1>28. ASSUME NEW u \in Threads, u # t
       PROVE  PcInv(u)' /\ RememberInv(u)' /\ RoundInv(u)' /\ EmptyInv(u)'
              /\ Left(th[u]) \subseteq Left(th[u])'
  <2>1. th'[u] = th[u]
    BY <1>7, <1>28
  <2>2. th[u].op = "get" /\ sight[u] => sight'[u]
    BY <1>1, <1>10, <2>1, SightsFact
  <2>3. Left(th[u])' = Left(th[u])
    <3>1. PICK q : q = th[u]
      OBVIOUS
    <3>2. Left(q)' = Left(q)
      BY <1>9, LeftKept
    <3>. QED BY <2>1, <3>1, <3>2
  <2>4. \A b : \A D \in SUBSET taken : Buried(b, D) => Buried(b, D)'
    BY <1>5, <1>7, <1>9, BuriedKept
  <2>5. th[u].pc = "I_list" => next'[th[u].item] = next[th[u].item]
    <3>1. th[u].pc = "I_list" => Putting(u) /\ th[u].item \in Items
      BY PushFact DEF PushPcs
    <3>. QED BY <1>1, <1>3, <1>14, <1>28, <3>1 DEF PlacesInv
  <2>6. Chain(list[u].item)' \ taken' \subseteq Chain(list[u].item)
    <3>1. PICK x \in Inserted \cup {Null} : x = list[u].item /\ x = list'[u].item
      BY <1>9, <1>16
    <3>2. Chain(x)' = Chain(x)
      BY <1>15
    <3>. QED BY <3>1, <3>2
  <2>. QED BY <1>9, <1>10, <1>19, <2>1, <2>2, <2>3, <2>4, <2>5, <2>6, GrowsOther DEF Kept
<1>29. World(t)
  BY <1>3, <1>5, <1>7, <1>10, <1>19, <1>28 DEF World, Kept
<1>. QED BY <1>22, <1>23, <1>24, <1>25, <1>26, <1>27, <1>28, <1>29 DEF IInv1

LEMMA InsertListStep ==
  ASSUME IInv1, NEW t \in Threads, InsertList(t)
  PROVE  IInv1' /\ World(t)
<1>1. /\ TypeOK /\ PlacesInv /\ OlderInv /\ ListInv /\ RingInv /\ SeenInv /\ RememberInv(t)
      /\ Inserted \subseteq Items
  BY InsertedItems DEF IInv1
<1>2. th[t].pc = "I_list" /\ th[t].pc \in PushPcs
  BY DEF InsertList, At, PushPcs
<1>3. PICK x \in Items : x = th[t].item
  BY <1>2, PushFact
<1>4. /\ th[t] \in Locals /\ th[t].op = "put" /\ th[t].i = 0
      /\ Putting(t) /\ ~Linked(t) /\ x \notin Inserted /\ older[x] \subseteq done
      /\ BestInv(th[t].best) /\ (th[t].again => ~th[t].empty)
  BY <1>2, <1>3, PushFact
<1>5. PICK r : r = [th[t] EXCEPT !.pc = "S_read"]
  OBVIOUS
<1>6. /\ r \in Locals /\ r.pc = "S_read" /\ r.op = "put" /\ r.item = x /\ r.i = 0
      /\ r.best = th[t].best /\ r.again = th[t].again /\ r.empty = th[t].empty
  BY <1>3, <1>4, <1>5 DEF Locals, Pcs, StampPcs
<1>7. Becomes(t, r)
  BY <1>1, <1>5 DEF InsertList, Goto, Becomes, TypeOK
<1>8. th'[t] = r /\ \A u \in Threads : u # t => th'[u] = th[u]
  BY <1>1, <1>6, <1>7, BecomesFact
<1>9. PICK w : w = Word(x, NextAba(list[t].aba))
  OBVIOUS
<1>10. w \in Words /\ w.item = x
  <2>1. list[t].aba \in Int
    BY <1>1 DEF TypeOK, Words
  <2>2. NextAba(list[t].aba) \in Int
    BY <2>1 DEF NextAba
  <2>. QED BY <1>9, <2>2 DEF Word, Words
<1>11. /\ list' = [list EXCEPT ![t] = w]
       /\ UNCHANGED stamps /\ link' = link /\ next' = next /\ taken' = taken /\ seen' = seen
       /\ kind' = kind /\ Observe(t, Held')
  BY <1>1, <1>3, <1>9 DEF InsertList, stamps, TypeOK
<1>12. list'[t].item = x /\ \A b \in Threads : b # t => list'[b] = list[b]
  BY <1>1, <1>10, <1>11 DEF TypeOK
<1>13. PICK h : h = Held'
  OBVIOUS
<1>14. /\ Kept /\ Sights(h) /\ Hands' = Hands
       /\ \A u \in Threads : /\ Putting(u)' <=> Putting(u)
                             /\ InHand(u)' = InHand(u)
                             /\ th'[u].item = th[u].item
  BY <1>1, <1>3, <1>4, <1>6, <1>7, <1>11, <1>13, ObserveSame
<1>15. Linked(t)' /\ \A u \in Threads : u # t => (Linked(u)' <=> Linked(u))
  BY <1>6, <1>8 DEF Linked, PushPcs
<1>16. Inserted' = Inserted \cup {x}
  BY <1>3, <1>4, <1>14, <1>15 DEF Inserted, Kept
<1>17. /\ Ours(t) = older[x] /\ Ours(t)' = older[x] \cup {x}
       /\ \A u \in Threads : Ours(u) \subseteq Ours(u)'
  <2>1. Ours(t) = older[x] /\ Ours(t)' = older[x] \cup {x}
    BY <1>3, <1>4, <1>14, <1>15 DEF Ours, Kept
  <2>2. \A u \in Threads : u # t => Ours(u)' = Ours(u)
    BY <1>14, <1>15 DEF Ours, Kept
  <2>. QED BY <2>1, <2>2
<1>18. \A c : Chain(c)' = Chain(c)
  BY <1>11 DEF Chain
<1>19. \A b : After(b)' = After(b)
  BY <1>11 DEF After
<1>20. Registered' = Registered
  BY <1>19 DEF Registered
<1>21. /\ next[x] \in Inserted \cup {Null}
       /\ Chain(list[t].item) \ taken \subseteq Chain(next[x])
       /\ Chain(next[x]) \subseteq older[x]
  BY <1>1, <1>2, <1>3 DEF RememberInv
<1>22. Chain(x) = {x} \cup Chain(next[x])
  BY ChainStep
<1>23. Chain(list[t].item)' = Chain(x) /\ \A b \in Threads : b # t => Chain(list[b].item)' = Chain(list[b].item)
  <2>1. Chain(list[t].item)' = Chain(x)
    BY <1>12, <1>18
  <2>2. ASSUME NEW b \in Threads, b # t PROVE Chain(list[b].item)' = Chain(list[b].item)
    BY <1>12, <1>18, <2>2
  <2>. QED BY <2>1, <2>2
<1>24. Grows
  <2>1. \A b \in Threads : Chain(list[b].item) \ taken \subseteq Chain(list[b].item)'
    BY <1>21, <1>22, <1>23
  <2>. QED BY <1>11, <1>16, <1>17, <1>18, <1>20, <2>1 DEF Grows
<1>25. TypeOK'
  <2>1. th' \in [Threads -> Locals] /\ sight' \in [Threads -> BOOLEAN]
    BY <1>1, <1>6, <1>7, <1>14, BecomesFact, SightsFact
  <2>2. list' \in [Threads -> Words]
    BY <1>1, <1>10, <1>11 DEF TypeOK
  <2>. QED BY <1>1, <1>11, <1>14, <2>1, <2>2 DEF TypeOK, stamps, Kept
<1>26. PlacesInv' /\ OlderInv'
  BY <1>1, <1>11, <1>14, <1>16 DEF PlacesInv, OlderInv, Kept
<1>27. ListInv'
  <2>1. ASSUME NEW y \in Inserted'
        PROVE  next'[y] \in Inserted' \cup {Null} /\ Chain(next[y])' \subseteq older'[y]
    <3>1. next[y] \in Inserted \cup {Null} /\ Chain(next[y]) \subseteq older[y]
      BY <1>1, <1>16, <1>21, <2>1 DEF ListInv
    <3>2. Chain(next[y])' = Chain(next[y])
      BY <1>11, <1>18
    <3>. QED BY <1>11, <1>14, <1>16, <3>1, <3>2 DEF Kept
  <2>2. \A b \in Threads : list'[b].item \in Inserted' \cup {Null}
    BY <1>1, <1>12, <1>16 DEF ListInv
  <2>3. ASSUME NEW y \in Inserted' \ taken' PROVE \E b \in Threads : y \in Chain(list[b].item)'
    <3>1. CASE y = x
      BY <1>22, <1>23, <3>1
    <3>2. CASE y # x
      <4>1. PICK b \in Threads : y \in Chain(list[b].item) /\ y \notin taken
        BY <1>1, <1>11, <1>16, <2>3, <3>2 DEF ListInv
      <4>. QED BY <1>11, <1>24, <4>1 DEF Grows
    <3>. QED BY <3>1, <3>2
  <2>. QED BY <2>1, <2>2, <2>3 DEF ListInv
<1>28. RingInv'
  <2>1. t \in Registered
    BY <1>1, <1>2, <1>4 DEF RingInv
  <2>2. \A b \in Threads : b \notin Registered => link'[b] = b /\ list'[b].item = Null
    BY <1>1, <1>11, <1>12, <2>1 DEF RingInv
  <2>3. \A b \in Threads : Chain(list[b].item)' \subseteq Ours(b)'
    BY <1>1, <1>17, <1>21, <1>22, <1>23 DEF RingInv
  <2>4. \A u \in Threads : Putting(u)' => (th'[u].pc = "register" <=> u \notin Registered)
    BY <1>1, <1>2, <1>6, <1>8, <1>14 DEF RingInv
  <2>. QED BY <1>1, <1>19, <1>20, <2>2, <2>3, <2>4 DEF RingInv
<1>29. SeenInv'
  BY <1>1, <1>11, <1>24, GrowsSeen
<1>30. PcInv(t)' /\ RememberInv(t)' /\ RoundInv(t)' /\ EmptyInv(t)'
  <2>1. PcInv(t)'
    BY <1>3, <1>6, <1>8 DEF PcInv, StampPcs
  <2>2. RememberInv(t)'
    BY <1>4, <1>6, <1>8, <1>24, GrowsKnown DEF RememberInv
  <2>3. RoundInv(t)' /\ EmptyInv(t)'
    <3>1. r.best # NoBest => ~r.empty
      BY <1>6 DEF IInv1, EmptyInv
    <3>. QED BY <1>4, <1>6, <1>8, <3>1 DEF RoundInv, EmptyInv, SaysEmpty, RoundPcs, LookPcs
  <2>. QED BY <2>1, <2>2, <2>3
<1>31. \A b : \A D \in SUBSET taken : Buried(b, D) => Buried(b, D)'
  <2>1. SUFFICES ASSUME NEW b, NEW D \in SUBSET taken, Buried(b, D) PROVE Buried(b, D)'
    OBVIOUS
  <2>2. list'[b].item \notin D \cup {Null}
    <3>1. CASE b = t
      <4>1. x \notin taken /\ x # Null
        BY <1>1, <1>4, CallHistoryAssumption DEF PlacesInv
      <4>. QED BY <1>12, <3>1, <4>1
    <3>2. CASE b # t
      <4>1. list'[b] = list[b]
        BY <1>1, <1>11, <3>2 DEF TypeOK
      <4>. QED BY <2>1, <4>1 DEF Buried
    <3>. QED BY <3>1, <3>2
  <2>3. \A u \in Threads : th'[u].pc = "adjust" => th'[u] = th[u]
    BY <1>6, <1>8
  <2>. QED BY <2>1, <2>2, <2>3 DEF Buried
<1>32. ASSUME NEW u \in Threads, u # t
       PROVE  PcInv(u)' /\ RememberInv(u)' /\ RoundInv(u)' /\ EmptyInv(u)'
              /\ Left(th[u]) \subseteq Left(th[u])'
  <2>1. th'[u] = th[u]
    BY <1>8, <1>32
  <2>2. th[u].op = "get" /\ sight[u] => sight'[u]
    BY <1>1, <1>14, <2>1, SightsFact
  <2>3. Left(th[u])' = Left(th[u])
    <3>1. PICK q : q = th[u]
      OBVIOUS
    <3>2. Left(q)' = Left(q)
      BY <1>11, LeftKept
    <3>. QED BY <2>1, <3>1, <3>2
  <2>4. Chain(list[u].item)' \ taken' \subseteq Chain(list[u].item)
    BY <1>23, <1>32
  <2>. QED BY <1>11, <1>14, <1>24, <1>31, <2>1, <2>2, <2>3, <2>4, GrowsOther DEF Kept
<1>33. World(t)
  BY <1>4, <1>6, <1>8, <1>14, <1>24, <1>32 DEF World, Kept
<1>. QED BY <1>25, <1>26, <1>27, <1>28, <1>29, <1>30, <1>31, <1>32, <1>33 DEF IInv1

\* t sets the taken flag of y, found in the list of b, where the list was w.
Takes(t, y, b, w) == [Idle EXCEPT !.pc = "adjust", !.op = "get", !.item = y, !.cur = b, !.top = w]

LEMMA TakesStep ==
  ASSUME IInv1, NEW t \in Threads, th[t].pc \in {"eliminate", "take"},
         NEW y \in Items, NEW b \in Registered, NEW w \in Words, y \notin taken,
         Known(b, y), Cuttable(w, y), Becomes(t, Takes(t, y, b, w)),
         taken' = taken \cup {y}, UNCHANGED <<stamps, link, list, next, seen>>, Observe(t, Held')
  PROVE  IInv1' /\ World(t)
<1>1. /\ TypeOK /\ PlacesInv /\ OlderInv /\ ListInv /\ RingInv /\ SeenInv
      /\ b \in Threads
  BY RegisteredThreads DEF IInv1
<1>2. th[t] \in Locals /\ th[t].op = "get" /\ th[t].item = Null
  BY PopFact DEF PopPcs, RoundPcs, LookPcs
<1>3. PICK r : r = Takes(t, y, b, w)
  OBVIOUS
<1>4. /\ r \in Locals /\ r.pc = "adjust" /\ r.op = "get" /\ r.item = y /\ r.cur = b /\ r.top = w
      /\ r.i = 0 /\ r.best = NoBest /\ ~r.again
  <2>1. "adjust" \in Pcs /\ b \in Buffers
    BY <1>1 DEF Pcs, PopPcs, Buffers
  <2>. QED BY <1>3, <2>1, IdleType DEF Takes, Idle, Locals
<1>5. Becomes(t, r)
  BY <1>3
<1>6. th'[t] = r /\ \A u \in Threads : u # t => th'[u] = th[u]
  BY <1>1, <1>4, <1>5, BecomesFact
<1>7. PICK h : h = Held'
  OBVIOUS
<1>8. Kept /\ Sights(h)
  BY <1>1, <1>2, <1>4, <1>5, <1>7, ObserveQuiet
<1>9. \A u \in Threads : (Putting(u)' <=> Putting(u)) /\ (Linked(u)' <=> Linked(u))
                         /\ (Putting(u) => th'[u] = th[u])
                         /\ (u # t => InHand(u)' = InHand(u))
  BY <1>2, <1>4, <1>6 DEF Putting, Linked, InHand
<1>10. InHand(t) = {} /\ InHand(t)' = {y}
  BY <1>2, <1>4, <1>6, CallHistoryAssumption DEF InHand
<1>11. Inserted' = Inserted
  BY <1>8, <1>9 DEF Inserted, Kept, Linked, Putting
<1>12. Hands' = Hands \cup {y}
  BY <1>9, <1>10 DEF Hands
<1>13. \A u \in Threads : Ours(u)' = Ours(u)
  BY <1>8, <1>9 DEF Ours, Kept
<1>14. link' = link /\ list' = list /\ next' = next /\ seen' = seen /\ UNCHANGED stamps /\ kind' = kind
  BY DEF stamps
<1>15. \A c : Chain(c)' = Chain(c)
  BY <1>14 DEF Chain
<1>16. \A c : After(c)' = After(c)
  BY <1>14 DEF After
<1>17. Registered' = Registered
  BY <1>16 DEF Registered
<1>18. \A c \in Threads : Chain(list[c].item)' = Chain(list[c].item)
  BY <1>14, <1>15
<1>19. Grows
  BY <1>11, <1>13, <1>15, <1>17, <1>18 DEF Grows
<1>20. y \in Inserted
  BY CallHistoryAssumption DEF Known
<1>21. TypeOK'
  <2>1. th' \in [Threads -> Locals] /\ sight' \in [Threads -> BOOLEAN]
    BY <1>1, <1>4, <1>5, <1>8, BecomesFact, SightsFact
  <2>. QED BY <1>1, <1>8, <1>14, <2>1 DEF TypeOK, stamps, Kept
<1>22. PlacesInv'
  <2>1. \A u, v \in Threads : u # v /\ Putting(u)' /\ Putting(v)' => th'[u].item # th'[v].item
    BY <1>1, <1>9 DEF PlacesInv
  <2>2. \A u \in Threads : Putting(u)' => th'[u].item \notin done
    BY <1>1, <1>9 DEF PlacesInv
  <2>3. y \notin Hands /\ y \notin out
    BY <1>1 DEF PlacesInv
  <2>4. \A u \in Threads : y \notin InHand(u)
    BY <2>3 DEF Hands
  <2>5. \A u, v \in Threads : u # v => InHand(u)' \cap InHand(v)' = {}
    BY <1>1, <1>9, <1>10, <2>4 DEF PlacesInv
  <2>6. taken' = Hands' \cup out /\ Hands' \cap out = {} /\ taken' \subseteq Inserted
    BY <1>1, <1>12, <1>20, <2>3 DEF PlacesInv
  <2>. QED BY <1>8, <1>11, <2>1, <2>2, <2>5, <2>6 DEF PlacesInv, Kept
<1>23. OlderInv'
  BY <1>1, <1>8, <1>9 DEF OlderInv, Kept
<1>24. ListInv'
  BY <1>1, <1>8, <1>11, <1>14, <1>15 DEF ListInv, Kept
<1>25. RingInv'
  <2>1. \A u \in Threads : Putting(u)' => (th'[u].pc = "register" <=> u \notin Registered)
    BY <1>1, <1>9 DEF RingInv
  <2>2. \A c \in Threads : Chain(list[c].item)' \subseteq Ours(c)'
    BY <1>1, <1>13, <1>18 DEF RingInv
  <2>. QED BY <1>1, <1>14, <1>16, <1>17, <2>1, <2>2 DEF RingInv
<1>26. SeenInv'
  BY <1>1, <1>14, <1>19, GrowsSeen
<1>27. PcInv(t)' /\ RememberInv(t)' /\ RoundInv(t)' /\ EmptyInv(t)'
  <2>1. PcInv(t)'
    BY <1>4, <1>6 DEF PcInv, PopPcs
  <2>2. RememberInv(t)'
    <3>1. BestInv(r.best)'
      BY <1>4 DEF BestInv
    <3>2. Known(r.cur, r.item)' /\ Cuttable(r.top, r.item)'
      BY <1>1, <1>4, <1>19, <1>20, GrowsKnown
    <3>. QED BY <1>4, <1>6, <1>17, <3>1, <3>2 DEF RememberInv
  <2>3. RoundInv(t)' /\ EmptyInv(t)'
    BY <1>4, <1>6 DEF RoundInv, EmptyInv, SaysEmpty, RoundPcs, LookPcs
  <2>. QED BY <2>1, <2>2, <2>3
<1>28. ASSUME NEW u \in Threads, u # t
       PROVE  PcInv(u)' /\ RememberInv(u)' /\ RoundInv(u)' /\ EmptyInv(u)'
              /\ Left(th[u]) \subseteq Left(th[u])'
  <2>1. th'[u] = th[u]
    BY <1>6, <1>28
  <2>2. th[u].op = "get" /\ sight[u] => sight'[u]
    BY <1>1, <1>8, <2>1, SightsFact
  <2>3. Left(th[u])' = Left(th[u])
    <3>1. PICK q : q = th[u]
      OBVIOUS
    <3>2. Left(q)' = Left(q)
      BY <1>14, LeftKept
    <3>. QED BY <2>1, <3>1, <3>2
  <2>4. \A c : \A D \in SUBSET taken : Buried(c, D) => Buried(c, D)'
    BY <1>4, <1>6, <1>14, BuriedKept
  <2>5. Chain(list[u].item)' \ taken' \subseteq Chain(list[u].item)
    BY <1>18
  <2>. QED BY <1>8, <1>14, <1>19, <2>1, <2>2, <2>3, <2>4, <2>5, GrowsOther DEF Kept
<1>29. World(t)
  BY <1>2, <1>4, <1>6, <1>8, <1>19, <1>28 DEF World, Kept
<1>. QED BY <1>21, <1>22, <1>23, <1>24, <1>25, <1>26, <1>27, <1>28, <1>29 DEF IInv1

LEMMA RemoveEliminateCases ==
  ASSUME TypeOK, NEW t \in Threads, RemoveEliminate(t)
  PROVE  /\ th[t].pc = "eliminate"
         /\ UNCHANGED <<stamps, link, list, next, seen>> /\ Observe(t, Held')
         /\ \/ /\ th[t].cand \notin taken /\ taken' = taken \cup {th[t].cand}
               /\ Becomes(t, Takes(t, th[t].cand, th[t].cur, th[t].top))
            \/ Becomes(t, LookAgain(t)) /\ Local(t)
<1>1. /\ th[t].pc = "eliminate" /\ th \in [Threads -> Locals]
      /\ UNCHANGED <<stamps, link, list, next, seen>> /\ Observe(t, Held')
  BY DEF RemoveEliminate, At, TypeOK
<1>2. CASE th[t].cand \notin taken
  <2>1. taken' = taken \cup {th[t].cand} /\ Becomes(t, Takes(t, th[t].cand, th[t].cur, th[t].top))
    BY <1>2 DEF RemoveEliminate, TakenBefore, Becomes, Takes
  <2>. QED BY <1>1, <1>2, <2>1
<1>3. CASE th[t].cand \in taken
  <2>1. th' = [th EXCEPT ![t].pc = "top", ![t].again = TRUE, ![t].top = NoWord,
                         ![t].cand = Null, ![t].stamp = Sentinel] /\ taken' = taken
    BY <1>3 DEF RemoveEliminate, TakenBefore
  <2>2. th' = [th EXCEPT ![t] = [th[t] EXCEPT !.pc = "top", !.again = TRUE, !.top = NoWord,
                                              !.cand = Null, !.stamp = Sentinel]]
    BY <1>1, <2>1 DEF Locals
  <2>3. Becomes(t, LookAgain(t))
    BY <2>2 DEF Becomes, LookAgain
  <2>4. UNCHANGED stamps /\ UNCHANGED shared /\ UNCHANGED Lists
    BY <1>1, <2>1 DEF shared, Lists
  <2>5. Local(t)
    BY <1>1, <2>4, HeldSame DEF Local
  <2>. QED BY <1>1, <2>3, <2>5
<1>. QED BY <1>2, <1>3

LEMMA RemoveEliminateStep ==
  ASSUME IInv1, NEW t \in Threads, RemoveEliminate(t)
  PROVE  IInv1' /\ World(t)
<1>1. TypeOK /\ th[t] \in Locals /\ RememberInv(t) /\ RoundInv(t)
  BY DEF IInv1, TypeOK
<1>2. th[t].pc = "eliminate" /\ th[t].pc \in LookPcs
      /\ UNCHANGED <<stamps, link, list, next, seen>> /\ Observe(t, Held')
  BY <1>1, RemoveEliminateCases DEF LookPcs
<1>3. PICK y \in Items, b \in Registered, w \in Words : y = th[t].cand /\ b = th[t].cur /\ w = th[t].top
  BY <1>1, <1>2 DEF RememberInv, RoundInv, Locals
<1>4. Known(b, y) /\ Cuttable(w, y)
  BY <1>1, <1>2, <1>3 DEF RememberInv
<1>5. CASE y \notin taken /\ taken' = taken \cup {y} /\ Becomes(t, Takes(t, y, b, w))
  BY <1>2, <1>4, <1>5, TakesStep
<1>6. CASE Becomes(t, LookAgain(t)) /\ Local(t)
  BY <1>2, <1>6, EliminateFailsStep
<1>. QED BY <1>1, <1>3, <1>5, <1>6, RemoveEliminateCases

LEMMA RemoveTakeCases ==
  ASSUME TypeOK, NEW t \in Threads, RemoveTake(t), NEW best, best = th[t].best
  PROVE  /\ th[t].pc = "take"
         /\ UNCHANGED <<stamps, link, list, next, seen>> /\ Observe(t, Held')
         /\ \/ /\ best.item \notin taken /\ taken' = taken \cup {best.item}
               /\ Becomes(t, Takes(t, best.item, best.buf, best.top))
            \/ Becomes(t, NewRound(t, "start")) /\ Local(t)
<1>1. /\ th[t].pc = "take"
      /\ UNCHANGED <<stamps, link, list, next, seen>> /\ Observe(t, Held')
  BY DEF RemoveTake, At
<1>2. CASE best.item \notin taken
  <2>1. taken' = taken \cup {best.item} /\ Becomes(t, Takes(t, best.item, best.buf, best.top))
    BY <1>2 DEF RemoveTake, TakenBefore, Becomes, Takes
  <2>. QED BY <1>1, <1>2, <2>1
<1>3. CASE best.item \in taken
  <2>1. Becomes(t, NewRound(t, "start")) /\ taken' = taken
    BY <1>3 DEF RemoveTake, TakenBefore, Becomes
  <2>2. UNCHANGED stamps /\ UNCHANGED shared /\ UNCHANGED Lists
    BY <1>1, <2>1 DEF shared, Lists
  <2>3. Local(t)
    BY <1>1, <2>2, HeldSame DEF Local
  <2>. QED BY <1>1, <2>1, <2>3
<1>. QED BY <1>2, <1>3

LEMMA RemoveTakeStep ==
  ASSUME IInv1, NEW t \in Threads, RemoveTake(t)
  PROVE  IInv1' /\ World(t)
<1>1. TypeOK /\ th[t] \in Locals /\ RememberInv(t)
  BY DEF IInv1, TypeOK
<1>2. PICK best \in Bests : best = th[t].best
  BY <1>1 DEF Locals
<1>3. th[t].pc = "take" /\ UNCHANGED <<stamps, link, list, next, seen>> /\ Observe(t, Held')
  BY <1>1, <1>2, RemoveTakeCases
<1>4. best # NoBest /\ BestInv(best)
  BY <1>1, <1>2, <1>3 DEF RememberInv
<1>5. PICK y \in Items, b \in Registered, w \in Words : y = best.item /\ b = best.buf /\ w = best.top
  BY <1>2, <1>4 DEF BestInv, Bests
<1>6. Known(b, y) /\ Cuttable(w, y)
  BY <1>4, <1>5 DEF BestInv
<1>7. CASE y \notin taken /\ taken' = taken \cup {y} /\ Becomes(t, Takes(t, y, b, w))
  BY <1>3, <1>6, <1>7, TakesStep
<1>8. CASE Becomes(t, NewRound(t, "start")) /\ Local(t)
  BY <1>3, <1>8, TakeFailsStep
<1>. QED BY <1>1, <1>2, <1>5, <1>7, <1>8, RemoveTakeCases

LEMMA RemoveAdjustStep ==
  ASSUME IInv1, NEW t \in Threads, RemoveAdjust(t)
  PROVE  IInv1' /\ World(t)
<1>1. /\ TypeOK /\ PlacesInv /\ OlderInv /\ ListInv /\ RingInv /\ SeenInv
  BY DEF IInv1
<1>2. th[t].pc = "adjust" /\ th[t].pc \in PopPcs
  BY DEF RemoveAdjust, At, PopPcs
<1>3. th[t] \in Locals /\ th[t].op = "get" /\ PcInv(t) /\ RememberInv(t)
  BY <1>2, PopFact
<1>4. PICK y \in Items, b \in Registered, w \in Words : y = th[t].item /\ b = th[t].cur /\ w = th[t].top
  BY <1>2, <1>3 DEF RememberInv, PcInv, Locals
<1>5. Known(b, y) /\ Cuttable(w, y) /\ b \in Threads /\ y \in Inserted
  BY <1>2, <1>3, <1>4, RegisteredThreads, CallHistoryAssumption DEF RememberInv, Known
<1>6. PICK r : r = [Idle EXCEPT !.pc = "return", !.op = "get", !.item = y]
  OBVIOUS
<1>7. /\ r \in Locals /\ r.pc = "return" /\ r.op = "get" /\ r.item = y
      /\ r.i = 0 /\ r.best = NoBest /\ ~r.again
  <2>1. "return" \in Pcs
    BY DEF Pcs
  <2>. QED BY <1>6, <2>1, IdleType DEF Idle, Locals
<1>8. Becomes(t, r)
  BY <1>4, <1>6 DEF RemoveAdjust, Becomes
<1>9. th'[t] = r /\ \A u \in Threads : u # t => th'[u] = th[u]
  BY <1>1, <1>7, <1>8, BecomesFact
<1>10. PICK h : h = Held'
  OBVIOUS
<1>11. /\ link' = link /\ next' = next /\ taken' = taken /\ seen' = seen /\ UNCHANGED stamps
       /\ kind' = kind /\ Observe(t, Held')
       /\ list' = IF list[b] = w THEN [list EXCEPT ![b].item = y] ELSE list
  BY <1>4 DEF RemoveAdjust, SameTop, stamps
<1>12. Kept /\ Sights(h)
  BY <1>1, <1>3, <1>7, <1>8, <1>10, <1>11, ObserveQuiet
<1>13. \A u \in Threads : (Putting(u)' <=> Putting(u)) /\ (Linked(u)' <=> Linked(u))
                          /\ (Putting(u) => th'[u] = th[u]) /\ InHand(u)' = InHand(u)
  BY <1>3, <1>4, <1>7, <1>9 DEF Putting, Linked, InHand
<1>14. Inserted' = Inserted
  BY <1>12, <1>13 DEF Inserted, Kept, Linked, Putting
<1>15. Hands' = Hands
  BY <1>13 DEF Hands
<1>16. \A u \in Threads : Ours(u)' = Ours(u)
  BY <1>12, <1>13 DEF Ours, Kept
<1>17. \A c : Chain(c)' = Chain(c)
  BY <1>11 DEF Chain
<1>18. \A c : After(c)' = After(c)
  BY <1>11 DEF After
<1>19. Registered' = Registered
  BY <1>18 DEF Registered
<1>20. /\ list' \in [Threads -> Words]
       /\ \A c \in Threads : \/ list'[c] = list[c]
                             \/ c = b /\ list[b] = w /\ list'[c].item = y
  BY <1>1, <1>4, <1>5, <1>11 DEF TypeOK, Words
<1>21. \A c \in Threads : /\ Chain(list[c].item) \ taken \subseteq Chain(list[c].item)'
                          /\ Chain(list[c].item)' \ taken \subseteq Chain(list[c].item)
                          /\ Chain(list[c].item)' \subseteq Ours(c)
  <2>1. SUFFICES ASSUME NEW c \in Threads
                 PROVE  /\ Chain(list[c].item) \ taken \subseteq Chain(list[c].item)'
                        /\ Chain(list[c].item)' \ taken \subseteq Chain(list[c].item)
                        /\ Chain(list[c].item)' \subseteq Ours(c)
    OBVIOUS
  <2>2. CASE list'[c] = list[c]
    <3>1. Chain(list[c].item)' = Chain(list[c].item)
      BY <1>17, <2>2
    <3>. QED BY <1>1, <3>1 DEF RingInv
  <2>3. CASE c = b /\ list[b] = w /\ list'[c].item = y
    <3>1. Chain(list[c].item)' = Chain(y)
      BY <1>17, <2>3
    <3>. QED BY <1>5, <2>3, <3>1 DEF Known, Cuttable
  <2>. QED BY <1>20, <2>2, <2>3
<1>22. Grows
  BY <1>11, <1>14, <1>16, <1>17, <1>19, <1>21 DEF Grows
<1>23. TypeOK'
  <2>1. th' \in [Threads -> Locals] /\ sight' \in [Threads -> BOOLEAN]
    BY <1>1, <1>7, <1>8, <1>12, BecomesFact, SightsFact
  <2>. QED BY <1>1, <1>11, <1>12, <1>20, <2>1 DEF TypeOK, stamps, Kept
<1>24. PlacesInv' /\ OlderInv'
  BY <1>1, <1>11, <1>12, <1>13, <1>14, <1>15 DEF PlacesInv, OlderInv, Kept
<1>25. ListInv'
  <2>1. \A c \in Threads : list'[c].item \in Inserted \cup {Null}
    BY <1>1, <1>5, <1>20 DEF ListInv
  <2>2. \A x \in Inserted \ taken : \E c \in Threads : x \in Chain(list[c].item)'
    BY <1>1, <1>21 DEF ListInv
  <2>3. \A x \in Inserted : next'[x] \in Inserted \cup {Null} /\ Chain(next[x])' \subseteq older'[x]
    BY <1>1, <1>11, <1>12, <1>17 DEF ListInv, Kept
  <2>. QED BY <1>11, <1>14, <2>1, <2>2, <2>3 DEF ListInv
<1>26. RingInv'
  <2>1. \A u \in Threads : Putting(u)' => (th'[u].pc = "register" <=> u \notin Registered)
    BY <1>1, <1>13 DEF RingInv
  <2>2. \A c \in Threads : Chain(list[c].item)' \subseteq Ours(c)'
    BY <1>16, <1>21
  <2>3. \A c \in Threads : c \notin Registered => link'[c] = c /\ list'[c].item = Null
    BY <1>1, <1>4, <1>11, <1>20 DEF RingInv
  <2>. QED BY <1>1, <1>18, <1>19, <2>1, <2>2, <2>3 DEF RingInv
<1>27. SeenInv'
  BY <1>1, <1>11, <1>22, GrowsSeen
<1>28. PcInv(t)' /\ RememberInv(t)' /\ RoundInv(t)' /\ EmptyInv(t)'
  <2>1. PcInv(t)'
    BY <1>7, <1>9 DEF PcInv
  <2>2. RememberInv(t)'
    <3>1. BestInv(r.best)'
      BY <1>7 DEF BestInv
    <3>. QED BY <1>7, <1>9, <3>1 DEF RememberInv
  <2>3. RoundInv(t)' /\ EmptyInv(t)'
    BY <1>7, <1>9, CallHistoryAssumption DEF RoundInv, EmptyInv, SaysEmpty, RoundPcs, LookPcs
  <2>. QED BY <2>1, <2>2, <2>3
<1>29. \A c : \A D \in SUBSET taken : Buried(c, D) => Buried(c, D)'
  <2>1. SUFFICES ASSUME NEW c, NEW D \in SUBSET taken, Buried(c, D) PROVE Buried(c, D)'
    OBVIOUS
  <2>2. list'[c].item \notin D \cup {Null}
    <3>1. CASE c = b /\ list[b] = w
      <4>1. list[c].item \notin D \cup {Null}
        BY <2>1 DEF Buried
      <4>2. y \in D => w.item \in D \cup {Null}
        BY <1>2, <1>4, <2>1, <3>1 DEF Buried
      <4>3. list'[c].item = y
        BY <1>1, <1>5, <1>11, <3>1 DEF TypeOK, Words
      <4>. QED BY <3>1, <4>1, <4>2, <4>3, CallHistoryAssumption
    <3>2. CASE ~(c = b /\ list[b] = w)
      <4>1. list'[c] = list[c]
        BY <1>1, <1>11, <3>2 DEF TypeOK
      <4>. QED BY <2>1, <4>1 DEF Buried
    <3>. QED BY <3>1, <3>2
  <2>3. \A u \in Threads : th'[u].pc = "adjust" => th'[u] = th[u]
    BY <1>7, <1>9
  <2>. QED BY <2>1, <2>2, <2>3 DEF Buried
<1>30. ASSUME NEW u \in Threads, u # t
       PROVE  PcInv(u)' /\ RememberInv(u)' /\ RoundInv(u)' /\ EmptyInv(u)'
              /\ Left(th[u]) \subseteq Left(th[u])'
  <2>1. th'[u] = th[u]
    BY <1>9, <1>30
  <2>2. th[u].op = "get" /\ sight[u] => sight'[u]
    BY <1>1, <1>12, <2>1, SightsFact
  <2>3. Left(th[u])' = Left(th[u])
    <3>1. PICK q : q = th[u]
      OBVIOUS
    <3>2. Left(q)' = Left(q)
      BY <1>11, LeftKept
    <3>. QED BY <2>1, <3>1, <3>2
  <2>4. Chain(list[u].item)' \ taken' \subseteq Chain(list[u].item)
    BY <1>11, <1>21
  <2>. QED BY <1>11, <1>12, <1>22, <1>29, <2>1, <2>2, <2>3, <2>4, GrowsOther DEF Kept
<1>31. World(t)
  BY <1>3, <1>7, <1>9, <1>12, <1>22, <1>30 DEF World, Kept
<1>. QED BY <1>23, <1>24, <1>25, <1>26, <1>27, <1>28, <1>30, <1>31 DEF IInv1

-----------------------------------------------------------------------------
\* The invariant.

LEMMA InitIInv1 == Init => IInv1
<1>1. SUFFICES ASSUME Init PROVE IInv1
  OBVIOUS
<1>2. /\ th = [t \in Threads |-> Idle] /\ link = [b \in Threads \cup {Entry} |-> b]
      /\ list = [b \in Threads |-> Word(Null, 0)] /\ next = [x \in Items |-> Null] /\ taken = {}
      /\ seen = [t \in Threads |-> [b \in Threads |-> NoWord]]
      /\ done = {} /\ out = {} /\ late = {} /\ older = [x \in Items |-> {}]
      /\ start = [t \in Threads |-> NoMemo] /\ sight = [t \in Threads |-> FALSE]
      /\ kind \in Kinds /\ clock = 1 /\ clocks = [t \in Threads |-> 1] /\ ts = [x \in Items |-> Top]
  BY <1>1 DEF Init, TimestampInit, HistoryInit
<1>3. \A t \in Threads : th[t] = Idle
  BY <1>2
<1>4. Idle.pc = "idle" /\ Idle.op = "none" /\ Idle.item = Null /\ Idle.i = 0 /\ Idle.best = NoBest /\ ~Idle.again
  BY DEF Idle
<1>5. Inserted = {} /\ Hands = {} /\ \A t \in Threads : InHand(t) = {} /\ ~Putting(t)
  BY <1>2, <1>3, <1>4 DEF Inserted, Linked, Hands, InHand, Putting
<1>6. Word(Null, 0) \in Words /\ Word(Null, 0).item = Null /\ NoWord \in Words /\ NoWord.item = Null
  BY DEF Word, Words, NoWord
<1>7. \A b \in Threads : list[b].item = Null
  BY <1>2, <1>6
<1>8. Registered = {}
  <2>1. link[Entry] = Entry
    BY <1>2
  <2>. QED BY <2>1, OnwardNone, TSStackAssumption DEF Registered, After
<1>9. TypeOK
  <2>1. Top \in Nat \X Nat
    <3>1. Cardinality(Items) \in Nat
      BY TSTimestampAssumption, FS_CardinalityType
    <3>. QED BY <3>1 DEF Top, UINT64_MAX
  <2>2. NoMemo \in [done : SUBSET Items, late : SUBSET Items]
    BY DEF NoMemo
  <2>. QED BY <1>2, <1>6, <2>1, <2>2, IdleType DEF TypeOK, Buffers
<1>10. PlacesInv /\ OlderInv
  BY <1>2, <1>5 DEF PlacesInv, OlderInv
<1>11. ListInv
  BY <1>5, <1>7 DEF ListInv
<1>12. RingInv
  BY <1>2, <1>5, <1>7, <1>8, ChainNull DEF RingInv
<1>13. SeenInv
  BY <1>2, <1>6, ChainNull DEF SeenInv
<1>14. ASSUME NEW t \in Threads PROVE PcInv(t) /\ RememberInv(t) /\ RoundInv(t) /\ EmptyInv(t)
  <2>1. PcInv(t)
    BY <1>3, <1>4 DEF PcInv
  <2>2. Plain(t)
    BY <1>3, <1>4 DEF Plain, PopPcs, RoundPcs, LookPcs
  <2>. QED BY <2>1, <2>2, PlainLocals
<1>. QED BY <1>9, <1>10, <1>11, <1>12, <1>13, <1>14 DEF IInv1

LEMMA StutterIInv1 == ASSUME IInv1, UNCHANGED vars PROVE IInv1'
<1>1. /\ UNCHANGED <<th, kind, clock, clocks, ts, link, list, next, taken, seen>>
      /\ UNCHANGED <<done, out, older, late, start, sight>>
  BY DEF vars, stamps, shared, history
<1>2. /\ Inserted' = Inserted /\ Hands' = Hands /\ Registered' = Registered
      /\ \A c : Chain(c)' = Chain(c) /\ After(c)' = After(c) /\ Ours(c)' = Ours(c)
      /\ \A c : InHand(c)' = InHand(c) /\ (Putting(c)' <=> Putting(c))
  BY <1>1 DEF Inserted, Linked, Hands, InHand, Registered, Chain, After, Ours, Putting
<1>3. TypeOK' /\ PlacesInv' /\ OlderInv' /\ ListInv' /\ RingInv' /\ SeenInv'
  <2>1. TypeOK'
    BY <1>1 DEF IInv1, TypeOK
  <2>2. PlacesInv' /\ OlderInv'
    BY <1>1, <1>2 DEF IInv1, PlacesInv, OlderInv
  <2>3. ListInv' /\ RingInv' /\ SeenInv'
    BY <1>1, <1>2 DEF IInv1, ListInv, RingInv, SeenInv
  <2>. QED BY <2>1, <2>2, <2>3
<1>4. Grows
  BY <1>1, <1>2 DEF Grows
<1>5. \A c : \A D \in SUBSET taken : Buried(c, D) => Buried(c, D)'
  BY <1>1 DEF Buried
<1>6. ASSUME NEW u \in Threads PROVE PcInv(u)' /\ RememberInv(u)' /\ RoundInv(u)' /\ EmptyInv(u)'
  <2>1. Left(th[u])' = Left(th[u])
    <3>1. PICK q : q = th[u]
      OBVIOUS
    <3>2. Left(q)' = Left(q)
      BY <1>1, LeftKept
    <3>. QED BY <1>1, <3>1, <3>2
  <2>2. Chain(list[u].item)' \ taken' \subseteq Chain(list[u].item)
    BY <1>1, <1>2
  <2>. QED BY <1>1, <1>4, <1>5, <2>1, <2>2, GrowsOther
<1>. QED BY <1>3, <1>6 DEF IInv1

LEMMA AnyStep ==
  ASSUME IInv1, NEW t \in Threads, CallPush(t) \/ CallPop(t) \/ Step(t)
  PROVE  IInv1' /\ World(t)
<1>1. CASE CallPush(t) \/ CallPop(t) \/ Return(t)
  BY <1>1, CallPushStep, CallPopStep, ReturnStep
<1>2. CASE Register(t) \/ InsertWalk(t) \/ InsertList(t) \/ Stamp(t)
  BY <1>2, RegisterStep, InsertWalkStep, InsertListStep, StampStep
<1>3. CASE PopTime(t) \/ RemoveStart(t) \/ RemoveNext(t) \/ RemoveTop(t)
  BY <1>3, PopTimeStep, RemoveStartStep, RemoveNextStep, RemoveTopStep
<1>4. CASE RemoveList(t) \/ RemoveWalk(t) \/ RemoveStamp(t)
  BY <1>4, RemoveListStep, RemoveWalkStep, RemoveStampStep
<1>5. CASE RemoveEliminate(t) \/ RemoveTake(t) \/ RemoveAdjust(t)
  BY <1>5, RemoveEliminateStep, RemoveTakeStep, RemoveAdjustStep
<1>. QED BY <1>1, <1>2, <1>3, <1>4, <1>5 DEF Step

LEMMA NextIInv1 == IInv1 /\ [Next]_vars => IInv1'
<1>1. SUFFICES ASSUME IInv1, [Next]_vars PROVE IInv1'
  OBVIOUS
<1>2. CASE UNCHANGED vars
  BY <1>1, <1>2, StutterIInv1
<1>3. ASSUME NEW t \in Threads, CallPush(t) \/ CallPop(t) \/ Step(t) PROVE IInv1'
  BY <1>1, <1>3, AnyStep
<1>. QED BY <1>1, <1>2, <1>3 DEF Next

\* The lists, the ring and what the threads remember of them agree, in every state:
\* whatever is not taken is in a list, and a thread that adjusts one cuts taken items
\* only.
THEOREM ListsSound == Spec => []IInv1
BY InitIInv1, NextIInv1, PTL DEF Spec

LEMMA IInv1Conserved == IInv1 => Conserved
<1>1. SUFFICES ASSUME IInv1 PROVE ConservedIn(Held)
  BY DEF Conserved
<1>2. PlacesInv /\ ListInv /\ \A x : x \in done => x \in Inserted
  BY <1>1 DEF IInv1, Inserted
<1>3. \A x \in Inserted : x \in taken \/ x \in Held
  BY <1>2, HeldFact DEF ListInv
<1>4. Held \cap taken = {} /\ taken = Hands \cup out
  BY <1>2 DEF Held, PlacesInv
<1>5. taken \subseteq Begun
  BY <1>2 DEF PlacesInv, Inserted, Linked, Begun
<1>. QED BY <1>2, <1>3, <1>4, <1>5 DEF ConservedIn, PlacesInv

\* No item is lost, invented or popped twice, for any number of threads and items and
\* each class of timestamps: try_remove_right may cut a list while its owner pushes,
\* and both an item and a cut may come from a list as it was long ago.
THEOREM ItemsConserved == Spec => []Conserved
BY ListsSound, IInv1Conserved, PTL

LEMMA IInv1Empty == IInv1 => EmptyIsTrue
BY DEF IInv1, EmptyInv, EmptyIsTrue

\* A pop answers "empty" only if every item whose push had returned was gone at some
\* instant of it: a list that looks twice as it did when it led to taken items only
\* has led to no other in between.
THEOREM EmptyAnswersTrue == Spec => []EmptyIsTrue
BY ListsSound, IInv1Empty, PTL

-----------------------------------------------------------------------------
\* The order of the items: stamps.

\* The items that have got their stamp, and how later readings of the time relate to a
\* part n of one: a reading that begins now is not before n, and neither is the one that
\* t is in.  (Where stamps come from one clock, n was even drawn before.)
Timed == done \cup {th[t].item : t \in {u \in Threads : Putting(u) /\ th[u].pc = "return"}}

Ticked(n) ==
  IF kind = "stutter" THEN \E j \in DOMAIN Thread[kind] : n <= clocks[Thread[kind][j]]
  ELSE n < ReadClock
WillTick(t, n) ==
  IF kind = "stutter"
  THEN n <= th[t].now \/ \E j \in DOMAIN Thread[kind] : th[t].i <= j /\ n <= clocks[Thread[kind][j]]
  ELSE n < ReadClock

\* Items are stamped in the order of their pushes.
TsInv ==
  /\ \A x \in Items : ts[x][1] <= ts[x][2] /\ ts[x][2] <= UINT64_MAX
  /\ \A x \in Items : x \notin Inserted => ts[x] = Top
  /\ \A x \in Items : ts[x][1] < UINT64_MAX => \A y \in older[x] : ts[y][2] < ts[x][1]
  /\ \A x \in Timed : ts[x][1] < UINT64_MAX /\ Ticked(ts[x][2])

\* The first part of the stamp is set, and the second is not.
Half(t) == kind = "interval" /\ th[t].i = 1

\* The push that stamps an item.
StampInv(t) ==
  LET r == th[t]  x == th[t].item IN
  /\ r.op = "put" /\ kind = "stutter" => \E j \in DOMAIN Thread[kind] : t = Thread[kind][j]
  /\ r.pc \in StampPcs /\ ~Half(t) => ts[x] = Top
  /\ r.pc \in StampPcs /\ Half(t) =>
       ts[x][1] < ReadClock /\ ts[x][1] < UINT64_MAX /\ ts[x][2] = UINT64_MAX
  /\ r.pc = "S_read" /\ ~Half(t) => \A y \in older[x] : WillTick(t, ts[y][2])
  /\ r.pc = "S_read" /\ kind = "stutter" => WillTick(t, clocks[t])
  /\ r.pc = "S_clock" => clocks[t] <= r.now /\ \A y \in older[x] : ts[y][2] <= r.now
  /\ r.pc = "S_store" =>
       /\ r.now < UINT64_MAX
       /\ kind = "stutter" => r.now <= clocks[t]
       /\ kind # "stutter" => r.now < ReadClock
       /\ Half(t) => ts[x][1] <= r.now
       /\ ~Half(t) => \A y \in older[x] : ts[y][2] < r.now

\* No clock reaches UINT64_MAX: every item draws one first part, those in A did so,
\* and one second part at most, those in B did.
CountedInv(t, A, B) ==
  LET r == th[t] IN
  /\ r.pc \in {"S_read", "S_clock"} /\ ~Half(t) => r.item \notin A
  /\ kind = "interval" /\ (r.pc = "S_read" \/ (r.pc = "S_store" /\ ~Half(t))) => r.item \notin B
  /\ kind = "stutter" /\ r.op = "put" => r.now <= 1 + Cardinality(A)
ClockInv ==
  \E A \in SUBSET Inserted : \E B \in SUBSET Inserted :
    /\ kind # "stutter" => clock <= 1 + Cardinality(A) + Cardinality(B)
    /\ kind = "stutter" => \A b \in Threads : clocks[b] <= 1 + Cardinality(A)
    /\ \A t \in Threads : CountedInv(t, A, B)

TimeInv == TsInv /\ ClockInv /\ \A t \in Threads : StampInv(t)

-----------------------------------------------------------------------------
\* The order of the items: pops.

\* Whatever is drawn for the second part of the stamp of x from now on, it is not
\* before n.
SecondLater(x, n) ==
  /\ n <= ts[x][2]
  /\ \A t \in Threads : th[t].pc = "S_store" /\ th[t].item = x /\ Half(t) => n <= th[t].now

\* What was put when the pop began.
StartDone(t) == start[t].done

\* What the locals r of a pop recall of the stamps.
Recalls(t, r) ==
  /\ r.pc \in RoundPcs \cup {"start", "take"} =>
       /\ \A x \in StartDone(t) : ts[x][2] <= r.now
       /\ kind # "stutter" => r.now <= ReadClock
  /\ r.pc = "stamp" /\ kind = "interval" /\ r.i = 1 =>
       \/ r.stamp[1] = ts[r.cand][1] /\ r.stamp[1] < UINT64_MAX
       \/ r.stamp[1] = UINT64_MAX /\ r.cand \notin StartDone(t) /\ SecondLater(r.cand, r.now)
  /\ r.best # NoBest /\ r.best.item \in StartDone(t) => r.best.stamp = ts[r.best.item]

PopInv(t) ==
  th[t].op = "get" =>
  /\ StartDone(t) \subseteq done
  /\ \A x \in StartDone(t) : older[x] \subseteq StartDone(t)
  /\ th[t].pc = "time" => \A x \in StartDone(t) : WillTick(t, ts[x][2])
  /\ Recalls(t, th[t])

\* An item that was there when the pop began and still is: the round meets it, or the
\* best item so far is no earlier.
Meets(r, x) ==
  \/ \E b \in Left(r) : x \in Chain(list[b].item)
  \/ r.pc = "list" /\ x \in Chain(list[r.cur].item)
  \/ r.pc \in {"walk", "stamp", "eliminate"} /\ x \in Chain(r.cand)
Matched(r, x) == ts[x][1] <= r.best.stamp[2]

\* The item that is taken is older than none of them.
Newest(t, y) == \A x \in StartDone(t) \ taken : y \notin older[x]

Passes(t, r) ==
  /\ r.pc \in RoundPcs => \A x \in StartDone(t) \ taken : Meets(r, x) \/ Matched(r, x)
  /\ r.pc = "eliminate" => Newest(t, r.cand)
  /\ r.pc = "take" => Newest(t, r.best.item)
  /\ r.op = "get" /\ r.item # Null => Newest(t, r.item)
PassInv(t) == Passes(t, th[t])

NoneLate == late = {} /\ \A t \in Threads : start[t].late = {}

IInv2 == TimeInv /\ NoneLate /\ \A t \in Threads : PopInv(t) /\ PassInv(t)

-----------------------------------------------------------------------------
\* Numbers.

LEMMA UIntFact ==
  /\ Cardinality(Items) \in Nat /\ UINT64_MAX \in Nat
  /\ UINT64_MAX = 4 * Cardinality(Items) + 4
  /\ Top \in Nat \X Nat /\ Top[1] = UINT64_MAX /\ Top[2] = UINT64_MAX
<1>1. Cardinality(Items) \in Nat
  BY TSTimestampAssumption, FS_CardinalityType
<1>2. UINT64_MAX = 4 * Cardinality(Items) + 4
  BY DEF UINT64_MAX
<1>3. UINT64_MAX \in Nat
  BY <1>1, <1>2
<1>. QED BY <1>1, <1>2, <1>3 DEF Top

LEMMA CountFact ==
  ASSUME NEW A \in SUBSET Items
  PROVE  /\ Cardinality(A) \in Nat /\ Cardinality(A) <= Cardinality(Items)
         /\ \A x \in Items \ A : Cardinality(A \cup {x}) = Cardinality(A) + 1
<1>1. IsFiniteSet(Items)
  BY TSTimestampAssumption
<1>2. IsFiniteSet(A) /\ Cardinality(A) <= Cardinality(Items)
  BY <1>1, FS_Subset
<1>3. Cardinality(A) \in Nat
  BY <1>2, FS_CardinalityType
<1>4. \A x \in Items \ A : Cardinality(A \cup {x}) = Cardinality(A) + 1
  BY <1>2, FS_AddElement
<1>. QED BY <1>2, <1>3, <1>4

LEMMA TimeTypes ==
  ASSUME TypeOK
  PROVE  /\ ReadClock \in Nat /\ StampClock \in Nat /\ clock \in Nat
         /\ ReadClock <= StampClock /\ StampClock <= 2 * clock + 1
         /\ \A x \in Items : ts[x] \in Nat \X Nat /\ ts[x][1] \in Nat /\ ts[x][2] \in Nat
         /\ \A b \in Threads : clocks[b] \in Nat /\ th[b].now \in Nat /\ th[b].i \in Nat
<1>1. clock \in Nat
  BY DEF TypeOK
<1>2. /\ ReadClock \in Nat /\ StampClock \in Nat
      /\ ReadClock <= StampClock /\ StampClock <= 2 * clock + 1
  BY <1>1 DEF ReadClock, StampClock, Hwptime
<1>3. \A x \in Items : ts[x] \in Nat \X Nat /\ ts[x][1] \in Nat /\ ts[x][2] \in Nat
  BY DEF TypeOK
<1>4. \A b \in Threads : clocks[b] \in Nat /\ th[b].now \in Nat /\ th[b].i \in Nat
  BY DEF TypeOK, Locals
<1>. QED BY <1>1, <1>2, <1>3, <1>4

LEMMA ReadClockNext == (TypeOK => ReadClock \in Nat)'
<1>1. TypeOK => ReadClock \in Nat
  BY TimeTypes
<1>. QED BY <1>1, PTL

-----------------------------------------------------------------------------
\* The time goes by: no clock is set back, and what is stamped stays so.

ClocksGrow ==
  /\ kind' = kind
  /\ ReadClock <= ReadClock'
  /\ \A b \in Threads : clocks[b] <= clocks'[b]

TimeGrows ==
  /\ ClocksGrow
  /\ Timed \subseteq Timed' /\ \A x \in Timed : ts'[x] = ts[x]
  /\ \A x \in Items : ts[x][1] < UINT64_MAX => ts'[x][1] = ts[x][1]
  /\ kind = "interval" =>
       \A x \in Items : \A n \in Nat : n <= ReadClock /\ SecondLater(x, n) => SecondLater(x, n)'

LEMMA TickGrows ==
  ASSUME TypeOK, TypeOK', ClocksGrow, NEW n \in Nat
  PROVE  /\ Ticked(n) => Ticked(n)'
         /\ \A u \in Threads : th'[u] = th[u] /\ WillTick(u, n) => WillTick(u, n)'
<1>1. ReadClock \in Nat /\ ReadClock' \in Nat /\ kind' = kind /\ ReadClock <= ReadClock'
  BY TimeTypes, ReadClockNext DEF ClocksGrow
<1>2. \A j \in DOMAIN Thread[kind] : n <= clocks[Thread[kind][j]] => n <= clocks'[Thread[kind][j]]
  <2>1. \A j \in DOMAIN Thread[kind] : Thread[kind][j] \in Threads
    BY ClockFact
  <2>2. \A b \in Threads : clocks[b] \in Nat /\ clocks'[b] \in Nat /\ clocks[b] <= clocks'[b]
    BY DEF TypeOK, ClocksGrow
  <2>3. \A b \in Threads : n <= clocks[b] => n <= clocks'[b]
    BY <2>2
  <2>. QED BY <2>1, <2>3
<1>3. n < ReadClock => n < ReadClock'
  BY <1>1
<1>4. Ticked(n) => Ticked(n)'
  BY <1>1, <1>2, <1>3 DEF Ticked
<1>5. ASSUME NEW u \in Threads, th'[u] = th[u], WillTick(u, n) PROVE WillTick(u, n)'
  BY <1>1, <1>2, <1>3, <1>5 DEF WillTick
<1>. QED BY <1>4, <1>5

\* The threads that do not move, but see items stamped that are not theirs.
LEMMA StampOthers ==
  ASSUME TypeOK, TypeOK', ClocksGrow, NEW u \in Threads, StampInv(u), PcInv(u), th'[u] = th[u],
         clocks'[u] = clocks[u], th[u].op = "put" => th[u].item \in Items,
         Linked(u) => /\ ts'[th[u].item] = ts[th[u].item] /\ older'[th[u].item] = older[th[u].item]
                      /\ \A y \in older[th[u].item] : ts'[y] = ts[y]
  PROVE  StampInv(u)'
<1>1. kind' = kind /\ ReadClock <= ReadClock'
  BY DEF ClocksGrow
<1>2. ReadClock \in Nat /\ ReadClock' \in Nat
  BY TimeTypes, ReadClockNext
<1>3. th[u].pc \in StampPcs => Linked(u) /\ th[u].item \in Items
  <2>1. th[u].op \in {"none", "put", "get"}
    BY DEF TypeOK, Locals
  <2>. QED BY <2>1 DEF PcInv, Linked, StampPcs, PushPcs, PopPcs, RoundPcs, LookPcs
<1>4. Half(u)' <=> Half(u)
  BY <1>1 DEF Half
<1>5. \A n \in Nat : WillTick(u, n) => WillTick(u, n)'
  BY TickGrows
<1>6. th[u].op = "put" /\ kind = "stutter" => \E j \in DOMAIN Thread[kind] : u = Thread[kind][j]
  BY DEF StampInv
<1>7. CASE th[u].pc \notin StampPcs
  BY <1>1, <1>6, <1>7 DEF StampInv, StampPcs
<1>8. CASE th[u].pc \in StampPcs
  <2>1. PICK x \in Items : x = th[u].item
    BY <1>3, <1>8
  <2>2. ts'[x] = ts[x] /\ older'[x] = older[x] /\ \A y \in older[x] : ts'[y] = ts[y]
    BY <1>3, <1>8, <2>1
  <2>3. /\ ts[x][1] \in Nat /\ clocks[u] \in Nat /\ th[u].now \in Nat
        /\ \A y \in older[x] : ts[y][2] \in Nat
    <3>1. older[x] \subseteq Items
      BY DEF TypeOK
    <3>. QED BY <3>1, TimeTypes
  <2>4. ~Half(u) => ts[x] = Top
    BY <1>8, <2>1 DEF StampInv
  <2>5. Half(u) => ts[x][1] < ReadClock' /\ ts[x][1] < UINT64_MAX /\ ts[x][2] = UINT64_MAX
    <3>1. Half(u) => ts[x][1] < ReadClock /\ ts[x][1] < UINT64_MAX /\ ts[x][2] = UINT64_MAX
      BY <1>8, <2>1 DEF StampInv
    <3>. QED BY <1>1, <1>2, <2>3, <3>1
  <2>6. th[u].pc = "S_read" /\ ~Half(u) => \A y \in older[x] : WillTick(u, ts[y][2])'
    <3>1. th[u].pc = "S_read" /\ ~Half(u) => \A y \in older[x] : WillTick(u, ts[y][2])
      BY <2>1 DEF StampInv
    <3>2. ASSUME th[u].pc = "S_read", ~Half(u), NEW y \in older[x] PROVE WillTick(u, ts[y][2])'
      <4>1. PICK n \in Nat : n = ts[y][2]
        BY <2>3
      <4>2. WillTick(u, n)'
        BY <1>5, <3>1, <3>2, <4>1
      <4>3. ts'[y][2] = n
        BY <2>2, <4>1
      <4>. QED BY <4>2, <4>3
    <3>. QED BY <3>2
  <2>7. th[u].pc = "S_read" /\ kind = "stutter" => WillTick(u, clocks[u])'
    <3>1. th[u].pc = "S_read" /\ kind = "stutter" => WillTick(u, clocks[u])
      BY DEF StampInv
    <3>2. PICK n \in Nat : n = clocks[u] /\ n = clocks'[u]
      BY <2>3
    <3>3. WillTick(u, n) => WillTick(u, n)'
      BY <1>5
    <3>. QED BY <3>1, <3>2, <3>3
  <2>8. th[u].pc = "S_clock" => clocks'[u] <= th[u].now /\ \A y \in older[x] : ts'[y][2] <= th[u].now
    BY <2>1, <2>2 DEF StampInv
  <2>9. th[u].pc = "S_store" =>
          /\ th[u].now < UINT64_MAX
          /\ kind = "stutter" => th[u].now <= clocks'[u]
          /\ kind # "stutter" => th[u].now < ReadClock'
          /\ Half(u) => ts[x][1] <= th[u].now
          /\ ~Half(u) => \A y \in older[x] : ts'[y][2] < th[u].now
    <3>1. th[u].pc = "S_store" =>
            /\ th[u].now < UINT64_MAX
            /\ kind = "stutter" => th[u].now <= clocks[u]
            /\ kind # "stutter" => th[u].now < ReadClock
            /\ Half(u) => ts[x][1] <= th[u].now
            /\ ~Half(u) => \A y \in older[x] : ts[y][2] < th[u].now
      BY <2>1 DEF StampInv
    <3>2. th[u].now < ReadClock => th[u].now < ReadClock'
      BY <1>1, <1>2, <2>3
    <3>. QED BY <2>2, <3>1, <3>2
  <2>. QED BY <1>1, <1>4, <1>6, <1>8, <2>1, <2>2, <2>4, <2>5, <2>6, <2>7, <2>8, <2>9 DEF StampInv
<1>. QED BY <1>7, <1>8

LEMMA StampLeft ==
  ASSUME NEW u \in Threads, th'[u].pc \notin StampPcs, kind' = kind,
         th'[u].op = "put" /\ kind = "stutter" => \E j \in DOMAIN Thread[kind] : u = Thread[kind][j]
  PROVE  StampInv(u)'
BY DEF StampInv, StampPcs

LEMMA CountedKept ==
  ASSUME NEW u \in Threads, NEW A, NEW B, CountedInv(u, A, B), kind' = kind,
         th'[u] = th[u] \/ th'[u].pc \notin StampPcs,
         th'[u].op = "put" => th'[u].now = 0 \/ (th[u].op = "put" /\ th'[u].now = th[u].now),
         Cardinality(A) \in Nat
  PROVE  CountedInv(u, A, B)'
<1>1. CASE th'[u] = th[u]
  BY <1>1 DEF CountedInv, Half
<1>2. CASE th'[u].pc \notin StampPcs
  <2>1. kind = "stutter" /\ th[u].op = "put" => th[u].now <= 1 + Cardinality(A)
    BY DEF CountedInv
  <2>2. 0 <= 1 + Cardinality(A)
    OBVIOUS
  <2>3. kind = "stutter" /\ th'[u].op = "put" => th'[u].now <= 1 + Cardinality(A)
    BY <2>1, <2>2
  <2>. QED BY <1>2, <2>3 DEF CountedInv, StampPcs
<1>. QED BY <1>1, <1>2

LEMMA UnlinkedSame ==
  ASSUME NEW t \in Threads, \A u \in Threads \ {t} : th'[u] = th[u], ~Linked(t), ~Linked(t)',
         done' = done
  PROVE  Inserted' = Inserted /\ Timed' = Timed
<1>1. \A u \in Threads : /\ Linked(u)' <=> Linked(u)
                         /\ Linked(u) => th'[u] = th[u]
  BY DEF Linked
<1>2. \A u \in Threads : Putting(u) /\ th[u].pc = "return" => Linked(u)
  BY DEF Putting, Linked, PushPcs
<1>3. \A u \in Threads : Putting(u)' /\ th'[u].pc = "return" => Linked(u)'
  BY DEF Putting, Linked, PushPcs
<1>4. \A u \in Threads : Linked(u) => (Putting(u)' <=> Putting(u))
  BY <1>1 DEF Putting
<1>5. Inserted' = Inserted
  BY <1>1 DEF Inserted
<1>6. Timed' = Timed
  BY <1>1, <1>2, <1>3, <1>4 DEF Timed
<1>. QED BY <1>5, <1>6

\* No step of t that leaves the stamps alone disturbs them.
LEMMA TimeFrame ==
  ASSUME TypeOK, TypeOK', \A u \in Threads : PcInv(u), TimeInv, UNCHANGED stamps,
         Inserted' = Inserted, Timed' = Timed, \A x \in Inserted : older'[x] = older[x],
         Inserted \subseteq Items,
         \A u \in Threads : th'[u] = th[u] \/ th'[u].pc \notin StampPcs,
         \A u \in Threads : th'[u].op = "put" /\ kind = "stutter" =>
                              \E j \in DOMAIN Thread[kind] : u = Thread[kind][j],
         \A u \in Threads : th'[u].op = "put" =>
                              th'[u].now = 0 \/ (th[u].op = "put" /\ th'[u].now = th[u].now)
  PROVE  TimeInv' /\ TimeGrows
<1>1. kind' = kind /\ clock' = clock /\ clocks' = clocks /\ ts' = ts
  BY DEF stamps
<1>2. ReadClock' = ReadClock
  BY <1>1 DEF ReadClock, Hwptime
<1>3. ClocksGrow
  BY <1>1, <1>2, TimeTypes DEF ClocksGrow
<1>4. TimeGrows
  <2>1. \A x \in Items : \A n \in Nat : SecondLater(x, n) => SecondLater(x, n)'
    <3>1. \A u \in Threads : th'[u].pc = "S_store" => th'[u] = th[u]
      BY DEF StampPcs
    <3>. QED BY <1>1, <3>1 DEF SecondLater, Half
  <2>. QED BY <1>1, <1>3, <2>1 DEF TimeGrows
<1>5. TsInv'
  <2>1. TsInv
    BY DEF TimeInv
  <2>2. \A n \in Nat : Ticked(n) => Ticked(n)'
    BY <1>3, TickGrows
  <2>3. \A x \in Items : ts[x][1] < UINT64_MAX => x \in Inserted
    BY <2>1, UIntFact DEF TsInv
  <2>4. \A x \in Timed : ts'[x][1] < UINT64_MAX /\ Ticked(ts[x][2])'
    <3>1. SUFFICES ASSUME NEW x \in Timed PROVE ts'[x][1] < UINT64_MAX /\ Ticked(ts[x][2])'
      OBVIOUS
    <3>2. x \in Items
      BY DEF Timed, Inserted, Linked, Putting, PushPcs
    <3>3. PICK n \in Nat : n = ts[x][2]
      BY <3>2, TimeTypes
    <3>4. ts[x][1] < UINT64_MAX /\ Ticked(n)
      BY <2>1, <3>3 DEF TsInv
    <3>5. Ticked(n)' /\ n = ts'[x][2]
      BY <1>1, <2>2, <3>3, <3>4
    <3>. QED BY <1>1, <3>4, <3>5 DEF Ticked
  <2>5. \A x \in Items : ts'[x][1] < UINT64_MAX => \A y \in older'[x] : ts'[y][2] < ts'[x][1]
    BY <1>1, <2>1, <2>3 DEF TsInv
  <2>. QED BY <1>1, <2>1, <2>4, <2>5 DEF TsInv
<1>6. ClockInv'
  <2>1. PICK A \in SUBSET Inserted, B \in SUBSET Inserted :
          /\ kind # "stutter" => clock <= 1 + Cardinality(A) + Cardinality(B)
          /\ kind = "stutter" => \A b \in Threads : clocks[b] <= 1 + Cardinality(A)
          /\ \A u \in Threads : CountedInv(u, A, B)
    BY DEF TimeInv, ClockInv
  <2>2. Cardinality(A) \in Nat
    BY <2>1, CountFact
  <2>3. \A u \in Threads : CountedInv(u, A, B)'
    BY <1>1, <2>1, <2>2, CountedKept
  <2>. QED BY <1>1, <2>1, <2>3 DEF ClockInv
<1>7. ASSUME NEW u \in Threads PROVE StampInv(u)'
  <2>1. CASE th'[u] = th[u]
    <3>1. Linked(u) => th[u].item \in Inserted
      BY DEF Inserted
    <3>2. th[u].op = "put" => th[u].item \in Items
      BY DEF PcInv
    <3>. QED BY <1>1, <1>3, <2>1, <3>1, <3>2, StampOthers DEF TimeInv
  <2>2. CASE th'[u].pc \notin StampPcs
    BY <1>1, <2>2, StampLeft
  <2>. QED BY <2>1, <2>2
<1>. QED BY <1>4, <1>5, <1>6, <1>7 DEF TimeInv

LEMMA UnlinkedTime ==
  ASSUME IInv1, IInv1', TimeInv, NEW t \in Threads, World(t), UNCHANGED stamps,
         ~Linked(t), ~Linked(t)', done' = done, th'[t].pc \notin StampPcs,
         th'[t].op = "put" => /\ kind = "stutter" => \E j \in DOMAIN Thread[kind] : t = Thread[kind][j]
                              /\ th'[t].now = 0 \/ (th[t].op = "put" /\ th'[t].now = th[t].now)
  PROVE  TimeInv' /\ TimeGrows
<1>1. TypeOK /\ TypeOK' /\ \A u \in Threads : PcInv(u)
  BY DEF IInv1
<1>2. Inserted \subseteq Items
  BY <1>1, InsertedItems
<1>3. /\ \A u \in Threads \ {t} : th'[u] = th[u]
      /\ \A x \in Inserted : older'[x] = older[x]
  BY DEF World
<1>4. Inserted' = Inserted /\ Timed' = Timed
  BY <1>3, UnlinkedSame
<1>5. \A u \in Threads : th'[u].op = "put" /\ kind = "stutter" =>
                           \E j \in DOMAIN Thread[kind] : u = Thread[kind][j]
  <2>1. \A u \in Threads : th[u].op = "put" /\ kind = "stutter" =>
                           \E j \in DOMAIN Thread[kind] : u = Thread[kind][j]
    BY DEF TimeInv, StampInv
  <2>. QED BY <1>3, <2>1
<1>6. \A u \in Threads : th'[u].op = "put" =>
                           th'[u].now = 0 \/ (th[u].op = "put" /\ th'[u].now = th[u].now)
  BY <1>3
<1>7. \A u \in Threads : th'[u] = th[u] \/ th'[u].pc \notin StampPcs
  BY <1>3
<1>. QED BY <1>1, <1>2, <1>3, <1>4, <1>5, <1>6, <1>7, TimeFrame

LEMMA PutPcs ==
  ASSUME NEW t \in Threads, PcInv(t), th[t].pc \in PushPcs \cup StampPcs, th[t] \in Locals
  PROVE  th[t].op = "put" /\ th[t].item \in Items
BY DEF PcInv, Locals, PushPcs, StampPcs, PopPcs, RoundPcs, LookPcs

\* The steps of a pop.
LEMMA PopFrame ==
  ASSUME IInv1, IInv1', TimeInv, NEW t \in Threads, World(t), UNCHANGED stamps,
         th[t].pc \in PopPcs, NEW h, Observe(t, h)
  PROVE  TimeInv' /\ TimeGrows /\ Kept /\ th'[t].op = "get"
<1>1. th[t].op = "get" /\ th[t].pc # "return"
  BY PopFact DEF PopPcs, RoundPcs, LookPcs
<1>2. th'[t].op = "get"
  BY <1>1 DEF World
<1>3. Kept
  BY <1>1, <1>2 DEF Observe, Kept
<1>4. th'[t].pc \notin StampPcs
  BY <1>2 DEF IInv1, PcInv, StampPcs, PopPcs, RoundPcs, LookPcs
<1>5. ~Linked(t) /\ ~Linked(t)'
  BY <1>1, <1>2 DEF Linked
<1>. QED BY <1>2, <1>3, <1>4, <1>5, UnlinkedTime DEF Kept

LEMMA PopStamps ==
  ASSUME NEW t \in Threads,
         \/ PopTime(t) \/ RemoveStart(t) \/ RemoveNext(t) \/ RemoveTop(t) \/ RemoveList(t)
         \/ RemoveWalk(t) \/ RemoveStamp(t) \/ RemoveEliminate(t) \/ RemoveTake(t)
         \/ RemoveAdjust(t)
  PROVE  UNCHANGED stamps /\ th[t].pc \in PopPcs /\ \E h : Observe(t, h)
<1>1. CASE PopTime(t)
  BY <1>1 DEF PopTime, ReadTime, PopPcs
<1>2. CASE RemoveStart(t) \/ RemoveNext(t) \/ RemoveTop(t) \/ RemoveList(t)
  <2>1. Local(t)
    BY <1>2 DEF RemoveStart, RemoveNext, RemoveTop, RemoveList
  <2>2. th[t].pc \in PopPcs
    BY <1>2 DEF RemoveStart, RemoveNext, RemoveTop, RemoveList, At, PopPcs, RoundPcs, LookPcs
  <2>. QED BY <2>1, <2>2 DEF Local
<1>3. CASE RemoveWalk(t)
  BY <1>3 DEF RemoveWalk, At, PopPcs, RoundPcs, LookPcs
<1>4. CASE RemoveStamp(t)
  BY <1>4 DEF RemoveStamp, Local, At, PopPcs, RoundPcs, LookPcs
<1>5. CASE RemoveEliminate(t) \/ RemoveTake(t) \/ RemoveAdjust(t)
  <2>1. UNCHANGED stamps /\ Observe(t, Held')
    BY <1>5 DEF RemoveEliminate, RemoveTake, RemoveAdjust
  <2>2. th[t].pc \in PopPcs
    BY <1>5 DEF RemoveEliminate, RemoveTake, RemoveAdjust, At, PopPcs, RoundPcs, LookPcs
  <2>. QED BY <2>1, <2>2
<1>. QED BY <1>1, <1>2, <1>3, <1>4, <1>5

LEMMA CallPopTime ==
  ASSUME IInv1, IInv1', TimeInv, NEW t \in Threads, World(t), CallPop(t)
  PROVE  /\ TimeInv' /\ TimeGrows /\ done' = done /\ older' = older /\ late' = late
         /\ start' = [start EXCEPT ![t] = Memo]
         /\ th'[t].op = "get" /\ th'[t].pc = "time" /\ th'[t].i = 0 /\ th'[t].best = NoBest
         /\ th'[t].item = Null
<1>1. TypeOK /\ PcInv(t) /\ th[t].pc = "idle"
  BY DEF IInv1, CallPop, At
<1>2. th[t].op = "none"
  BY <1>1 DEF PcInv
<1>3. PICK r : r = [Idle EXCEPT !.op = "get", !.pc = "time"]
  OBVIOUS
<1>4. r \in Locals /\ r.pc = "time" /\ r.op = "get" /\ r.i = 0 /\ r.best = NoBest /\ r.item = Null
  BY <1>3, IdleType DEF Locals, Idle, Pcs, PopPcs
<1>5. Becomes(t, r)
  BY <1>3 DEF CallPop, Becomes
<1>6. th'[t] = r
  BY <1>1, <1>4, <1>5, BecomesFact
<1>7. /\ done' = done /\ late' = late /\ older' = older
      /\ start' = [start EXCEPT ![t] = Memo] /\ UNCHANGED stamps
  <2>1. Observe(t, Held) /\ UNCHANGED stamps
    BY DEF CallPop, Local
  <2>. QED BY <1>1, <1>2, <1>4, <1>5, <2>1, ObservePop
<1>8. ~Linked(t) /\ ~Linked(t)'
  BY <1>2, <1>4, <1>6 DEF Linked
<1>9. TimeInv' /\ TimeGrows
  BY <1>4, <1>6, <1>7, <1>8, UnlinkedTime DEF StampPcs
<1>. QED BY <1>4, <1>6, <1>7, <1>9

LEMMA CallPushTime ==
  ASSUME IInv1, IInv1', TimeInv, NEW t \in Threads, World(t), CallPush(t)
  PROVE  /\ TimeInv' /\ TimeGrows /\ late' = late /\ start' = start
         /\ th'[t].op = "put"
<1>1. TypeOK /\ PcInv(t) /\ th[t].pc = "idle" /\ "put" \in Calls[kind][t]
  BY DEF IInv1, CallPush, At
<1>2. th[t].op = "none"
  BY <1>1 DEF PcInv
<1>3. PICK x \in Fresh : Becomes(t, [Idle EXCEPT !.op = "put", !.item = x,
                                       !.pc = IF link[t] = t THEN "register" ELSE "I_walk"])
  BY Zenon DEF CallPush, Becomes
<1>4. PICK r : r = [Idle EXCEPT !.op = "put", !.item = x,
                                !.pc = IF link[t] = t THEN "register" ELSE "I_walk"]
  OBVIOUS
<1>5. r \in Locals /\ r.op = "put" /\ r.item = x /\ r.pc \in {"register", "I_walk"} /\ r.now = 0
  <2>1. (IF link[t] = t THEN "register" ELSE "I_walk") \in Pcs
    BY DEF Pcs, PushPcs
  <2>2. x \in Items
    BY DEF Fresh
  <2>. QED BY <1>4, <2>1, <2>2, IdleType DEF Locals, Idle
<1>6. Becomes(t, r)
  BY <1>3, <1>4
<1>7. th'[t] = r
  BY <1>1, <1>5, <1>6, BecomesFact
<1>8. done' = done /\ late' = late /\ start' = start /\ UNCHANGED stamps
  <2>1. Observe(t, Held) /\ UNCHANGED stamps
    BY DEF CallPush, Local
  <2>. QED BY <1>1, <1>2, <1>5, <1>6, <2>1, ObservePush
<1>9. ~Linked(t) /\ ~Linked(t)'
  BY <1>2, <1>5, <1>7 DEF Linked, PushPcs
<1>10. kind = "stutter" => \E j \in DOMAIN Thread[kind] : t = Thread[kind][j]
  <2>1. kind \in Kinds
    BY <1>1 DEF TypeOK
  <2>2. kind = "stutter" => kind \in Kinds \cap {"stutter"}
    BY <2>1
  <2>. QED BY <1>1, <2>2, TSStackAssumption
<1>11. TimeInv' /\ TimeGrows
  BY <1>5, <1>7, <1>8, <1>9, <1>10, UnlinkedTime DEF StampPcs
<1>. QED BY <1>5, <1>7, <1>8, <1>11

LEMMA PushTime ==
  ASSUME IInv1, IInv1', TimeInv, NEW t \in Threads, World(t), Register(t) \/ InsertWalk(t)
  PROVE  TimeInv' /\ TimeGrows /\ late' = late /\ start' = start /\ th'[t].op = "put"
<1>1. TypeOK /\ PcInv(t) /\ th[t] \in Locals /\ th[t].pc \in PushPcs
  BY DEF IInv1, TypeOK, Register, InsertWalk, At, PushPcs
<1>2. th[t].op = "put"
  BY <1>1, PutPcs
<1>3. PICK p \in PushPcs : th' = [th EXCEPT ![t].pc = p]
  BY DEF Register, InsertWalk, Goto, PushPcs
<1>4. th'[t].pc = p /\ th'[t].op = "put" /\ th'[t].now = th[t].now
  BY <1>1, <1>2, <1>3 DEF TypeOK, Locals
<1>5. UNCHANGED stamps /\ Observe(t, Held)
  BY DEF Register, InsertWalk
<1>6. done' = done /\ late' = late /\ start' = start
  BY <1>2, <1>4, <1>5 DEF Observe
<1>7. ~Linked(t) /\ ~Linked(t)'
  BY <1>1, <1>4 DEF Linked
<1>8. kind = "stutter" => \E j \in DOMAIN Thread[kind] : t = Thread[kind][j]
  BY <1>2 DEF TimeInv, StampInv
<1>9. p \notin StampPcs
  BY DEF PushPcs, StampPcs
<1>10. TimeInv' /\ TimeGrows
  BY <1>2, <1>4, <1>5, <1>6, <1>7, <1>8, <1>9, UnlinkedTime
<1>. QED BY <1>4, <1>6, <1>10

LEMMA ReturnTime ==
  ASSUME IInv1, IInv1', TimeInv, NEW t \in Threads, World(t), Return(t)
  PROVE  /\ TimeInv' /\ TimeGrows /\ start' = [start EXCEPT ![t] = NoMemo]
         /\ th'[t].op = "none" /\ th'[t].item = Null
         /\ late' = IF th[t].op = "get" /\ th[t].item # Null /\ Strict
                    THEN late \cup (First(t, th[t].item) \cap Held) ELSE late
<1>1. TypeOK /\ TypeOK' /\ \A u \in Threads : PcInv(u)
  BY DEF IInv1
<1>2. th[t].pc = "return" /\ th[t].op \in {"put", "get"}
      /\ (th[t].op = "put" => th[t].item \in Items /\ th[t].item # Null)
  BY <1>1, CallHistoryAssumption DEF Return, At, PcInv, TypeOK, Locals
<1>3. PICK r : r = Idle
  OBVIOUS
<1>4. r \in Locals /\ r.op = "none" /\ r.item = Null /\ r.pc = "idle"
  BY <1>3, IdleType DEF Idle
<1>5. Becomes(t, r)
  BY <1>3 DEF Return, Becomes
<1>6. th'[t] = r /\ \A u \in Threads : u # t => th'[u] = th[u]
  BY <1>1, <1>4, <1>5, BecomesFact
<1>7. Observe(t, Held) /\ UNCHANGED stamps
  BY DEF Return, Local
<1>8. /\ done' = IF th[t].op = "put" /\ th[t].item # Null THEN done \cup {th[t].item} ELSE done
      /\ late' = IF th[t].op = "get" /\ th[t].item # Null /\ Strict
                 THEN late \cup (First(t, th[t].item) \cap Held) ELSE late
      /\ start' = [start EXCEPT ![t] = NoMemo]
  BY <1>1, <1>2, <1>4, <1>5, <1>7, ObserveReturn
<1>9. Inserted' = Inserted /\ Timed' = Timed
  <2>1. ~Linked(t)' /\ ~Putting(t)' /\ (Linked(t) <=> th[t].op = "put") /\ (Putting(t) <=> th[t].op = "put")
    BY <1>2, <1>4, <1>6 DEF Linked, Putting, PushPcs
  <2>2. \A u \in Threads : u # t => (Linked(u)' <=> Linked(u)) /\ (Putting(u)' <=> Putting(u))
    BY <1>6 DEF Linked, Putting
  <2>3. Inserted' = Inserted
    BY <1>2, <1>6, <1>8, <2>1, <2>2 DEF Inserted
  <2>4. Timed' = Timed
    BY <1>2, <1>6, <1>8, <2>1, <2>2 DEF Timed
  <2>. QED BY <2>3, <2>4
<1>10. TimeInv' /\ TimeGrows
  <2>1. Inserted \subseteq Items
    BY <1>1, InsertedItems
  <2>2. \A x \in Inserted : older'[x] = older[x]
    BY DEF World
  <2>3. \A u \in Threads : th'[u] = th[u] \/ th'[u].pc \notin StampPcs
    BY <1>4, <1>6 DEF StampPcs
  <2>4. \A u \in Threads : th'[u].op = "put" => th'[u] = th[u]
    BY <1>4, <1>6
  <2>5. \A u \in Threads : th'[u].op = "put" /\ kind = "stutter" =>
                           \E j \in DOMAIN Thread[kind] : u = Thread[kind][j]
    BY <2>4 DEF TimeInv, StampInv
  <2>. QED BY <1>1, <1>7, <1>9, <2>1, <2>2, <2>3, <2>4, <2>5, TimeFrame
<1>. QED BY <1>4, <1>6, <1>8, <1>10

-----------------------------------------------------------------------------
\* An item gets its stamp.

\* What is common to the steps of set_timestamp.
LEMMA StampPlace ==
  ASSUME IInv1, NEW t \in Threads, th[t].pc \in StampPcs
  PROVE  /\ th[t].op = "put" /\ th[t].item \in Items /\ Linked(t) /\ Putting(t)
         /\ th[t].item \in Inserted /\ th[t].item \notin done /\ th[t].item \notin Timed
         /\ older[th[t].item] \subseteq done
         /\ \A u \in Threads : u # t /\ Putting(u) => th[u].item # th[t].item
<1>1. PcInv(t) /\ th[t] \in Locals /\ PlacesInv /\ OlderInv
  BY DEF IInv1, TypeOK
<1>2. th[t].op = "put" /\ th[t].item \in Items
  BY <1>1, PutPcs
<1>3. Linked(t) /\ Putting(t)
  BY <1>2 DEF Linked, Putting, StampPcs, PushPcs
<1>4. th[t].item \in Inserted
  BY <1>3 DEF Inserted
<1>5. th[t].item \notin done
  BY <1>1, <1>3 DEF PlacesInv
<1>6. \A u \in Threads : u # t /\ Putting(u) => th[u].item # th[t].item
  BY <1>1, <1>3 DEF PlacesInv
<1>7. th[t].item \notin Timed
  BY <1>5, <1>6 DEF Timed, StampPcs
<1>8. older[th[t].item] \subseteq done
  BY <1>1, <1>3 DEF OlderInv
<1>. QED BY <1>2, <1>3, <1>4, <1>5, <1>6, <1>7, <1>8

\* Nothing that is inserted is younger than an item that is being stamped.
LEMMA OlderDone == ASSUME IInv1, NEW z \in Inserted PROVE older[z] \subseteq done
<1>1. OlderInv
  BY DEF IInv1
<1>2. CASE z \in done
  BY <1>1, <1>2 DEF OlderInv
<1>3. CASE z \notin done
  <2>1. PICK u \in Threads : Linked(u) /\ z = th[u].item
    BY <1>3 DEF Inserted
  <2>. QED BY <1>1, <2>1 DEF OlderInv, Putting, Linked
<1>. QED BY <1>2, <1>3

LEMMA TimedFact == Timed \subseteq Inserted /\ done \subseteq Timed
BY DEF Timed, Inserted, Linked, Putting, PushPcs

LEMMA InsertListTime ==
  ASSUME IInv1, IInv1', TimeInv, NEW t \in Threads, World(t), InsertList(t)
  PROVE  TimeInv' /\ TimeGrows /\ late' = late /\ start' = start /\ th'[t].op = "put"
<1>1. /\ TypeOK /\ TypeOK' /\ Inserted \subseteq Items /\ \A u \in Threads : PcInv(u)
      /\ TsInv /\ ClockInv /\ \A u \in Threads : StampInv(u)
  BY InsertedItems DEF IInv1, TimeInv
<1>2. th[t].pc = "I_list" /\ th[t].pc \in PushPcs
  BY DEF InsertList, At, PushPcs
<1>3. PICK x \in Items : x = th[t].item
  BY <1>2, PushFact
<1>4. /\ th[t] \in Locals /\ th[t].op = "put" /\ th[t].i = 0
      /\ Putting(t) /\ ~Linked(t) /\ x \notin Inserted /\ older[x] \subseteq done
  BY <1>2, <1>3, PushFact
<1>5. PICK r : r = [th[t] EXCEPT !.pc = "S_read"]
  OBVIOUS
<1>6. r \in Locals /\ r.pc = "S_read" /\ r.op = "put" /\ r.item = x /\ r.i = 0 /\ r.now = th[t].now
  BY <1>3, <1>4, <1>5 DEF Locals, Pcs, StampPcs
<1>7. Becomes(t, r)
  BY <1>1, <1>5 DEF InsertList, Goto, Becomes, TypeOK
<1>8. th'[t] = r /\ \A u \in Threads : u # t => th'[u] = th[u]
  BY <1>1, <1>6, <1>7, BecomesFact
<1>9. PICK h : h = Held'
  OBVIOUS
<1>10. Kept /\ UNCHANGED stamps
  BY <1>1, <1>4, <1>6, <1>7, <1>9, ObserveQuiet DEF InsertList
<1>11. kind' = kind /\ clock' = clock /\ clocks' = clocks /\ ts' = ts
       /\ done' = done /\ older' = older /\ late' = late /\ start' = start
  BY <1>10 DEF Kept, stamps
<1>12. \A u \in Threads : u # t => (Linked(u)' <=> Linked(u)) /\ (Putting(u)' <=> Putting(u))
  BY <1>8 DEF Linked, Putting
<1>13. Inserted' = Inserted \cup {x} /\ Timed' = Timed
  <2>1. Linked(t)' /\ ~Linked(t) /\ th'[t].item = x
    BY <1>4, <1>6, <1>8 DEF Linked, PushPcs
  <2>2. Inserted' = Inserted \cup {x}
    BY <1>8, <1>11, <1>12, <2>1 DEF Inserted
  <2>3. Timed' = Timed
    BY <1>2, <1>6, <1>8, <1>11, <1>12 DEF Timed
  <2>. QED BY <2>2, <2>3
<1>14. ReadClock' = ReadClock
  BY <1>11 DEF ReadClock, Hwptime
<1>15. ClocksGrow
  BY <1>1, <1>11, <1>14, TimeTypes DEF ClocksGrow
<1>16. TimeGrows
  <2>1. \A z \in Items : \A n \in Nat : SecondLater(z, n) => SecondLater(z, n)'
    <3>1. \A u \in Threads : th'[u].pc = "S_store" => th'[u] = th[u]
      BY <1>6, <1>8
    <3>. QED BY <1>11, <3>1 DEF SecondLater, Half
  <2>. QED BY <1>11, <1>13, <1>15, <2>1 DEF TimeGrows
<1>17. \A n \in Nat : Ticked(n) => Ticked(n)' /\ WillTick(t, n)'
  <2>1. SUFFICES ASSUME NEW n \in Nat, Ticked(n) PROVE Ticked(n)' /\ WillTick(t, n)'
    OBVIOUS
  <2>2. Ticked(n)'
    BY <1>1, <1>15, <2>1, TickGrows
  <2>3. CASE kind = "stutter"
    <3>1. PICK j \in DOMAIN Thread[kind] : n <= clocks[Thread[kind][j]]
      BY <2>1, <2>3 DEF Ticked
    <3>2. r.i <= j
      BY <1>1, <1>6, <3>1, ClockFact
    <3>. QED BY <1>8, <1>11, <2>2, <2>3, <3>1, <3>2 DEF WillTick
  <2>4. CASE kind # "stutter"
    BY <1>11, <2>2, <2>4 DEF Ticked, WillTick
  <2>. QED BY <2>3, <2>4
<1>18. TsInv'
  <2>1. \A z \in Timed : ts'[z][1] < UINT64_MAX /\ Ticked(ts[z][2])'
    <3>1. SUFFICES ASSUME NEW z \in Timed PROVE ts'[z][1] < UINT64_MAX /\ Ticked(ts[z][2])'
      OBVIOUS
    <3>2. z \in Items
      BY <1>1, TimedFact
    <3>3. PICK n \in Nat : n = ts[z][2]
      BY <1>1, <3>2, TimeTypes
    <3>4. ts[z][1] < UINT64_MAX /\ Ticked(n)
      BY <1>1, <3>3 DEF TsInv
    <3>5. Ticked(n)' /\ n = ts'[z][2]
      BY <1>11, <1>17, <3>3, <3>4
    <3>. QED BY <1>11, <3>4, <3>5 DEF Ticked
  <2>. QED BY <1>1, <1>11, <1>13, <2>1 DEF TsInv
<1>19. ClockInv'
  <2>1. PICK A \in SUBSET Inserted, B \in SUBSET Inserted :
          /\ kind # "stutter" => clock <= 1 + Cardinality(A) + Cardinality(B)
          /\ kind = "stutter" => \A b \in Threads : clocks[b] <= 1 + Cardinality(A)
          /\ \A u \in Threads : CountedInv(u, A, B)
    BY <1>1 DEF ClockInv
  <2>2. A \in SUBSET Inserted' /\ B \in SUBSET Inserted'
    BY <1>13
  <2>3. \A u \in Threads : u # t => CountedInv(u, A, B)'
    BY <1>8, <1>11, <2>1 DEF CountedInv, Half
  <2>4. CountedInv(t, A, B)'
    <3>1. kind = "stutter" => r.now <= 1 + Cardinality(A)
      BY <1>4, <1>6, <2>1 DEF CountedInv
    <3>2. x \notin A /\ x \notin B
      BY <1>4
    <3>. QED BY <1>6, <1>8, <1>11, <3>1, <3>2 DEF CountedInv
  <2>. QED BY <1>11, <2>1, <2>2, <2>3, <2>4 DEF ClockInv
<1>20. ASSUME NEW u \in Threads, u # t PROVE StampInv(u)'
  <2>1. th[u].op = "put" => th[u].item \in Items
    BY <1>1 DEF PcInv
  <2>. QED BY <1>1, <1>8, <1>11, <1>15, <1>20, <2>1, StampOthers
<1>21. StampInv(t)'
  <2>1. kind = "stutter" => \E j \in DOMAIN Thread[kind] : t = Thread[kind][j]
    BY <1>1, <1>4 DEF StampInv
  <2>2. ts'[x] = Top
    BY <1>1, <1>4, <1>11 DEF TsInv
  <2>3. \A y \in older[x] : WillTick(t, ts[y][2])'
    <3>1. SUFFICES ASSUME NEW y \in older[x] PROVE WillTick(t, ts[y][2])'
      OBVIOUS
    <3>2. y \in Timed /\ y \in Items
      BY <1>1, <1>4, TimedFact
    <3>3. PICK n \in Nat : n = ts[y][2]
      BY <1>1, <3>2, TimeTypes
    <3>4. WillTick(t, n)' /\ n = ts'[y][2]
      BY <1>1, <1>11, <1>17, <3>2, <3>3 DEF TsInv
    <3>. QED BY <3>4 DEF WillTick
  <2>4. kind = "stutter" => WillTick(t, clocks[t])'
    <3>1. SUFFICES ASSUME kind = "stutter" PROVE WillTick(t, clocks[t])'
      OBVIOUS
    <3>2. PICK j \in DOMAIN Thread[kind] : t = Thread[kind][j]
      BY <2>1, <3>1
    <3>3. PICK n \in Nat : n = clocks[t]
      BY <1>1, TimeTypes
    <3>4. Ticked(n)
      BY <3>1, <3>2, <3>3 DEF Ticked
    <3>5. WillTick(t, n)' /\ n = clocks'[t]
      BY <1>11, <1>17, <3>3, <3>4
    <3>. QED BY <3>5 DEF WillTick
  <2>5. ~Half(t)'
    BY <1>6, <1>8 DEF Half
  <2>. QED BY <1>6, <1>8, <1>11, <2>1, <2>2, <2>3, <2>4, <2>5 DEF StampInv
<1>. QED BY <1>6, <1>8, <1>11, <1>16, <1>18, <1>19, <1>20, <1>21 DEF TimeInv

LEMMA StampFrame ==
  ASSUME IInv1, IInv1', TimeInv, NEW t \in Threads, th[t].pc \in StampPcs, World(t),
         NEW x \in Items, x = th[t].item, th'[t].item = x,
         th'[t].pc \in StampPcs \cup {"return"}, Observe(t, Held)
  PROVE  /\ Kept /\ th'[t].op = "put" /\ Inserted' = Inserted
         /\ Timed' = IF th'[t].pc = "return" THEN Timed \cup {x} ELSE Timed
         /\ \A u \in Threads : u # t => th'[u] = th[u]
         /\ ClocksGrow /\ (\A z \in Items \ {x} : ts'[z] = ts[z])
              /\ (\A u \in Threads \ {t} : clocks'[u] = clocks[u])
            => \A u \in Threads \ {t} : StampInv(u)'
<1>1. TypeOK /\ TypeOK' /\ \A u \in Threads : PcInv(u)
  BY DEF IInv1
<1>2. /\ th[t].op = "put" /\ Linked(t) /\ Putting(t) /\ x \in Inserted /\ x \notin done
      /\ \A u \in Threads : u # t /\ Putting(u) => th[u].item # x
  BY StampPlace
<1>3. th'[t].op = "put" /\ \A u \in Threads : u # t => th'[u] = th[u]
  BY <1>2 DEF World, StampPcs
<1>4. Kept
  BY <1>2, <1>3 DEF Observe, Kept
<1>5. /\ Linked(t)' /\ Putting(t)'
      /\ \A u \in Threads : u # t => (Linked(u)' <=> Linked(u)) /\ (Putting(u)' <=> Putting(u))
  BY <1>3 DEF Linked, Putting, StampPcs, PushPcs
<1>6. Inserted' = Inserted
  BY <1>2, <1>3, <1>4, <1>5 DEF Inserted, Kept
<1>7. Timed' = IF th'[t].pc = "return" THEN Timed \cup {x} ELSE Timed
  BY <1>2, <1>3, <1>4, <1>5 DEF Timed, Kept, StampPcs
<1>8. ASSUME ClocksGrow, \A z \in Items \ {x} : ts'[z] = ts[z],
             \A u \in Threads \ {t} : clocks'[u] = clocks[u], NEW u \in Threads \ {t}
      PROVE  StampInv(u)'
  <2>1. th[u].op = "put" => th[u].item \in Items
    BY <1>1 DEF PcInv
  <2>2. Linked(u) => /\ ts'[th[u].item] = ts[th[u].item] /\ older'[th[u].item] = older[th[u].item]
                     /\ \A y \in older[th[u].item] : ts'[y] = ts[y]
    <3>1. SUFFICES ASSUME Linked(u)
                   PROVE  /\ ts'[th[u].item] = ts[th[u].item] /\ older'[th[u].item] = older[th[u].item]
                          /\ \A y \in older[th[u].item] : ts'[y] = ts[y]
      OBVIOUS
    <3>2. Putting(u) /\ th[u].item # x /\ th[u].item \in Items /\ th[u].item \in Inserted
      BY <1>2, <2>1, <3>1 DEF Linked, Putting, Inserted
    <3>3. older[th[u].item] \subseteq done
      BY <3>2, OlderDone
    <3>4. done \subseteq Items
      BY <1>1 DEF TypeOK
    <3>. QED BY <1>2, <1>4, <1>8, <3>2, <3>3, <3>4 DEF Kept
  <2>. QED BY <1>1, <1>3, <1>8, <2>1, <2>2, StampOthers DEF TimeInv
<1>. QED BY <1>3, <1>4, <1>6, <1>7, <1>8

LEMMA TsSame ==
  ASSUME TypeOK, TypeOK', TsInv, ClocksGrow, ts' = ts, Timed' = Timed, Inserted' = Inserted,
         older' = older, Inserted \subseteq Items
  PROVE  TsInv'
<1>1. ASSUME NEW z \in Timed PROVE ts'[z][1] < UINT64_MAX /\ Ticked(ts[z][2])'
  <2>1. z \in Items
    BY TimedFact
  <2>2. PICK n \in Nat : n = ts[z][2]
    BY <2>1, TimeTypes
  <2>3. ts[z][1] < UINT64_MAX /\ Ticked(n)
    BY <2>2 DEF TsInv
  <2>4. Ticked(n)' /\ n = ts'[z][2]
    BY <2>2, <2>3, TickGrows
  <2>. QED BY <2>3, <2>4 DEF Ticked
<1>. QED BY <1>1 DEF TsInv

LEMMA TakeStampTime ==
  ASSUME IInv1, IInv1', TimeInv, NEW t \in Threads, World(t), TakeStamp(t), Observe(t, Held)
  PROVE  TimeInv' /\ TimeGrows /\ Kept /\ th'[t].op = "put"
<1>1. /\ TypeOK /\ TypeOK' /\ Inserted \subseteq Items /\ PcInv(t) /\ th[t] \in Locals
      /\ TsInv /\ ClockInv /\ StampInv(t)
  BY InsertedItems DEF IInv1, TimeInv, TypeOK
<1>2. th[t].pc = "S_read" /\ th[t].pc \in StampPcs /\ kind # "stutter"
  BY DEF TakeStamp, StampPcs
<1>3. PICK x \in Items : x = th[t].item
  BY <1>2, StampPlace
<1>4. PICK now \in Nat : now = StampClock
  BY <1>1, TimeTypes
<1>5. /\ clock' = clock + 1 /\ kind' = kind /\ clocks' = clocks /\ ts' = ts
      /\ th' = [th EXCEPT ![t].pc = "S_store", ![t].now = now]
  BY <1>4 DEF TakeStamp
<1>6. th'[t].pc = "S_store" /\ th'[t].now = now /\ th'[t].item = x /\ th'[t].i = th[t].i
  BY <1>1, <1>3, <1>5 DEF TypeOK, Locals
<1>7. /\ Kept /\ th'[t].op = "put" /\ Inserted' = Inserted /\ Timed' = Timed
      /\ \A u \in Threads : u # t => th'[u] = th[u]
      /\ ClocksGrow => \A u \in Threads \ {t} : StampInv(u)'
  <2>1. th'[t].pc \in StampPcs \cup {"return"} /\ th'[t].pc # "return"
    BY <1>6 DEF StampPcs
  <2>. QED BY <1>2, <1>3, <1>5, <1>6, <2>1, StampFrame
<1>8. x \in Inserted /\ \A u \in Threads : u # t /\ Putting(u) => th[u].item # x
  BY <1>2, <1>3, StampPlace
<1>9. /\ ReadClock \in Nat /\ ReadClock' \in Nat /\ ReadClock <= now /\ now < ReadClock'
      /\ ReadClock <= ReadClock'
  <2>1. clock \in Nat /\ ReadClock \in Nat /\ ReadClock' \in Nat /\ ReadClock <= now
    BY <1>1, <1>4, TimeTypes, ReadClockNext
  <2>2. ReadClock' = IF kind = "atomic" THEN clock + 1 ELSE 2 * (clock + 1)
    BY <1>5 DEF ReadClock, Hwptime
  <2>3. now = IF kind = "atomic" THEN clock ELSE 2 * clock + 1
    BY <1>4 DEF StampClock, Hwptime
  <2>4. now < ReadClock'
    BY <2>1, <2>2, <2>3
  <2>. QED BY <2>1, <2>4
<1>10. ClocksGrow
  BY <1>1, <1>5, <1>9, TimeTypes DEF ClocksGrow
<1>11. TsInv'
  BY <1>1, <1>5, <1>7, <1>10, TsSame DEF Kept
<1>12. (Half(t)' <=> Half(t)) /\ \A u \in Threads : u # t => (Half(u)' <=> Half(u))
  BY <1>5, <1>6, <1>7 DEF Half
<1>13. TimeGrows
  <2>1. ASSUME NEW z \in Items, NEW n \in Nat, n <= ReadClock, SecondLater(z, n)
        PROVE  SecondLater(z, n)'
    <3>1. n <= ts'[z][2]
      BY <1>5, <2>1 DEF SecondLater
    <3>2. n <= now
      BY <1>9, <2>1
    <3>3. ASSUME NEW u \in Threads, th'[u].pc = "S_store", th'[u].item = z, Half(u)' PROVE n <= th'[u].now
      BY <1>6, <1>7, <1>12, <2>1, <3>2, <3>3 DEF SecondLater
    <3>. QED BY <3>1, <3>3 DEF SecondLater
  <2>. QED BY <1>5, <1>7, <1>10, <2>1 DEF TimeGrows
<1>14. PICK A \in SUBSET Inserted, B \in SUBSET Inserted :
          clock <= 1 + Cardinality(A) + Cardinality(B) /\ \A u \in Threads : CountedInv(u, A, B)
  BY <1>1, <1>2 DEF ClockInv
<1>15. /\ Cardinality(A) \in Nat /\ Cardinality(A) <= Cardinality(Items)
       /\ Cardinality(B) \in Nat /\ Cardinality(B) <= Cardinality(Items)
  BY <1>1, CountFact
<1>16. now < UINT64_MAX
  <2>1. PICK c \in Nat : c = Cardinality(Items) /\ UINT64_MAX = 4 * c + 4
    BY UIntFact
  <2>2. clock \in Nat /\ now <= 2 * clock + 1
    BY <1>1, <1>4, TimeTypes
  <2>3. clock <= 1 + c + c
    BY <1>14, <1>15, <2>1, <2>2
  <2>. QED BY <2>1, <2>2, <2>3
<1>17. \A u \in Threads : u # t =>
         /\ CountedInv(u, A \cup {x}, B)' /\ CountedInv(u, A, B \cup {x})'
  <2>1. SUFFICES ASSUME NEW u \in Threads, u # t
                 PROVE  CountedInv(u, A \cup {x}, B)' /\ CountedInv(u, A, B \cup {x})'
    OBVIOUS
  <2>2. th'[u] = th[u] /\ CountedInv(u, A, B) /\ (th[u].pc \in StampPcs => th[u].item # x)
    <3>1. th[u].pc \in StampPcs => Putting(u)
      BY StampPlace
    <3>. QED BY <1>7, <1>8, <1>14, <2>1, <3>1
  <2>. QED BY <1>2, <1>5, <1>12, <2>1, <2>2 DEF CountedInv, StampPcs
<1>18. ClockInv'
  <2>1. clock \in Nat
    BY <1>1 DEF TypeOK
  <2>2. CASE Half(t)
    <3>1. x \notin B
      BY <1>2, <1>3, <1>14, <2>2 DEF CountedInv, Half
    <3>2. PICK D : D = B \cup {x}
      OBVIOUS
    <3>3. D \in SUBSET Inserted' /\ Cardinality(D) = Cardinality(B) + 1
      BY <1>1, <1>7, <1>8, <3>1, <3>2, CountFact
    <3>4. clock' <= 1 + Cardinality(A) + Cardinality(D)
      BY <1>5, <1>14, <1>15, <2>1, <3>3
    <3>5. CountedInv(t, A, D)'
      BY <1>2, <1>5, <1>6, <1>12, <2>2 DEF CountedInv
    <3>6. \A u \in Threads : CountedInv(u, A, D)'
      BY <1>17, <3>2, <3>5
    <3>. QED BY <1>2, <1>5, <1>7, <3>3, <3>4, <3>6 DEF ClockInv
  <2>3. CASE ~Half(t)
    <3>1. x \notin A
      BY <1>2, <1>3, <1>14, <2>3 DEF CountedInv
    <3>2. PICK C : C = A \cup {x}
      OBVIOUS
    <3>3. C \in SUBSET Inserted' /\ Cardinality(C) = Cardinality(A) + 1
      BY <1>1, <1>7, <1>8, <3>1, <3>2, CountFact
    <3>4. clock' <= 1 + Cardinality(C) + Cardinality(B)
      BY <1>5, <1>14, <1>15, <2>1, <3>3
    <3>5. kind = "interval" => x \notin B
      BY <1>2, <1>3, <1>14 DEF CountedInv
    <3>6. CountedInv(t, C, B)'
      BY <1>2, <1>5, <1>6, <1>12, <2>3, <3>5 DEF CountedInv
    <3>7. \A u \in Threads : CountedInv(u, C, B)'
      BY <1>17, <3>2, <3>6
    <3>. QED BY <1>2, <1>5, <1>7, <3>3, <3>4, <3>7 DEF ClockInv
  <2>. QED BY <2>2, <2>3
<1>19. StampInv(t)'
  <2>1. older[x] \subseteq Items /\ \A y \in Items : ts[y][1] \in Nat /\ ts[y][2] \in Nat
    BY <1>1, TimeTypes DEF TypeOK
  <2>2. ~Half(t) => ts[x] = Top /\ \A y \in older[x] : ts[y][2] < now
    <3>1. ~Half(t) => ts[x] = Top /\ \A y \in older[x] : WillTick(t, ts[y][2])
      BY <1>1, <1>2, <1>3 DEF StampInv
    <3>2. \A y \in older[x] : WillTick(t, ts[y][2]) => ts[y][2] < now
      BY <1>2, <1>9, <2>1 DEF WillTick
    <3>. QED BY <3>1, <3>2
  <2>3. Half(t) => /\ ts[x][1] < ReadClock' /\ ts[x][1] < UINT64_MAX /\ ts[x][2] = UINT64_MAX
                   /\ ts[x][1] <= now
    <3>1. Half(t) => ts[x][1] < ReadClock /\ ts[x][1] < UINT64_MAX /\ ts[x][2] = UINT64_MAX
      BY <1>1, <1>2, <1>3 DEF StampInv
    <3>. QED BY <1>9, <2>1, <3>1
  <2>. QED BY <1>2, <1>5, <1>6, <1>7, <1>9, <1>12, <1>16, <2>2, <2>3 DEF StampInv, Kept
<1>. QED BY <1>7, <1>10, <1>11, <1>13, <1>18, <1>19 DEF TimeInv

\* A reading of the clocks, one at a time, meets whatever it has yet to meet.
LEMMA LatestFact ==
  ASSUME TypeOK, NEW t \in Threads, PcInv(t), th[t].pc \in {"time", "S_read"}, kind = "stutter"
  PROVE  /\ TimeRead(t) \in Nat /\ th[t].i + 1 \in Nat
         /\ TimeRead(t) = th[t].now \/ \E b \in Threads : TimeRead(t) = clocks[b]
         /\ \A n \in Nat : WillTick(t, n) /\ MoreClocks(t) =>
              \/ n <= TimeRead(t)
              \/ \E j \in DOMAIN Thread[kind] : th[t].i + 1 <= j /\ n <= clocks[Thread[kind][j]]
         /\ \A n \in Nat : WillTick(t, n) /\ ~MoreClocks(t) => n <= TimeRead(t)
<1>1. PICK i \in Nat, now \in Nat : i = th[t].i /\ now = th[t].now
  BY TimeTypes
<1>2. i \in DOMAIN Thread[kind] /\ TimeRead(t) \in Nat
  BY <1>1, TimeReadFact
<1>3. PICK c \in Nat : c = clocks[Thread[kind][i]]
  BY <1>2, ClockFact, TimeTypes
<1>4. TimeRead(t) = IF c > now THEN c ELSE now
  BY <1>1, <1>3 DEF TimeRead, LatestSoFar
<1>5. TimeRead(t) = now \/ \E b \in Threads : TimeRead(t) = clocks[b]
  BY <1>2, <1>3, <1>4, ClockFact
<1>6. NumThreads \in Nat /\ DOMAIN Thread[kind] = 0 .. NumThreads - 1
  BY ClockFact
<1>7. MoreClocks(t) <=> i + 1 < NumThreads
  BY <1>1 DEF MoreClocks
<1>8. c <= TimeRead(t) /\ now <= TimeRead(t)
  BY <1>4
<1>9. ASSUME NEW n \in Nat, WillTick(t, n)
      PROVE  \/ n <= TimeRead(t)
             \/ MoreClocks(t) /\ \E j \in DOMAIN Thread[kind] : i + 1 <= j /\ n <= clocks[Thread[kind][j]]
  <2>1. CASE n <= now
    BY <1>2, <1>8, <2>1
  <2>2. CASE ~(n <= now)
    <3>1. PICK j \in DOMAIN Thread[kind] : i <= j /\ n <= clocks[Thread[kind][j]]
      BY <1>1, <1>9, <2>2 DEF WillTick
    <3>2. CASE i = j
      BY <1>2, <1>3, <1>8, <3>1, <3>2
    <3>3. CASE i # j
      <4>1. j \in Nat /\ j <= NumThreads - 1
        BY <1>6, <3>1
      <4>2. i + 1 <= j /\ i + 1 < NumThreads
        BY <1>6, <3>1, <3>3, <4>1
      <4>. QED BY <1>7, <3>1, <4>2
    <3>. QED BY <3>2, <3>3
  <2>. QED BY <2>1, <2>2
<1>. QED BY <1>1, <1>2, <1>5, <1>9

LEMMA TakeLatestTime ==
  ASSUME IInv1, IInv1', TimeInv, NEW t \in Threads, World(t), TakeLatest(t), Observe(t, Held)
  PROVE  TimeInv' /\ TimeGrows /\ Kept /\ th'[t].op = "put"
<1>1. /\ TypeOK /\ TypeOK' /\ Inserted \subseteq Items /\ PcInv(t) /\ th[t] \in Locals
      /\ TsInv /\ ClockInv /\ StampInv(t)
  BY InsertedItems DEF IInv1, TimeInv, TypeOK
<1>2. th[t].pc = "S_read" /\ th[t].pc \in StampPcs /\ kind = "stutter"
  BY DEF TakeLatest, ReadTime, StampPcs
<1>3. PICK x \in Items : x = th[t].item
  BY <1>2, StampPlace
<1>4. PICK now \in Nat : now = TimeRead(t)
  BY <1>1, <1>2, TimeReadFact
<1>5. PICK i \in Nat : i = th[t].i + 1
  BY <1>1, <1>2, LatestFact
<1>6. kind' = kind /\ clock' = clock /\ clocks' = clocks /\ ts' = ts
  BY DEF TakeLatest, ReadTime, stamps
<1>7. /\ th'[t].now = now /\ th'[t].item = x
      /\ MoreClocks(t) => th'[t].pc = "S_read" /\ th'[t].i = i
      /\ ~MoreClocks(t) => th'[t].pc = "S_clock"
  <2>1. CASE MoreClocks(t)
    <3>1. th' = [th EXCEPT ![t].now = now, ![t].i = i]
      BY <1>1, <1>4, <1>5, <2>1 DEF TakeLatest, ReadTime, TypeOK, Locals
    <3>. QED BY <1>1, <1>2, <1>3, <2>1, <3>1 DEF TypeOK, Locals
  <2>2. CASE ~MoreClocks(t)
    <3>1. th' = [th EXCEPT ![t] = [th[t] EXCEPT !.pc = "S_clock", !.now = now, !.i = 0]]
      BY <1>4, <2>2 DEF TakeLatest, ReadTime
    <3>. QED BY <1>1, <1>3, <2>2, <3>1 DEF TypeOK, Locals
  <2>. QED BY <2>1, <2>2
<1>8. th'[t].pc \in {"S_read", "S_clock"} /\ ~Half(t) /\ ~Half(t)'
  BY <1>2, <1>6, <1>7 DEF Half
<1>9. /\ Kept /\ th'[t].op = "put" /\ Inserted' = Inserted /\ Timed' = Timed
      /\ \A u \in Threads : u # t => th'[u] = th[u]
      /\ ClocksGrow => \A u \in Threads \ {t} : StampInv(u)'
  <2>1. th'[t].pc \in StampPcs \cup {"return"} /\ th'[t].pc # "return"
    BY <1>8 DEF StampPcs
  <2>. QED BY <1>2, <1>3, <1>6, <1>7, <2>1, StampFrame
<1>10. ClocksGrow
  <2>1. ReadClock' = ReadClock
    BY <1>6 DEF ReadClock, Hwptime
  <2>. QED BY <1>1, <1>6, <2>1, TimeTypes DEF ClocksGrow
<1>11. TsInv'
  BY <1>1, <1>6, <1>9, <1>10, TsSame DEF Kept
<1>12. TimeGrows
  BY <1>2, <1>6, <1>9, <1>10 DEF TimeGrows
<1>13. ClockInv'
  <2>1. PICK A \in SUBSET Inserted, B \in SUBSET Inserted :
          /\ \A b \in Threads : clocks[b] <= 1 + Cardinality(A)
          /\ \A u \in Threads : CountedInv(u, A, B)
    BY <1>1, <1>2 DEF ClockInv
  <2>2. now <= 1 + Cardinality(A)
    <3>1. th[t].now <= 1 + Cardinality(A)
      BY <1>2, <2>1, StampPlace DEF CountedInv
    <3>. QED BY <1>1, <1>2, <1>4, <2>1, <3>1, LatestFact
  <2>3. x \notin A
    BY <1>2, <1>3, <1>8, <2>1 DEF CountedInv
  <2>4. CountedInv(t, A, B)'
    BY <1>2, <1>6, <1>7, <2>2, <2>3 DEF CountedInv
  <2>5. \A u \in Threads : u # t => CountedInv(u, A, B)'
    BY <1>6, <1>9, <2>1 DEF CountedInv, Half
  <2>. QED BY <1>2, <1>6, <1>9, <2>1, <2>4, <2>5 DEF ClockInv
<1>14. /\ \A n \in Nat : WillTick(t, n) /\ MoreClocks(t) => WillTick(t, n)'
       /\ \A n \in Nat : WillTick(t, n) /\ ~MoreClocks(t) => n <= now
  <2>1. ASSUME NEW n \in Nat, WillTick(t, n), MoreClocks(t) PROVE WillTick(t, n)'
    <3>1. \/ n <= now
          \/ \E j \in DOMAIN Thread[kind] : i <= j /\ n <= clocks[Thread[kind][j]]
      BY <1>1, <1>2, <1>4, <1>5, <2>1, LatestFact
    <3>. QED BY <1>2, <1>6, <1>7, <2>1, <3>1 DEF WillTick
  <2>2. \A n \in Nat : WillTick(t, n) /\ ~MoreClocks(t) => n <= now
    BY <1>1, <1>2, <1>4, LatestFact
  <2>. QED BY <2>1, <2>2
<1>15. StampInv(t)'
  <2>1. \E j \in DOMAIN Thread[kind] : t = Thread[kind][j]
    BY <1>1, <1>2, StampPlace DEF StampInv
  <2>2. ts[x] = Top /\ (\A y \in older[x] : WillTick(t, ts[y][2])) /\ WillTick(t, clocks[t])
    BY <1>1, <1>2, <1>3, <1>8 DEF StampInv
  <2>3. older[x] \subseteq Items /\ (\A y \in Items : ts[y][2] \in Nat) /\ clocks[t] \in Nat
    BY <1>1, TimeTypes DEF TypeOK
  <2>4. CASE MoreClocks(t)
    <3>1. \A y \in older[x] : WillTick(t, ts[y][2])'
      <4>1. SUFFICES ASSUME NEW y \in older[x] PROVE WillTick(t, ts[y][2])'
        OBVIOUS
      <4>2. PICK n \in Nat : n = ts[y][2]
        BY <2>3
      <4>3. WillTick(t, n)' /\ n = ts'[y][2]
        BY <1>6, <1>14, <2>2, <2>4, <4>2
      <4>. QED BY <4>3 DEF WillTick
    <3>2. WillTick(t, clocks[t])'
      <4>1. PICK n \in Nat : n = clocks[t]
        BY <2>3
      <4>2. WillTick(t, n)' /\ n = clocks'[t]
        BY <1>6, <1>14, <2>2, <2>4, <4>1
      <4>. QED BY <4>2 DEF WillTick
    <3>. QED BY <1>2, <1>6, <1>7, <1>8, <1>9, <2>1, <2>2, <2>4, <3>1, <3>2 DEF StampInv, Kept
  <2>5. CASE ~MoreClocks(t)
    <3>1. clocks[t] <= now /\ \A y \in older[x] : ts[y][2] <= now
      BY <1>14, <2>2, <2>3, <2>5
    <3>. QED BY <1>2, <1>6, <1>7, <1>8, <1>9, <2>1, <2>2, <2>5, <3>1 DEF StampInv, Kept
  <2>. QED BY <2>4, <2>5
<1>. QED BY <1>9, <1>10, <1>11, <1>12, <1>13, <1>15 DEF TimeInv

LEMMA SetClockTime ==
  ASSUME IInv1, IInv1', TimeInv, NEW t \in Threads, World(t), SetClock(t), Observe(t, Held)
  PROVE  TimeInv' /\ TimeGrows /\ Kept /\ th'[t].op = "put"
<1>1. /\ TypeOK /\ TypeOK' /\ Inserted \subseteq Items /\ PcInv(t) /\ th[t] \in Locals
      /\ TsInv /\ ClockInv /\ StampInv(t)
  BY InsertedItems DEF IInv1, TimeInv, TypeOK
<1>2. th[t].pc = "S_clock" /\ th[t].pc \in StampPcs /\ kind = "stutter"
  BY <1>1 DEF SetClock, StampPcs, PcInv
<1>3. PICK x \in Items : x = th[t].item
  BY <1>2, StampPlace
<1>4. PICK now \in Nat : now = th[t].now + 1 /\ th[t].now < now
  BY <1>1, TimeTypes
<1>5. /\ clock' = clock /\ kind' = kind /\ clocks' = [clocks EXCEPT ![t] = now] /\ ts' = ts
      /\ th' = [th EXCEPT ![t].pc = "S_store", ![t].now = now]
  BY <1>1, <1>4 DEF SetClock, TypeOK, Locals
<1>6. th'[t].pc = "S_store" /\ th'[t].now = now /\ th'[t].item = x
  BY <1>1, <1>3, <1>5 DEF TypeOK, Locals
<1>7. clocks'[t] = now /\ \A b \in Threads \ {t} : clocks'[b] = clocks[b]
  BY <1>1, <1>5 DEF TypeOK
<1>8. /\ Kept /\ th'[t].op = "put" /\ Inserted' = Inserted /\ Timed' = Timed
      /\ \A u \in Threads : u # t => th'[u] = th[u]
      /\ ClocksGrow => \A u \in Threads \ {t} : StampInv(u)'
  <2>1. th'[t].pc \in StampPcs \cup {"return"} /\ th'[t].pc # "return"
    BY <1>6 DEF StampPcs
  <2>. QED BY <1>2, <1>3, <1>5, <1>6, <1>7, <2>1, StampFrame
<1>9. x \in Inserted /\ (\A u \in Threads : u # t /\ Putting(u) => th[u].item # x) /\ th[t].op = "put"
  BY <1>2, <1>3, StampPlace
<1>10. ts[x] = Top /\ clocks[t] <= th[t].now /\ \A y \in older[x] : ts[y][2] <= th[t].now
  BY <1>1, <1>2, <1>3 DEF StampInv, Half
<1>11. clocks[t] <= now /\ \A y \in older[x] : ts[y][2] < now
  <2>1. older[x] \subseteq Items /\ (\A y \in Items : ts[y][2] \in Nat)
        /\ clocks[t] \in Nat /\ th[t].now \in Nat
    BY <1>1, TimeTypes DEF TypeOK
  <2>. QED BY <1>4, <1>10, <2>1
<1>12. ClocksGrow
  <2>1. ReadClock' = ReadClock
    BY <1>5 DEF ReadClock, Hwptime
  <2>. QED BY <1>1, <1>5, <1>7, <1>11, <2>1, TimeTypes DEF ClocksGrow
<1>13. TsInv'
  BY <1>1, <1>5, <1>8, <1>12, TsSame DEF Kept
<1>14. TimeGrows
  BY <1>2, <1>5, <1>8, <1>12 DEF TimeGrows
<1>15. PICK A \in SUBSET Inserted, B \in SUBSET Inserted :
          /\ \A b \in Threads : clocks[b] <= 1 + Cardinality(A)
          /\ \A u \in Threads : CountedInv(u, A, B)
  BY <1>1, <1>2 DEF ClockInv
<1>16. x \notin A /\ th[t].now <= 1 + Cardinality(A)
  BY <1>2, <1>3, <1>9, <1>15 DEF CountedInv, Half
<1>17. PICK C : C = A \cup {x}
  OBVIOUS
<1>18. /\ C \in SUBSET Inserted' /\ Cardinality(C) = Cardinality(A) + 1
       /\ Cardinality(A) \in Nat /\ Cardinality(C) <= Cardinality(Items)
  BY <1>1, <1>8, <1>9, <1>16, <1>17, CountFact
<1>19. now <= 1 + Cardinality(C) /\ th[t].now \in Nat
  BY <1>1, <1>4, <1>16, <1>18, TimeTypes
<1>20. ClockInv'
  <2>1. ASSUME NEW b \in Threads PROVE clocks'[b] <= 1 + Cardinality(C)
    <3>1. clocks[b] \in Nat /\ clocks[b] <= 1 + Cardinality(A)
      BY <1>1, <1>15, TimeTypes
    <3>2. clocks[b] <= 1 + Cardinality(C)
      BY <1>18, <3>1
    <3>. QED BY <1>7, <1>19, <3>2
  <2>2. CountedInv(t, C, B)'
    BY <1>2, <1>5, <1>6, <1>19 DEF CountedInv
  <2>3. ASSUME NEW u \in Threads, u # t PROVE CountedInv(u, C, B)'
    <3>1. CountedInv(u, A, B) /\ th'[u] = th[u] /\ th[u].now \in Nat
      BY <1>1, <1>8, <1>15, <2>3, TimeTypes
    <3>2. th[u].now <= 1 + Cardinality(A) => th[u].now <= 1 + Cardinality(C)
      BY <1>18, <3>1
    <3>3. th[u].pc \in StampPcs => th[u].item # x
      <4>1. th[u].pc \in StampPcs => Putting(u)
        BY StampPlace
      <4>. QED BY <1>9, <2>3, <4>1
    <3>4. (Half(u)' <=> Half(u)) /\ kind' = "stutter"
      BY <1>2, <1>5, <3>1 DEF Half
    <3>5. th[u].pc \in {"S_read", "S_clock"} /\ ~Half(u) => th[u].item \notin C
      BY <1>17, <3>1, <3>3 DEF CountedInv, StampPcs
    <3>6. th[u].op = "put" => th[u].now <= 1 + Cardinality(C)
      BY <1>2, <3>1, <3>2 DEF CountedInv
    <3>. QED BY <3>1, <3>4, <3>5, <3>6 DEF CountedInv
  <2>4. B \in SUBSET Inserted'
    BY <1>8
  <2>. QED BY <1>2, <1>5, <1>18, <2>1, <2>2, <2>3, <2>4 DEF ClockInv
<1>21. now < UINT64_MAX
  BY <1>18, <1>19, UIntFact
<1>22. StampInv(t)'
  <2>1. \E j \in DOMAIN Thread[kind] : t = Thread[kind][j]
    BY <1>1, <1>2, <1>9 DEF StampInv
  <2>2. ~Half(t)'
    BY <1>2, <1>5 DEF Half
  <2>3. now <= clocks'[t] /\ kind' = kind /\ kind = "stutter" /\ ts'[x] = Top
    BY <1>2, <1>5, <1>7, <1>10
  <2>4. \A y \in older'[x] : ts'[y][2] < now
    BY <1>5, <1>8, <1>11 DEF Kept
  <2>. QED BY <1>6, <1>21, <2>1, <2>2, <2>3, <2>4 DEF StampInv
<1>. QED BY <1>8, <1>12, <1>13, <1>14, <1>20, <1>22 DEF TimeInv

\* One part of a stamp, or both, are stored.
FirstPart(t) == kind = "interval" /\ ~Half(t)

LEMMA StoreFact ==
  ASSUME TypeOK, NEW t \in Threads, PcInv(t), StoreStamp(t), NEW x \in Items, x = th[t].item,
         ~Half(t) => ts[x] = Top
  PROVE  /\ kind' = kind /\ clock' = clock /\ clocks' = clocks
         /\ \A z \in Items \ {x} : ts'[z] = ts[z]
         /\ ts'[x][1] = IF Half(t) THEN ts[x][1] ELSE th[t].now
         /\ ts'[x][2] = IF FirstPart(t) THEN UINT64_MAX ELSE th[t].now
         /\ th'[t].item = x /\ th'[t].now = 0
         /\ th'[t].pc = IF FirstPart(t) THEN "S_read" ELSE "return"
         /\ FirstPart(t) => th'[t].i = 1
<1>1. th[t] \in Locals /\ th \in [Threads -> Locals] /\ th[t].pc = "S_store"
  BY DEF TypeOK, StoreStamp
<1>2. PICK now \in Nat : now = th[t].now
  BY TimeTypes
<1>3. th[t].i # 0 => kind = "interval" /\ th[t].i = 1
  BY <1>1 DEF PcInv
<1>4. kind' = kind /\ clock' = clock /\ clocks' = clocks
  BY DEF StoreStamp
<1>5. ts \in [Items -> Nat \X Nat]
  BY DEF TypeOK
<1>6. CASE kind # "interval"
  <2>1. ts' = [ts EXCEPT ![x] = <<now, now>>]
        /\ th' = [th EXCEPT ![t].pc = "return", ![t].now = 0]
    BY <1>2, <1>6 DEF StoreStamp
  <2>2. ts'[x] = <<now, now>> /\ \A z \in Items \ {x} : ts'[z] = ts[z]
    BY <1>5, <2>1
  <2>3. th'[t].item = x /\ th'[t].now = 0 /\ th'[t].pc = "return"
    BY <1>1, <2>1 DEF Locals
  <2>. QED BY <1>2, <1>4, <1>6, <2>2, <2>3 DEF Half, FirstPart
<1>7. CASE kind = "interval" /\ th[t].i = 0
  <2>1. th' = [th EXCEPT ![t].pc = "S_read", ![t].now = 0, ![t].i = 1]
    BY <1>7 DEF StoreStamp
  <2>2. ts' = [ts EXCEPT ![x][1] = now]
    <3>1. ts' = [ts EXCEPT ![x][th[t].i + 1] = now]
      BY <1>2, <1>7 DEF StoreStamp
    <3>2. th[t].i + 1 = 1
      BY <1>7
    <3>. QED BY <3>1, <3>2
  <2>3. ts'[x] = [ts[x] EXCEPT ![1] = now] /\ \A z \in Items \ {x} : ts'[z] = ts[z]
    BY <1>5, <2>2
  <2>4. ts'[x] = <<now, ts[x][2]>>
    BY <1>5, <2>3, PairParts
  <2>5. ts[x][2] = UINT64_MAX
    BY <1>7, UIntFact DEF Half
  <2>6. th'[t].item = x /\ th'[t].now = 0 /\ th'[t].pc = "S_read" /\ th'[t].i = 1
    BY <1>1, <2>1 DEF Locals
  <2>. QED BY <1>2, <1>4, <1>7, <2>3, <2>4, <2>5, <2>6 DEF Half, FirstPart
<1>8. CASE kind = "interval" /\ th[t].i = 1
  <2>1. th' = [th EXCEPT ![t].pc = "return", ![t].now = 0, ![t].i = 0]
    BY <1>8 DEF StoreStamp
  <2>2. ts' = [ts EXCEPT ![x][2] = now]
    <3>1. ts' = [ts EXCEPT ![x][th[t].i + 1] = now]
      BY <1>2, <1>8 DEF StoreStamp
    <3>2. th[t].i + 1 = 2
      BY <1>8
    <3>. QED BY <3>1, <3>2
  <2>3. ts'[x] = [ts[x] EXCEPT ![2] = now] /\ \A z \in Items \ {x} : ts'[z] = ts[z]
    BY <1>5, <2>2
  <2>4. ts'[x] = <<ts[x][1], now>>
    BY <1>5, <2>3, PairParts
  <2>5. th'[t].item = x /\ th'[t].now = 0 /\ th'[t].pc = "return"
    BY <1>1, <2>1 DEF Locals
  <2>. QED BY <1>2, <1>4, <1>8, <2>3, <2>4, <2>5 DEF Half, FirstPart
<1>. QED BY <1>3, <1>6, <1>7, <1>8

LEMMA StoreStampTime ==
  ASSUME IInv1, IInv1', TimeInv, NEW t \in Threads, World(t), StoreStamp(t), Observe(t, Held)
  PROVE  TimeInv' /\ TimeGrows /\ Kept /\ th'[t].op = "put"
<1>1. /\ TypeOK /\ TypeOK' /\ Inserted \subseteq Items /\ PcInv(t)
      /\ TsInv /\ ClockInv /\ StampInv(t)
  BY InsertedItems DEF IInv1, TimeInv, TypeOK
<1>2. th[t].pc = "S_store" /\ th[t].pc \in StampPcs
  BY DEF StoreStamp, StampPcs
<1>3. PICK x \in Items : x = th[t].item
  BY <1>2, StampPlace
<1>4. PICK now \in Nat : now = th[t].now
  BY <1>1, TimeTypes
<1>5. /\ x \in Inserted /\ x \notin done /\ x \notin Timed /\ older[x] \subseteq done
      /\ th[t].op = "put"
      /\ \A u \in Threads : u # t /\ Putting(u) => th[u].item # x
  BY <1>2, <1>3, StampPlace
<1>6. /\ now < UINT64_MAX /\ (kind = "stutter" => now <= clocks[t])
      /\ (kind # "stutter" => now < ReadClock)
      /\ (Half(t) => ts[x][1] <= now) /\ (~Half(t) => \A y \in older[x] : ts[y][2] < now)
      /\ (~Half(t) => ts[x] = Top) /\ (Half(t) => ts[x][1] < UINT64_MAX /\ ts[x][2] = UINT64_MAX)
  BY <1>1, <1>2, <1>3, <1>4 DEF StampInv
<1>7. /\ kind' = kind /\ clock' = clock /\ clocks' = clocks
      /\ \A z \in Items \ {x} : ts'[z] = ts[z]
      /\ ts'[x][1] = IF Half(t) THEN ts[x][1] ELSE now
      /\ ts'[x][2] = IF FirstPart(t) THEN UINT64_MAX ELSE now
      /\ th'[t].item = x /\ th'[t].now = 0
      /\ th'[t].pc = IF FirstPart(t) THEN "S_read" ELSE "return"
      /\ FirstPart(t) => th'[t].i = 1
  BY <1>1, <1>3, <1>4, <1>6, StoreFact
<1>8. /\ Kept /\ th'[t].op = "put" /\ Inserted' = Inserted
      /\ Timed' = IF FirstPart(t) THEN Timed ELSE Timed \cup {x}
      /\ \A u \in Threads : u # t => th'[u] = th[u]
      /\ ClocksGrow => \A u \in Threads \ {t} : StampInv(u)'
  <2>1. th'[t].pc \in StampPcs \cup {"return"}
    BY <1>7 DEF StampPcs
  <2>. QED BY <1>2, <1>3, <1>7, <2>1, StampFrame
<1>9. ReadClock' = ReadClock /\ ReadClock \in Nat
  BY <1>1, <1>7, TimeTypes DEF ReadClock, Hwptime
<1>10. ClocksGrow
  BY <1>1, <1>7, <1>9, TimeTypes DEF ClocksGrow
<1>11. \A z \in Items : ts[z][1] \in Nat /\ ts[z][2] \in Nat
  BY <1>1, TimeTypes
<1>12. PICK a \in Nat, b \in Nat : a = ts'[x][1] /\ b = ts'[x][2]
  BY <1>3, <1>4, <1>7, <1>11, UIntFact
<1>13. /\ a <= b /\ b <= UINT64_MAX /\ a < UINT64_MAX /\ a <= now
       /\ \A y \in older[x] : ts[y][2] < a
  <2>1. Half(t) => \A y \in older[x] : ts[y][2] < ts[x][1]
    BY <1>1, <1>6 DEF TsInv
  <2>2. UINT64_MAX \in Nat
    BY UIntFact
  <2>. QED BY <1>4, <1>6, <1>7, <1>11, <1>12, <2>1, <2>2
<1>14. \A z \in Items : ts[z][1] < UINT64_MAX => z \in Inserted /\ x \notin older[z]
  <2>1. SUFFICES ASSUME NEW z \in Items, ts[z][1] < UINT64_MAX PROVE z \in Inserted /\ x \notin older[z]
    OBVIOUS
  <2>2. z \in Inserted
    BY <1>1, <2>1, UIntFact DEF TsInv
  <2>. QED BY <1>5, <2>2, OlderDone
<1>15. TsInv'
  <2>1. \A z \in Items : ts'[z][1] <= ts'[z][2] /\ ts'[z][2] <= UINT64_MAX
    BY <1>1, <1>7, <1>12, <1>13 DEF TsInv
  <2>2. \A z \in Items : z \notin Inserted' => ts'[z] = Top
    BY <1>1, <1>5, <1>7, <1>8 DEF TsInv
  <2>3. ASSUME NEW z \in Items, ts'[z][1] < UINT64_MAX, NEW y \in older'[z]
        PROVE  ts'[y][2] < ts'[z][1]
    <3>1. older' = older /\ y \in Items
      BY <1>1, <1>8, <2>3 DEF Kept, TypeOK
    <3>2. CASE z = x
      <4>1. y # x
        BY <1>5, <2>3, <3>1, <3>2
      <4>. QED BY <1>7, <1>12, <1>13, <2>3, <3>1, <3>2, <4>1
    <3>3. CASE z # x
      <4>1. ts'[z] = ts[z] /\ ts[z][1] < UINT64_MAX
        BY <1>7, <2>3, <3>3
      <4>2. y # x
        BY <1>14, <2>3, <3>1, <4>1
      <4>. QED BY <1>1, <1>7, <2>3, <3>1, <4>1, <4>2 DEF TsInv
    <3>. QED BY <3>2, <3>3
  <2>4. ASSUME NEW z \in Timed' PROVE ts'[z][1] < UINT64_MAX /\ Ticked(ts[z][2])'
    <3>1. CASE z \in Timed
      <4>1. z # x /\ z \in Items
        BY <1>1, <1>5, <3>1, TimedFact
      <4>2. PICK n \in Nat : n = ts[z][2] /\ n = ts'[z][2]
        BY <1>7, <1>11, <4>1
      <4>3. ts[z][1] < UINT64_MAX /\ Ticked(n)
        BY <1>1, <3>1, <4>2 DEF TsInv
      <4>4. Ticked(n)'
        BY <1>1, <1>10, <4>3, TickGrows
      <4>. QED BY <1>7, <4>1, <4>2, <4>3, <4>4 DEF Ticked
    <3>2. CASE z \notin Timed
      <4>1. z = x /\ ~FirstPart(t)
        BY <1>8, <2>4, <3>2
      <4>2. ts'[x][2] = now
        BY <1>7, <4>1
      <4>3. Ticked(now)
        <5>1. kind = "stutter" => \E j \in DOMAIN Thread[kind] : t = Thread[kind][j]
          BY <1>1, <1>5 DEF StampInv
        <5>. QED BY <1>6, <5>1 DEF Ticked
      <4>4. Ticked(now)'
        BY <1>1, <1>10, <4>3, TickGrows
      <4>. QED BY <1>12, <1>13, <4>1, <4>2, <4>4 DEF Ticked
    <3>. QED BY <3>1, <3>2
  <2>. QED BY <2>1, <2>2, <2>3, <2>4 DEF TsInv
<1>16. TimeGrows
  <2>1. Timed \subseteq Timed' /\ \A z \in Timed : ts'[z] = ts[z]
    BY <1>1, <1>5, <1>7, <1>8, TimedFact
  <2>2. \A z \in Items : ts[z][1] < UINT64_MAX => ts'[z][1] = ts[z][1]
    BY <1>6, <1>7, UIntFact
  <2>3. ASSUME kind = "interval", NEW z \in Items, NEW n \in Nat, SecondLater(z, n)
        PROVE  SecondLater(z, n)'
    <3>1. n <= ts[z][2] /\ (z = x /\ Half(t) => n <= now)
      BY <1>2, <1>3, <1>4, <2>3 DEF SecondLater
    <3>2. n <= ts'[z][2]
      <4>1. CASE z # x
        BY <1>7, <3>1, <4>1
      <4>2. CASE z = x /\ Half(t)
        BY <1>7, <3>1, <4>2 DEF FirstPart
      <4>3. CASE z = x /\ ~Half(t)
        BY <1>6, <1>7, <2>3, <3>1, <4>3, UIntFact DEF FirstPart
      <4>. QED BY <4>1, <4>2, <4>3
    <3>3. \A u \in Threads : th'[u].pc = "S_store" => th'[u] = th[u]
      BY <1>7, <1>8
    <3>. QED BY <1>7, <2>3, <3>2, <3>3 DEF SecondLater, Half
  <2>. QED BY <1>10, <2>1, <2>2, <2>3 DEF TimeGrows
<1>17. ClockInv'
  <2>1. PICK A \in SUBSET Inserted, B \in SUBSET Inserted :
          /\ kind # "stutter" => clock <= 1 + Cardinality(A) + Cardinality(B)
          /\ kind = "stutter" => \A c \in Threads : clocks[c] <= 1 + Cardinality(A)
          /\ \A u \in Threads : CountedInv(u, A, B)
    BY <1>1 DEF ClockInv
  <2>2. CountedInv(t, A, B)'
    <3>1. kind = "stutter" => th'[t].now <= 1 + Cardinality(A)
      BY <1>1, <1>7, <2>1, CountFact
    <3>2. FirstPart(t) => x \notin B /\ Half(t)'
      BY <1>2, <1>3, <1>7, <2>1 DEF CountedInv, FirstPart, Half
    <3>3. th'[t].pc \in StampPcs => FirstPart(t) /\ th'[t].pc = "S_read"
      BY <1>7 DEF StampPcs
    <3>. QED BY <1>7, <3>1, <3>2, <3>3 DEF CountedInv, StampPcs
  <2>3. \A u \in Threads : u # t => CountedInv(u, A, B)'
    BY <1>7, <1>8, <2>1 DEF CountedInv, Half
  <2>. QED BY <1>7, <1>8, <2>1, <2>2, <2>3 DEF ClockInv
<1>18. StampInv(t)'
  <2>1. th'[t].op = "put" /\ kind = "stutter" => \E j \in DOMAIN Thread[kind] : t = Thread[kind][j]
    BY <1>1, <1>5 DEF StampInv
  <2>2. CASE FirstPart(t)
    <3>1. Half(t)' /\ kind' = "interval" /\ th'[t].pc = "S_read"
      BY <1>7, <2>2 DEF FirstPart, Half
    <3>2. ts'[x][1] < ReadClock' /\ ts'[x][1] < UINT64_MAX /\ ts'[x][2] = UINT64_MAX
      BY <1>6, <1>7, <1>9, <2>2 DEF FirstPart
    <3>. QED BY <1>7, <3>1, <3>2 DEF StampInv
  <2>3. CASE ~FirstPart(t)
    <3>1. th'[t].pc \notin StampPcs
      BY <1>7, <2>3 DEF StampPcs
    <3>. QED BY <1>7, <2>1, <3>1, StampLeft
  <2>. QED BY <2>2, <2>3
<1>. QED BY <1>8, <1>10, <1>15, <1>16, <1>17, <1>18 DEF TimeInv

LEMMA StampTime ==
  ASSUME IInv1, IInv1', TimeInv, NEW t \in Threads, World(t), Stamp(t)
  PROVE  TimeInv' /\ TimeGrows /\ late' = late /\ start' = start /\ th'[t].op = "put"
<1>1. SetTimestamp(t) /\ Observe(t, Held)
  BY DEF Stamp
<1>2. TimeInv' /\ TimeGrows /\ Kept /\ th'[t].op = "put"
  BY <1>1, TakeStampTime, TakeLatestTime, SetClockTime, StoreStampTime DEF SetTimestamp
<1>. QED BY <1>2 DEF Kept

-----------------------------------------------------------------------------
\* What a pop knows of the stamps and of the lists stays true.

LEMMA DoneFact ==
  ASSUME IInv1, NEW x \in done
  PROVE  x \in Items /\ x \in Inserted /\ x \in Timed
BY TimedFact, InsertedItems DEF IInv1

LEMMA DoneSame ==
  ASSUME IInv1, TimeGrows, NEW t \in Threads, World(t), NEW x \in done
  PROVE  ts'[x] = ts[x] /\ older'[x] = older[x]
BY DoneFact DEF TimeGrows, World

LEMMA RecallsKept ==
  ASSUME IInv1, TypeOK', TimeGrows, NEW t \in Threads, World(t), NEW u \in Threads, start'[u] = start[u],
         StartDone(u) \subseteq done, NEW r \in Locals, r.pc = "stamp" => r.cand \in Items,
         Recalls(u, r)
  PROVE  Recalls(u, r)'
<1>1. PICK S : S = StartDone(u)
  OBVIOUS
<1>2. StartDone(u)' = S
  BY <1>1 DEF StartDone
<1>3. \A x \in S : ts'[x] = ts[x]
  BY <1>1, DoneSame
<1>4. TypeOK /\ kind' = kind /\ ReadClock <= ReadClock' /\ ReadClock \in Nat /\ ReadClock' \in Nat
      /\ r.now \in Nat
  BY TimeTypes, ReadClockNext DEF IInv1, TimeGrows, ClocksGrow, Locals
<1>5. r.pc \in RoundPcs \cup {"start", "take"} =>
        /\ \A x \in S : ts'[x][2] <= r.now
        /\ kind # "stutter" => r.now <= ReadClock'
  <2>1. r.pc \in RoundPcs \cup {"start", "take"} =>
          /\ \A x \in S : ts[x][2] <= r.now
          /\ kind # "stutter" => r.now <= ReadClock
    BY <1>1 DEF Recalls
  <2>2. r.now <= ReadClock => r.now <= ReadClock'
    BY <1>4
  <2>. QED BY <1>3, <2>1, <2>2
<1>6. r.best # NoBest /\ r.best.item \in S => r.best.stamp = ts'[r.best.item]
  BY <1>1, <1>3 DEF Recalls
<1>7. ASSUME r.pc = "stamp", kind = "interval", r.i = 1
      PROVE  \/ r.stamp[1] = ts'[r.cand][1] /\ r.stamp[1] < UINT64_MAX
             \/ r.stamp[1] = UINT64_MAX /\ r.cand \notin S /\ SecondLater(r.cand, r.now)'
  <2>1. CASE r.stamp[1] = ts[r.cand][1] /\ r.stamp[1] < UINT64_MAX
    BY <1>7, <2>1 DEF TimeGrows
  <2>2. CASE r.stamp[1] = UINT64_MAX /\ r.cand \notin S /\ SecondLater(r.cand, r.now)
    <3>1. r.now <= ReadClock
      BY <1>7 DEF Recalls, RoundPcs, LookPcs
    <3>2. PICK c \in Items, n \in Nat : c = r.cand /\ n = r.now
      BY <1>4, <1>7
    <3>3. SecondLater(c, n)'
      BY <1>7, <2>2, <3>1, <3>2 DEF TimeGrows
    <3>. QED BY <2>2, <3>2, <3>3
  <2>. QED BY <1>1, <1>7, <2>1, <2>2 DEF Recalls
<1>. QED BY <1>2, <1>4, <1>5, <1>6, <1>7 DEF Recalls

LEMMA LeftThreads ==
  ASSUME NEW r, r.pc = "top" => r.cur \in Threads
  PROVE  Left(r) \subseteq Threads
<1>1. \A s, b : Rest(s, b) \subseteq Threads
  BY AfterThreads DEF Rest, Registered
<1>2. Registered \subseteq Threads
  BY RegisteredThreads
<1>. QED BY <1>1, <1>2 DEF Left

LEMMA PassesKept ==
  ASSUME IInv1, TimeGrows, NEW t \in Threads, World(t), NEW u \in Threads, start'[u] = start[u],
         StartDone(u) \subseteq done, NEW r, r.pc \in {"top", "list"} => r.cur \in Threads,
         r.pc \in {"walk", "stamp", "eliminate"} => Chain(r.cand)' = Chain(r.cand),
         Left(r) \subseteq Left(r)', Passes(u, r)
  PROVE  Passes(u, r)'
<1>1. PICK S : S = StartDone(u)
  OBVIOUS
<1>2. StartDone(u)' = S
  BY <1>1 DEF StartDone
<1>3. \A x \in S : ts'[x] = ts[x] /\ older'[x] = older[x]
  BY <1>1, DoneSame
<1>4. taken \subseteq taken' /\ \A b \in Threads : Chain(list[b].item) \ taken' \subseteq Chain(list[b].item)'
  BY DEF World, Grows
<1>5. \A x : Newest(u, x) => Newest(u, x)'
  BY <1>1, <1>2, <1>3, <1>4 DEF Newest
<1>6. ASSUME NEW x \in S \ taken', Meets(r, x) PROVE Meets(r, x)'
  <2>1. CASE \E b \in Left(r) : x \in Chain(list[b].item)
    <3>1. PICK b \in Left(r) : x \in Chain(list[b].item)
      BY <2>1
    <3>2. b \in Threads
      BY LeftThreads
    <3>3. x \in Chain(list[b].item)'
      BY <1>4, <1>6, <3>1, <3>2
    <3>. QED BY <3>1, <3>3 DEF Meets
  <2>2. CASE r.pc = "list" /\ x \in Chain(list[r.cur].item)
    <3>1. PICK b \in Threads : b = r.cur
      BY <2>2
    <3>2. x \in Chain(list[b].item)'
      BY <1>4, <1>6, <2>2, <3>1
    <3>. QED BY <2>2, <3>1, <3>2 DEF Meets
  <2>3. CASE r.pc \in {"walk", "stamp", "eliminate"} /\ x \in Chain(r.cand)
    BY <2>3 DEF Meets
  <2>. QED BY <1>6, <2>1, <2>2, <2>3 DEF Meets
<1>7. r.pc \in RoundPcs => \A x \in S \ taken' : Meets(r, x)' \/ Matched(r, x)'
  <2>1. ASSUME r.pc \in RoundPcs, NEW x \in S \ taken' PROVE Meets(r, x)' \/ Matched(r, x)'
    <3>1. Meets(r, x) \/ Matched(r, x)
      BY <1>1, <1>4, <2>1 DEF Passes
    <3>2. Matched(r, x) => Matched(r, x)'
      BY <1>3, <2>1 DEF Matched
    <3>. QED BY <1>6, <2>1, <3>1, <3>2
  <2>. QED BY <2>1
<1>8. /\ r.pc = "eliminate" => Newest(u, r.cand)'
      /\ r.pc = "take" => Newest(u, r.best.item)'
      /\ r.op = "get" /\ r.item # Null => Newest(u, r.item)'
  BY <1>5 DEF Passes
<1>. QED BY <1>2, <1>7, <1>8 DEF Passes

\* The threads that do not move.
LEMMA PopOthers ==
  ASSUME IInv1, IInv1', TimeGrows, NEW t \in Threads, World(t), NEW u \in Threads, u # t,
         start'[u] = start[u], PopInv(u), PassInv(u)
  PROVE  PopInv(u)' /\ PassInv(u)'
<1>1. TypeOK /\ TypeOK' /\ RememberInv(u) /\ RoundInv(u)
  BY DEF IInv1
<1>2. PICK r \in Locals : r = th[u]
  BY <1>1 DEF TypeOK
<1>3. th'[u] = r /\ Left(r) \subseteq Left(r)'
  <2>1. th'[u] = th[u] /\ Left(th[u]) \subseteq Left(th[u])'
    BY DEF World
  <2>. QED BY <1>2, <2>1
<1>4. CASE r.op # "get"
  <2>1. PcInv(u)
    BY DEF IInv1
  <2>2. r.pc \notin RoundPcs \cup {"eliminate", "take"}
    BY <1>2, <1>4, <2>1 DEF PcInv, Locals, PushPcs, StampPcs, RoundPcs, LookPcs
  <2>. QED BY <1>3, <1>4, <2>2 DEF PopInv, PassInv, Passes
<1>5. CASE r.op = "get"
  <2>1. /\ StartDone(u) \subseteq done /\ \A x \in StartDone(u) : older[x] \subseteq StartDone(u)
        /\ r.pc = "time" => \A x \in StartDone(u) : WillTick(u, ts[x][2])
        /\ Recalls(u, r) /\ Passes(u, r)
    BY <1>2, <1>5 DEF PopInv, PassInv
  <2>2. r.pc \in {"top", "list"} => r.cur \in Threads
    BY <1>1, <1>2, RegisteredThreads DEF RoundInv, LookPcs
  <2>3. r.pc \in {"walk", "stamp", "eliminate"} => Chain(r.cand)' = Chain(r.cand)
    BY <1>1, <1>2 DEF RememberInv, Known, World, Grows
  <2>4. r.pc = "stamp" => r.cand \in Items
    BY <1>1, <1>2 DEF RememberInv
  <2>5. Recalls(u, r)'
    BY <1>1, <2>1, <2>4, RecallsKept
  <2>6. Passes(u, r)'
    BY <1>3, <2>1, <2>2, <2>3, PassesKept
  <2>7. PICK S : S = StartDone(u)
    OBVIOUS
  <2>8. StartDone(u)' = S
    BY <2>7 DEF StartDone
  <2>9. S \subseteq done' /\ \A x \in S : older'[x] \subseteq S
    BY <2>1, <2>7, DoneSame DEF World
  <2>10. ASSUME r.pc = "time", NEW x \in S PROVE WillTick(u, ts[x][2])'
    <3>1. x \in Items /\ ts'[x] = ts[x]
      BY <2>1, <2>7, <2>10, DoneFact, DoneSame
    <3>2. PICK n \in Nat : n = ts[x][2]
      BY <1>1, <3>1, TimeTypes
    <3>3. WillTick(u, n)
      BY <2>1, <2>7, <2>10, <3>2
    <3>4. th'[u] = th[u]
      BY <1>2, <1>3
    <3>5. WillTick(u, n)'
      BY <1>1, <3>3, <3>4, TickGrows DEF TimeGrows
    <3>. QED BY <3>1, <3>2, <3>5
  <2>. QED BY <1>3, <2>5, <2>6, <2>8, <2>9, <2>10 DEF PopInv, PassInv
<1>. QED BY <1>4, <1>5

-----------------------------------------------------------------------------
\* The steps of a pop.

\* The locals q of t after a step, by what is known before it.
Good(t, q) == q.pc # "time" /\ Recalls(t, q) /\ Passes(t, q)

LEMMA RegisteredNext == (Registered \subseteq Threads)'
<1>1. Registered \subseteq Threads
  BY RegisteredThreads
<1>. QED BY <1>1, PTL

LEMMA PopStep ==
  ASSUME IInv1, IInv1', TimeGrows, NEW t \in Threads, World(t), start'[t] = start[t],
         link' = link, next' = next, th[t].op = "get", PopInv(t),
         NEW q, th'[t] = q, Good(t, q)
  PROVE  PopInv(t)' /\ PassInv(t)'
<1>1. q \in Locals /\ TypeOK' /\ RememberInv(t)' /\ RoundInv(t)'
  BY DEF IInv1, TypeOK
<1>2. q.pc \in {"top", "list"} => q.cur \in Threads
  BY <1>1, RegisteredNext DEF RoundInv, LookPcs
<1>3. q.pc = "stamp" => q.cand \in Items
  BY <1>1 DEF RememberInv
<1>4. StartDone(t) \subseteq done /\ \A x \in StartDone(t) : older[x] \subseteq StartDone(t)
  BY DEF PopInv
<1>5. q.pc # "time" /\ Recalls(t, q) /\ Passes(t, q)
  BY DEF Good
<1>6. Recalls(t, q)'
  BY <1>1, <1>3, <1>4, <1>5, RecallsKept
<1>7. Passes(t, q)'
  <2>1. \A x : Chain(x)' = Chain(x)
    BY DEF Chain
  <2>2. Left(q)' = Left(q)
    BY LeftKept
  <2>. QED BY <1>2, <1>4, <1>5, <2>1, <2>2, PassesKept
<1>8. PICK S : S = StartDone(t)
  OBVIOUS
<1>9. StartDone(t)' = S
  BY <1>8 DEF StartDone
<1>10. S \subseteq done' /\ \A x \in S : older'[x] \subseteq S
  BY <1>4, <1>8, DoneSame DEF World
<1>. QED BY <1>5, <1>6, <1>7, <1>9, <1>10 DEF PopInv, PassInv

\* What a pop in a round knows.
LEMMA RoundFact ==
  ASSUME IInv1, TimeInv, NEW t \in Threads, PopInv(t), PassInv(t),
         th[t].pc \in RoundPcs \cup {"start", "take"}
  PROVE  /\ StartDone(t) \subseteq done /\ \A x \in StartDone(t) : older[x] \subseteq StartDone(t)
         /\ \A x \in StartDone(t) :
              /\ x \in Items /\ x \in Timed /\ ts[x] \in Nat \X Nat
              /\ ts[x][1] \in Nat /\ ts[x][2] \in Nat
              /\ ts[x][1] < UINT64_MAX /\ ts[x][1] <= ts[x][2] /\ ts[x][2] <= th[t].now
              /\ \A y \in older[x] : ts[y][2] < ts[x][1]
         /\ kind # "stutter" => th[t].now <= ReadClock
         /\ th[t].now \in Nat
         /\ th[t].best # NoBest /\ th[t].best.item \in StartDone(t) =>
              th[t].best.stamp = ts[th[t].best.item]
         /\ th[t].pc \in RoundPcs =>
              \A x \in StartDone(t) \ taken : Meets(th[t], x) \/ Matched(th[t], x)
<1>1. th[t].op = "get" /\ th[t].now \in Nat /\ TypeOK
  <2>1. th[t].pc \in PopPcs
    BY DEF PopPcs
  <2>. QED BY <2>1, PopFact DEF Locals, IInv1
<1>2. StartDone(t) \subseteq done /\ (\A x \in StartDone(t) : older[x] \subseteq StartDone(t)) /\ Recalls(t, th[t])
  BY <1>1 DEF PopInv
<1>3. ASSUME NEW x \in StartDone(t)
      PROVE  /\ x \in Items /\ x \in Timed /\ ts[x] \in Nat \X Nat
             /\ ts[x][1] \in Nat /\ ts[x][2] \in Nat
             /\ ts[x][1] < UINT64_MAX /\ ts[x][1] <= ts[x][2] /\ ts[x][2] <= th[t].now
             /\ \A y \in older[x] : ts[y][2] < ts[x][1]
  <2>1. x \in Items /\ x \in Timed
    BY <1>2, <1>3, DoneFact
  <2>2. ts[x] \in Nat \X Nat /\ ts[x][1] \in Nat /\ ts[x][2] \in Nat
    BY <1>1, <2>1, TimeTypes
  <2>3. ts[x][1] < UINT64_MAX /\ ts[x][1] <= ts[x][2] /\ \A y \in older[x] : ts[y][2] < ts[x][1]
    BY <2>1 DEF TimeInv, TsInv
  <2>4. ts[x][2] <= th[t].now
    BY <1>2, <1>3 DEF Recalls
  <2>. QED BY <2>1, <2>2, <2>3, <2>4
<1>4. /\ kind # "stutter" => th[t].now <= ReadClock
      /\ th[t].best # NoBest /\ th[t].best.item \in StartDone(t) =>
           th[t].best.stamp = ts[th[t].best.item]
  BY <1>2 DEF Recalls
<1>5. th[t].pc \in RoundPcs => \A x \in StartDone(t) \ taken : Meets(th[t], x) \/ Matched(th[t], x)
  BY DEF PassInv, Passes
<1>. QED BY <1>1, <1>2, <1>3, <1>4, <1>5

\* An item whose stamp is later than that of everything the pop could take.
LEMMA NewestFact ==
  ASSUME IInv1, TimeInv, NEW t \in Threads, PopInv(t), PassInv(t),
         th[t].pc \in RoundPcs \cup {"start", "take"}, NEW y,
         y \in StartDone(t) => \A x \in StartDone(t) \ taken : ts[x][1] <= ts[y][2]
  PROVE  Newest(t, y)
<1>1. SUFFICES ASSUME NEW x \in StartDone(t) \ taken, y \in older[x] PROVE FALSE
  BY DEF Newest
<1>2. y \in StartDone(t)
  BY <1>1, RoundFact
<1>3. ts[y][2] < ts[x][1] /\ ts[x][1] <= ts[y][2] /\ ts[y][2] \in Nat /\ ts[x][1] \in Nat
  BY <1>1, <1>2, RoundFact
<1>. QED BY <1>3

\* t leaves a buffer with the locals r, for s: the items in the lists of S are yet to
\* be met.
LEMMA LeavesGood ==
  ASSUME IInv1, TimeInv, NEW t \in Threads, PopInv(t), PassInv(t),
         th[t].pc \in RoundPcs \cup {"start"}, NEW r, NEW s, Leaves(r, s), r.now = th[t].now,
         NEW S, \A x \in StartDone(t) \ taken :
                  (\E b \in S : x \in Chain(list[b].item)) \/ Matched(r, x),
         s.pc \in {"top", "entry"} => S \subseteq Left(s),
         s.pc = "take" => S = {},
         r.best # NoBest /\ r.best.item \in StartDone(t) => r.best.stamp = ts[r.best.item]
  PROVE  Good(t, s)
<1>1. s.pc \in {"top", "entry", "take", "return", "start"} /\ s.item = Null
  BY DEF Leaves
<1>2. s.best = r.best \/ s.best = NoBest
  BY DEF Leaves
<1>3. Recalls(t, s)
  <2>1. /\ \A x \in StartDone(t) : ts[x][2] <= th[t].now
        /\ kind # "stutter" => th[t].now <= ReadClock
    BY RoundFact
  <2>2. s.pc \in RoundPcs \cup {"start", "take"} => s.now = th[t].now
    BY <1>1 DEF Leaves, RoundPcs, LookPcs
  <2>. QED BY <1>1, <1>2, <2>1, <2>2 DEF Recalls
<1>4. s.pc \in RoundPcs => \A x \in StartDone(t) \ taken : Meets(s, x) \/ Matched(s, x)
  <2>1. ASSUME s.pc \in {"top", "entry"}, NEW x \in StartDone(t) \ taken
        PROVE  Meets(s, x) \/ Matched(s, x)
    <3>1. s.best = r.best /\ S \subseteq Left(s)
      BY <2>1 DEF Leaves
    <3>2. Matched(r, x) => Matched(s, x)
      BY <3>1 DEF Matched
    <3>3. (\E b \in S : x \in Chain(list[b].item)) => Meets(s, x)
      BY <3>1 DEF Meets
    <3>. QED BY <2>1, <3>2, <3>3
  <2>. QED BY <1>1, <2>1 DEF RoundPcs, LookPcs
<1>5. s.pc = "take" => Newest(t, s.best.item)
  <2>1. SUFFICES ASSUME s.pc = "take" PROVE Newest(t, r.best.item)
    BY DEF Leaves
  <2>2. \A x \in StartDone(t) \ taken : ts[x][1] <= r.best.stamp[2]
    BY <2>1 DEF Matched
  <2>3. r.best # NoBest
    BY <2>1 DEF Leaves
  <2>4. r.best.item \in StartDone(t) =>
          \A x \in StartDone(t) \ taken : ts[x][1] <= ts[r.best.item][2]
    BY <2>2, <2>3
  <2>. QED BY <2>4, NewestFact
<1>6. Passes(t, s)
  BY <1>1, <1>4, <1>5 DEF Passes
<1>. QED BY <1>1, <1>3, <1>6 DEF Good

\* A buffer is left behind.
LEMMA ScannedGood ==
  ASSUME IInv1, TimeInv, NEW t \in Threads, PopInv(t), PassInv(t), th[t].pc \in LookPcs,
         NEW r \in Locals, r.op = "get", r.item = Null, r.i = 0, r.now = th[t].now,
         r.cur = th[t].cur, r.start = th[t].start,
         \A x \in StartDone(t) \ taken : (\E b \in Left(th[t]) : x \in Chain(list[b].item)) \/ Matched(r, x),
         r.best # NoBest /\ r.best.item \in StartDone(t) => r.best.stamp = ts[r.best.item],
         NEW s, s = Scanned(t, r)
  PROVE  Good(t, s)
<1>1. th[t].pc \in RoundPcs /\ th[t].pc \in PopPcs
  BY DEF RoundPcs, PopPcs
<1>2. TypeOK /\ RingInv /\ r.cur \in Registered /\ r.start \in Registered \cup {Entry}
  BY <1>1, PopFact DEF IInv1, RoundInv
<1>3. Leaves(r, s) /\ (s.pc \in {"top", "entry"} => r.cur # r.start)
  BY <1>2, ScannedFact
<1>4. PICK S : S = Rest(r.start, r.cur)
  OBVIOUS
<1>5. Left(th[t]) = S
  BY <1>4, LeftFact
<1>6. S # {} => s.pc \in {"top", "entry"} /\ S \subseteq Left(s)
  BY <1>2, <1>3, <1>4, ScanFinds
<1>7. (s.pc \in {"top", "entry"} => S \subseteq Left(s)) /\ (s.pc = "take" => S = {})
  BY <1>6
<1>. QED BY <1>1, <1>3, <1>5, <1>7, LeavesGood

\* The step of t leaves it with locals that are good.
WellDone(t) == \E q : th'[t] = q /\ Good(t, q)

LEMMA StartLeft ==
  ASSUME TypeOK, NEW s \in Registered \cup {Entry}, NEW r, r.cur = s, r.start = s,
         NEW q, Leaves(r, q), q.pc \in {"top", "entry"}
  PROVE  Registered \subseteq Left(q)
<1>1. CASE q.pc = "top"
  <2>1. link[s] # Entry /\ q.cur = link[s] /\ q.start = s
    BY <1>1 DEF Leaves
  <2>2. Left(q) = {link[s]} \cup Rest(s, link[s])
    BY <1>1, <2>1, LeftFact
  <2>3. CASE s = Entry
    BY <2>1, <2>2, <2>3, RoundNext
  <2>4. CASE s \in Registered
    BY <2>1, <2>2, <2>4, RoundFirst
  <2>. QED BY <2>3, <2>4
<1>2. CASE q.pc = "entry"
  <2>1. link[s] = Entry /\ s # Entry /\ q.start = s
    BY <1>2 DEF Leaves
  <2>2. Left(q) = Registered \ After(s)
    BY <1>2, <2>1, LeftFact
  <2>. QED BY <2>1, <2>2, RoundFirst
<1>. QED BY <1>1, <1>2

\* What is put and not taken is in the list of a buffer in the ring.
LEMMA DoneListed ==
  ASSUME IInv1, NEW x \in done \ taken
  PROVE  \E b \in Registered : x \in Chain(list[b].item)
<1>1. x \in Inserted \ taken
  BY DoneFact
<1>2. PICK b \in Threads : x \in Chain(list[b].item)
  BY <1>1 DEF IInv1, ListInv
<1>3. b \in Registered
  BY <1>2, ChainNull DEF IInv1, RingInv
<1>. QED BY <1>2, <1>3

LEMMA RemoveStartPass ==
  ASSUME IInv1, TimeInv, NEW t \in Threads, PopInv(t), PassInv(t), RemoveStart(t)
  PROVE  WellDone(t)
<1>1. th[t].pc = "start" /\ TypeOK
  BY DEF RemoveStart, At, IInv1
<1>2. PICK s \in Starts : Becomes(t, Ahead(t, [NewRound(t, "start") EXCEPT !.cur = s, !.start = s]))
  BY Zenon DEF RemoveStart, Becomes
<1>3. s \in Registered \cup {Entry} /\ s \in Buffers
  BY <1>2, AfterThreads DEF Starts, Registered, Buffers
<1>4. PICK o : o = NewRound(t, "start")
  OBVIOUS
<1>5. /\ o \in Locals /\ o.op = "get" /\ o.item = Null /\ o.i = 0 /\ o.now = th[t].now
      /\ o.best = NoBest
  BY <1>1, <1>4, NewRoundType DEF Pcs, PopPcs
<1>6. PICK r : r = [o EXCEPT !.cur = s, !.start = s]
  OBVIOUS
<1>7. /\ r \in Locals /\ r.op = "get" /\ r.item = Null /\ r.i = 0 /\ r.now = th[t].now
      /\ r.best = NoBest /\ r.cur = s /\ r.start = s
  BY <1>3, <1>5, <1>6 DEF Locals
<1>8. PICK q : q = Ahead(t, r)
  OBVIOUS
<1>9. Leaves(r, q)
  BY <1>1, <1>7, <1>8, AheadFact
<1>10. Becomes(t, q) /\ q \in Locals
  BY <1>2, <1>4, <1>6, <1>8, <1>9 DEF Leaves
<1>11. th'[t] = q
  BY <1>1, <1>10, BecomesFact
<1>12. \A x \in StartDone(t) \ taken : \E b \in Registered : x \in Chain(list[b].item)
  <2>1. StartDone(t) \subseteq done
    BY <1>1, RoundFact
  <2>. QED BY <2>1, DoneListed
<1>13. q.pc \in {"top", "entry"} => Registered \subseteq Left(q)
  BY <1>1, <1>3, <1>7, <1>9, StartLeft
<1>14. q.pc # "take"
  BY <1>7, <1>9 DEF Leaves
<1>15. Good(t, q)
  BY <1>1, <1>7, <1>9, <1>12, <1>13, <1>14, LeavesGood
<1>. QED BY <1>11, <1>15 DEF WellDone

LEMMA RemoveNextPass ==
  ASSUME IInv1, TimeInv, NEW t \in Threads, PopInv(t), PassInv(t), RemoveNext(t)
  PROVE  WellDone(t)
<1>1. th[t].pc = "entry" /\ th[t].pc \in PopPcs /\ th[t].pc \in RoundPcs
  BY DEF RemoveNext, At, PopPcs, RoundPcs
<1>2. PICK r : r = th[t]
  OBVIOUS
<1>3. /\ TypeOK /\ r \in Locals /\ r.op = "get" /\ r.item = Null /\ r.i = 0 /\ r.now = th[t].now
  BY <1>1, <1>2, PopFact DEF IInv1
<1>4. r.cur = Entry /\ r.start # Entry /\ r.start \in Registered
  BY <1>1, <1>2, PopFact DEF RoundInv
<1>5. link[Entry] # Entry
  BY <1>3, <1>4, AfterStep DEF Registered, Buffers
<1>6. PICK q : q = Ahead(t, r)
  OBVIOUS
<1>7. Leaves(r, q) /\ q.pc \in {"top", "entry"}
  BY <1>3, <1>4, <1>6, AheadFact
<1>8. q \in Locals /\ q.pc = "top" /\ q.cur = link[Entry] /\ q.start = r.start
  BY <1>4, <1>5, <1>7 DEF Leaves
<1>9. Becomes(t, q)
  BY <1>2, <1>6 DEF RemoveNext, Becomes
<1>10. th'[t] = q
  BY <1>3, <1>8, <1>9, BecomesFact
<1>11. PICK S : S = Left(r)
  OBVIOUS
<1>12. S \subseteq Left(q)
  <2>1. Left(q) = {link[Entry]} \cup Rest(r.start, link[Entry])
    BY <1>8, LeftFact
  <2>2. S = Registered \ After(r.start)
    BY <1>1, <1>2, <1>11, LeftFact
  <2>. QED BY <1>3, <1>4, <1>5, <2>1, <2>2, RoundNext
<1>13. \A x \in StartDone(t) \ taken : (\E b \in S : x \in Chain(list[b].item)) \/ Matched(r, x)
  BY <1>1, <1>2, <1>11, RoundFact DEF Meets
<1>14. r.best # NoBest /\ r.best.item \in StartDone(t) => r.best.stamp = ts[r.best.item]
  BY <1>1, <1>2, RoundFact
<1>15. Good(t, q)
  BY <1>1, <1>3, <1>7, <1>8, <1>12, <1>13, <1>14, LeavesGood
<1>. QED BY <1>10, <1>15 DEF WellDone

\* A step within a buffer.
LEMMA StayGood ==
  ASSUME IInv1, TimeInv, NEW t \in Threads, PopInv(t), PassInv(t), th[t].pc \in RoundPcs,
         NEW q, q.pc \in RoundPcs \ {"eliminate"}, q.pc = "stamp" => q.i = 0,
         q.item = Null, q.now = th[t].now, q.best = th[t].best,
         \A x \in StartDone(t) \ taken : Meets(th[t], x) => Meets(q, x)
  PROVE  Good(t, q)
<1>1. Recalls(t, q)
  <2>1. /\ \A x \in StartDone(t) : ts[x][2] <= q.now
        /\ kind # "stutter" => q.now <= ReadClock
        /\ q.best # NoBest /\ q.best.item \in StartDone(t) => q.best.stamp = ts[q.best.item]
    BY RoundFact
  <2>. QED BY <2>1 DEF Recalls
<1>2. Passes(t, q)
  <2>1. \A x \in StartDone(t) \ taken : Meets(th[t], x) \/ Matched(th[t], x)
    BY RoundFact
  <2>2. \A x : Matched(th[t], x) => Matched(q, x)
    BY DEF Matched
  <2>3. \A x \in StartDone(t) \ taken : Meets(q, x) \/ Matched(q, x)
    BY <2>1, <2>2
  <2>. QED BY <2>3 DEF Passes, RoundPcs, LookPcs
<1>. QED BY <1>1, <1>2 DEF Good, RoundPcs, LookPcs

LEMMA RemoveTopPass ==
  ASSUME IInv1, TimeInv, NEW t \in Threads, PopInv(t), PassInv(t), RemoveTop(t)
  PROVE  WellDone(t)
<1>1. th[t].pc = "top" /\ th[t].pc \in PopPcs /\ th[t].pc \in RoundPcs
  BY DEF RemoveTop, At, PopPcs, RoundPcs
<1>2. PICK q : q = [th[t] EXCEPT !.pc = "list", !.top = list[th[t].cur]]
  OBVIOUS
<1>3. TypeOK /\ th[t] \in Locals /\ th[t].item = Null
  BY <1>1, PopFact DEF IInv1
<1>4. q.pc = "list" /\ q.item = Null /\ q.now = th[t].now /\ q.best = th[t].best
      /\ q.cur = th[t].cur /\ q.start = th[t].start
  BY <1>2, <1>3 DEF Locals
<1>5. th'[t] = q
  BY <1>2, <1>3 DEF RemoveTop, TypeOK
<1>6. Left(th[t]) = {q.cur} \cup Left(q)
  BY <1>1, <1>4, LeftFact DEF LookPcs
<1>7. \A x : Meets(th[t], x) => Meets(q, x)
  BY <1>1, <1>4, <1>6 DEF Meets
<1>8. q.pc \in RoundPcs \ {"eliminate"} /\ q.pc # "stamp"
  BY <1>4 DEF RoundPcs, LookPcs
<1>9. Good(t, q)
  BY <1>1, <1>4, <1>7, <1>8, StayGood
<1>. QED BY <1>5, <1>9 DEF WellDone

LEMMA RemoveListPass ==
  ASSUME IInv1, TimeInv, NEW t \in Threads, PopInv(t), PassInv(t), RemoveList(t)
  PROVE  WellDone(t)
<1>1. th[t].pc = "list" /\ th[t].pc \in PopPcs /\ th[t].pc \in RoundPcs /\ th[t].pc \in LookPcs
  BY DEF RemoveList, At, PopPcs, RoundPcs, LookPcs
<1>2. PICK q : q = [th[t] EXCEPT !.pc = "walk", !.cand = list[th[t].cur].item]
  OBVIOUS
<1>3. TypeOK /\ th[t] \in Locals /\ th[t].item = Null
  BY <1>1, PopFact DEF IInv1
<1>4. q.pc = "walk" /\ q.item = Null /\ q.now = th[t].now /\ q.best = th[t].best
      /\ q.cur = th[t].cur /\ q.start = th[t].start /\ q.cand = list[th[t].cur].item
  BY <1>2, <1>3 DEF Locals
<1>5. th'[t] = q
  BY <1>2, <1>3 DEF RemoveList, TypeOK
<1>6. Left(th[t]) = Left(q)
  BY <1>1, <1>4, LeftFact DEF LookPcs
<1>7. \A x : Meets(th[t], x) => Meets(q, x)
  BY <1>1, <1>4, <1>6 DEF Meets
<1>8. q.pc \in RoundPcs \ {"eliminate"} /\ q.pc # "stamp"
  BY <1>4 DEF RoundPcs, LookPcs
<1>9. Good(t, q)
  BY <1>1, <1>4, <1>7, <1>8, StayGood
<1>. QED BY <1>5, <1>9 DEF WellDone

LEMMA RemoveWalkPass ==
  ASSUME IInv1, TimeInv, NEW t \in Threads, PopInv(t), PassInv(t), RemoveWalk(t)
  PROVE  WellDone(t)
<1>1. TypeOK
  BY DEF IInv1
<1>2. PICK y : y = FirstUntaken(th[t].cand)
  OBVIOUS
<1>3. /\ th[t].pc = "walk"
      /\ \/ y # Null /\ Becomes(t, WalkFound(t, y))
         \/ y = Null /\ Becomes(t, Scanned(t, WalkEmpty(t)))
  BY <1>1, <1>2, RemoveWalkCases
<1>4. th[t].pc \in PopPcs /\ th[t].pc \in RoundPcs /\ th[t].pc \in LookPcs
  BY <1>3 DEF PopPcs, RoundPcs, LookPcs
<1>5. th[t] \in Locals /\ th[t].op = "get" /\ th[t].item = Null /\ th[t].i = 0
  BY <1>3, <1>4, PopFact
<1>6. /\ Chain(th[t].cand) \ taken \subseteq Chain(y)
      /\ y # Null => y \in Chain(th[t].cand)
      /\ y = Null => Chain(th[t].cand) \subseteq taken
  BY <1>2, FirstUntakenFact
<1>7. CASE y # Null /\ Becomes(t, WalkFound(t, y))
  <2>1. y \in Items
    BY <1>6, <1>7, ChainItems
  <2>2. PICK q : q = WalkFound(t, y)
    OBVIOUS
  <2>3. /\ q \in Locals /\ q.pc = "stamp" /\ q.cand = y /\ q.item = Null /\ q.cur = th[t].cur
        /\ q.start = th[t].start /\ q.i = 0 /\ q.best = th[t].best /\ q.now = th[t].now
    BY <1>5, <2>1, <2>2 DEF WalkFound, Locals, Pcs, PopPcs, RoundPcs, LookPcs
  <2>4. th'[t] = q
    BY <1>1, <1>7, <2>2, <2>3, BecomesFact
  <2>5. Left(th[t]) = Left(q)
    BY <1>3, <2>3, LeftFact DEF LookPcs
  <2>6. ASSUME NEW x \in StartDone(t) \ taken, Meets(th[t], x) PROVE Meets(q, x)
    BY <1>3, <1>6, <2>3, <2>5, <2>6 DEF Meets
  <2>7. q.pc \in RoundPcs \ {"eliminate"}
    BY <2>3 DEF RoundPcs, LookPcs
  <2>8. Good(t, q)
    BY <1>4, <2>3, <2>6, <2>7, StayGood
  <2>. QED BY <2>4, <2>8 DEF WellDone
<1>8. CASE y = Null /\ Becomes(t, Scanned(t, WalkEmpty(t)))
  <2>1. PICK e \in BOOLEAN : e <=> th[t].empty /\ (th[t].again \/ SeenBefore(t))
    OBVIOUS
  <2>2. PICK r : r = WalkEmpty(t)
    OBVIOUS
  <2>3. r = [th[t] EXCEPT !.cand = Null, !.empty = e]
    BY <1>5, <2>1, <2>2 DEF WalkEmpty, Locals
  <2>4. /\ r \in Locals /\ r.op = "get" /\ r.item = Null /\ r.i = 0 /\ r.now = th[t].now
        /\ r.cur = th[t].cur /\ r.start = th[t].start /\ r.best = th[t].best
    BY <1>5, <2>3 DEF Locals
  <2>5. PICK s : s = Scanned(t, r)
    OBVIOUS
  <2>6. Leaves(r, s)
    BY <1>1, <2>4, <2>5, ScannedFact
  <2>7. th'[t] = s
    BY <1>1, <1>8, <2>2, <2>5, <2>6, BecomesFact DEF Leaves
  <2>8. ASSUME NEW x \in StartDone(t) \ taken
        PROVE  (\E b \in Left(th[t]) : x \in Chain(list[b].item)) \/ Matched(r, x)
    <3>1. Meets(th[t], x) \/ Matched(th[t], x)
      BY <1>4, RoundFact
    <3>2. Matched(th[t], x) => Matched(r, x)
      BY <2>4 DEF Matched
    <3>3. Meets(th[t], x) => \E b \in Left(th[t]) : x \in Chain(list[b].item)
      BY <1>3, <1>6, <1>8 DEF Meets
    <3>. QED BY <3>1, <3>2, <3>3
  <2>9. r.best # NoBest /\ r.best.item \in StartDone(t) => r.best.stamp = ts[r.best.item]
    BY <1>4, <2>4, RoundFact
  <2>10. Good(t, s)
    BY <1>4, <2>4, <2>5, <2>8, <2>9, ScannedGood
  <2>. QED BY <2>7, <2>10 DEF WellDone
<1>. QED BY <1>3, <1>7, <1>8

-----------------------------------------------------------------------------
\* The stamp of the item that is looked at.

\* No clock reaches UINT64_MAX.
LEMMA ClockBound == ASSUME IInv1, TimeInv, kind # "stutter" PROVE ReadClock <= UINT64_MAX
<1>1. TypeOK /\ Inserted \subseteq Items
  BY InsertedItems DEF IInv1
<1>2. PICK A \in SUBSET Items, B \in SUBSET Items : clock <= 1 + Cardinality(A) + Cardinality(B)
  BY <1>1 DEF TimeInv, ClockInv
<1>3. PICK n \in Nat, a \in Nat, b \in Nat :
        n = Cardinality(Items) /\ a = Cardinality(A) /\ b = Cardinality(B) /\ a <= n /\ b <= n
  BY CountFact, UIntFact
<1>4. clock \in Nat /\ clock <= 1 + a + b /\ ReadClock \in Nat /\ ReadClock <= 2 * clock + 1
  BY <1>1, <1>2, <1>3, TimeTypes
<1>5. UINT64_MAX = 4 * n + 4
  BY <1>3, UIntFact
<1>. QED BY <1>3, <1>4, <1>5

\* A round that goes on to look at the stamp of an item.
LEMMA StampSeenGood ==
  ASSUME IInv1, TimeInv, NEW t \in Threads, PopInv(t), PassInv(t), th[t].pc = "stamp",
         NEW q, q.pc = "stamp", q.item = Null, q.now = th[t].now, q.best = th[t].best,
         q.cand = th[t].cand, q.cur = th[t].cur, q.start = th[t].start,
         \/ q.stamp[1] = ts[q.cand][1] /\ q.stamp[1] < UINT64_MAX
         \/ q.stamp[1] = UINT64_MAX /\ q.cand \notin StartDone(t) /\ SecondLater(q.cand, q.now)
  PROVE  Good(t, q)
<1>1. th[t].pc \in RoundPcs
  BY DEF RoundPcs, LookPcs
<1>2. Left(th[t]) = Left(q)
  BY LeftFact DEF LookPcs
<1>3. \A x : /\ Meets(th[t], x) => Meets(q, x)
             /\ Matched(th[t], x) => Matched(q, x)
  BY <1>2 DEF Meets, Matched
<1>4. /\ \A x \in StartDone(t) : ts[x][2] <= q.now
      /\ kind # "stutter" => q.now <= ReadClock
      /\ q.best # NoBest /\ q.best.item \in StartDone(t) => q.best.stamp = ts[q.best.item]
      /\ \A x \in StartDone(t) \ taken : Meets(q, x) \/ Matched(q, x)
  BY <1>1, <1>3, RoundFact
<1>5. Recalls(t, q)
  BY <1>4 DEF Recalls
<1>6. Passes(t, q)
  BY <1>4 DEF Passes
<1>. QED BY <1>5, <1>6 DEF Good

\* The first part of a stamp is read.
LEMMA StampPartGood ==
  ASSUME IInv1, TimeInv, NEW t \in Threads, PopInv(t), PassInv(t), th[t].pc = "stamp",
         kind = "interval", NEW p \in Nat \X Nat, p[1] = ts[th[t].cand][1],
         NEW q, q = StampPart(t, p)
  PROVE  Good(t, q)
<1>1. th[t].pc \in PopPcs /\ th[t].pc \in RoundPcs /\ th[t].pc \in LookPcs
  BY DEF PopPcs, RoundPcs, LookPcs
<1>2. TypeOK /\ th[t] \in Locals /\ th[t].op = "get" /\ th[t].item = Null /\ RememberInv(t)
  BY <1>1, PopFact DEF IInv1
<1>3. PICK c \in Items : c = th[t].cand
  BY <1>2 DEF RememberInv
<1>4. /\ q.pc = "stamp" /\ q.cand = c /\ q.item = Null /\ q.cur = th[t].cur /\ q.start = th[t].start
      /\ q.best = th[t].best /\ q.now = th[t].now /\ q.stamp = p
  BY <1>2, <1>3 DEF StampPart, Locals
<1>5. ts[c][1] \in Nat /\ ts[c][2] \in Nat /\ ts[c][1] <= ts[c][2] /\ ts[c][2] <= UINT64_MAX
      /\ UINT64_MAX \in Nat
  BY <1>2, TimeTypes, UIntFact DEF TimeInv, TsInv
<1>6. CASE ts[c][1] = UINT64_MAX
  <2>1. c \notin StartDone(t)
    BY <1>1, <1>5, <1>6, RoundFact
  <2>2. th[t].now <= ts[c][2]
    <3>1. th[t].now <= ReadClock /\ th[t].now \in Nat /\ ReadClock <= UINT64_MAX
      BY <1>1, RoundFact, ClockBound
    <3>2. ReadClock \in Nat
      BY <1>2, TimeTypes
    <3>. QED BY <1>5, <1>6, <3>1, <3>2
  <2>3. \A u \in Threads : ~(th[u].pc = "S_store" /\ th[u].item = c /\ Half(u))
    BY <1>5, <1>6 DEF TimeInv, StampInv, StampPcs
  <2>4. SecondLater(c, th[t].now)
    BY <2>2, <2>3 DEF SecondLater
  <2>. QED BY <1>3, <1>4, <1>6, <2>1, <2>4, StampSeenGood
<1>7. CASE ts[c][1] # UINT64_MAX
  <2>1. ts[c][1] < UINT64_MAX
    BY <1>5, <1>7
  <2>. QED BY <1>3, <1>4, <2>1, StampSeenGood
<1>. QED BY <1>6, <1>7

\* All of a stamp is read: it is the stamp of the item, or that was not set when the
\* first part was read, and the second was drawn after the pop began.
LEMMA LoadedFact ==
  ASSUME IInv1, TimeInv, NEW t \in Threads, PopInv(t), PassInv(t), th[t].pc = "stamp",
         kind # "interval" \/ th[t].i # 0, NEW c \in Items, c = th[t].cand,
         NEW s \in Nat \X Nat, s = Loaded(t, c)
  PROVE  /\ s[1] \in Nat /\ s[2] \in Nat /\ s[2] = ts[c][2]
         /\ s = ts[c] \/ (s[1] = UINT64_MAX /\ th[t].now <= s[2] /\ c \notin StartDone(t))
<1>1. TypeOK /\ PcInv(t) /\ th[t] \in Locals
  BY DEF IInv1, TypeOK
<1>2. ts[c] \in Nat \X Nat /\ s[1] \in Nat /\ s[2] \in Nat
  BY <1>1, TimeTypes
<1>3. CASE kind # "interval"
  BY <1>2, <1>3 DEF Loaded
<1>4. CASE kind = "interval"
  <2>1. th[t].i = 1
    BY <1>1, <1>4 DEF PcInv
  <2>2. s[1] = th[t].stamp[1] /\ s[2] = ts[c][2]
    BY <1>4 DEF Loaded
  <2>3. th[t].op = "get"
    BY PopFact DEF PopPcs, RoundPcs, LookPcs
  <2>4. CASE th[t].stamp[1] = ts[c][1]
    BY <1>2, <2>2, <2>4
  <2>5. CASE th[t].stamp[1] = UINT64_MAX /\ c \notin StartDone(t) /\ SecondLater(c, th[t].now)
    BY <1>2, <2>2, <2>5 DEF SecondLater
  <2>6. Recalls(t, th[t])
    BY <2>3 DEF PopInv
  <2>. QED BY <1>4, <2>1, <2>4, <2>5, <2>6 DEF Recalls
<1>. QED BY <1>3, <1>4

\* An item that was not put before the pop began is taken at once.
LEMMA AtOnceGood ==
  ASSUME IInv1, TimeInv, NEW t \in Threads, PopInv(t), PassInv(t), th[t].pc = "stamp",
         kind # "interval" \/ th[t].i # 0, NEW c \in Items, c = th[t].cand,
         NEW s \in Nat \X Nat, s = Loaded(t, c), AtOnce(t, s), NEW q, q = StampAtOnce(t, s)
  PROVE  Good(t, q)
<1>1. th[t].pc \in PopPcs /\ th[t].pc \in RoundPcs /\ th[t].pc \in LookPcs
  BY DEF PopPcs, RoundPcs, LookPcs
<1>2. th[t] \in Locals /\ th[t].item = Null
  BY <1>1, PopFact
<1>3. /\ q.pc = "eliminate" /\ q.cand = c /\ q.item = Null /\ q.cur = th[t].cur
      /\ q.start = th[t].start /\ q.best = th[t].best /\ q.now = th[t].now
  BY <1>2 DEF StampAtOnce, Locals
<1>4. Newest(t, c)
  <2>1. s[2] \in Nat /\ s[2] = ts[c][2]
    BY LoadedFact
  <2>2. th[t].now <= s[2]
    <3>1. th[t].now \in Nat /\ ~(s[2] < th[t].now)
      BY <1>1, RoundFact DEF AtOnce, IsLater
    <3>. QED BY <2>1, <3>1
  <2>3. ASSUME NEW x \in StartDone(t) \ taken PROVE ts[x][1] <= ts[c][2]
    <3>1. ts[x][1] \in Nat /\ ts[x][2] \in Nat /\ th[t].now \in Nat
          /\ ts[x][1] <= ts[x][2] /\ ts[x][2] <= th[t].now
      BY <1>1, <2>3, RoundFact
    <3>. QED BY <2>1, <2>2, <3>1
  <2>. QED BY <1>1, <2>3, NewestFact
<1>5. Left(th[t]) = Left(q)
  BY <1>1, <1>3, LeftFact DEF LookPcs
<1>6. \A x : /\ Meets(th[t], x) => Meets(q, x)
             /\ Matched(th[t], x) => Matched(q, x)
  BY <1>3, <1>5 DEF Meets, Matched
<1>7. /\ \A x \in StartDone(t) : ts[x][2] <= q.now
      /\ kind # "stutter" => q.now <= ReadClock
      /\ q.best # NoBest /\ q.best.item \in StartDone(t) => q.best.stamp = ts[q.best.item]
      /\ \A x \in StartDone(t) \ taken : Meets(q, x) \/ Matched(q, x)
  BY <1>1, <1>3, <1>6, RoundFact
<1>8. Recalls(t, q) /\ Passes(t, q)
  BY <1>3, <1>4, <1>7 DEF Recalls, Passes
<1>. QED BY <1>3, <1>8 DEF Good

\* The item that is looked at is no earlier than what the list leads to from it on.
LEMMA StampTops ==
  ASSUME IInv1, TimeInv, NEW t \in Threads, PopInv(t), PassInv(t), th[t].pc = "stamp",
         kind # "interval" \/ th[t].i # 0, NEW c \in Items, c = th[t].cand,
         NEW s \in Nat \X Nat, s = Loaded(t, c), NEW x \in StartDone(t)
  PROVE  /\ x \in Chain(c) => ts[x][1] <= s[1] /\ ts[x][1] <= s[2]
         /\ ts[x][1] <= s[1] => ts[x][1] <= s[2]
<1>1. th[t].pc \in PopPcs /\ th[t].pc \in RoundPcs
  BY DEF PopPcs, RoundPcs, LookPcs
<1>2. TypeOK /\ RememberInv(t) /\ ListInv
  BY DEF IInv1
<1>3. /\ ts[x][1] \in Nat /\ ts[x][2] \in Nat /\ ts[x][1] < UINT64_MAX /\ ts[x][1] <= ts[x][2]
      /\ ts[x][2] <= th[t].now /\ th[t].now \in Nat /\ UINT64_MAX \in Nat
  BY <1>1, RoundFact, UIntFact
<1>4. /\ s[1] \in Nat /\ s[2] \in Nat
      /\ s = ts[c] \/ (s[1] = UINT64_MAX /\ th[t].now <= s[2])
  BY LoadedFact
<1>5. ts[c][1] \in Nat /\ ts[c][2] \in Nat /\ ts[c][1] <= ts[c][2]
  BY <1>2, TimeTypes DEF TimeInv, TsInv
<1>6. CASE s[1] = UINT64_MAX /\ th[t].now <= s[2]
  BY <1>3, <1>4, <1>6
<1>7. CASE s = ts[c]
  <2>1. ts[x][1] <= s[1] => ts[x][1] <= s[2]
    BY <1>3, <1>5, <1>7
  <2>2. ASSUME x \in Chain(c) PROVE ts[x][1] <= ts[c][1]
    <3>1. CASE x = c
      BY <1>3, <3>1
    <3>2. CASE x # c
      <4>1. c \in Inserted
        BY <1>2, CallHistoryAssumption DEF RememberInv, Known
      <4>2. x \in Chain(next[c])
        BY <2>2, <3>2, ChainStep
      <4>3. x \in older[c]
        BY <1>2, <4>1, <4>2 DEF ListInv
      <4>4. ts[c][1] < UINT64_MAX => ts[x][2] < ts[c][1]
        BY <4>3 DEF TimeInv, TsInv
      <4>. QED BY <1>3, <1>5, <4>4
    <3>. QED BY <3>1, <3>2
  <2>. QED BY <1>7, <2>1, <2>2
<1>. QED BY <1>4, <1>6, <1>7

LEMMA ComparedGood ==
  ASSUME IInv1, TimeInv, NEW t \in Threads, PopInv(t), PassInv(t), th[t].pc = "stamp",
         kind # "interval" \/ th[t].i # 0, NEW c \in Items, c = th[t].cand,
         NEW s \in Nat \X Nat, s = Loaded(t, c), NEW p, p = StampRead(t, s),
         Becomes(t, Compared(t, p))
  PROVE  WellDone(t)
<1>1. th[t].pc \in PopPcs /\ th[t].pc \in RoundPcs /\ th[t].pc \in LookPcs
  BY DEF PopPcs, RoundPcs, LookPcs
<1>2. TypeOK /\ th[t] \in Locals /\ th[t].op = "get" /\ th[t].item = Null
  BY <1>1, PopFact DEF IInv1
<1>3. /\ p \in Locals /\ p.op = "get" /\ p.item = Null /\ p.i = 0 /\ p.now = th[t].now
      /\ p.cur = th[t].cur /\ p.start = th[t].start /\ p.best = th[t].best
      /\ p.cand = c /\ p.top = th[t].top /\ p.stamp = s
  BY <1>2 DEF StampRead, Locals
<1>4. PICK best : best = [item |-> p.cand, buf |-> p.cur, top |-> p.top, stamp |-> p.stamp]
  OBVIOUS
<1>5. best \in Bests /\ best.item = c /\ best.stamp = s
  BY <1>3, <1>4 DEF Bests, Locals
<1>6. PICK r : r = IF IsLater(p.stamp, p.best.stamp) THEN [p EXCEPT !.best = best] ELSE p
  OBVIOUS
<1>7. /\ r \in Locals /\ r.op = "get" /\ r.item = Null /\ r.i = 0 /\ r.now = th[t].now
      /\ r.cur = th[t].cur /\ r.start = th[t].start
      /\ \/ IsLater(s, th[t].best.stamp) /\ r.best = best
         \/ ~IsLater(s, th[t].best.stamp) /\ r.best = th[t].best
  BY <1>3, <1>5, <1>6 DEF Locals
<1>8. PICK q : q = Scanned(t, r)
  OBVIOUS
<1>9. Leaves(r, q)
  BY <1>2, <1>7, <1>8, ScannedFact
<1>10. th'[t] = q
  <2>1. Becomes(t, q)
    BY <1>4, <1>6, <1>8 DEF Compared
  <2>. QED BY <1>2, <1>9, <2>1, BecomesFact DEF Leaves
<1>11. /\ s[1] \in Nat /\ s[2] \in Nat
       /\ c \in StartDone(t) => s = ts[c]
  BY LoadedFact
<1>12. r.best # NoBest /\ r.best.item \in StartDone(t) => r.best.stamp = ts[r.best.item]
  <2>1. th[t].best # NoBest /\ th[t].best.item \in StartDone(t) =>
          th[t].best.stamp = ts[th[t].best.item]
    BY <1>1, RoundFact
  <2>. QED BY <1>5, <1>7, <1>11, <2>1
<1>13. th[t].best.stamp[2] \in Nat
  BY <1>2 DEF Locals, Bests
<1>14. ASSUME NEW x \in StartDone(t) \ taken
       PROVE  (\E b \in Left(th[t]) : x \in Chain(list[b].item)) \/ Matched(r, x)
  <2>1. ts[x][1] \in Nat
    BY <1>1, RoundFact
  <2>2. /\ x \in Chain(c) => ts[x][1] <= s[1] /\ ts[x][1] <= s[2]
        /\ ts[x][1] <= s[1] => ts[x][1] <= s[2]
    BY StampTops
  <2>3. Meets(th[t], x) \/ Matched(th[t], x)
    BY <1>1, RoundFact
  <2>4. CASE \E b \in Left(th[t]) : x \in Chain(list[b].item)
    BY <2>4
  <2>5. CASE x \in Chain(c) \/ ts[x][1] <= th[t].best.stamp[2]
    <3>1. CASE IsLater(s, th[t].best.stamp) /\ r.best = best
      <4>1. th[t].best.stamp[2] < s[1]
        BY <3>1 DEF IsLater
      <4>2. ts[x][1] <= s[2]
        BY <1>11, <1>13, <2>1, <2>2, <2>5, <4>1
      <4>. QED BY <1>5, <3>1, <4>2 DEF Matched
    <3>2. CASE ~IsLater(s, th[t].best.stamp) /\ r.best = th[t].best
      <4>1. s[1] <= th[t].best.stamp[2]
        BY <1>11, <1>13, <3>2 DEF IsLater
      <4>2. ts[x][1] <= th[t].best.stamp[2]
        BY <1>11, <1>13, <2>1, <2>2, <2>5, <4>1
      <4>. QED BY <3>2, <4>2 DEF Matched
    <3>. QED BY <1>7, <3>1, <3>2
  <2>. QED BY <2>3, <2>4, <2>5 DEF Meets, Matched
<1>15. Good(t, q)
  BY <1>1, <1>7, <1>8, <1>12, <1>14, ScannedGood
<1>. QED BY <1>10, <1>15 DEF WellDone

LEMMA RemoveStampPass ==
  ASSUME IInv1, TimeInv, NEW t \in Threads, PopInv(t), PassInv(t), RemoveStamp(t)
  PROVE  WellDone(t)
<1>1. TypeOK /\ th[t] \in Locals /\ th[t].pc = "stamp" /\ RememberInv(t)
  BY DEF IInv1, TypeOK, RemoveStamp, At
<1>2. PICK c \in Items : c = th[t].cand
  BY <1>1 DEF RememberInv
<1>3. PICK s \in Nat \X Nat : s = Loaded(t, c)
  BY <1>1, LoadedType
<1>4. CASE kind = "interval" /\ \E p \in Nat \X Nat : p[1] = ts[c][1] /\ Becomes(t, StampPart(t, p))
  <2>1. PICK p \in Nat \X Nat : p[1] = ts[c][1] /\ Becomes(t, StampPart(t, p))
    BY <1>4
  <2>2. PICK q : q = StampPart(t, p)
    OBVIOUS
  <2>3. q \in Locals
    BY <1>1, <2>2 DEF StampPart, Locals
  <2>4. th'[t] = q
    BY <1>1, <2>1, <2>2, <2>3, BecomesFact
  <2>5. Good(t, q)
    BY <1>1, <1>2, <1>4, <2>1, <2>2, StampPartGood
  <2>. QED BY <2>4, <2>5 DEF WellDone
<1>5. CASE (kind # "interval" \/ th[t].i # 0) /\ AtOnce(t, s) /\ Becomes(t, StampAtOnce(t, s))
  <2>1. PICK q : q = StampAtOnce(t, s)
    OBVIOUS
  <2>2. q \in Locals
    BY <1>1, <2>1 DEF StampAtOnce, Locals, Pcs, PopPcs, RoundPcs, LookPcs
  <2>3. th'[t] = q
    BY <1>1, <1>5, <2>1, <2>2, BecomesFact
  <2>4. Good(t, q)
    BY <1>1, <1>2, <1>3, <1>5, <2>1, AtOnceGood
  <2>. QED BY <2>3, <2>4 DEF WellDone
<1>6. CASE (kind # "interval" \/ th[t].i # 0) /\ Becomes(t, Compared(t, StampRead(t, s)))
  <2>1. PICK p : p = StampRead(t, s)
    OBVIOUS
  <2>2. Becomes(t, Compared(t, p))
    BY <1>6, <2>1
  <2>. QED BY <1>1, <1>2, <1>3, <1>6, <2>1, <2>2, ComparedGood
<1>. QED BY <1>1, <1>2, <1>3, <1>4, <1>5, <1>6, RemoveStampCases

-----------------------------------------------------------------------------
\* The item is taken.

\* A pop that sets the taken flag of y.
LEMMA TakesGood ==
  ASSUME IInv1, NEW t \in Threads, NEW y \in Items, NEW b \in Registered, NEW w \in Words,
         Newest(t, y), Becomes(t, Takes(t, y, b, w))
  PROVE  WellDone(t)
<1>1. TypeOK /\ b \in Threads
  BY RegisteredThreads DEF IInv1
<1>2. PICK q : q = Takes(t, y, b, w)
  OBVIOUS
<1>3. q \in Locals /\ q.pc = "adjust" /\ q.item = y /\ q.best = NoBest
  <2>1. "adjust" \in Pcs /\ b \in Buffers
    BY <1>1 DEF Pcs, PopPcs, Buffers
  <2>. QED BY <1>2, <2>1, IdleType DEF Takes, Idle, Locals
<1>4. th'[t] = q
  BY <1>1, <1>2, <1>3, BecomesFact
<1>5. Recalls(t, q) /\ Passes(t, q)
  BY <1>3 DEF Recalls, Passes, RoundPcs, LookPcs
<1>. QED BY <1>3, <1>4, <1>5 DEF Good, WellDone

LEMMA RemoveEliminatePass ==
  ASSUME IInv1, TimeInv, NEW t \in Threads, PopInv(t), PassInv(t), RemoveEliminate(t)
  PROVE  WellDone(t)
<1>1. TypeOK /\ th[t] \in Locals /\ RememberInv(t) /\ RoundInv(t)
  BY DEF IInv1, TypeOK
<1>2. th[t].pc = "eliminate" /\ th[t].pc \in LookPcs /\ th[t].pc \in RoundPcs /\ th[t].pc \in PopPcs
  BY <1>1, RemoveEliminateCases DEF LookPcs, RoundPcs, PopPcs
<1>3. PICK y \in Items, b \in Registered, w \in Words : y = th[t].cand /\ b = th[t].cur /\ w = th[t].top
  BY <1>1, <1>2 DEF RememberInv, RoundInv, Locals
<1>4. CASE y \notin taken /\ Becomes(t, Takes(t, y, b, w))
  <2>1. Newest(t, y)
    BY <1>2, <1>3 DEF PassInv, Passes
  <2>. QED BY <1>4, <2>1, TakesGood
<1>5. CASE Becomes(t, LookAgain(t))
  <2>1. PICK q : q = LookAgain(t)
    OBVIOUS
  <2>2. th[t].item = Null
    BY <1>2, PopFact
  <2>3. /\ q \in Locals /\ q.pc = "top" /\ q.item = Null /\ q.cur = b /\ q.start = th[t].start
        /\ q.best = th[t].best /\ q.now = th[t].now
    <3>1. NoWord \in Words /\ Sentinel \in Nat \X Nat /\ "top" \in Pcs
      BY IdleType DEF Pcs, PopPcs, RoundPcs
    <3>. QED BY <1>1, <1>3, <2>1, <2>2, <3>1 DEF LookAgain, Locals
  <2>4. th'[t] = q
    BY <1>1, <1>5, <2>1, <2>3, BecomesFact
  <2>5. Left(q) = {b} \cup Left(th[t])
    BY <1>2, <1>3, <2>3, LeftFact
  <2>6. Chain(y) \ taken \subseteq Chain(list[b].item)
    BY <1>1, <1>2, <1>3 DEF RememberInv, Known
  <2>7. \A x \in StartDone(t) \ taken : Meets(th[t], x) => Meets(q, x)
    BY <1>2, <1>3, <2>5, <2>6 DEF Meets
  <2>8. q.pc \in RoundPcs \ {"eliminate"} /\ q.pc # "stamp"
    BY <2>3 DEF RoundPcs
  <2>9. Good(t, q)
    BY <1>2, <2>3, <2>7, <2>8, StayGood
  <2>. QED BY <2>4, <2>9 DEF WellDone
<1>. QED BY <1>1, <1>3, <1>4, <1>5, RemoveEliminateCases

LEMMA RemoveTakePass ==
  ASSUME IInv1, TimeInv, NEW t \in Threads, PopInv(t), PassInv(t), RemoveTake(t)
  PROVE  WellDone(t)
<1>1. TypeOK /\ th[t] \in Locals /\ RememberInv(t)
  BY DEF IInv1, TypeOK
<1>2. PICK best \in Bests : best = th[t].best
  BY <1>1 DEF Locals
<1>3. th[t].pc = "take"
  BY <1>1, <1>2, RemoveTakeCases
<1>4. best # NoBest /\ BestInv(best)
  BY <1>1, <1>2, <1>3 DEF RememberInv
<1>5. PICK y \in Items, b \in Registered, w \in Words : y = best.item /\ b = best.buf /\ w = best.top
  BY <1>2, <1>4 DEF BestInv, Bests
<1>6. CASE y \notin taken /\ Becomes(t, Takes(t, y, b, w))
  <2>1. Newest(t, y)
    BY <1>2, <1>3, <1>5 DEF PassInv, Passes
  <2>. QED BY <1>6, <2>1, TakesGood
<1>7. CASE Becomes(t, NewRound(t, "start"))
  <2>1. PICK q : q = NewRound(t, "start")
    OBVIOUS
  <2>2. q \in Locals /\ q.pc = "start" /\ q.item = Null /\ q.best = NoBest /\ q.now = th[t].now
    BY <1>1, <2>1, NewRoundType DEF Pcs, PopPcs
  <2>3. th'[t] = q
    BY <1>1, <1>7, <2>1, <2>2, BecomesFact
  <2>4. (\A x \in StartDone(t) : ts[x][2] <= q.now) /\ (kind # "stutter" => q.now <= ReadClock)
    BY <1>3, <2>2, RoundFact
  <2>5. Recalls(t, q) /\ Passes(t, q)
    BY <2>2, <2>4 DEF Recalls, Passes, RoundPcs, LookPcs
  <2>. QED BY <2>2, <2>3, <2>5 DEF Good, WellDone
<1>. QED BY <1>1, <1>2, <1>5, <1>6, <1>7, RemoveTakeCases

LEMMA RemoveAdjustPass ==
  ASSUME IInv1, TimeInv, NEW t \in Threads, PopInv(t), PassInv(t), RemoveAdjust(t)
  PROVE  WellDone(t)
<1>1. TypeOK /\ PcInv(t) /\ th[t] \in Locals
  BY DEF IInv1, TypeOK
<1>2. th[t].pc = "adjust" /\ th[t].pc \in PopPcs
  BY DEF RemoveAdjust, At, PopPcs
<1>3. th[t].op = "get"
  BY <1>2, PopFact
<1>4. PICK y \in Items : y = th[t].item
  BY <1>1, <1>2 DEF PcInv
<1>5. PICK q : q = [Idle EXCEPT !.pc = "return", !.op = "get", !.item = y]
  OBVIOUS
<1>6. q \in Locals /\ q.pc = "return" /\ q.item = y /\ q.best = NoBest
  <2>1. "return" \in Pcs
    BY DEF Pcs
  <2>. QED BY <1>5, <2>1, IdleType DEF Idle, Locals
<1>7. Becomes(t, q)
  BY <1>4, <1>5 DEF RemoveAdjust, Becomes
<1>8. th'[t] = q
  BY <1>1, <1>6, <1>7, BecomesFact
<1>9. Newest(t, y)
  BY <1>3, <1>4, CallHistoryAssumption DEF PassInv, Passes
<1>10. Recalls(t, q) /\ Passes(t, q)
  BY <1>6, <1>9 DEF Recalls, Passes, RoundPcs, LookPcs
<1>. QED BY <1>6, <1>8, <1>10 DEF Good, WellDone

-----------------------------------------------------------------------------
\* The invocation time.

LEMMA PopTimePass ==
  ASSUME IInv1, IInv1', TimeInv, TimeGrows, NEW t \in Threads, World(t), start'[t] = start[t],
         PopInv(t), PassInv(t), PopTime(t)
  PROVE  PopInv(t)' /\ PassInv(t)'
<1>1. th[t].pc = "time" /\ th[t].pc \in PopPcs /\ UNCHANGED stamps /\ link' = link /\ next' = next
  BY DEF PopTime, ReadTime, PopPcs, shared
<1>2. TypeOK /\ th[t] \in Locals /\ th[t].op = "get" /\ th[t].item = Null /\ PcInv(t)
  BY <1>1, PopFact DEF IInv1
<1>3. PICK now \in Nat : now = TimeRead(t)
  BY <1>1, <1>2, TimeReadFact
<1>4. PICK S : S = StartDone(t)
  OBVIOUS
<1>5. /\ S \subseteq done /\ \A x \in S : older[x] \subseteq S
      /\ \A x \in S : WillTick(t, ts[x][2])
      /\ th[t].best # NoBest /\ th[t].best.item \in S => th[t].best.stamp = ts[th[t].best.item]
  BY <1>1, <1>2, <1>4 DEF PopInv, Recalls
<1>6. \A x \in S : x \in Items /\ ts[x][2] \in Nat
  <2>1. \A x \in S : x \in Items
    BY <1>5, DoneFact
  <2>. QED BY <1>2, <2>1, TimeTypes
<1>7. CASE MoreClocks(t)
  <2>1. kind = "stutter" /\ kind' = kind /\ clocks' = clocks /\ ts' = ts
    BY <1>1, <1>7 DEF MoreClocks, stamps
  <2>2. PICK i \in Nat : i = th[t].i + 1
    BY <1>2 DEF Locals
  <2>3. PICK r : r = [th[t] EXCEPT !.now = now, !.i = i]
    OBVIOUS
  <2>4. /\ r \in Locals /\ r.pc = "time" /\ r.op = "get" /\ r.item = Null /\ r.best = th[t].best
        /\ r.now = now /\ r.i = i
    BY <1>1, <1>2, <2>2, <2>3 DEF Locals
  <2>5. Becomes(t, r)
    BY <1>2, <1>3, <1>7, <2>2, <2>3 DEF PopTime, ReadTime, Becomes, TypeOK
  <2>6. th'[t] = r
    BY <1>2, <2>4, <2>5, BecomesFact
  <2>7. StartDone(t)' = S
    BY <1>4 DEF StartDone
  <2>8. S \subseteq done' /\ \A x \in S : older'[x] \subseteq S
    BY <1>5, DoneSame DEF World
  <2>9. ASSUME NEW x \in S PROVE WillTick(t, ts[x][2])'
    <3>1. PICK n \in Nat : n = ts[x][2]
      BY <1>6, <2>9
    <3>2. \/ n <= now
          \/ \E j \in DOMAIN Thread[kind] : i <= j /\ n <= clocks[Thread[kind][j]]
      BY <1>1, <1>2, <1>3, <1>5, <1>7, <2>1, <2>2, <2>9, <3>1, LatestFact
    <3>3. \/ n <= th'[t].now
          \/ \E j \in DOMAIN Thread[kind'] : th'[t].i <= j /\ n <= clocks'[Thread[kind'][j]]
      BY <2>1, <2>4, <2>6, <3>2
    <3>4. ts'[x][2] = n
      BY <2>1, <3>1
    <3>. QED BY <2>1, <3>3, <3>4 DEF WillTick
  <2>10. Recalls(t, r)'
    BY <1>5, <2>1, <2>4, <2>7 DEF Recalls, RoundPcs, LookPcs
  <2>11. Passes(t, r)'
    BY <2>4 DEF Passes, RoundPcs, LookPcs
  <2>. QED BY <2>6, <2>7, <2>8, <2>9, <2>10, <2>11 DEF PopInv, PassInv
<1>8. CASE ~MoreClocks(t)
  <2>1. PICK r : r = [th[t] EXCEPT !.pc = "start", !.now = now, !.i = 0]
    OBVIOUS
  <2>2. r \in Locals /\ r.pc = "start" /\ r.item = Null /\ r.best = th[t].best /\ r.now = now
    BY <1>2, <2>1 DEF Locals, Pcs, PopPcs
  <2>3. Becomes(t, r)
    BY <1>3, <1>8, <2>1 DEF PopTime, ReadTime, Becomes
  <2>4. th'[t] = r
    BY <1>2, <2>2, <2>3, BecomesFact
  <2>5. ASSUME NEW x \in S PROVE ts[x][2] <= now
    <3>1. PICK n \in Nat : n = ts[x][2]
      BY <1>6, <2>5
    <3>2. WillTick(t, n)
      BY <1>5, <2>5, <3>1
    <3>3. CASE kind = "stutter"
      BY <1>1, <1>2, <1>3, <1>8, <3>1, <3>2, <3>3, LatestFact
    <3>4. CASE kind # "stutter"
      <4>1. n < now
        BY <1>3, <3>2, <3>4 DEF WillTick, TimeRead
      <4>. QED BY <3>1, <4>1
    <3>. QED BY <3>3, <3>4
  <2>6. kind # "stutter" => now <= ReadClock
    BY <1>3 DEF TimeRead
  <2>7. Recalls(t, r)
    BY <1>4, <1>5, <2>2, <2>5, <2>6 DEF Recalls
  <2>8. Passes(t, r)
    BY <2>2 DEF Passes, RoundPcs, LookPcs
  <2>9. Good(t, r)
    BY <2>2, <2>7, <2>8 DEF Good
  <2>. QED BY <1>1, <1>2, <2>4, <2>9, PopStep
<1>. QED BY <1>7, <1>8

-----------------------------------------------------------------------------
\* The calls.

\* A thread that is not in a pop.
LEMMA NotPopping ==
  ASSUME IInv1', NEW t \in Threads, th'[t].op # "get"
  PROVE  PopInv(t)' /\ PassInv(t)'
<1>1. PcInv(t)' /\ th'[t] \in Locals
  BY DEF IInv1, TypeOK
<1>2. PICK r : r = th'[t]
  OBVIOUS
<1>3. r.pc \notin RoundPcs \cup {"eliminate", "take"} /\ r.op # "get"
  BY <1>1, <1>2 DEF PcInv, Locals, PushPcs, StampPcs, RoundPcs, LookPcs
<1>4. Passes(t, r)'
  BY <1>3 DEF Passes
<1>. QED BY <1>2, <1>3, <1>4 DEF PopInv, PassInv

\* A pop begins: nothing that is put by then has a stamp later than its reading of the
\* time will be.
LEMMA CallPopPass ==
  ASSUME Order = "lifo", IInv1, IInv1', TimeInv', NEW t \in Threads, World(t),
         TimeGrows, TimeInv, done' = done, older' = older, start' = [start EXCEPT ![t] = Memo],
         th'[t].op = "get", th'[t].pc = "time", th'[t].i = 0, th'[t].best = NoBest,
         th'[t].item = Null
  PROVE  PopInv(t)' /\ PassInv(t)'
<1>1. TypeOK /\ TypeOK' /\ OlderInv /\ TsInv
  BY DEF IInv1, TimeInv
<1>2. StartDone(t)' = done
  <2>1. start'[t] = Memo
    BY <1>1 DEF TypeOK
  <2>. QED BY <2>1 DEF StartDone, Memo
<1>3. \A x \in done : older'[x] \subseteq done
  BY <1>1 DEF OlderInv
<1>4. ASSUME NEW x \in done PROVE WillTick(t, ts[x][2])'
  <2>1. x \in Items /\ x \in Timed /\ ts'[x] = ts[x]
    BY <1>4, DoneFact, DoneSame
  <2>2. PICK n \in Nat : n = ts[x][2]
    BY <1>1, <2>1, TimeTypes
  <2>3. Ticked(n)
    BY <2>1, <2>2, <1>1 DEF TsInv
  <2>4. Ticked(n)'
    BY <1>1, <2>3, TickGrows DEF TimeGrows
  <2>5. WillTick(t, n)'
    <3>1. CASE kind' = "stutter"
      <4>1. PICK j \in DOMAIN Thread[kind'] : n <= clocks'[Thread[kind'][j]]
        BY <2>4, <3>1 DEF Ticked
      <4>2. 0 <= j
        <5>1. kind' = kind
          BY DEF TimeGrows, ClocksGrow
        <5>2. DOMAIN Thread[kind] = 0 .. NumThreads - 1 /\ NumThreads \in Nat
          BY <1>1, ClockFact
        <5>. QED BY <5>1, <5>2
      <4>. QED BY <3>1, <4>1, <4>2 DEF WillTick
    <3>2. CASE kind' # "stutter"
      BY <2>4, <3>2 DEF Ticked, WillTick
    <3>. QED BY <3>1, <3>2
  <2>. QED BY <2>1, <2>2, <2>5
<1>5. PICK r : r = th'[t]
  OBVIOUS
<1>6. Recalls(t, r)' /\ Passes(t, r)'
  BY <1>5 DEF Recalls, Passes, RoundPcs, LookPcs
<1>. QED BY <1>2, <1>3, <1>4, <1>5, <1>6 DEF PopInv, PassInv

-----------------------------------------------------------------------------
\* The order of the items.

\* No item that could have been taken before is left behind by one that is got.
LEMMA NoneLeft ==
  ASSUME Order = "lifo", NEW t \in Threads, PassInv(t), th[t].op = "get", th[t].item # Null
  PROVE  First(t, th[t].item) \cap Held = {}
<1>1. First(t, th[t].item) = Later(t, th[t].item)
  BY DEF First
<1>2. SUFFICES ASSUME NEW x \in Later(t, th[t].item), x \in Held PROVE FALSE
  BY <1>1
<1>3. x \in StartDone(t) \ taken /\ th[t].item \in older[x]
  BY <1>2, HeldFact DEF Later, StartDone
<1>4. Newest(t, th[t].item)
  BY DEF PassInv, Passes
<1>. QED BY <1>3, <1>4 DEF Newest

\* What a step has to show of the thread that takes it.
LEMMA MoveIInv2 ==
  ASSUME IInv1, IInv1', IInv2, NEW t \in Threads, World(t), TimeInv', TimeGrows,
         \A u \in Threads : u # t => start'[u] = start[u],
         start'[t].late = {}, late' = {}, PopInv(t)', PassInv(t)'
  PROVE  IInv2'
<1>1. ASSUME NEW u \in Threads, u # t PROVE PopInv(u)' /\ PassInv(u)' /\ start'[u].late = {}
  <2>1. PopInv(u) /\ PassInv(u) /\ start'[u] = start[u] /\ start[u].late = {}
    BY <1>1 DEF IInv2, NoneLate
  <2>2. PopInv(u)' /\ PassInv(u)'
    BY <1>1, <2>1, PopOthers
  <2>. QED BY <2>1, <2>2
<1>2. NoneLate'
  BY <1>1 DEF NoneLate
<1>3. \A u \in Threads : PopInv(u)' /\ PassInv(u)'
  BY <1>1
<1>. QED BY <1>2, <1>3 DEF IInv2

LEMMA CallPopOrder ==
  ASSUME Order = "lifo", IInv1, IInv2, NEW t \in Threads, CallPop(t)
  PROVE  IInv2'
<1>1. IInv1' /\ World(t)
  BY CallPopStep
<1>2. TimeInv /\ late = {} /\ \A u \in Threads : start[u].late = {}
  BY DEF IInv2, NoneLate
<1>3. /\ TimeInv' /\ TimeGrows /\ done' = done /\ older' = older /\ late' = late
      /\ start' = [start EXCEPT ![t] = Memo]
      /\ th'[t].op = "get" /\ th'[t].pc = "time" /\ th'[t].i = 0 /\ th'[t].best = NoBest
      /\ th'[t].item = Null
  BY <1>1, <1>2, CallPopTime
<1>4. PopInv(t)' /\ PassInv(t)'
  BY <1>1, <1>2, <1>3, CallPopPass
<1>5. start'[t].late = {} /\ \A u \in Threads : u # t => start'[u] = start[u]
  <2>1. Memo.late = {}
    BY <1>2 DEF Memo
  <2>2. start'[t] = Memo /\ \A u \in Threads : u # t => start'[u] = start[u]
    BY <1>3 DEF IInv1, TypeOK
  <2>. QED BY <2>1, <2>2
<1>. QED BY <1>1, <1>2, <1>3, <1>4, <1>5, MoveIInv2

LEMMA ReturnOrder ==
  ASSUME Order = "lifo", IInv1, IInv2, NEW t \in Threads, Return(t)
  PROVE  IInv2'
<1>1. IInv1' /\ World(t)
  BY ReturnStep
<1>2. TimeInv /\ late = {} /\ PassInv(t)
  BY DEF IInv2, NoneLate
<1>3. /\ TimeInv' /\ TimeGrows /\ start' = [start EXCEPT ![t] = NoMemo]
      /\ th'[t].op = "none"
      /\ late' = IF th[t].op = "get" /\ th[t].item # Null /\ Strict
                 THEN late \cup (First(t, th[t].item) \cap Held) ELSE late
  BY <1>1, <1>2, ReturnTime
<1>4. PopInv(t)' /\ PassInv(t)'
  BY <1>1, <1>3, NotPopping
<1>5. late' = {}
  BY <1>2, <1>3, NoneLeft
<1>6. start'[t].late = {} /\ \A u \in Threads : u # t => start'[u] = start[u]
  <2>1. start'[t] = NoMemo /\ \A u \in Threads : u # t => start'[u] = start[u]
    BY <1>3 DEF IInv1, TypeOK
  <2>. QED BY <2>1 DEF NoMemo
<1>. QED BY <1>1, <1>3, <1>4, <1>5, <1>6, MoveIInv2

LEMMA PushOrder ==
  ASSUME IInv1, IInv2, NEW t \in Threads,
         CallPush(t) \/ Register(t) \/ InsertWalk(t) \/ InsertList(t) \/ Stamp(t)
  PROVE  IInv2'
<1>1. IInv1' /\ World(t)
  BY AnyStep DEF Step
<1>2. TimeInv /\ late = {} /\ start[t].late = {}
  BY DEF IInv2, NoneLate
<1>3. TimeInv' /\ TimeGrows /\ late' = late /\ start' = start /\ th'[t].op = "put"
  BY <1>1, <1>2, CallPushTime, PushTime, InsertListTime, StampTime
<1>4. PopInv(t)' /\ PassInv(t)'
  BY <1>1, <1>3, NotPopping
<1>. QED BY <1>1, <1>2, <1>3, <1>4, MoveIInv2

LEMMA PopOrder ==
  ASSUME IInv1, IInv2, NEW t \in Threads,
         \/ PopTime(t) \/ RemoveStart(t) \/ RemoveNext(t) \/ RemoveTop(t) \/ RemoveList(t)
         \/ RemoveWalk(t) \/ RemoveStamp(t) \/ RemoveEliminate(t) \/ RemoveTake(t)
         \/ RemoveAdjust(t)
  PROVE  IInv2'
<1>1. IInv1' /\ World(t)
  BY AnyStep DEF Step
<1>2. TimeInv /\ late = {} /\ start[t].late = {} /\ PopInv(t) /\ PassInv(t)
  BY DEF IInv2, NoneLate
<1>3. PICK h : UNCHANGED stamps /\ th[t].pc \in PopPcs /\ Observe(t, h)
  BY PopStamps
<1>4. TimeInv' /\ TimeGrows /\ Kept
  BY <1>1, <1>2, <1>3, PopFrame
<1>5. late' = {} /\ start' = start
  BY <1>2, <1>4 DEF Kept
<1>6. th[t].op = "get"
  BY <1>3, PopFact
<1>7. CASE PopTime(t)
  <2>1. PopInv(t)' /\ PassInv(t)'
    BY <1>1, <1>2, <1>4, <1>5, <1>7, PopTimePass
  <2>. QED BY <1>1, <1>2, <1>4, <1>5, <2>1, MoveIInv2
<1>8. CASE ~PopTime(t)
  <2>1. WellDone(t)
    BY <1>2, <1>8, RemoveStartPass, RemoveNextPass, RemoveTopPass, RemoveListPass, RemoveWalkPass,
       RemoveStampPass, RemoveEliminatePass, RemoveTakePass, RemoveAdjustPass
  <2>2. PICK q : th'[t] = q /\ Good(t, q)
    BY <2>1 DEF WellDone
  <2>3. link' = link /\ next' = next
    <3>1. CASE RemoveStart(t) \/ RemoveNext(t) \/ RemoveTop(t) \/ RemoveList(t) \/ RemoveStamp(t)
      <4>1. UNCHANGED shared
        BY <3>1, Zenon DEF RemoveStart, RemoveNext, RemoveTop, RemoveList, RemoveStamp, Local
      <4>. QED BY <4>1 DEF shared
    <3>2. CASE RemoveWalk(t) \/ RemoveEliminate(t) \/ RemoveTake(t) \/ RemoveAdjust(t)
      BY <3>2, Zenon DEF RemoveWalk, RemoveEliminate, RemoveTake, RemoveAdjust
    <3>. QED BY <1>8, <3>1, <3>2
  <2>4. PopInv(t)' /\ PassInv(t)'
    BY <1>1, <1>2, <1>4, <1>5, <1>6, <2>2, <2>3, PopStep
  <2>. QED BY <1>1, <1>2, <1>4, <1>5, <2>4, MoveIInv2
<1>. QED BY <1>7, <1>8

-----------------------------------------------------------------------------
\* The stamps of the items.

LEMMA InitTimeInv == Init => TimeInv
<1>1. SUFFICES ASSUME Init PROVE TimeInv
  OBVIOUS
<1>2. /\ th = [t \in Threads |-> Idle] /\ done = {}
      /\ clock = 1 /\ clocks = [t \in Threads |-> 1] /\ ts = [x \in Items |-> Top]
  BY <1>1 DEF Init, TimestampInit, HistoryInit
<1>3. \A t \in Threads : th[t].pc = "idle" /\ th[t].op = "none" /\ th[t].item = Null
  BY <1>2 DEF Idle
<1>4. Timed = {}
  BY <1>2, <1>3 DEF Timed, Putting
<1>5. TsInv
  <2>1. \A x \in Items : ts[x] = Top
    BY <1>2
  <2>2. UINT64_MAX \in Nat /\ Top[1] = UINT64_MAX /\ Top[2] = UINT64_MAX
    BY UIntFact
  <2>3. UINT64_MAX <= UINT64_MAX /\ ~(UINT64_MAX < UINT64_MAX)
    BY <2>2
  <2>. QED BY <1>4, <2>1, <2>2, <2>3 DEF TsInv
<1>6. ClockInv
  <2>1. PICK A \in SUBSET Inserted : A = {} /\ Cardinality(A) = 0
    BY FS_EmptySet
  <2>2. clock <= 1 + Cardinality(A) + Cardinality(A)
    BY <1>2, <2>1
  <2>3. \A b \in Threads : clocks[b] <= 1 + Cardinality(A)
    BY <1>2, <2>1
  <2>4. \A t \in Threads : CountedInv(t, A, A)
    BY <1>3 DEF CountedInv
  <2>. QED BY <2>2, <2>3, <2>4 DEF ClockInv
<1>7. \A t \in Threads : StampInv(t)
  BY <1>3 DEF StampInv, StampPcs
<1>. QED BY <1>5, <1>6, <1>7 DEF TimeInv

LEMMA StutterTimeInv == ASSUME IInv1, IInv1', TimeInv, UNCHANGED vars PROVE TimeInv'
<1>1. UNCHANGED <<th, kind, clock, clocks, ts, done, older>>
  BY DEF vars, stamps, history
<1>2. /\ TypeOK /\ TypeOK' /\ Inserted \subseteq Items /\ \A u \in Threads : PcInv(u)
  BY InsertedItems DEF IInv1
<1>3. Inserted' = Inserted /\ Timed' = Timed
  BY <1>1 DEF Inserted, Linked, Timed, Putting
<1>4. \A u \in Threads : th'[u].op = "put" /\ kind = "stutter" =>
                         \E j \in DOMAIN Thread[kind] : u = Thread[kind][j]
  BY <1>1 DEF TimeInv, StampInv
<1>5. UNCHANGED stamps
  BY <1>1 DEF stamps
<1>. QED BY <1>1, <1>2, <1>3, <1>4, <1>5, TimeFrame

LEMMA NextTimeInv == IInv1 /\ TimeInv /\ [Next]_vars => TimeInv'
<1>1. SUFFICES ASSUME IInv1, TimeInv, [Next]_vars PROVE TimeInv'
  OBVIOUS
<1>2. CASE UNCHANGED vars
  BY <1>1, <1>2, StutterIInv1, StutterTimeInv
<1>3. ASSUME NEW t \in Threads, CallPush(t) \/ CallPop(t) \/ Step(t) PROVE TimeInv'
  <2>1. IInv1' /\ World(t)
    BY <1>1, <1>3, AnyStep
  <2>2. CASE CallPush(t) \/ CallPop(t) \/ Return(t)
    BY <1>1, <2>1, <2>2, CallPushTime, CallPopTime, ReturnTime
  <2>3. CASE Register(t) \/ InsertWalk(t) \/ InsertList(t) \/ Stamp(t)
    BY <1>1, <2>1, <2>3, PushTime, InsertListTime, StampTime
  <2>4. CASE \/ PopTime(t) \/ RemoveStart(t) \/ RemoveNext(t) \/ RemoveTop(t) \/ RemoveList(t)
             \/ RemoveWalk(t) \/ RemoveStamp(t) \/ RemoveEliminate(t) \/ RemoveTake(t)
             \/ RemoveAdjust(t)
    <3>1. PICK h : UNCHANGED stamps /\ th[t].pc \in PopPcs /\ Observe(t, h)
      BY <2>4, PopStamps
    <3>. QED BY <1>1, <2>1, <3>1, PopFrame
  <2>. QED BY <1>3, <2>2, <2>3, <2>4 DEF Step
<1>. QED BY <1>1, <1>2, <1>3 DEF Next

LEMMA TimeAlways == Spec => []TimeInv
BY InitTimeInv, NextTimeInv, ListsSound, PTL DEF Spec

LEMMA TimeOrdered ==
  IInv1 /\ TimeInv => \A x \in done : \A y \in older[x] : IsLater(ts[x], ts[y])
BY DoneFact DEF TimeInv, TsInv, IsLater

\* Whatever the order of pops: an item whose push has returned has a later timestamp
\* than each that was pushed before its push began, although the threads read the
\* clocks, and store what they read, at any time.
THEOREM StampsInOrder == Spec => [](\A x \in done : \A y \in older[x] : IsLater(ts[x], ts[y]))
BY ListsSound, TimeAlways, TimeOrdered, PTL

-----------------------------------------------------------------------------
\* The invariant of the order.

LEMMA InitIInv2 == Init => IInv2
<1>1. SUFFICES ASSUME Init PROVE IInv2
  OBVIOUS
<1>2. /\ th = [t \in Threads |-> Idle] /\ late = {} /\ start = [t \in Threads |-> NoMemo]
  BY <1>1 DEF Init, HistoryInit
<1>3. \A t \in Threads : th[t].pc = "idle" /\ th[t].op = "none" /\ th[t].item = Null
  BY <1>2 DEF Idle
<1>4. TimeInv
  BY <1>1, InitTimeInv
<1>5. NoneLate
  BY <1>2 DEF NoneLate, NoMemo
<1>6. ASSUME NEW t \in Threads PROVE PopInv(t) /\ PassInv(t)
  <2>1. PopInv(t)
    BY <1>3 DEF PopInv
  <2>2. PICK r : r = th[t]
    OBVIOUS
  <2>3. Passes(t, r)
    BY <1>3, <2>2 DEF Passes, RoundPcs, LookPcs
  <2>. QED BY <2>1, <2>2, <2>3 DEF PassInv
<1>. QED BY <1>4, <1>5, <1>6 DEF IInv2

LEMMA StutterIInv2 == ASSUME IInv1, IInv1', IInv2, UNCHANGED vars PROVE IInv2'
<1>1. /\ UNCHANGED <<th, kind, clock, clocks, ts, link, list, next, taken, seen>>
      /\ UNCHANGED <<done, out, older, late, start, sight>>
  BY DEF vars, stamps, shared, history
<1>2. TimeInv'
  BY StutterTimeInv DEF IInv2
<1>3. NoneLate'
  BY <1>1 DEF IInv2, NoneLate
<1>4. ASSUME NEW t \in Threads PROVE PopInv(t)' /\ PassInv(t)'
  <2>1. PopInv(t) /\ PassInv(t)
    BY DEF IInv2
  <2>2. PICK r : r = th[t] /\ r = th'[t]
    BY <1>1
  <2>3. PICK S : S = StartDone(t)
    OBVIOUS
  <2>4. StartDone(t)' = S
    BY <1>1, <2>3 DEF StartDone
  <2>5. \A n : WillTick(t, n) => WillTick(t, n)'
    BY <1>1 DEF WillTick, ReadClock, Hwptime
  <2>6. ASSUME Recalls(t, r) PROVE Recalls(t, r)'
    <3>1. \A x, n : SecondLater(x, n) => SecondLater(x, n)'
      BY <1>1 DEF SecondLater, Half
    <3>2. ReadClock' = ReadClock
      BY <1>1 DEF ReadClock, Hwptime
    <3>. QED BY <1>1, <2>3, <2>4, <2>6, <3>1, <3>2 DEF Recalls
  <2>7. PopInv(t)'
    <3>1. ASSUME r.op = "get", r.pc = "time", NEW x \in S PROVE WillTick(t, ts[x][2])'
      <4>1. PICK n : n = ts[x][2] /\ n = ts'[x][2]
        BY <1>1
      <4>2. WillTick(t, n)
        BY <2>1, <2>2, <2>3, <3>1, <4>1 DEF PopInv
      <4>3. WillTick(t, n)'
        BY <2>5, <4>2
      <4>. QED BY <4>1, <4>3
    <3>2. r.op = "get" => /\ S \subseteq done' /\ \A x \in S : older'[x] \subseteq S
                          /\ Recalls(t, r)'
      BY <1>1, <2>1, <2>2, <2>3, <2>6 DEF PopInv
    <3>. QED BY <2>2, <2>4, <3>1, <3>2 DEF PopInv
  <2>8. PassInv(t)'
    <3>1. \A x : Chain(x)' = Chain(x)
      BY <1>1 DEF Chain
    <3>2. Left(r)' = Left(r)
      BY <1>1, LeftKept
    <3>3. \A x : (Meets(r, x) => Meets(r, x)') /\ (Matched(r, x) => Matched(r, x)')
      BY <1>1, <3>1, <3>2 DEF Meets, Matched
    <3>4. \A y : Newest(t, y) => Newest(t, y)'
      BY <1>1, <2>3, <2>4 DEF Newest
    <3>5. Passes(t, r)
      BY <2>1, <2>2 DEF PassInv
    <3>6. Passes(t, r)'
      BY <1>1, <2>3, <2>4, <3>3, <3>4, <3>5 DEF Passes
    <3>. QED BY <2>2, <3>6 DEF PassInv
  <2>. QED BY <2>7, <2>8
<1>. QED BY <1>2, <1>3, <1>4 DEF IInv2

LEMMA NextIInv2 == ASSUME Order = "lifo" PROVE IInv1 /\ IInv1' /\ IInv2 /\ [Next]_vars => IInv2'
<1>1. SUFFICES ASSUME IInv1, IInv1', IInv2, [Next]_vars PROVE IInv2'
  OBVIOUS
<1>2. CASE UNCHANGED vars
  BY <1>1, <1>2, StutterIInv2
<1>3. ASSUME NEW t \in Threads, CallPush(t) \/ CallPop(t) \/ Step(t) PROVE IInv2'
  <2>1. CASE CallPop(t) \/ Return(t)
    BY <1>1, <2>1, CallPopOrder, ReturnOrder
  <2>2. CASE CallPush(t) \/ Register(t) \/ InsertWalk(t) \/ InsertList(t) \/ Stamp(t)
    BY <1>1, <2>2, PushOrder
  <2>3. CASE \/ PopTime(t) \/ RemoveStart(t) \/ RemoveNext(t) \/ RemoveTop(t) \/ RemoveList(t)
             \/ RemoveWalk(t) \/ RemoveStamp(t) \/ RemoveEliminate(t) \/ RemoveTake(t)
             \/ RemoveAdjust(t)
    BY <1>1, <2>3, PopOrder
  <2>. QED BY <1>3, <2>1, <2>2, <2>3 DEF Step
<1>. QED BY <1>1, <1>2, <1>3 DEF Next

\* What a pop recalls of the stamps, read part by part while others are set, agrees
\* with them; what it takes was pushed before none of the items that were there when it
\* began and still are; and so nothing ever gets late.
THEOREM StampsSound ==
  ASSUME Order = "lifo"
  PROVE  Spec => []IInv2
<1>1. Init => IInv2
  BY InitIInv2
<1>2. IInv1 /\ IInv1' /\ IInv2 /\ [Next]_vars => IInv2'
  BY NextIInv2
<1>. QED BY <1>1, <1>2, ListsSound, PTL DEF Spec

LEMMA IInv2InOrder == IInv2 => InOrder
BY DEF IInv2, NoneLate, InOrder

\* The stack is LIFO for any number of threads and items and each class of timestamps:
\* pop, which finds the youngest item by looking at one list after the other, never
\* gets an item that was pushed after, and could have been taken before, an item
\* popped earlier.
THEOREM InOrderHolds ==
  ASSUME Order = "lifo"
  PROVE  Spec => []InOrder
<1>1. IInv2 => InOrder
  BY IInv2InOrder
<1>. QED BY <1>1, StampsSound, PTL
=============================================================================
