------------------------- MODULE TreiberStackProofs -------------------------
(***************************************************************************)
(* Proofs about TreiberStack for every set of threads, items and nodes,    *)
(* and for every number of ABA tags.                                       *)
(***************************************************************************)
EXTENDS TreiberStack, SequenceTheorems, TLAPS

\* What % and \div are.
LEMMA DivMod ==
  ASSUME NEW a \in Nat, NEW m \in Nat \ {0}
  PROVE  /\ a \div m \in Int /\ a % m \in 0..m-1
         /\ a = m * (a \div m) + (a % m)
OBVIOUS

\* Counts with the same tag are a multiple of m apart; a multiple of m between
\* -m and m is 0.
LEMMA Multiple ==
  ASSUME NEW m \in Nat \ {0}, NEW k \in Int, -m < m * k, m * k < m
  PROVE  k = 0
<1>1. k >= 1 => m * k >= m
  OBVIOUS
<1>2. k <= -1 => m * k <= -m
  OBVIOUS
<1> QED BY <1>1, <1>2

\* Two numbers less than m apart that leave the same remainder are equal.
LEMMA ModApart ==
  ASSUME NEW a \in Nat, NEW b \in Nat, NEW m \in Nat \ {0},
         a <= b, b - a < m, a % m = b % m
  PROVE  a = b
<1> DEFINE p == a \div m
           q == b \div m
<1>1. p \in Int /\ q \in Int /\ b - a = m * q - m * p
  BY DivMod
<1> HIDE DEF p, q
<1>2. m * (q - p) = b - a
  BY <1>1
<1>3. q - p = 0
  BY <1>1, <1>2, Multiple
<1> QED BY <1>2, <1>3

\* Counting modulo m step by step is counting and then reducing.
LEMMA ModStep ==
  ASSUME NEW c \in Nat, NEW m \in Nat \ {0}
  PROVE  ((c % m) + 1) % m = (c + 1) % m
<1> DEFINE r == c % m
           p == c \div m
           x == (r + 1) % m
           y == (c + 1) % m
           px == (r + 1) \div m
           py == (c + 1) \div m
<1>1. /\ r \in 0..m-1 /\ p \in Int /\ c = m * p + r
      /\ x \in 0..m-1 /\ px \in Int /\ r + 1 = m * px + x
      /\ y \in 0..m-1 /\ py \in Int /\ c + 1 = m * py + y
  <2>1. r \in Nat /\ r + 1 \in Nat /\ c + 1 \in Nat
    BY DivMod
  <2> QED BY <2>1, DivMod
<1> HIDE DEF r, p, x, y, px, py
<1>2. m * (px - py + p) = y - x
  BY <1>1
<1>3. px - py + p = 0
  BY <1>1, <1>2, Multiple
<1>4. x = y
  BY <1>1, <1>2, <1>3
<1> QED BY <1>4 DEF x, y, r

-----------------------------------------------------------------------------
\* The word *top_ starts with, a null pointer with tag 0, is a word.
LEMMA NullWordType == NullWord \in Words
BY TreiberStackAssumption DEF NullWord, Words

\* Bumping the tag of a word gives a word again: the tag wraps.
LEMMA SwingType ==
  ASSUME NEW w \in Words, NEW n \in Nodes \cup {Null}
  PROVE  Swing(w, n) \in Words
<1>1. w.aba + 1 \in Int /\ AbaMod \in Nat \ {0}
  BY TreiberStackAssumption DEF Words
<1>2. (w.aba + 1) % AbaMod \in 0..AbaMod-1
  BY <1>1
<1> QED BY <1>2 DEF Swing, Words

\* A sequence without its last element.
LEMMA DropLast ==
  ASSUME NEW S, NEW q \in Seq(S), NEW n \in Nat, Len(q) = n + 1
  PROVE  /\ SubSeq(q, 1, n) \in Seq(S) /\ Len(SubSeq(q, 1, n)) = n
         /\ \A i \in 1..n : SubSeq(q, 1, n)[i] = q[i]
<1>1. \A i \in 1..n : q[i] \in S
  OBVIOUS
<1>2. /\ SubSeq(q, 1, n) \in Seq(S)
      /\ Len(SubSeq(q, 1, n)) = IF 1 <= n THEN n - 1 + 1 ELSE 0
      /\ \A i \in 1..n-1+1 : SubSeq(q, 1, n)[i] = q[1 + i - 1]
  BY <1>1, SubSeqProperties
<1>3. n - 1 + 1 = n /\ \A i \in 1..n : 1 + i - 1 = i
  OBVIOUS
<1>4. \A i \in 1..n : SubSeq(q, 1, n)[i] = q[i]
  BY <1>2, <1>3
<1> QED BY <1>2, <1>4

-----------------------------------------------------------------------------
\* The invariant.

\* The constructor establishes the invariant: an empty list.
LEMMA InitIInv == Init => IInv
<1> SUFFICES ASSUME Init PROVE IInv
  OBVIOUS
<1>1. TypeOK
  BY NullWordType, TreiberStackAssumption
     DEF Init, TypeOK, Words, NoAnswer, AnswerKinds
<1>2. SpineInv
  BY DEF Init, SpineInv, SpineNode, NullWord
<1>3. 0 = 0 % AbaMod
  <2>1. AbaMod \in Nat \ {0}
    BY TreiberStackAssumption
  <2> QED BY <2>1
<1>4. TagInv
  BY <1>3 DEF Init, TagInv, NullWord
<1>5. ASSUME NEW t \in Threads PROVE ThreadInv(t)
  BY DEF Init, ThreadInv, At, PushPcs, PopPcs, Owns
<1> QED BY <1>1, <1>2, <1>4, <1>5 DEF IInv

\* The locals of every thread but t stay as they are.
OthersKeep(t) ==
  \A u \in Threads \ {t} :
    pc'[u] = pc[u] /\ op'[u] = op[u] /\ topOld'[u] = topOld[u] /\ node'[u] = node[u]

\* t takes no allocated node, and writes only to nodes of its own.
TouchesOwn(t) ==
  /\ \A n \in allocated : Owns(t, n)' => Owns(t, n)
  /\ \A n \in allocated : Owns(t, n) \/ next'[n] = next[n]

\* Such a step leaves the world of the others alone.
LEMMA Frame ==
  ASSUME IInv, NEW t \in Threads, OthersKeep(t), TouchesOwn(t),
         allocated \subseteq allocated'
  PROVE  /\ \A n : Published(n) => Published(n)' /\ next'[n] = next[n]
         /\ \A u \in Threads \ {t} : ThreadInv(u)'
<1>1. ASSUME NEW n, Published(n) PROVE Published(n)' /\ next'[n] = next[n]
  BY <1>1 DEF Published, TouchesOwn, OthersKeep, Owns
<1>2. ASSUME NEW u \in Threads \ {t} PROVE ThreadInv(u)'
  <2>1. /\ ThreadInv(u) /\ topOld'[u] = topOld[u] /\ pc'[u] = pc[u]
        /\ op'[u] = op[u] /\ node'[u] = node[u]
    BY DEF IInv, OthersKeep
  <2>2. ASSUME pc[u] \in {"P_read", "P_cas"}
        PROVE  /\ node[u] \in allocated' /\ next'[node[u]] = next[node[u]]
               /\ \A v \in Threads \ {u} : ~Owns(v, node[u])'
    <3>1. node[u] \in allocated /\ \A v \in Threads \ {u} : ~Owns(v, node[u])
      BY <2>1, <2>2 DEF ThreadInv, PushPcs
    <3> QED BY <2>1, <3>1 DEF TouchesOwn, OthersKeep, Owns
  <2> QED BY <1>1, <2>1, <2>2 DEF ThreadInv, At, PushPcs
<1> QED BY <1>1, <1>2

\* The spine stays when the top, the published links and all items do.
LEMMA SpineFrame ==
  ASSUME IInv, UNCHANGED <<top, spine>>,
         \A n : Published(n) => Published(n)' /\ next'[n] = next[n],
         \A n \in allocated' : data'[n] \in Values
  PROVE  SpineInv'
BY DEF IInv, SpineInv, SpineNode

\* A step that only changes the locals and the answer of t, and the link of a
\* node of its own.
LEMMA LocalStep ==
  ASSUME IInv, NEW t \in Threads, OthersKeep(t), TouchesOwn(t),
         UNCHANGED <<top, data, allocated, history>>
  PROVE  /\ SpineInv'
         /\ \A u \in Threads \ {t} : ThreadInv(u)'
         /\ \A n : Published(n) => Published(n)' /\ next'[n] = next[n]
<1>1. /\ \A n : Published(n) => Published(n)' /\ next'[n] = next[n]
      /\ \A u \in Threads \ {t} : ThreadInv(u)'
  BY Frame
<1>2. SpineInv'
  BY <1>1, SpineFrame DEF IInv, SpineInv, SpineNode, history
<1> QED BY <1>1, <1>2

\* A returned thread relies on nothing.
LEMMA RespondLemma ==
  ASSUME IInv, NEW t \in Threads, NEW kind \in AnswerKinds,
         NEW val \in Values \cup {Null}, Respond(t, kind, val),
         UNCHANGED <<top, memory, emptyState, emptyAt, history>>
  PROVE  IInv'
<1> USE DEF Respond, Goto
<1>1. TypeOK'
  BY NullWordType DEF IInv, TypeOK, memory, history
<1>2. OthersKeep(t) /\ TouchesOwn(t) /\ pc'[t] = "idle" /\ op'[t] = "none"
  BY DEF OthersKeep, TouchesOwn, Owns, IInv, TypeOK, memory
<1>3. ThreadInv(t)'
  BY <1>2 DEF ThreadInv, At, PushPcs, PopPcs, Owns
<1>4. TagInv'
  BY DEF IInv, TagInv, history
<1> QED BY <1>1, <1>2, <1>3, <1>4, LocalStep DEF IInv, memory

\* One more change of the top is one more on its tag.
LEMMA SwingTag ==
  ASSUME IInv, NEW t \in Threads, TopUnchanged(t), NEW n \in Nodes \cup {Null},
         top' = Swing(topOld[t], n), changes' = changes + 1, UNCHANGED answers
  PROVE  TagInv'
<1> USE DEF answers
<1>1. top.aba = changes % AbaMod /\ changes \in Nat /\ AbaMod \in Nat \ {0}
  BY TreiberStackAssumption DEF IInv, TypeOK, TagInv
<1>2. top'.aba = (top.aba + 1) % AbaMod
  BY DEF Swing, TopUnchanged
<1>3. top'.aba = changes' % AbaMod
  BY <1>1, <1>2, ModStep
<1>4. ASSUME NEW u \in Threads
      PROVE  /\ emptyAt'[u] <= changes'
             /\ emptyState'[u] = [ptr |-> Null, aba |-> emptyAt'[u] % AbaMod]
  <2>1. emptyAt[u] \in Nat /\ emptyAt[u] <= changes
    BY DEF IInv, TypeOK, TagInv
  <2> QED BY <1>1, <2>1 DEF IInv, TagInv
<1> QED BY <1>3, <1>4 DEF TagInv

\* The top of a stack that is not empty.
LEMMA TopOfSpine ==
  ASSUME IInv, top.ptr # Null
  PROVE  /\ Len(spine) \in 1..Len(spine) /\ top.ptr = spine[Len(spine)]
         /\ Published(top.ptr)
<1>1. spine # <<>> /\ top.ptr = spine[Len(spine)]
  BY DEF IInv, SpineInv, SpineNode
<1>2. Len(spine) \in 1..Len(spine)
  BY <1>1 DEF IInv, TypeOK
<1> QED BY <1>1, <1>2 DEF IInv, SpineInv, SpineNode

\* A new node is owned by nobody.
LEMMA CallPushStep ==
  ASSUME IInv, NEW t \in Threads, NEW n \in Nodes, NEW v \in Values, CallPush(t, n, v)
  PROVE  IInv'
<1> USE DEF CallPush, Goto, history
<1>1. TypeOK'
  BY DEF IInv, TypeOK, PushPcs, PushOps, NoAnswer, AnswerKinds
<1>2. /\ OthersKeep(t) /\ TouchesOwn(t) /\ pc'[t] = "P_read" /\ op'[t] = "push"
      /\ node'[t] = n
  BY DEF OthersKeep, TouchesOwn, Owns, IInv, TypeOK, At
<1>3. /\ \A x : Published(x) => Published(x)' /\ next'[x] = next[x]
      /\ \A u \in Threads \ {t} : ThreadInv(u)'
  BY <1>2, Frame
<1>4. ThreadInv(t)'
  <2>1. \A u \in Threads \ {t} : ~Owns(u, n)'
    BY <1>2 DEF IInv, ThreadInv, Owns, OthersKeep, PushPcs
  <2> QED BY <1>2, <2>1 DEF ThreadInv, At, PushPcs, PopPcs, PushOps
<1>5. SpineInv'
  BY <1>3, SpineFrame DEF IInv, SpineInv, TypeOK
<1>6. TagInv'
  BY DEF IInv, TagInv
<1> QED BY <1>1, <1>3, <1>4, <1>5, <1>6 DEF IInv

\* The link written is one of t's own node.
LEMMA PushReadStep ==
  ASSUME IInv, NEW t \in Threads, PushRead(t)
  PROVE  IInv'
<1> USE DEF PushRead, TopCopy, Goto, answers, history
<1>1. /\ node[t] \in Nodes /\ Owns(t, node[t])
      /\ \A u \in Threads \ {t} : ~Owns(u, node[t])
  BY DEF IInv, TypeOK, ThreadInv, Owns, At, PushPcs
<1>2. TypeOK'
  BY DEF IInv, TypeOK, PushPcs, Words
<1>3. /\ OthersKeep(t) /\ TouchesOwn(t) /\ pc'[t] = "P_cas" /\ op'[t] = op[t]
      /\ node'[t] = node[t] /\ topOld'[t] = top /\ next'[node[t]] = top.ptr
  BY <1>1 DEF OthersKeep, TouchesOwn, Owns, IInv, TypeOK, At
<1>4. ThreadInv(t)'
  BY <1>1, <1>3 DEF IInv, ThreadInv, At, PushPcs, PopPcs, Owns, OthersKeep
<1>5. TagInv'
  BY DEF IInv, TagInv
<1> QED BY <1>2, <1>3, <1>4, <1>5, LocalStep DEF IInv

\* The node that is swung in leaves its owner's hands; it was nobody else's.
LEMMA PushCasStep ==
  ASSUME IInv, NEW t \in Threads, PushCas(t)
  PROVE  IInv'
<1> USE DEF PushCas, Goto, memory, answers, history
<1>1. /\ node[t] \in allocated /\ \A u \in Threads \ {t} : ~Owns(u, node[t])
      /\ next[node[t]] = topOld[t].ptr /\ op[t] \in PushOps /\ op[t] # "none"
  BY DEF IInv, ThreadInv, At, PushPcs, PushOps
<1>2. /\ OthersKeep(t) /\ TouchesOwn(t) /\ pc'[t] \in {"P_return", "P_read"}
      /\ ~At(t, "P_cas")' /\ op'[t] = op[t] /\ node'[t] = node[t]
  BY DEF OthersKeep, TouchesOwn, Owns, IInv, TypeOK, At
<1>3. ThreadInv(t)'
  BY <1>1, <1>2 DEF ThreadInv, At, PushPcs, PopPcs, Owns, OthersKeep
<1>4. CASE /\ TopUnchanged(t)
           /\ top' = Swing(topOld[t], node[t])
           /\ Goto(t, "P_return")
           /\ spine' = Append(spine, node[t])
           /\ changes' = changes + 1
  <2>1. TypeOK'
    BY <1>1, <1>4, SwingType DEF IInv, TypeOK, PushPcs
  <2>2. /\ \A x : Published(x) => Published(x)' /\ next'[x] = next[x]
        /\ \A u \in Threads \ {t} : ThreadInv(u)'
    BY <1>2, Frame
  <2>3. Published(node[t])'
    BY <1>1, <1>2, <1>4 DEF Published, Owns, OthersKeep, IInv, TypeOK
  <2>4. SpineInv'
    <3>1. /\ spine \in Seq(Nodes) /\ Len(spine') = Len(spine) + 1
          /\ spine'[Len(spine')] = node[t]
          /\ \A i \in 1..Len(spine) : spine'[i] = spine[i]
      BY <1>1, <1>4 DEF IInv, TypeOK
    <3>2. top'.ptr = spine'[Len(spine')] /\ spine' # <<>>
      BY <1>4, <3>1 DEF Swing
    <3>3. next[node[t]] = IF spine = <<>> THEN Null ELSE spine[Len(spine)]
      BY <1>1, <1>4 DEF TopUnchanged, IInv, SpineInv
    <3>4. ASSUME NEW i \in 1..Len(spine') PROVE SpineNode(i)'
      <4>1. CASE i = Len(spine')
        <5>1. PICK n : n = node[t]
          OBVIOUS
        <5>2. Published(n)' /\ spine'[i] = n
          BY <2>3, <3>1, <4>1, <5>1 DEF Published, Owns
        <5>3. next'[n] = IF i = 1 THEN Null ELSE spine'[i - 1]
          <6>1. Len(spine) \in Nat /\ i = Len(spine) + 1 /\ (spine = <<>> <=> i = 1)
            BY <3>1, <4>1
          <6> QED BY <3>1, <3>3, <5>1, <6>1
        <5> QED BY <5>2, <5>3 DEF SpineNode
      <4>2. CASE i \in 1..Len(spine)
        <5>1. PICK n : n = spine[i]
          OBVIOUS
        <5>2. spine'[i] = n /\ (i # 1 => spine'[i - 1] = spine[i - 1])
          BY <3>1, <4>2, <5>1
        <5>3. Published(n) /\ next[n] = IF i = 1 THEN Null ELSE spine[i - 1]
          BY <4>2, <5>1 DEF IInv, SpineInv, SpineNode
        <5> QED BY <2>2, <5>2, <5>3 DEF SpineNode
      <4> QED BY <3>1, <4>1, <4>2
    <3> QED BY <3>2, <3>4 DEF SpineInv, IInv
  <2> QED BY <1>1, <1>3, <1>4, <2>1, <2>2, <2>4, SwingTag DEF IInv, TypeOK
<1>5. CASE Goto(t, "P_read") /\ UNCHANGED <<top, history>>
  <2>1. TypeOK' /\ TagInv'
    BY <1>5 DEF IInv, TypeOK, TagInv, PushPcs
  <2> QED BY <1>2, <1>3, <1>5, <2>1, LocalStep DEF IInv
<1> QED BY <1>4, <1>5

\* pop and get_return_empty_state touch nothing shared before their CAS.
LEMMA CallPopStep ==
  ASSUME IInv, NEW t \in Threads, NEW o \in PopOps, CallPop(t, o)
  PROVE  IInv'
<1> USE DEF CallPop, Goto, memory, history
<1>1. TypeOK' /\ TagInv'
  BY DEF IInv, TypeOK, TagInv, PopPcs, NoAnswer, AnswerKinds
<1>2. OthersKeep(t) /\ TouchesOwn(t) /\ pc'[t] = "O_read" /\ op'[t] = o /\ o # "none"
  BY DEF OthersKeep, TouchesOwn, Owns, IInv, TypeOK, At, PopOps
<1>3. ThreadInv(t)'
  BY <1>2 DEF ThreadInv, At, PushPcs, PopPcs, Owns
<1> QED BY <1>1, <1>2, <1>3, LocalStep DEF IInv

\* A top that is not null is a published node; a null top is recorded with
\* the count of changes it belongs to.
LEMMA PopReadStep ==
  ASSUME IInv, NEW t \in Threads, PopRead(t)
  PROVE  IInv'
<1> USE DEF PopRead, TopCopy, Goto, memory, history
<1>1. TypeOK'
  <2>1. /\ top' = top /\ next' = next /\ data' = data /\ allocated' = allocated
        /\ op' = op /\ node' = node /\ res' = res /\ spine' = spine
        /\ changes' = changes
    OBVIOUS
  <2>2. top \in Words /\ changes \in Nat
    BY DEF IInv, TypeOK
  <2>3. pc' \in [Threads -> {"idle"} \cup PushPcs \cup PopPcs]
    BY DEF IInv, TypeOK, PopPcs
  <2>4. topOld' \in [Threads -> Words]
    BY <2>2 DEF IInv, TypeOK
  <2>5. emptyState' \in [Threads -> Words]
    BY <2>2 DEF IInv, TypeOK
  <2>6. emptyAt' \in [Threads -> Nat]
    BY <2>2 DEF IInv, TypeOK
  <2> HIDE DEF PopRead, TopCopy, Goto, memory, history
  <2> QED BY <2>1, <2>3, <2>4, <2>5, <2>6 DEF IInv, TypeOK
<1>2. TagInv'
  <2>1. top.ptr = Null => top = [ptr |-> Null, aba |-> changes % AbaMod]
    BY DEF IInv, TypeOK, TagInv, Words
  <2>2. ASSUME NEW u \in Threads
        PROVE  /\ emptyAt'[u] <= changes
               /\ emptyState'[u] = [ptr |-> Null, aba |-> emptyAt'[u] % AbaMod]
    <3>1. CASE emptyState'[u] = emptyState[u] /\ emptyAt'[u] = emptyAt[u]
      BY <3>1 DEF IInv, TagInv
    <3>2. CASE top.ptr = Null /\ emptyState'[u] = top /\ emptyAt'[u] = changes
      BY <2>1, <3>2 DEF IInv, TypeOK
    <3> QED BY <3>1, <3>2 DEF IInv, TypeOK
  <2> QED BY <2>2 DEF IInv, TagInv
<1>3. /\ OthersKeep(t) /\ TouchesOwn(t) /\ op'[t] = op[t] /\ topOld'[t] = top
      /\ \/ pc'[t] = "O_empty"
         \/ pc'[t] = "O_next" /\ top.ptr # Null
  BY DEF OthersKeep, TouchesOwn, Owns, IInv, TypeOK, At
<1>4. top.ptr # Null => Published(top.ptr)
  BY TopOfSpine
<1>5. /\ SpineInv' /\ \A u \in Threads \ {t} : ThreadInv(u)'
      /\ \A x : Published(x) => Published(x)'
  BY <1>3, LocalStep
<1>6. op[t] \in PopOps /\ op[t] # "none"
  BY DEF IInv, ThreadInv, At, PopPcs, PopOps
<1>7. ThreadInv(t)'
  <2>1. CASE pc'[t] = "O_empty"
    BY <1>3, <1>6, <2>1 DEF ThreadInv, At, PushPcs, PopPcs
  <2>2. CASE pc'[t] = "O_next" /\ top.ptr # Null
    BY <1>3, <1>4, <1>5, <1>6, <2>2 DEF ThreadInv, At, PushPcs, PopPcs
  <2> QED BY <1>3, <2>1, <2>2
<1> QED BY <1>1, <1>2, <1>5, <1>7 DEF IInv

\* The links of published nodes do not change any more.
LEMMA PopReadNextStep ==
  ASSUME IInv, NEW t \in Threads, PopReadNext(t)
  PROVE  IInv'
<1> USE DEF PopReadNext, Goto, memory, answers, history
<1>1. Published(topOld[t].ptr) /\ topOld[t].ptr \in Nodes
  BY DEF IInv, TypeOK, ThreadInv, At, Published
<1>2. TypeOK' /\ TagInv'
  BY <1>1 DEF IInv, TypeOK, TagInv, PopPcs
<1>3. /\ OthersKeep(t) /\ TouchesOwn(t) /\ pc'[t] = "O_cas" /\ op'[t] = op[t]
      /\ topOld'[t] = topOld[t] /\ node'[t] = next[topOld[t].ptr]
  BY DEF OthersKeep, TouchesOwn, Owns, IInv, TypeOK, At
<1>4. ThreadInv(t)'
  <2>1. \A x : Published(x) => Published(x)'
    BY <1>3, LocalStep
  <2>2. op[t] \in PopOps /\ op[t] # "none"
    BY DEF IInv, ThreadInv, At, PopPcs, PopOps
  <2> QED BY <1>1, <1>3, <2>1, <2>2 DEF ThreadInv, At, PushPcs, PopPcs
<1> QED BY <1>2, <1>3, <1>4, LocalStep DEF IInv

\* What is swung in is the node below the top.
LEMMA PopCasStep ==
  ASSUME IInv, NEW t \in Threads, PopCas(t)
  PROVE  IInv'
<1> USE DEF PopCas, Goto, memory, answers, history
<1>1. /\ Published(topOld[t].ptr) /\ topOld[t].ptr \in Nodes
      /\ node[t] = next[topOld[t].ptr] /\ op[t] \in PopOps /\ op[t] # "none"
  BY DEF IInv, TypeOK, ThreadInv, At, PopPcs, PopOps, Published
<1>2. /\ OthersKeep(t) /\ TouchesOwn(t) /\ pc'[t] \in {"O_data", "O_read"}
      /\ op'[t] = op[t] /\ topOld'[t] = topOld[t]
  BY DEF OthersKeep, TouchesOwn, Owns, IInv, TypeOK, At
<1>3. /\ \A x : Published(x) => Published(x)' /\ next'[x] = next[x]
      /\ \A u \in Threads \ {t} : ThreadInv(u)'
  BY <1>2, Frame
<1>4. ThreadInv(t)'
  BY <1>1, <1>2, <1>3 DEF ThreadInv, At, PushPcs, PopPcs
<1>5. CASE /\ TopUnchanged(t)
           /\ top' = Swing(topOld[t], node[t])
           /\ Goto(t, "O_data")
           /\ spine' = SubSeq(spine, 1, Len(spine) - 1)
           /\ changes' = changes + 1
  <2>1. /\ spine \in Seq(Nodes) /\ Len(spine) \in 1..Len(spine)
        /\ topOld[t].ptr = spine[Len(spine)]
    BY <1>1, <1>5, TopOfSpine, TreiberStackAssumption DEF TopUnchanged, IInv, TypeOK
  <2>2. /\ spine' \in Seq(Nodes) /\ Len(spine') = Len(spine) - 1
        /\ \A i \in 1..Len(spine') : i \in 1..Len(spine) /\ spine'[i] = spine[i]
    <3>1. Len(spine) - 1 \in Nat /\ Len(spine) = Len(spine) - 1 + 1
      BY <2>1
    <3> QED BY <1>5, <2>1, <3>1, DropLast
  <2>3. TypeOK'
    BY <1>1, <1>5, <2>2, SwingType DEF IInv, TypeOK, PopPcs
  <2>4. top'.ptr = IF spine' = <<>> THEN Null ELSE spine'[Len(spine')]
    <3>1. top'.ptr = IF Len(spine) = 1 THEN Null ELSE spine[Len(spine) - 1]
      BY <1>1, <1>5, <2>1 DEF Swing, IInv, SpineInv, SpineNode
    <3>2. spine' = <<>> <=> Len(spine) = 1
      BY <2>1, <2>2
    <3>3. Len(spine) # 1 => spine'[Len(spine')] = spine[Len(spine) - 1]
      BY <2>1, <2>2
    <3> QED BY <3>1, <3>2, <3>3
  <2>5. ASSUME NEW i \in 1..Len(spine') PROVE SpineNode(i)'
    <3>1. PICK n : n = spine[i]
      OBVIOUS
    <3>2. spine'[i] = n /\ (i # 1 => spine'[i - 1] = spine[i - 1])
      BY <2>2, <3>1
    <3>3. Published(n) /\ next[n] = IF i = 1 THEN Null ELSE spine[i - 1]
      BY <2>2, <3>1 DEF IInv, SpineInv, SpineNode
    <3> QED BY <1>3, <3>2, <3>3 DEF SpineNode
  <2>6. SpineInv'
    BY <2>4, <2>5 DEF SpineInv, IInv
  <2> QED BY <1>3, <1>4, <1>5, <2>3, <2>6, SwingTag DEF IInv, TypeOK
<1>6. CASE Goto(t, "O_read") /\ UNCHANGED <<top, history>>
  <2>1. TypeOK' /\ TagInv'
    BY <1>6 DEF IInv, TypeOK, TagInv, PopPcs
  <2> QED BY <1>2, <1>4, <1>6, <2>1, LocalStep DEF IInv
<1> QED BY <1>5, <1>6

\* The three ways a call returns.
LEMMA ReturnSteps ==
  ASSUME IInv, NEW t \in Threads, PushReturn(t) \/ PopEmpty(t) \/ PopReadData(t)
  PROVE  IInv'
<1>1. CASE PushReturn(t)
  BY <1>1, RespondLemma DEF PushReturn, AnswerKinds
<1>2. CASE PopEmpty(t)
  BY <1>2, RespondLemma DEF PopEmpty, AnswerKinds
<1>3. CASE PopReadData(t)
  <2>1. data[topOld[t].ptr] \in Values
    BY <1>3 DEF PopReadData, IInv, ThreadInv, SpineInv, Published, At
  <2> QED BY <1>3, <2>1, RespondLemma DEF PopReadData, AnswerKinds
<1> QED BY <1>1, <1>2, <1>3

\* One access of any thread keeps the list and every thread's copies of it.
LEMMA NextIInv == IInv /\ [Next]_vars => IInv'
<1> SUFFICES ASSUME IInv, [Next]_vars PROVE IInv'
  OBVIOUS
<1>1. CASE UNCHANGED vars
  BY <1>1 DEF vars, memory, locals, answers, history, IInv, TypeOK, SpineInv,
     SpineNode, TagInv, ThreadInv, Published, Owns, At
<1>2. ASSUME NEW t \in Threads, Invoke(t) PROVE IInv'
  BY <1>2, CallPushStep, CallPopStep DEF Invoke
<1>3. ASSUME NEW t \in Threads, Step(t) PROVE IInv'
  BY <1>3, PushReadStep, PushCasStep, PopReadStep, PopReadNextStep, PopCasStep,
     ReturnSteps DEF Step
<1> QED BY <1>1, <1>2, <1>3 DEF Next

\* The list under the top stays intact, whatever stale copies of the top the
\* threads of push and pop hold.
THEOREM Invariance == Spec => []IInv
<1> QED BY InitIInv, NextIInv, PTL DEF Spec

\* Every variable keeps its type; tags never outgrow their bits.
THEOREM TypeCorrect == Spec => []TypeOK
BY Invariance, PTL DEF IInv

\* An unchanged empty state means an untouched top, until the tag of
\* get_return_empty_state has gone round.
THEOREM EmptyAnswers == Spec => []EmptyStateSound
<1>1. IInv => EmptyStateSound
  <2> SUFFICES ASSUME IInv, NEW t \in Threads, top = emptyState[t],
                      changes - emptyAt[t] < AbaMod
               PROVE  changes = emptyAt[t]
    BY DEF EmptyStateSound
  <2>1. /\ emptyAt[t] \in Nat /\ changes \in Nat /\ emptyAt[t] <= changes
        /\ emptyAt[t] % AbaMod = changes % AbaMod /\ AbaMod \in Nat \ {0}
    BY TreiberStackAssumption DEF IInv, TypeOK, TagInv
  <2> QED BY <2>1, ModApart
<1> QED BY <1>1, Invariance, PTL
-----------------------------------------------------------------------------
\* The refinement: every step of a thread is a step of LifoStack or a stutter.

\* What the mapping gives for the threads that did not step.
LEMMA MapFrame ==
  ASSUME IInv, NEW t \in Threads, OthersKeep(t),
         \A n \in allocated : data'[n] = data[n]
  PROVE  /\ PhaseMap' = [PhaseMap EXCEPT ![t] = Phase(t)']
         /\ ArgMap' = [ArgMap EXCEPT ![t] = Arg(t)']
         /\ SeenMap' = [SeenMap EXCEPT ![t] = At(t, "O_empty")']
<1>1. ASSUME NEW u \in Threads \ {t}
      PROVE  Phase(u)' = Phase(u) /\ At(u, "O_empty")' = At(u, "O_empty")
  BY DEF OthersKeep, Phase, At
<1>2. ASSUME NEW u \in Threads \ {t} PROVE Arg(u)' = Arg(u)
  <2>1. /\ pc[u] \in {"P_read", "P_cas", "P_return"} => node[u] \in allocated
        /\ At(u, "O_data") => topOld[u].ptr \in allocated
    BY DEF IInv, ThreadInv, Published, At, PushPcs
  <2> QED BY <2>1 DEF OthersKeep, Arg, At
<1> QED BY <1>1, <1>2 DEF PhaseMap, ArgMap, SeenMap

\* The content is a sequence of items, as long as the spine.
LEMMA ContentType ==
  ASSUME IInv
  PROVE  /\ Content \in Seq(Values) /\ Len(Content) = Len(spine)
         /\ Content = <<>> <=> spine = <<>>
         /\ \A i \in 1..Len(spine) : Content[i] = data[spine[i]]
<1>1. /\ spine \in Seq(Nodes)
      /\ \A i \in 1..Len(spine) : data[spine[i]] \in Values
  BY DEF IInv, TypeOK, SpineInv, SpineNode, Published
<1> QED BY <1>1 DEF Content

\* It stays when the spine and the items of allocated nodes do.
LEMMA ContentFrame ==
  ASSUME IInv, spine' = spine, \A n \in allocated : data'[n] = data[n]
  PROVE  Content' = Content
<1>1. \A i \in 1..Len(spine) : spine[i] \in allocated
  BY DEF IInv, SpineInv, SpineNode, Published
<1> QED BY <1>1 DEF Content

\* The steps the abstract stack does not see.
LEMMA Stutter ==
  ASSUME IInv, NEW t \in Threads, OthersKeep(t), UNCHANGED <<data, spine, res>>,
         Phase(t)' = Phase(t), Arg(t)' = Arg(t), At(t, "O_empty")' = At(t, "O_empty")
  PROVE  UNCHANGED Lifo!lifoVars
<1>1. /\ PhaseMap' = [PhaseMap EXCEPT ![t] = Phase(t)']
      /\ ArgMap' = [ArgMap EXCEPT ![t] = Arg(t)']
      /\ SeenMap' = [SeenMap EXCEPT ![t] = At(t, "O_empty")']
  BY MapFrame
<1>2. PhaseMap' = PhaseMap /\ ArgMap' = ArgMap /\ SeenMap' = SeenMap
  BY <1>1 DEF PhaseMap, ArgMap, SeenMap
<1> QED BY <1>2, ContentFrame DEF Lifo!lifoVars, Lifo!callVars

\* A returning call, whatever it answers.
LEMMA ReturnStep ==
  ASSUME IInv, NEW t \in Threads, NEW kind \in Lifo!Answers,
         NEW val \in Values \cup {Null}, Respond(t, kind, val),
         Lifo!Answer(t, kind, val), UNCHANGED <<data, spine>>
  PROVE  Lifo!Return(t)
<1>1. OthersKeep(t) /\ pc'[t] = "idle"
  BY DEF Respond, Goto, OthersKeep, IInv, TypeOK
<1>2. Phase(t)' = "idle" /\ Arg(t)' = Null /\ At(t, "O_empty")' = FALSE
  BY <1>1 DEF Phase, Arg, At
<1>3. /\ PhaseMap' = [PhaseMap EXCEPT ![t] = "idle"]
      /\ ArgMap' = [ArgMap EXCEPT ![t] = Null]
      /\ SeenMap' = [SeenMap EXCEPT ![t] = FALSE]
  BY <1>1, <1>2, MapFrame
<1> QED BY <1>3, ContentFrame DEF Lifo!Return, Lifo!EndCall, Respond

\* The first step of an operation is the stack's call.
LEMMA CallRefines ==
  ASSUME IInv, NEW t \in Threads, Invoke(t)
  PROVE  Lifo!Call(t)
<1> USE DEF Goto
<1>1. At(t, "idle") /\ Phase(t) = "idle" /\ Arg(t) = Null
  BY DEF Invoke, CallPush, CallPop, Phase, Arg, At
<1>2. /\ OthersKeep(t) /\ spine' = spine /\ \A n \in allocated : data'[n] = data[n]
      /\ pc'[t] \in {"P_read", "O_read"}
  BY DEF Invoke, CallPush, CallPop, memory, history, OthersKeep, IInv, TypeOK
<1>3. /\ PhaseMap' = [PhaseMap EXCEPT ![t] = Phase(t)']
      /\ ArgMap' = [ArgMap EXCEPT ![t] = Arg(t)']
      /\ SeenMap' = [SeenMap EXCEPT ![t] = FALSE]
  BY <1>2, MapFrame DEF At
<1>4. SeenMap' = SeenMap /\ Content' = Content
  BY <1>1, <1>2, <1>3, ContentFrame DEF SeenMap, At
<1>5. CASE \E n \in Nodes, v \in Values : CallPush(t, n, v)
  <2>1. PICK n \in Nodes, v \in Values : CallPush(t, n, v)
    BY <1>5
  <2>2. Phase(t)' = "push" /\ Arg(t)' = v
    BY <2>1 DEF CallPush, Phase, Arg, At, IInv, TypeOK
  <2> QED BY <1>1, <1>3, <1>4, <2>1, <2>2
          DEF Lifo!Call, Lifo!BeginCall, Lifo!NoAnswer, NoAnswer, CallPush, PhaseMap, PushOps
<1>6. CASE \E o \in PopOps : CallPop(t, o)
  <2>1. PICK o \in PopOps : CallPop(t, o)
    BY <1>6
  <2>2. Phase(t)' = o /\ Arg(t)' = Null
    BY <2>1 DEF CallPop, Phase, Arg, At, IInv, TypeOK
  <2>3. ArgMap' = ArgMap
    BY <1>1, <1>3, <2>2 DEF ArgMap
  <2> QED BY <1>1, <1>3, <1>4, <2>1, <2>2, <2>3
          DEF Lifo!Call, Lifo!BeginCall, Lifo!NoAnswer, NoAnswer, CallPop, PhaseMap
<1> QED BY <1>5, <1>6 DEF Invoke

\* A push takes effect at its CAS.
LEMMA PushRefines ==
  ASSUME IInv, NEW t \in Threads, PushRead(t) \/ PushCas(t) \/ PushReturn(t)
  PROVE  Lifo!Insert(t) \/ Lifo!Return(t) \/ UNCHANGED Lifo!lifoVars
<1> USE DEF Goto, memory, answers, history
<1>1. CASE PushRead(t)
  <2>1. /\ OthersKeep(t) /\ At(t, "P_read") /\ pc'[t] = "P_cas" /\ op'[t] = op[t]
        /\ node'[t] = node[t] /\ UNCHANGED <<data, spine, res>>
    BY <1>1 DEF PushRead, OthersKeep, At, IInv, TypeOK
  <2>2. Phase(t)' = Phase(t) /\ Arg(t)' = Arg(t) /\ At(t, "O_empty")' = At(t, "O_empty")
    BY <2>1 DEF Phase, Arg, At
  <2> QED BY <2>1, <2>2, Stutter
<1>2. CASE PushCas(t)
  <2>1. /\ At(t, "P_cas") /\ OthersKeep(t) /\ op'[t] = op[t] /\ node'[t] = node[t]
        /\ UNCHANGED <<data, res>> /\ op[t] \in PushOps /\ node[t] \in allocated
    BY <1>2 DEF PushCas, OthersKeep, At, IInv, TypeOK, ThreadInv, PushPcs
  <2>2. CASE Goto(t, "P_return") /\ spine' = Append(spine, node[t])
    <3>1. pc'[t] = "P_return"
      BY <2>2 DEF IInv, TypeOK
    <3>2. /\ Phase(t) = op[t] /\ Phase(t)' = "inserted"
          /\ Arg(t) = data[node[t]] /\ Arg(t)' = Arg(t)
          /\ At(t, "O_empty")' = FALSE /\ At(t, "O_empty") = FALSE
      BY <2>1, <3>1 DEF Phase, Arg, At
    <3>3. /\ PhaseMap' = [PhaseMap EXCEPT ![t] = "inserted"]
          /\ ArgMap' = ArgMap /\ SeenMap' = SeenMap
      BY <2>1, <3>2, MapFrame DEF PhaseMap, ArgMap, SeenMap
    <3>4. Content' = Append(Content, data[node[t]])
      <4>1. spine \in Seq(Nodes) /\ node[t] \in Nodes
        BY <2>1 DEF IInv, TypeOK
      <4>2. /\ Len(spine') = Len(spine) + 1 /\ spine'[Len(spine) + 1] = node[t]
            /\ \A i \in 1..Len(spine) : spine'[i] = spine[i]
        BY <2>2, <4>1
      <4> QED BY <2>1, <4>1, <4>2 DEF Content
    <3> QED BY <2>1, <3>2, <3>3, <3>4 DEF Lifo!Insert, Lifo!TakeIn, PhaseMap, ArgMap
  <2>3. CASE Goto(t, "P_read") /\ UNCHANGED history
    <3>1. pc'[t] = "P_read"
      BY <2>3 DEF IInv, TypeOK
    <3>2. Phase(t)' = Phase(t) /\ Arg(t)' = Arg(t) /\ At(t, "O_empty")' = At(t, "O_empty")
      BY <2>1, <3>1 DEF Phase, Arg, At
    <3> QED BY <2>1, <2>3, <3>2, Stutter
  <2> QED BY <1>2, <2>2, <2>3 DEF PushCas
<1>3. CASE PushReturn(t)
  <2>1. Lifo!Answer(t, "ok", Null)
    BY <1>3 DEF PushReturn, Lifo!Answer, PhaseMap, Phase, At
  <2> QED BY <1>3, <2>1, ReturnStep DEF PushReturn, Lifo!Answers
<1> QED BY <1>1, <1>2, <1>3

\* A pop takes effect at its CAS, or sees "empty" where it reads the top.
LEMMA PopRefines ==
  ASSUME IInv, NEW t \in Threads,
         PopRead(t) \/ PopEmpty(t) \/ PopReadNext(t) \/ PopCas(t) \/ PopReadData(t)
  PROVE  \/ Lifo!SeeEmpty(t) \/ Lifo!Remove(t) \/ Lifo!Return(t)
         \/ UNCHANGED Lifo!lifoVars
<1> USE DEF Goto, memory, answers, history
<1>1. CASE PopRead(t)
  <2>1. /\ OthersKeep(t) /\ At(t, "O_read") /\ op'[t] = op[t] /\ op[t] \in PopOps
        /\ UNCHANGED <<data, spine, res>>
        /\ \/ top.ptr = Null /\ pc'[t] = "O_empty"
           \/ pc'[t] = "O_next"
    BY <1>1 DEF PopRead, TopCopy, OthersKeep, At, IInv, TypeOK, ThreadInv, PopPcs
  <2>2. Phase(t) = op[t] /\ Phase(t)' = Phase(t) /\ Arg(t)' = Arg(t)
    BY <2>1 DEF Phase, Arg, At
  <2>3. CASE top.ptr = Null /\ pc'[t] = "O_empty"
    <3>1. Content = <<>>
      <4>1. Len(spine) \in Nat /\ (spine # <<>> => Len(spine) \in 1..Len(spine))
        BY DEF IInv, TypeOK
      <4>2. spine # <<>> => spine[Len(spine)] \in Nodes
        BY <4>1 DEF IInv, TypeOK
      <4> QED BY <2>3, <4>2, ContentType, TreiberStackAssumption DEF IInv, SpineInv
    <3>2. PhaseMap' = PhaseMap /\ ArgMap' = ArgMap
          /\ SeenMap' = [SeenMap EXCEPT ![t] = TRUE]
      BY <2>1, <2>2, <2>3, MapFrame DEF PhaseMap, ArgMap, At
    <3>3. PhaseMap[t] \in PopOps
      BY <2>1, <2>2 DEF PhaseMap
    <3> QED BY <2>1, <3>1, <3>2, <3>3, ContentFrame DEF Lifo!SeeEmpty, Lifo!Sight
  <2>4. CASE pc'[t] = "O_next"
    BY <2>1, <2>2, <2>4, Stutter DEF At
  <2> QED BY <2>1, <2>3, <2>4
<1>2. CASE PopEmpty(t)
  <2>1. Lifo!Answer(t, "empty", Null)
    <3>1. PhaseMap[t] \in PopOps /\ SeenMap[t]
      BY <1>2 DEF PopEmpty, IInv, ThreadInv, PopPcs, PhaseMap, SeenMap, Phase, At
    <3> QED BY <3>1 DEF Lifo!Answer
  <2> QED BY <1>2, <2>1, ReturnStep DEF PopEmpty, Lifo!Answers
<1>3. CASE PopReadNext(t)
  <2>1. /\ OthersKeep(t) /\ At(t, "O_next") /\ pc'[t] = "O_cas" /\ op'[t] = op[t]
        /\ UNCHANGED <<data, spine, res>>
    BY <1>3 DEF PopReadNext, OthersKeep, At, IInv, TypeOK
  <2>2. Phase(t)' = Phase(t) /\ Arg(t)' = Arg(t) /\ At(t, "O_empty")' = At(t, "O_empty")
    BY <2>1 DEF Phase, Arg, At
  <2> QED BY <2>1, <2>2, Stutter
<1>4. CASE PopCas(t)
  <2>1. /\ At(t, "O_cas") /\ OthersKeep(t) /\ op'[t] = op[t] /\ topOld'[t] = topOld[t]
        /\ UNCHANGED <<data, res>> /\ op[t] \in PopOps /\ Published(topOld[t].ptr)
    BY <1>4 DEF PopCas, OthersKeep, At, IInv, TypeOK, ThreadInv, PopPcs
  <2>2. CASE /\ TopUnchanged(t) /\ Goto(t, "O_data")
             /\ spine' = SubSeq(spine, 1, Len(spine) - 1)
    <3>1. pc'[t] = "O_data"
      BY <2>2 DEF IInv, TypeOK
    <3>2. /\ spine \in Seq(Nodes) /\ Len(spine) \in 1..Len(spine)
          /\ topOld[t].ptr = spine[Len(spine)]
      BY <2>1, <2>2, TopOfSpine, TreiberStackAssumption
         DEF TopUnchanged, Published, IInv, TypeOK
    <3>3. /\ Phase(t) = op[t] /\ Phase(t)' = "removed"
          /\ Arg(t)' = Content[Len(Content)]
          /\ At(t, "O_empty")' = FALSE /\ At(t, "O_empty") = FALSE
      BY <2>1, <3>1, <3>2, ContentType DEF Phase, Arg, At
    <3>4. /\ PhaseMap' = [PhaseMap EXCEPT ![t] = "removed"]
          /\ ArgMap' = [ArgMap EXCEPT ![t] = Content[Len(Content)]]
          /\ SeenMap' = SeenMap
      BY <2>1, <3>3, MapFrame DEF SeenMap
    <3>5. /\ SeenMap \in [Threads -> BOOLEAN] /\ PhaseMap[t] \in PopOps
          /\ Content # <<>>
      BY <2>1, <3>2, <3>3, ContentType DEF SeenMap, PhaseMap, At
    <3>6. Content' = SubSeq(Content, 1, Len(Content) - 1)
      <4>1. Len(spine) - 1 \in Nat /\ Len(spine) = Len(spine) - 1 + 1
        BY <3>2
      <4>2. /\ Len(spine') = Len(spine) - 1
            /\ \A i \in 1..Len(spine)-1 : spine'[i] = spine[i]
        BY <2>2, <3>2, <4>1, DropLast
      <4>3. Content' = [i \in 1..Len(spine)-1 |-> Content[i]]
        BY <2>1, <4>1, <4>2, ContentType DEF Content
      <4>4. SubSeq(Content, 1, Len(spine) - 1) = [i \in 1..Len(spine)-1 |-> Content[i]]
        BY <4>1, ContentType, DropLast
      <4> QED BY <4>3, <4>4, ContentType
    <3> QED BY <2>1, <3>4, <3>5, <3>6 DEF Lifo!Remove, Lifo!TakeOut
  <2>3. CASE Goto(t, "O_read") /\ UNCHANGED history
    <3>1. pc'[t] = "O_read"
      BY <2>3 DEF IInv, TypeOK
    <3>2. Phase(t)' = Phase(t) /\ Arg(t)' = Arg(t) /\ At(t, "O_empty")' = At(t, "O_empty")
      BY <2>1, <3>1 DEF Phase, Arg, At
    <3> QED BY <2>1, <2>3, <3>2, Stutter
  <2> QED BY <1>4, <2>2, <2>3 DEF PopCas
<1>5. CASE PopReadData(t)
  <2>1. /\ Lifo!Answer(t, "item", data[topOld[t].ptr])
        /\ data[topOld[t].ptr] \in Values
    BY <1>5 DEF PopReadData, Lifo!Answer, PhaseMap, ArgMap, Phase, Arg, At, IInv,
       ThreadInv, SpineInv, Published
  <2> QED BY <1>5, <2>1, ReturnStep DEF PopReadData, Lifo!Answers
<1> QED BY <1>1, <1>2, <1>3, <1>4, <1>5

\* TreiberStack implements the LIFO stack of stack.h, whatever the threads do.
THEOREM Linearizability == Spec => Linearizable
<1>1. Init => Lifo!LifoInit
  <2> SUFFICES ASSUME Init PROVE Lifo!LifoInit
    OBVIOUS
  <2>1. \A t \in Threads : Phase(t) = "idle" /\ Arg(t) = Null /\ At(t, "O_empty") = FALSE
    BY DEF Init, Phase, Arg, At
  <2>2. Content = <<>>
    BY DEF Init, Content
  <2> QED BY <2>1, <2>2 DEF Init, Lifo!LifoInit, Lifo!CallsInit, Lifo!NoAnswer,
          NoAnswer, PhaseMap, ArgMap, SeenMap
<1>2. IInv /\ [Next]_vars => [Lifo!LifoNext]_Lifo!lifoVars
  <2> SUFFICES ASSUME IInv, [Next]_vars
               PROVE  Lifo!LifoNext \/ UNCHANGED Lifo!lifoVars
    OBVIOUS
  <2>1. CASE UNCHANGED vars
    BY <2>1 DEF vars, memory, locals, answers, history, Lifo!lifoVars, Lifo!callVars,
       Content, PhaseMap, ArgMap, SeenMap, Phase, Arg, At
  <2>2. ASSUME NEW t \in Threads, Invoke(t) PROVE Lifo!LifoNext
    BY <2>2, CallRefines DEF Lifo!LifoNext
  <2>3. ASSUME NEW t \in Threads, Step(t)
        PROVE  Lifo!LifoNext \/ UNCHANGED Lifo!lifoVars
    BY <2>3, PushRefines, PopRefines DEF Step, Lifo!LifoNext
  <2> QED BY <2>1, <2>2, <2>3 DEF Next
<1> QED BY <1>1, <1>2, Invariance, PTL DEF Spec, Linearizable, Lifo!LifoSpec
=============================================================================
