----------------------- MODULE DistributedQueueProofs -----------------------
(***************************************************************************)
(* Proofs about DistributedQueue for every number of backends, threads and *)
(* items and every build, on the assumption NoTagRound: the tag of a       *)
(* TreiberStack backend does not go all the way round within one get.      *)
(***************************************************************************)
EXTENDS DistributedQueue, TLAPS

\* What % and \div are.
LEMMA DivMod ==
  ASSUME NEW a \in Nat, NEW m \in Nat \ {0}
  PROVE  /\ a \div m \in Int /\ a % m \in 0..m-1
         /\ a = m * (a \div m) + (a % m)
OBVIOUS

\* Counts with the same tag are a multiple of m apart; a multiple of m between
\* -m and m is 0.
LEMMA Multiple ==
  ASSUME NEW m \in Nat \ {0}, NEW k \in Int, -m < m * k, m * k < m
  PROVE  k = 0
<1>1. k >= 1 => m * k >= m
  OBVIOUS
<1>2. k <= -1 => m * k <= -m
  OBVIOUS
<1> QED BY <1>1, <1>2

\* Two numbers less than m apart that leave the same remainder are equal.
LEMMA ModApart ==
  ASSUME NEW a \in Nat, NEW b \in Nat, NEW m \in Nat \ {0},
         a <= b, b - a < m, a % m = b % m
  PROVE  a = b
<1> DEFINE p == a \div m
           q == b \div m
<1>1. p \in Int /\ q \in Int /\ b - a = m * q - m * p
  BY DivMod
<1> HIDE DEF p, q
<1>2. m * (q - p) = b - a
  BY <1>1
<1>3. q - p = 0
  BY <1>1, <1>2, Multiple
<1> QED BY <1>2, <1>3

\* An index that ran past the end of an array of m entries at most once.
LEMMA ModOnce ==
  ASSUME NEW m \in Nat \ {0}, NEW x \in 0..2*m-1
  PROVE  x % m = IF x < m THEN x ELSE x - m
OBVIOUS

-----------------------------------------------------------------------------
\* The rounds over the backends.

\* An index reduced modulo NumQueues names a backend.
LEMMA WrapType == \A x \in Nat : Wrap(x) \in Queues
BY DivMod, DistributedQueueAssumption DEF Wrap, Queues

\* Within one round of NumQueues positions no backend is met twice.
LEMMA WrapOnce ==
  ASSUME NEW s \in Queues, NEW k \in 0..NumQueues
  PROVE  Wrap(s + k) = IF s + k < NumQueues THEN s + k ELSE s + k - NumQueues
<1>1. NumQueues \in Nat \ {0} /\ s + k \in 0..2*NumQueues-1
  BY DistributedQueueAssumption DEF Queues
<1>2. PICK x \in 0..2*NumQueues-1 : x = s + k
  BY <1>1
<1>3. x % NumQueues = IF x < NumQueues THEN x ELSE x - NumQueues
  BY <1>1, <1>2, ModOnce
<1>4. Wrap(x) = IF x < NumQueues THEN x ELSE x - NumQueues
  BY <1>3 DEF Wrap
<1>5. s \in Nat /\ k \in Nat /\ x \in Nat
  BY <1>1 DEF Queues
<1>6. Wrap(s + k) = Wrap(x)
  BY <1>2
<1>7. CASE x < NumQueues
  <2>1. Wrap(x) = x /\ s + k < NumQueues
    BY <1>1, <1>2, <1>4, <1>5, <1>7
  <2> QED BY <1>2, <1>6, <2>1
<1>8. CASE ~(x < NumQueues)
  <2>1. Wrap(x) = x - NumQueues /\ ~(s + k < NumQueues)
    BY <1>1, <1>2, <1>4, <1>5, <1>8
  <2> QED BY <1>1, <1>2, <1>5, <1>6, <2>1
<1> QED BY <1>7, <1>8

\* A round grows by one backend at a time, and after NumQueues it is complete.
LEMMA Round ==
  ASSUME NEW t \in Threads, start[t] \in Queues
  PROVE  /\ Before(t, 0) = {}
         /\ \A k \in Nat : Before(t, k + 1) = Before(t, k) \cup {Wrap(start[t] + k)}
         /\ Before(t, NumQueues) = Queues
<1> USE DistributedQueueAssumption
<1>1. Before(t, 0) = {}
  BY DEF Before
<1>2. ASSUME NEW k \in Nat
      PROVE  Before(t, k + 1) = Before(t, k) \cup {Wrap(start[t] + k)}
  <2>1. 0 .. (k + 1) - 1 = (0 .. k-1) \cup {k}
    OBVIOUS
  <2> QED BY <2>1 DEF Before
<1>3. Before(t, NumQueues) = Queues
  <2>1. \A j \in 0..NumQueues-1 : Wrap(start[t] + j) \in Queues
    BY WrapOnce DEF Queues
  <2>2. ASSUME NEW q \in Queues
        PROVE  \E j \in 0..NumQueues-1 : q = Wrap(start[t] + j)
    <3>1. CASE q >= start[t]
      <4>1. q - start[t] \in 0..NumQueues-1 /\ start[t] + (q - start[t]) = q
        BY <3>1 DEF Queues
      <4>2. Wrap(start[t] + (q - start[t])) = q
        BY <4>1, WrapOnce DEF Queues
      <4> QED BY <4>1, <4>2
    <3>2. CASE q < start[t]
      <4>1. /\ q + NumQueues - start[t] \in 0..NumQueues-1
            /\ start[t] + (q + NumQueues - start[t]) = q + NumQueues
        BY <3>2 DEF Queues
      <4>2. Wrap(start[t] + (q + NumQueues - start[t])) = q
        BY <4>1, WrapOnce DEF Queues
      <4> QED BY <4>1, <4>2
    <3> QED BY <3>1, <3>2 DEF Queues
  <2> QED BY <2>1, <2>2 DEF Before
<1> QED BY <1>1, <1>2, <1>3

\* The test at the end of the second loop finds the last backend of a round.
LEMMA LastOfRound ==
  ASSUME NEW t \in Threads, start[t] \in Queues, i[t] \in Queues
  PROVE  /\ Index(t) \in Queues
         /\ Wrap(Index(t) + 1) = start[t] <=> i[t] + 1 = NumQueues
<1> USE DistributedQueueAssumption DEF Queues
<1>1. Index(t) = IF start[t] + i[t] < NumQueues THEN start[t] + i[t]
                 ELSE start[t] + i[t] - NumQueues
  BY WrapOnce DEF Index
<1>2. Index(t) \in Queues
  BY <1>1
<1>3. Wrap(Index(t) + 1) = IF Index(t) + 1 < NumQueues THEN Index(t) + 1
                           ELSE Index(t) + 1 - NumQueues
  BY <1>2, WrapOnce
<1> QED BY <1>1, <1>2, <1>3

\* The positions of a round start at 0 and end before NumQueues.
LEMMA QueuesFacts == 0 \in Queues /\ \A k \in Queues : k + 1 < NumQueues => k + 1 \in Queues
BY DistributedQueueAssumption DEF Queues

-----------------------------------------------------------------------------
\* Types, and where an item can be.  These need nothing of the tags.

Placed == TypeOK /\ ItemsApart

\* The constructor leaves every item placed: nothing is put yet.
LEMMA InitPlaced == Init => Placed
<1>1. \A g \in Groups : Wrap((NumQueues \div Partitions) * g) \in Queues
  <2>1. \A g \in Groups : (NumQueues \div Partitions) * g \in Nat
    <3>1. NumQueues \div Partitions \in Nat
      BY DistributedQueueAssumption
    <3> QED BY <3>1 DEF Groups
  <2> QED BY <2>1, WrapType
<1>2. Init => TypeOK
  BY <1>1, QueuesFacts DEF Init, TypeOK, NoAnswer, AnswerKinds
<1>3. Init => ItemsApart
  BY DEF Init, ItemsApart, InHand, PutPcs
<1> QED BY <1>2, <1>3 DEF Placed

\* The turn of a partition is a backend, and so is the next.
LEMMA BalanceType ==
  ASSUME NEW t \in Threads, NEW rr \in [Groups -> Queues], NEW index \in Queues
  PROVE  [rr EXCEPT ![t % Partitions] = Wrap(index + 1)] \in [Groups -> Queues]
<1>1. index + 1 \in Nat
  BY DEF Queues
<1> QED BY <1>1, WrapType

\* The items of a thread that returns are in nobody's hands any more.
LEMMA RespondPlaced ==
  ASSUME Placed, NEW t \in Threads, NEW kind \in AnswerKinds,
         NEW val \in Items \cup {Null}, Respond(t, kind, val)
  PROVE  Placed'
<1> USE DEF Respond, Goto, balancing, backends
<1>1. TypeOK'
  BY QueuesFacts DEF Placed, TypeOK
<1>2. ItemsApart'
  BY DEF Placed, TypeOK, ItemsApart, InHand, PutPcs
<1> QED BY <1>1, <1>2 DEF Placed

\* The first step of a call keeps every item in one place.
LEMMA InvokePlaced ==
  ASSUME Placed, NEW t \in Threads, Invoke(t)
  PROVE  Placed'
<1> USE DEF Goto, balancing, backends, history
<1>1. CASE CallGet(t)
  <2>1. TypeOK'
    BY <1>1 DEF CallGet, Placed, TypeOK, GetPcs, NoAnswer, AnswerKinds
  <2>2. ItemsApart'
    BY <1>1 DEF CallGet, Placed, TypeOK, ItemsApart, InHand, PutPcs
  <2> QED BY <2>1, <2>2 DEF Placed
<1>2. ASSUME NEW x \in Items, CallPut(t, x) PROVE Placed'
  <2>1. TypeOK'
    BY <1>2 DEF CallPut, Placed, TypeOK, PutPcs, NoAnswer, AnswerKinds
  <2>2. ItemsApart'
    BY <1>2 DEF CallPut, Placed, TypeOK, ItemsApart, InHand, PutPcs
  <2> QED BY <2>1, <2>2 DEF Placed
<1> QED BY <1>1, <1>2 DEF Invoke

\* A put hands its item over to one backend.
LEMMA PutPlaced ==
  ASSUME Placed, NEW t \in Threads, PutBalance(t) \/ PutBackend(t)
  PROVE  Placed'
<1> USE DEF Goto, balancing, backends, history
<1>1. CASE PutBalance(t)
  <2>1. enqueueRr' \in [Groups -> Queues]
    <3>1. PICK index \in Queues : Balance(t, enqueueRr, index)
      BY <1>1 DEF PutBalance
    <3>2. enqueueRr \in [Groups -> Queues]
      BY DEF Placed, TypeOK
    <3>3. [enqueueRr EXCEPT ![t % Partitions] = Wrap(index + 1)] \in [Groups -> Queues]
      BY <3>2, BalanceType
    <3> QED BY <3>1, <3>2, <3>3 DEF Balance
  <2>2. TypeOK'
    BY <1>1, <2>1 DEF PutBalance, Placed, TypeOK, PutPcs
  <2>3. ItemsApart'
    BY <1>1 DEF PutBalance, Placed, TypeOK, ItemsApart, InHand, PutPcs, At
  <2> QED BY <2>2, <2>3 DEF Placed
<1>2. CASE PutBackend(t)
  <2>1. item[t] \in used /\ item[t] \in Items /\ InHand(t, item[t]) /\ start[t] \in Queues
    BY <1>2 DEF PutBackend, Placed, TypeOK, ItemsApart, InHand, PutPcs, At
  <2>2. \A q \in Queues : \A x : x \in content'[q] <=>
             x \in content[q] \/ (q = start[t] /\ x = item[t])
    BY <1>2 DEF PutBackend, Placed, TypeOK
  <2>3. TypeOK'
    <3>1. content' \in [Queues -> SUBSET Items]
      BY <1>2, <2>1 DEF PutBackend, Placed, TypeOK
    <3>2. state' \in [Queues -> Nat]
      BY <1>2 DEF PutBackend, Placed, TypeOK, WordBumped
    <3> QED BY <1>2, <3>1, <3>2 DEF PutBackend, Placed, TypeOK, PutPcs
  <2>4. /\ \A u \in Threads : \A x : InHand(u, x)' <=> u # t /\ InHand(u, x)
        /\ \A u \in Threads \ {t} : pc'[u] = pc[u]
        /\ pc'[t] = "P_return" /\ item' = item /\ used' = used
    BY <1>2 DEF PutBackend, Placed, TypeOK, InHand
  <2>5. ASSUME NEW q \in Queues, NEW x \in content'[q]
        PROVE  /\ x \in used'
               /\ \A p \in Queues \ {q} : x \notin content'[p]
               /\ \A u \in Threads : ~InHand(u, x)'
    BY <2>1, <2>2, <2>4, <2>5 DEF Placed, ItemsApart
  <2>6. ASSUME NEW u \in Threads, pc'[u] \in PutPcs \cup {"G_return"}
        PROVE  item'[u] \in used'
    BY <2>1, <2>4, <2>6 DEF Placed, ItemsApart
  <2>7. ASSUME NEW u \in Threads, InHand(u, item[u])', NEW v \in Threads \ {u}
        PROVE  ~InHand(v, item[u])'
    BY <2>4, <2>7 DEF Placed, ItemsApart
  <2>8. ItemsApart'
    BY <2>5, <2>6, <2>7 DEF ItemsApart
  <2> QED BY <2>3, <2>8 DEF Placed
<1> QED BY <1>1, <1>2

\* A get that finds an item takes it from the backend into its own hands.
LEMMA FoundPlaced ==
  ASSUME Placed, NEW t \in Threads, GetFound(t)
  PROVE  Placed'
<1> USE DEF Goto, balancing, backends, history
<1> DEFINE k == Index(t)
<1>1. At(t, "G_scan") /\ k \in Queues
  BY LastOfRound DEF GetFound, Placed, TypeOK
<1>2. PICK x \in content[k] : /\ content' = [content EXCEPT ![k] = @ \ {x}]
                              /\ item' = [item EXCEPT ![t] = x]
  BY DEF GetFound
<1>3. /\ state' = [state EXCEPT ![k] = @ + 1] \/ state' = state
      /\ tails' = [tails EXCEPT ![t][k] = state[k]]
      /\ pc' = [pc EXCEPT ![t] = "G_return"]
      /\ UNCHANGED <<build, enqueueRr, dequeueRr, start, i, res, used, emptyThen, sawEmpty>>
  BY DEF GetFound
<1> HIDE DEF k
<1>4. /\ x \in Items /\ x \in used
      /\ \A p \in Queues \ {k} : x \notin content[p]
      /\ \A u \in Threads : ~InHand(u, x)
  BY <1>1, <1>2 DEF Placed, TypeOK, ItemsApart
<1>5. TypeOK'
  <2>1. content' \in [Queues -> SUBSET Items] /\ item' \in [Threads -> Items \cup {Null}]
    BY <1>1, <1>2, <1>4 DEF Placed, TypeOK
  <2>2. state' \in [Queues -> Nat] /\ tails' \in [Threads -> [Queues -> Nat]]
    BY <1>1, <1>3 DEF Placed, TypeOK
  <2> QED BY <1>3, <2>1, <2>2 DEF Placed, TypeOK, GetPcs
<1>6. /\ \A u \in Threads \ {t} : \A y : InHand(u, y)' <=> InHand(u, y)
      /\ \A y : InHand(t, y)' <=> y = x
      /\ \A u \in Threads \ {t} : pc'[u] = pc[u] /\ item'[u] = item[u]
      /\ item'[t] = x
  BY <1>2, <1>3 DEF Placed, TypeOK, InHand
<1>7. \A q \in Queues : \A y : y \in content'[q] <=> y \in content[q] /\ ~(q = k /\ y = x)
  BY <1>1, <1>2 DEF Placed, TypeOK
<1>8. ASSUME NEW q \in Queues, NEW y \in content'[q]
      PROVE  /\ y \in used'
             /\ \A p \in Queues \ {q} : y \notin content'[p]
             /\ \A u \in Threads : ~InHand(u, y)'
  <2>1. y \in content[q] /\ y # x
    BY <1>1, <1>4, <1>7, <1>8
  <2> QED BY <1>3, <1>6, <1>7, <2>1 DEF Placed, ItemsApart
<1>9. ASSUME NEW u \in Threads, pc'[u] \in PutPcs \cup {"G_return"}
      PROVE  item'[u] \in used'
  BY <1>3, <1>4, <1>6, <1>9 DEF Placed, ItemsApart
<1>10. ASSUME NEW u \in Threads, InHand(u, item[u])', NEW v \in Threads \ {u}
       PROVE  ~InHand(v, item[u])'
  <2>1. CASE u = t
    BY <1>4, <1>6, <2>1
  <2>2. CASE u # t
    BY <1>2, <1>4, <1>6, <1>10, <2>2 DEF Placed, ItemsApart
  <2> QED BY <2>1, <2>2
<1>11. ItemsApart'
  BY <1>8, <1>9, <1>10 DEF ItemsApart
<1> QED BY <1>5, <1>11 DEF Placed

\* What moves no item: where a get starts to look, and what it looks at.
LEMMA LookPlaced ==
  ASSUME Placed, NEW t \in Threads, GetBalance(t) \/ GetNothing(t) \/ GetCheck(t)
  PROVE  Placed'
<1> USE DEF Goto, balancing, backends, history
<1>1. CASE GetBalance(t)
  <2>1. PICK index \in Queues : Balance(t, dequeueRr, index)
    BY <1>1 DEF GetBalance
  <2>2. dequeueRr \in [Groups -> Queues]
    BY DEF Placed, TypeOK
  <2>3. [dequeueRr EXCEPT ![t % Partitions] = Wrap(index + 1)] \in [Groups -> Queues]
    BY <2>2, BalanceType
  <2>4. dequeueRr' \in [Groups -> Queues]
    BY <2>1, <2>2, <2>3 DEF Balance
  <2>5. TypeOK'
    BY <1>1, <2>4 DEF GetBalance, Placed, TypeOK, GetPcs
  <2>6. ItemsApart'
    BY <1>1 DEF GetBalance, Placed, TypeOK, ItemsApart, InHand, PutPcs, At
  <2> QED BY <2>5, <2>6 DEF Placed
<1>2. CASE GetNothing(t)
  <2>1. Index(t) \in Queues
    BY LastOfRound DEF Placed, TypeOK
  <2>2. tails' \in [Threads -> [Queues -> Nat]]
    BY <1>2, <2>1 DEF GetNothing, Record, Placed, TypeOK
  <2>3. i' \in [Threads -> Queues]
    <3>1. i[t] \in Queues
      BY DEF Placed, TypeOK
    <3>2. \/ i' = [i EXCEPT ![t] = 0]
          \/ i' = [i EXCEPT ![t] = i[t] + 1] /\ i[t] + 1 < NumQueues
      BY <1>2 DEF GetNothing
    <3> QED BY <3>1, <3>2, QueuesFacts DEF Placed, TypeOK
  <2>4. emptyThen' \in [Threads -> SUBSET Queues] /\ sawEmpty' \in [Threads -> BOOLEAN]
    <3>1. EmptyNow \subseteq Queues
      BY DEF EmptyNow
    <3>2. /\ emptyThen' = emptyThen \/ emptyThen' = [emptyThen EXCEPT ![t] = EmptyNow]
          /\ sawEmpty' = sawEmpty \/ sawEmpty' = [sawEmpty EXCEPT ![t] = TRUE]
      BY <1>2 DEF GetNothing
    <3> QED BY <3>1, <3>2 DEF Placed, TypeOK
  <2>5. TypeOK'
    BY <1>2, <2>2, <2>3, <2>4 DEF GetNothing, Placed, TypeOK, GetPcs
  <2>6. ItemsApart'
    BY <1>2 DEF GetNothing, Placed, TypeOK, ItemsApart, InHand, PutPcs, At
  <2> QED BY <2>5, <2>6 DEF Placed
<1>3. CASE GetCheck(t)
  <2>1. Index(t) \in Queues /\ (Wrap(Index(t) + 1) = start[t] <=> i[t] + 1 = NumQueues)
    BY LastOfRound DEF Placed, TypeOK
  <2>2. start' \in [Threads -> Queues]
    BY <1>3, <2>1 DEF GetCheck, Placed, TypeOK
  <2>3. i' \in [Threads -> Queues]
    <3>1. i[t] \in Queues
      BY DEF Placed, TypeOK
    <3>2. \/ i' = [i EXCEPT ![t] = 0]
          \/ i' = [i EXCEPT ![t] = i[t] + 1] /\ i[t] + 1 # NumQueues
          \/ i' = i
      BY <1>3, <2>1 DEF GetCheck
    <3>3. i[t] + 1 # NumQueues => i[t] + 1 \in Queues
      BY <3>1, DistributedQueueAssumption DEF Queues
    <3> QED BY <3>1, <3>2, <3>3, QueuesFacts DEF Placed, TypeOK
  <2>4. TypeOK'
    BY <1>3, <2>2, <2>3 DEF GetCheck, Placed, TypeOK, GetPcs
  <2>5. ItemsApart'
    BY <1>3 DEF GetCheck, Placed, TypeOK, ItemsApart, InHand, PutPcs, At
  <2> QED BY <2>4, <2>5 DEF Placed
<1> QED BY <1>1, <1>2, <1>3

\* The return of a call keeps every item in one place.
LEMMA ReturnPlaced ==
  ASSUME Placed, NEW t \in Threads, PutReturn(t) \/ GetReturn(t)
  PROVE  Placed'
<1>1. item[t] \in Items \cup {Null}
  BY DEF Placed, TypeOK
<1>2. \E kind \in AnswerKinds, val \in Items \cup {Null} : Respond(t, kind, val)
  BY <1>1 DEF PutReturn, GetReturn, AnswerKinds
<1> QED BY <1>2, RespondPlaced

\* No step of put or get loses an item or copies it.
LEMMA StepPlaced == Placed /\ [Next]_vars => Placed'
<1> SUFFICES ASSUME Placed, [Next]_vars PROVE Placed'
  OBVIOUS
<1>1. CASE UNCHANGED vars
  BY <1>1 DEF vars, balancing, backends, history, Placed, TypeOK, ItemsApart, InHand
<1>2. ASSUME NEW t \in Threads, Invoke(t) PROVE Placed'
  BY <1>2, InvokePlaced
<1>3. ASSUME NEW t \in Threads, Step(t) PROVE Placed'
  <2>1. CASE PutBalance(t) \/ PutBackend(t)
    BY <2>1, PutPlaced
  <2>2. CASE GetFound(t)
    BY <2>2, FoundPlaced
  <2>3. CASE GetBalance(t) \/ GetNothing(t) \/ GetCheck(t)
    BY <2>3, LookPlaced
  <2>4. CASE PutReturn(t) \/ GetReturn(t)
    BY <2>4, ReturnPlaced
  <2> QED BY <1>3, <2>1, <2>2, <2>3, <2>4 DEF Step
<1> QED BY <1>1, <1>2, <1>3 DEF Next

\* Every backend that is looked at is one of the array, every counter of the
\* balancer is the index of a backend, and no item is in two places, whatever
\* the threads do: distributed_queue.h:35-84.
THEOREM TypeCorrect == Spec => []TypeOK /\ []ItemsApart
<1>1. Spec => []Placed
  BY InitPlaced, StepPlaced, PTL DEF Spec
<1>2. Placed => TypeOK /\ ItemsApart
  BY DEF Placed
<1> QED BY <1>1, <1>2, PTL

-----------------------------------------------------------------------------
\* What a get knows of the backends.

Knows(t) == ScanInv(t) /\ CheckInv(t)

\* Words only grow, and a backend is only filled with a change of its word.
WordsGrow ==
  \A q \in Queues :
    /\ state[q] <= state'[q]
    /\ content'[q] = {} \/ content[q] # {} \/ state[q] < state'[q]

SameLocals(t) ==
  /\ pc'[t] = pc[t] /\ start'[t] = start[t] /\ i'[t] = i[t]
  /\ tails'[t] = tails[t] /\ emptyThen'[t] = emptyThen[t] /\ sawEmpty'[t] = sawEmpty[t]

\* The backends already visited in a round are backends of the array.
LEMMA BeforeType ==
  ASSUME TypeOK, NEW t \in Threads, NEW k \in 0..NumQueues
  PROVE  Before(t, k) \subseteq Queues
<1>1. start[t] \in Nat
  BY DEF TypeOK, Queues
<1>2. \A j \in 0..k-1 : start[t] + j \in Nat
  BY <1>1
<1> QED BY <1>2, WrapType DEF Before

\* A step never takes a backend's word back, and what was recorded of a backend
\* only changes when its own thread scans it.
LEMMA StepWordsGrow ==
  ASSUME TypeOK, NEW t \in Threads, Invoke(t) \/ Step(t)
  PROVE  /\ WordsGrow
         /\ \A u \in Threads \ {t} : SameLocals(u)
<1> USE DEF Goto, balancing, backends, history, Respond, SameLocals
<1>1. CASE Invoke(t)
  BY <1>1 DEF Invoke, CallGet, CallPut, WordsGrow, TypeOK
<1>2. CASE PutBalance(t)
  BY <1>2 DEF PutBalance, WordsGrow, TypeOK
<1>3. CASE PutBackend(t)
  <2>1. WordsGrow
    BY <1>3 DEF PutBackend, WordBumped, WordsGrow, TypeOK
  <2> QED BY <1>3, <2>1 DEF PutBackend, TypeOK
<1>4. CASE PutReturn(t) \/ GetReturn(t)
  BY <1>4 DEF PutReturn, GetReturn, WordsGrow, TypeOK
<1>5. CASE GetBalance(t)
  BY <1>5 DEF GetBalance, WordsGrow, TypeOK
<1>6. CASE GetFound(t)
  <2>1. PICK x \in content[Index(t)] :
          content' = [content EXCEPT ![Index(t)] = @ \ {x}]
    BY <1>6 DEF GetFound
  <2>2. state' = [state EXCEPT ![Index(t)] = @ + 1] \/ state' = state
    BY <1>6 DEF GetFound
  <2>3. WordsGrow
    BY <2>1, <2>2 DEF WordsGrow, TypeOK
  <2> QED BY <1>6, <2>3 DEF GetFound, TypeOK
<1>7. CASE GetNothing(t)
  <2>1. content' = content /\ state' = state
    BY <1>7 DEF GetNothing
  <2>2. WordsGrow
    BY <2>1 DEF WordsGrow, TypeOK
  <2>3. ASSUME NEW u \in Threads \ {t} PROVE SameLocals(u)
    <3>1. /\ pc' = pc \/ pc' = [pc EXCEPT ![t] = "G_check"]
          /\ i' = [i EXCEPT ![t] = i[t] + 1] \/ i' = [i EXCEPT ![t] = 0]
          /\ emptyThen' = emptyThen \/ emptyThen' = [emptyThen EXCEPT ![t] = EmptyNow]
          /\ sawEmpty' = sawEmpty \/ sawEmpty' = [sawEmpty EXCEPT ![t] = TRUE]
          /\ tails' = [tails EXCEPT ![t][Index(t)] = Record(t, Index(t))]
          /\ start' = start
      BY <1>7 DEF GetNothing
    <3> QED BY <3>1 DEF TypeOK
  <2> QED BY <2>2, <2>3
<1>8. CASE GetCheck(t)
  BY <1>8 DEF GetCheck, WordsGrow, TypeOK
<1> QED BY <1>1, <1>2, <1>3, <1>4, <1>5, <1>6, <1>7, <1>8 DEF Step

\* What the other threads do takes nothing away from what a get knows.
LEMMA KnowsFrame ==
  ASSUME TypeOK, TypeOK', NEW u \in Threads, Knows(u), SameLocals(u), WordsGrow
  PROVE  Knows(u)'
<1>1. Before(u, i[u])' = Before(u, i[u]) /\ Before(u, i[u]) \subseteq Queues
  <2>1. i[u] \in 0..NumQueues
    BY DistributedQueueAssumption DEF TypeOK, Queues
  <2> QED BY <2>1, BeforeType DEF Before, SameLocals
<1>2. \A q \in Queues : /\ state[q] \in Nat /\ state'[q] \in Nat /\ tails[u][q] \in Nat
                        /\ tails'[u][q] = tails[u][q]
  BY DEF TypeOK, SameLocals
<1>3. \A q \in Queues : tails[u][q] <= state[q] => tails'[u][q] <= state'[q]
  BY <1>2 DEF WordsGrow
<1>4. \A q \in Queues : tails[u][q] < state[q] => tails'[u][q] < state'[q]
  BY <1>2 DEF WordsGrow
<1>5. \A q \in Queues : content[q] = {} /\ tails[u][q] <= state[q]
                       => content'[q] = {} \/ tails'[u][q] < state'[q]
  BY <1>2 DEF WordsGrow
<1>6. ScanInv(u)'
  BY <1>1, <1>3, <1>4, <1>5 DEF Knows, ScanInv, SameLocals, At
<1>7. CheckInv(u)'
  BY <1>1, <1>3, <1>4 DEF Knows, CheckInv, SameLocals, At
<1> QED BY <1>6, <1>7 DEF Knows

\* A backend whose word is the recorded one was empty when the scan ended.
LEMMA SameWasEmpty ==
  ASSUME TypeOK, NoTagRound, NEW t \in Threads, Knows(t), At(t, "G_check"),
         NEW q \in Queues, SameState(t, q)
  PROVE  q \in emptyThen[t]
<1>1. state[q] \in Nat /\ tails[t][q] \in Nat /\ tails[t][q] <= state[q]
  BY DEF TypeOK, Knows, CheckInv
<1>2. q \in emptyThen[t] \/ tails[t][q] < state[q]
  BY DEF Knows, CheckInv
<1>3. CASE build.backend = "MSQueue"
  BY <1>1, <1>2, <1>3 DEF SameState
<1>4. CASE build.backend = "TreiberStack"
  <2>1. state[q] % TagMod = tails[t][q] % TagMod /\ state[q] - tails[t][q] < TagMod
    BY <1>4 DEF SameState, NoTagRound
  <2>2. tails[t][q] = state[q]
    BY <1>1, <2>1, ModApart, DistributedQueueAssumption
  <2> QED BY <1>1, <1>2, <2>2
<1> QED BY <1>3, <1>4 DEF SameState

\* Both loops step through the backends of a round.
LEMMA RoundStep ==
  ASSUME TypeOK, NEW t \in Threads
  PROVE  /\ i[t] \in Queues /\ Index(t) \in Queues
         /\ Before(t, 0) = {} /\ Before(t, NumQueues) = Queues
         /\ Before(t, i[t] + 1) = Before(t, i[t]) \cup {Index(t)}
         /\ Wrap(Index(t) + 1) = start[t] <=> i[t] + 1 = NumQueues
<1>1. start[t] \in Queues /\ i[t] \in Queues /\ i[t] \in Nat
  BY DEF TypeOK, Queues
<1>2. Before(t, i[t] + 1) = Before(t, i[t]) \cup {Index(t)}
  BY <1>1, Round DEF Index
<1>3. Before(t, 0) = {} /\ Before(t, NumQueues) = Queues
  BY <1>1, Round
<1> QED BY <1>1, <1>2, <1>3, LastOfRound

\* The first loop records what it finds; with the last backend the round is full.
LEMMA NothingKnows ==
  ASSUME TypeOK, TypeOK', NEW t \in Threads, Knows(t), GetNothing(t)
  PROVE  Knows(t)'
<1> USE DEF Goto, balancing, backends, history
<1> DEFINE k == Index(t)
<1>1. /\ k \in Queues /\ Before(t, 0) = {} /\ Before(t, NumQueues) = Queues
      /\ Before(t, i[t] + 1) = Before(t, i[t]) \cup {k}
      /\ i[t] \in Queues
  BY RoundStep
<1>2. /\ At(t, "G_scan") /\ content[k] = {} /\ UNCHANGED <<content, state, start>>
      /\ tails'[t] = [tails[t] EXCEPT ![k] = state[k]]
  BY DEF GetNothing, Record, TypeOK
<1>3. \A q \in Queues : state[q] \in Nat /\ tails[t][q] \in Nat
  BY DEF TypeOK
<1>4. \A j : Before(t, j)' = Before(t, j)
  BY <1>2 DEF Before
<1> HIDE DEF k
<1>5. \A q \in Before(t, i[t]) : /\ tails[t][q] <= state[q]
                                 /\ content[q] = {} \/ tails[t][q] < state[q]
  BY <1>2 DEF Knows, ScanInv
<1>6. Before(t, i[t]) \subseteq Queues
  <2>1. i[t] \in 0..NumQueues
    BY <1>1, DistributedQueueAssumption DEF Queues
  <2> QED BY <2>1, BeforeType
<1>7. \A q \in Before(t, i[t]) \cup {k} : /\ tails'[t][q] <= state[q]
                                          /\ content[q] = {} \/ tails'[t][q] < state[q]
  <2>1. tails'[t][k] <= state[k]
    BY <1>1, <1>2, <1>3 DEF TypeOK
  <2>2. \A q \in Before(t, i[t]) \ {k} : tails'[t][q] = tails[t][q]
    BY <1>2, <1>6 DEF TypeOK
  <2> QED BY <1>2, <1>5, <2>1, <2>2
<1>8. CASE /\ i' = [i EXCEPT ![t] = @ + 1] /\ UNCHANGED <<pc, emptyThen, sawEmpty>>
  <2>1. i'[t] = i[t] + 1 /\ pc'[t] = "G_scan"
    BY <1>2, <1>8 DEF TypeOK, At
  <2>2. ScanInv(t)'
    BY <1>1, <1>2, <1>4, <1>7, <2>1 DEF ScanInv, At, PutPcs
  <2>3. CheckInv(t)'
    BY <1>8, <2>1 DEF Knows, CheckInv, At
  <2> QED BY <2>2, <2>3 DEF Knows
<1>9. CASE /\ i[t] + 1 = NumQueues /\ i' = [i EXCEPT ![t] = 0]
           /\ Goto(t, "G_check")
           /\ emptyThen' = [emptyThen EXCEPT ![t] = EmptyNow]
           /\ sawEmpty' = IF EmptyNow = Queues
                          THEN [sawEmpty EXCEPT ![t] = TRUE] ELSE sawEmpty
  <2>1. /\ pc'[t] = "G_check" /\ i'[t] = 0 /\ emptyThen'[t] = EmptyNow
        /\ EmptyNow = Queues => sawEmpty'[t]
    BY <1>9 DEF TypeOK
  <2>2. Queues = Before(t, i[t]) \cup {k}
    BY <1>1, <1>9
  <2>3. \A q \in Queues : /\ tails'[t][q] <= state'[q]
                          /\ q \in emptyThen'[t] \/ tails'[t][q] < state'[q]
    BY <1>2, <1>7, <2>1, <2>2 DEF EmptyNow
  <2>4. Before(t, i[t])' = {}
    BY <1>1, <1>4, <2>1
  <2>5. ScanInv(t)'
    BY <2>1 DEF ScanInv, At, PutPcs
  <2>6. CheckInv(t)'
    BY <2>1, <2>3, <2>4 DEF CheckInv, At, GetPcs
  <2> QED BY <2>5, <2>6 DEF Knows
<1> QED BY <1>8, <1>9 DEF GetNothing

\* The second loop passes only backends that were empty when the scan ended.
LEMMA CheckKnows ==
  ASSUME TypeOK, TypeOK', NoTagRound, NEW t \in Threads, Knows(t), GetCheck(t)
  PROVE  Knows(t)'
<1> USE DEF Goto, balancing, backends, history
<1> DEFINE k == Index(t)
<1>1. /\ k \in Queues /\ Before(t, NumQueues) = Queues
      /\ Before(t, i[t] + 1) = Before(t, i[t]) \cup {k}
      /\ i[t] \in Queues
      /\ Wrap(k + 1) = start[t] <=> i[t] + 1 = NumQueues
  BY RoundStep
<1>2. /\ At(t, "G_check") /\ UNCHANGED <<content, state, tails, emptyThen, sawEmpty>>
      /\ Before(t, i[t]) \subseteq emptyThen[t]
      /\ emptyThen[t] \subseteq Queues /\ sawEmpty'[t] = sawEmpty[t]
  BY DEF GetCheck, Knows, CheckInv, TypeOK
<1>3. SameState(t, k) => k \in emptyThen[t]
  BY <1>1, <1>2, SameWasEmpty
<1> HIDE DEF k
<1>4. CASE start' = [start EXCEPT ![t] = k] /\ i' = [i EXCEPT ![t] = 0] /\ Goto(t, "G_scan")
  <2>1. pc'[t] = "G_scan" /\ i'[t] = 0
    BY <1>4 DEF TypeOK
  <2>2. Before(t, i[t])' = {}
    BY <2>1 DEF Before
  <2> QED BY <2>1, <2>2 DEF Knows, ScanInv, CheckInv, At, GetPcs, PutPcs
<1>5. CASE SameState(t, k) /\ i' = [i EXCEPT ![t] = @ + 1] /\ UNCHANGED <<pc, start>>
  <2>1. pc'[t] = "G_check" /\ i'[t] = i[t] + 1
    BY <1>2, <1>5 DEF TypeOK, At
  <2>2. Before(t, i[t])' = Before(t, i[t]) \cup {k}
    BY <1>1, <1>5, <2>1 DEF Before
  <2>3. Before(t, i[t])' \subseteq emptyThen'[t]
    BY <1>2, <1>3, <1>5, <2>2
  <2> QED BY <1>2, <2>1, <2>3 DEF Knows, ScanInv, CheckInv, At, PutPcs, GetPcs
<1>6. CASE SameState(t, k) /\ Wrap(k + 1) = start[t] /\ Goto(t, "G_empty")
  <2>1. pc'[t] = "G_empty"
    BY <1>6 DEF TypeOK
  <2>2. emptyThen[t] = Queues
    BY <1>1, <1>2, <1>3, <1>6
  <2>3. sawEmpty[t]
    BY <1>2, <2>2 DEF Knows, CheckInv
  <2> QED BY <1>2, <2>1, <2>3 DEF Knows, ScanInv, CheckInv, At, PutPcs, GetPcs
<1> QED BY <1>4, <1>5, <1>6 DEF GetCheck, k

\* What a thread knows after a step of its own.
LEMMA OwnKnows ==
  ASSUME TypeOK, TypeOK', NoTagRound, NEW t \in Threads, Knows(t), Invoke(t) \/ Step(t)
  PROVE  Knows(t)'
<1> USE DEF Goto, balancing, backends, history
<1>1. CASE Invoke(t)
  BY <1>1 DEF Invoke, CallGet, CallPut, Knows, ScanInv, CheckInv, TypeOK, At, PutPcs, GetPcs
<1>2. CASE PutBalance(t) \/ PutBackend(t)
  <2>1. pc[t] \in PutPcs /\ pc'[t] \in PutPcs /\ UNCHANGED <<i, sawEmpty>>
    BY <1>2 DEF PutBalance, PutBackend, TypeOK, At, PutPcs
  <2> QED BY <2>1 DEF Knows, ScanInv, CheckInv, At, PutPcs, GetPcs
<1>3. CASE PutReturn(t) \/ GetReturn(t)
  BY <1>3 DEF PutReturn, GetReturn, Respond, Knows, ScanInv, CheckInv, TypeOK, At, PutPcs
<1>4. CASE GetBalance(t)
  <2>1. /\ At(t, "G_start") /\ pc'[t] = "G_scan" /\ i[t] = 0 /\ i'[t] = 0
        /\ UNCHANGED sawEmpty
    BY <1>4 DEF GetBalance, Knows, ScanInv, TypeOK, At
  <2>2. Before(t, i[t])' = {}
    BY <2>1 DEF Before
  <2> QED BY <2>1, <2>2 DEF Knows, ScanInv, CheckInv, At, PutPcs, GetPcs
<1>5. CASE GetFound(t)
  <2>1. pc[t] = "G_scan" /\ pc'[t] = "G_return" /\ sawEmpty'[t] = sawEmpty[t]
    BY <1>5 DEF GetFound, TypeOK, At
  <2> QED BY <2>1 DEF Knows, ScanInv, CheckInv, At, PutPcs, GetPcs
<1>6. CASE GetNothing(t)
  BY <1>6, NothingKnows
<1>7. CASE GetCheck(t)
  BY <1>7, CheckKnows
<1> QED BY <1>1, <1>2, <1>3, <1>4, <1>5, <1>6, <1>7 DEF Step

\* One step of any thread keeps what every scan and every check knows.
LEMMA StepInv == IInv /\ NoTagRound /\ [Next]_vars => IInv'
<1> SUFFICES ASSUME IInv, NoTagRound, [Next]_vars PROVE IInv'
  OBVIOUS
<1>1. Placed /\ Placed' /\ TypeOK /\ TypeOK'
  BY StepPlaced DEF IInv, Placed
<1>2. \A u \in Threads : Knows(u)'
  <2>1. CASE UNCHANGED vars
    BY <2>1 DEF vars, balancing, backends, history, IInv, Knows, ScanInv, CheckInv,
       Before, At
  <2>2. ASSUME NEW t \in Threads, Invoke(t) \/ Step(t), NEW u \in Threads
        PROVE  Knows(u)'
    <3>1. CASE u = t
      BY <1>1, <2>2, <3>1, OwnKnows DEF IInv, Knows
    <3>2. CASE u # t
      <4>1. Knows(u)
        BY DEF IInv, Knows
      <4> QED BY <1>1, <2>2, <3>2, <4>1, StepWordsGrow, KnowsFrame
    <3> QED BY <3>1, <3>2
  <2> QED BY <2>1, <2>2 DEF Next
<1> QED BY <1>1, <1>2 DEF IInv, Placed, Knows

\* A get that answers "empty" saw all backends empty together: what
\* distributed_queue.h:71-80 concludes from the recorded empty states.
THEOREM Invariance == Spec /\ []NoTagRound => []IInv
<1>1. Init => IInv
  <2>1. \A t \in Threads : Init => ScanInv(t) /\ CheckInv(t)
    BY DEF Init, ScanInv, CheckInv, At
  <2> QED BY <2>1, InitPlaced DEF IInv, Placed
<1> QED BY <1>1, StepInv, PTL DEF Spec

-----------------------------------------------------------------------------
\* Refinement of the pool.

\* The constructor's state is an empty pool with every thread idle.
LEMMA InitPool == Init => Pool!PoolInit
<1> SUFFICES ASSUME Init PROVE Pool!PoolInit
  OBVIOUS
<1>1. Contents = {}
  BY DEF Init, Contents
<1>2. PhaseMap = [t \in Threads |-> "idle"]
  BY DEF Init, PhaseMap, Phase, At
<1> QED BY <1>1, <1>2 DEF Init, Pool!PoolInit, Pool!CallsInit, Pool!NoAnswer, NoAnswer

\* Only the phase of the thread that moves can change.
LEMMA PhaseFrame ==
  ASSUME NEW t \in Threads, \A u \in Threads \ {t} : pc'[u] = pc[u]
  PROVE  PhaseMap' = [PhaseMap EXCEPT ![t] = Phase(t)']
BY DEF PhaseMap, Phase, At

\* A step that changes nothing the pool can see is a stutter of it.
LEMMA PoolStutter ==
  ASSUME NEW t \in Threads, \A u \in Threads \ {t} : pc'[u] = pc[u],
         Phase(t)' = Phase(t), UNCHANGED <<content, item, sawEmpty, res>>
  PROVE  UNCHANGED Pool!poolVars
<1>1. PhaseMap' = PhaseMap
  BY DEF PhaseMap, Phase, At
<1>2. Contents' = Contents
  BY DEF Contents
<1> QED BY <1>1, <1>2 DEF Pool!poolVars, Pool!callVars

\* The first step of put or get is the pool's call.
LEMMA CallRefines ==
  ASSUME IInv, NEW t \in Threads, Invoke(t)
  PROVE  Pool!Call(t)
<1> USE DEF Goto, balancing, backends, history
<1>1. At(t, "idle") /\ Phase(t) = "idle" /\ PhaseMap[t] = "idle"
  BY DEF Invoke, CallGet, CallPut, Phase, PhaseMap
<1>2. Contents' = Contents /\ sawEmpty' = sawEmpty
  BY DEF Invoke, CallGet, CallPut, Contents
<1>3. \A u \in Threads \ {t} : pc'[u] = pc[u]
  BY DEF Invoke, CallGet, CallPut, IInv, TypeOK
<1>4. PhaseMap' = [PhaseMap EXCEPT ![t] = Phase(t)']
  BY <1>3, PhaseFrame
<1>5. CASE CallGet(t)
  <2>1. pc'[t] = "G_start"
    BY <1>5 DEF CallGet, IInv, TypeOK
  <2>2. Phase(t)' = "get"
    BY <2>1 DEF Phase, At, PutPcs
  <2> QED BY <1>1, <1>2, <1>4, <1>5, <2>2
          DEF CallGet, Pool!Call, Pool!BeginCall, Pool!NoAnswer, NoAnswer
<1>6. ASSUME NEW x \in Items, CallPut(t, x) PROVE Pool!Call(t)
  <2>1. pc'[t] = "P_index"
    BY <1>6 DEF CallPut, IInv, TypeOK
  <2>2. Phase(t)' = "put"
    BY <2>1 DEF Phase, At, PutPcs
  <2> QED BY <1>1, <1>2, <1>4, <1>6, <2>2
          DEF CallPut, Pool!Call, Pool!BeginCall, Pool!NoAnswer, NoAnswer
<1> QED BY <1>5, <1>6 DEF Invoke

\* The return of put or get is the pool's return.
LEMMA ReturnRefines ==
  ASSUME IInv, NEW t \in Threads, PutReturn(t) \/ GetReturn(t)
  PROVE  Pool!Return(t)
<1> USE DEF Goto, balancing, backends
<1>1. item[t] \in Items \cup {Null}
  BY DEF IInv, TypeOK
<1>2. PICK kind \in Pool!Answers, val \in Items \cup {Null} :
        Respond(t, kind, val) /\ Pool!Answer(t, kind, val)
  <2>1. CASE PutReturn(t)
    BY <2>1 DEF PutReturn, Pool!Answers, Pool!Answer, PhaseMap, Phase, At
  <2>2. CASE At(t, "G_return") /\ Respond(t, "item", item[t])
    BY <1>1, <2>2 DEF Pool!Answers, Pool!Answer, PhaseMap, Phase, At
  <2>3. CASE At(t, "G_empty") /\ Respond(t, "empty", Null)
    <3>1. sawEmpty[t] /\ PhaseMap[t] = "get"
      BY <2>3 DEF IInv, CheckInv, PhaseMap, Phase, At, PutPcs
    <3> QED BY <2>3, <3>1 DEF Pool!Answers, Pool!Answer
  <2> QED BY <2>1, <2>2, <2>3 DEF GetReturn
<1>3. pc'[t] = "idle" /\ \A u \in Threads \ {t} : pc'[u] = pc[u]
  BY <1>2 DEF Respond, IInv, TypeOK
<1>4. PhaseMap' = [PhaseMap EXCEPT ![t] = "idle"]
  BY <1>3, PhaseFrame DEF Phase, At
<1>5. Contents' = Contents
  BY <1>2 DEF Respond, Contents
<1> QED BY <1>2, <1>4, <1>5 DEF Respond, Pool!Return, Pool!EndCall

\* The steps of put: the backend operation is where the item enters the pool.
LEMMA PutRefines ==
  ASSUME IInv, NEW t \in Threads, PutBalance(t) \/ PutBackend(t)
  PROVE  Pool!Insert(t) \/ UNCHANGED Pool!poolVars
<1> USE DEF Goto, balancing, backends, history
<1>1. CASE PutBalance(t)
  <2>1. /\ pc[t] = "P_index" /\ pc'[t] = "P_put"
        /\ \A u \in Threads \ {t} : pc'[u] = pc[u]
    BY <1>1 DEF PutBalance, IInv, TypeOK, At
  <2>2. Phase(t)' = Phase(t)
    BY <2>1 DEF Phase, At, PutPcs
  <2> QED BY <1>1, <2>1, <2>2, PoolStutter DEF PutBalance
<1>2. CASE PutBackend(t)
  <2>1. /\ pc[t] = "P_put" /\ pc'[t] = "P_return"
        /\ \A u \in Threads \ {t} : pc'[u] = pc[u]
        /\ start[t] \in Queues /\ InHand(t, item[t])
    BY <1>2 DEF PutBackend, IInv, TypeOK, At, InHand
  <2>2. PhaseMap[t] = "put" /\ PhaseMap' = [PhaseMap EXCEPT ![t] = "inserted"]
    BY <2>1, PhaseFrame DEF PhaseMap, Phase, At, PutPcs
  <2>3. item[t] \notin Contents
    BY <2>1 DEF IInv, ItemsApart, Contents
  <2>4. \A q \in Queues : \A x : x \in content'[q] <=>
             x \in content[q] \/ (q = start[t] /\ x = item[t])
    BY <1>2 DEF PutBackend, IInv, TypeOK
  <2>5. \A x : x \in Contents' <=> x \in Contents \/ x = item[t]
    BY <2>1, <2>4 DEF Contents
  <2>6. Contents' = Contents \cup {item[t]}
    BY <2>5
  <2> QED BY <1>2, <2>2, <2>3, <2>6 DEF PutBackend, Pool!Insert, Pool!TakeIn
<1> QED BY <1>1, <1>2

\* The steps of get: an item leaves with the backend operation, and empty is seen
\* where the scan ends.
LEMMA GetRefines ==
  ASSUME IInv, NEW t \in Threads,
         GetBalance(t) \/ GetFound(t) \/ GetNothing(t) \/ GetCheck(t)
  PROVE  Pool!Remove(t) \/ Pool!SeeEmpty(t) \/ UNCHANGED Pool!poolVars
<1> USE DEF Goto, balancing, backends, history
<1>1. CASE GetBalance(t) \/ GetCheck(t)
  <2>1. /\ pc[t] \in {"G_start", "G_check"} /\ pc'[t] \in {"G_scan", "G_check", "G_empty"}
        /\ \A u \in Threads \ {t} : pc'[u] = pc[u]
        /\ UNCHANGED <<content, item, sawEmpty, res>>
    BY <1>1 DEF GetBalance, GetCheck, IInv, TypeOK, At
  <2>2. Phase(t)' = Phase(t)
    BY <2>1 DEF Phase, At, PutPcs
  <2> QED BY <2>1, <2>2, PoolStutter
<1>2. CASE GetFound(t)
  <2> DEFINE k == Index(t)
  <2>1. At(t, "G_scan") /\ k \in Queues
    BY <1>2, RoundStep DEF GetFound, IInv
  <2>2. PICK x \in content[k] : /\ content' = [content EXCEPT ![k] = @ \ {x}]
                                /\ item' = [item EXCEPT ![t] = x]
    BY <1>2 DEF GetFound
  <2>3. /\ pc'[t] = "G_return" /\ UNCHANGED <<sawEmpty, res>>
        /\ \A u \in Threads \ {t} : pc'[u] = pc[u]
    BY <1>2 DEF GetFound, IInv, TypeOK
  <2> HIDE DEF k
  <2>4. PhaseMap[t] = "get" /\ PhaseMap' = [PhaseMap EXCEPT ![t] = "removed"]
    BY <2>1, <2>3, PhaseFrame DEF PhaseMap, Phase, At, PutPcs
  <2>5. x \in Contents /\ \A p \in Queues \ {k} : x \notin content[p]
    BY <2>1, <2>2 DEF Contents, IInv, ItemsApart
  <2>6. \A q \in Queues : \A y : y \in content'[q] <=> y \in content[q] /\ ~(q = k /\ y = x)
    BY <2>1, <2>2 DEF IInv, TypeOK
  <2>7. \A y : y \in Contents' <=> y \in Contents /\ y # x
    BY <2>5, <2>6 DEF Contents
  <2>8. Contents' = Contents \ {x}
    BY <2>7
  <2>9. sawEmpty' \in [Threads -> BOOLEAN]
    BY <2>3 DEF IInv, TypeOK
  <2> QED BY <2>2, <2>3, <2>4, <2>5, <2>8, <2>9 DEF Pool!Remove, Pool!TakeOut
<1>3. CASE GetNothing(t)
  <2>1. /\ pc[t] = "G_scan" /\ pc'[t] \in {"G_scan", "G_check"}
        /\ \A u \in Threads \ {t} : pc'[u] = pc[u]
        /\ UNCHANGED <<content, item, res>>
        /\ \/ sawEmpty' = sawEmpty
           \/ EmptyNow = Queues /\ sawEmpty' = [sawEmpty EXCEPT ![t] = TRUE]
    <3>1. /\ pc' = pc \/ pc' = [pc EXCEPT ![t] = "G_check"]
          /\ At(t, "G_scan") /\ UNCHANGED <<content, item, res>>
          /\ \/ sawEmpty' = sawEmpty
             \/ EmptyNow = Queues /\ sawEmpty' = [sawEmpty EXCEPT ![t] = TRUE]
      BY <1>3 DEF GetNothing
    <3> QED BY <3>1 DEF IInv, TypeOK, At
  <2>2. Phase(t) = "get" /\ Phase(t)' = "get"
    BY <2>1 DEF Phase, At, PutPcs
  <2>3. CASE sawEmpty' = sawEmpty
    BY <2>1, <2>2, <2>3, PoolStutter
  <2>4. CASE EmptyNow = Queues /\ sawEmpty' = [sawEmpty EXCEPT ![t] = TRUE]
    <3>1. Contents = {} /\ Contents' = Contents
      BY <2>1, <2>4 DEF Contents, EmptyNow
    <3>2. PhaseMap[t] = "get" /\ PhaseMap' = PhaseMap
      BY <2>1, <2>2 DEF PhaseMap, Phase, At
    <3> QED BY <2>1, <2>4, <3>1, <3>2 DEF Pool!SeeEmpty, Pool!Sight
  <2> QED BY <2>1, <2>3, <2>4
<1> QED BY <1>1, <1>2, <1>3

\* DistributedQueue implements the pool of pool.h: nothing is lost or handed
\* out twice, and "empty" means that all backends were empty together.
THEOREM Linearizability == Spec /\ []NoTagRound => Linearizable
<1>1. IInv /\ [Next]_vars => [Pool!PoolNext]_Pool!poolVars
  <2> SUFFICES ASSUME IInv, [Next]_vars
               PROVE  Pool!PoolNext \/ UNCHANGED Pool!poolVars
    OBVIOUS
  <2>1. CASE UNCHANGED vars
    BY <2>1 DEF vars, balancing, backends, history, Pool!poolVars, Pool!callVars,
       Contents, PhaseMap, Phase, At
  <2>2. ASSUME NEW t \in Threads, Invoke(t) PROVE Pool!PoolNext
    BY <2>2, CallRefines DEF Pool!PoolNext
  <2>3. ASSUME NEW t \in Threads, Step(t)
        PROVE  Pool!PoolNext \/ UNCHANGED Pool!poolVars
    BY <2>3, PutRefines, GetRefines, ReturnRefines DEF Step, Pool!PoolNext
  <2> QED BY <2>1, <2>2, <2>3 DEF Next
<1> QED BY <1>1, InitPool, Invariance, PTL DEF Spec, Linearizable, Pool!PoolSpec
=============================================================================
