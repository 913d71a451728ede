--------------------------- MODULE MSQueueProofs ---------------------------
(***************************************************************************)
(* Proofs about MSQueue for every set of threads, items and nodes, and for *)
(* every number of ABA tags.                                               *)
(***************************************************************************)
EXTENDS MSQueue, TLAPS

\* Bumping the tag of a word gives a word again: the tag wraps.
LEMMA SwingType ==
  ASSUME NEW w \in Words, NEW n \in Nodes
  PROVE  Swing(w, n) \in Words
<1>1. w.aba + 1 \in Int /\ AbaMod \in Nat \ {0}
  BY MSQueueAssumption DEF Words
<1>2. (w.aba + 1) % AbaMod \in 0..AbaMod-1
  BY <1>1
<1> QED BY <1>2 DEF Swing, NextAba, Words

\* The word of a fresh node, a null pointer with tag 0, is a word.
LEMMA NullWordType == NullWord \in Words
BY MSQueueAssumption DEF NullWord, Words

\* The constructor establishes the types.
LEMMA InitTypeOK == Init => TypeOK
BY NullWordType, MSQueueAssumption
   DEF Init, TypeOK, Words, NoAnswer, AnswerKinds, Unlinked

\* The constructor establishes the invariant: a list of the sentinel only.
LEMMA InitIInv == Init => IInv
<1> SUFFICES ASSUME Init PROVE IInv
  OBVIOUS
<1>1. TypeOK
  BY InitTypeOK
<1>2. ListInv /\ EndsInv
  BY MSQueueAssumption
     DEF Init, ListInv, EndsInv, Linked, LastRank, Unlinked, NullWord
<1>3. NodesApart
  BY DEF Init, NodesApart
<1>4. ASSUME NEW t \in Threads PROVE ThreadInv(t)
  BY DEF Init, ThreadInv, EnqueueInv, DequeueInv, At, EnqueuePcs, DequeuePcs
<1> QED BY <1>1, <1>2, <1>3, <1>4 DEF IInv

-----------------------------------------------------------------------------
\* Steps that only change the locals and the answer of one thread.

\* The locals of every thread but t stay as they are.
OthersKeep(t) ==
  \A u \in Threads \ {t} :
    /\ pc'[u] = pc[u] /\ op'[u] = op[u]
    /\ tailOld'[u] = tailOld[u] /\ headOld'[u] = headOld[u]
    /\ nextOld'[u] = nextOld[u] /\ node'[u] = node[u] /\ item'[u] = item[u]

\* A step on the locals of t keeps the list and what the others know of it.
LEMMA LocalStepFrame ==
  ASSUME IInv, NEW t \in Threads, OthersKeep(t),
         node'[t] \in {node[t], Null}, UNCHANGED <<shared, history>>
  PROVE  /\ ListInv' /\ EndsInv' /\ NodesApart'
         /\ \A u \in Threads \ {t} : ThreadInv(u)'
<1> USE DEF shared, history
<1>1. ListInv' /\ EndsInv'
  BY DEF IInv, ListInv, EndsInv, Linked, LastRank
<1>2. NodesApart'
  BY DEF IInv, TypeOK, NodesApart, Linked, OthersKeep
<1>3. ASSUME NEW u \in Threads \ {t} PROVE ThreadInv(u)'
  BY DEF IInv, OthersKeep, ThreadInv, EnqueueInv, DequeueInv, KnowsTail,
     KnowsHead, KnowsSuccessor, OwnsNode, Linked, At
<1> QED BY <1>1, <1>2, <1>3

\* Types of what a returning call writes: the locals and the answer.
LocalTypes ==
  /\ pc \in [Threads -> {"idle"} \cup EnqueuePcs \cup DequeuePcs]
  /\ op \in [Threads -> Operations \cup {"none"}]
  /\ tailOld \in [Threads -> Words]
  /\ headOld \in [Threads -> Words]
  /\ nextOld \in [Threads -> Words]
  /\ node \in [Threads -> Nodes \cup {Null}]
  /\ item \in [Threads -> Values \cup {Null}]
  /\ res \in [Threads -> [kind : AnswerKinds, val : Values \cup {Null}]]

\* A thread that has returned relies on nothing.
LEMMA RespondLemma ==
  ASSUME IInv, NEW t \in Threads, NEW kind \in AnswerKinds,
         NEW val \in Values \cup {Null}, Respond(t, kind, val)
  PROVE  /\ LocalTypes' /\ OthersKeep(t) /\ node'[t] = Null
         /\ ThreadInv(t)'
<1> USE DEF Respond, Goto
<1>1. LocalTypes'
  BY NullWordType DEF LocalTypes, IInv, TypeOK
<1>2. OthersKeep(t) /\ node'[t] = Null
  BY DEF OthersKeep, IInv, TypeOK
<1>3. pc'[t] = "idle" /\ op'[t] = "none"
  BY DEF IInv, TypeOK
<1>4. ThreadInv(t)'
  BY <1>3 DEF ThreadInv, EnqueueInv, DequeueInv, At, EnqueuePcs, DequeuePcs
<1> QED BY <1>1, <1>2, <1>4

\* Where a loop starts over, and for which operations.
LoopStart(t, label) ==
  \/ label = "E_tail" /\ pc[t] \in EnqueuePcs \ {"E_swing"}
  \/ label = "D_head" /\ pc[t] \in DequeuePcs

\* A thread that starts over relies on its own node at most.
LEMMA RetryLemma ==
  ASSUME IInv, NEW t \in Threads, NEW label, LoopStart(t, label),
         Retry(t, label), UNCHANGED <<value, allocated, rank>>
  PROVE  /\ LocalTypes' /\ OthersKeep(t) /\ node'[t] \in {node[t], Null}
         /\ ThreadInv(t)'
<1>1. CASE Respond(t, "failed", Null)
  BY <1>1, RespondLemma DEF AnswerKinds
<1>2. CASE /\ op[t] \notin Tries /\ Goto(t, label)
           /\ UNCHANGED <<op, tailOld, headOld, nextOld, node, item, res>>
  <2> USE <1>2 DEF LoopStart, Goto
  <2>1. LocalTypes'
    BY DEF LocalTypes, IInv, TypeOK, EnqueuePcs, DequeuePcs
  <2>2. OthersKeep(t) /\ node'[t] = node[t]
    BY DEF OthersKeep, IInv, TypeOK
  <2>3. ThreadInv(t)'
    BY DEF IInv, TypeOK, ThreadInv, EnqueueInv, DequeueInv, OwnsNode, Linked,
       At, EnqueuePcs, DequeuePcs, EnqueueOps, DequeueOps, Operations
  <2> QED BY <2>1, <2>2, <2>3
<1> QED BY <1>1, <1>2 DEF Retry

\* try_enqueue allocates only later.
LEMMA CallTryEnqueueStep ==
  ASSUME IInv, NEW t \in Threads, NEW v \in Values, CallTryEnqueue(t, v)
  PROVE  IInv'
<1> USE DEF CallTryEnqueue, Goto, shared, answers, history
<1>1. TypeOK'
  BY DEF IInv, TypeOK, EnqueuePcs, NoAnswer, AnswerKinds, Operations, EnqueueOps
<1>2. OthersKeep(t) /\ node'[t] = node[t]
  BY DEF OthersKeep, IInv, TypeOK
<1>3. ThreadInv(t)'
  BY DEF IInv, TypeOK, ThreadInv, EnqueueInv, DequeueInv, At,
     EnqueuePcs, DequeuePcs, EnqueueOps
<1> QED BY <1>1, <1>2, <1>3, LocalStepFrame DEF IInv

\* A removing call touches nothing shared.
LEMMA CallDequeueStep ==
  ASSUME IInv, NEW t \in Threads, NEW o \in DequeueOps, CallDequeue(t, o)
  PROVE  IInv'
<1> USE DEF CallDequeue, Goto, shared, answers, history
<1>1. TypeOK'
  BY DEF IInv, TypeOK, DequeuePcs, NoAnswer, AnswerKinds, Operations
<1>2. OthersKeep(t) /\ node'[t] = node[t]
  BY DEF OthersKeep, IInv, TypeOK
<1>3. ThreadInv(t)'
  BY DEF IInv, TypeOK, ThreadInv, EnqueueInv, DequeueInv, At,
     EnqueuePcs, DequeuePcs, DequeueOps, Operations, EnqueueOps
<1> QED BY <1>1, <1>2, <1>3, LocalStepFrame DEF IInv

\* The tail is a linked node, and its rank only grows.
LEMMA EnqueueReadTailStep ==
  ASSUME IInv, NEW t \in Threads, EnqueueReadTail(t)
  PROVE  IInv'
<1> USE DEF EnqueueReadTail, Goto, shared, answers, history
<1>1. TypeOK'
  BY DEF IInv, TypeOK, EnqueuePcs
<1>2. OthersKeep(t) /\ node'[t] = node[t]
  BY DEF OthersKeep, IInv, TypeOK
<1>3. ThreadInv(t)'
  BY DEF IInv, TypeOK, ThreadInv, EnqueueInv, DequeueInv, At,
     EnqueuePcs, DequeuePcs, EndsInv, KnowsTail, OwnsNode, Linked
<1> QED BY <1>1, <1>2, <1>3, LocalStepFrame DEF IInv

\* A link that is read never changes again.
LEMMA EnqueueReadNextStep ==
  ASSUME IInv, NEW t \in Threads, EnqueueReadNext(t)
  PROVE  IInv'
<1> USE DEF EnqueueReadNext, Goto, shared, answers, history
<1>1. TypeOK'
  BY DEF IInv, TypeOK, EnqueuePcs, ThreadInv, EnqueueInv, KnowsTail, Linked, At
<1>2. OthersKeep(t) /\ node'[t] = node[t]
  BY DEF OthersKeep, IInv, TypeOK
<1>3. ThreadInv(t)'
  BY DEF IInv, TypeOK, ThreadInv, EnqueueInv, DequeueInv, At,
     EnqueuePcs, DequeuePcs, ListInv, KnowsTail, KnowsSuccessor, OwnsNode, Linked
<1> QED BY <1>1, <1>2, <1>3, LocalStepFrame DEF IInv

\* The head is a linked node, and its rank only grows.
LEMMA DequeueReadHeadStep ==
  ASSUME IInv, NEW t \in Threads, DequeueReadHead(t)
  PROVE  IInv'
<1> USE DEF DequeueReadHead, Goto, shared, answers, history
<1>1. TypeOK'
  BY DEF IInv, TypeOK, DequeuePcs
<1>2. OthersKeep(t) /\ node'[t] = node[t]
  BY DEF OthersKeep, IInv, TypeOK
<1>3. ThreadInv(t)'
  BY DEF IInv, TypeOK, ThreadInv, EnqueueInv, DequeueInv, At,
     EnqueuePcs, DequeuePcs, EndsInv, KnowsHead, Linked, DequeueOps, EnqueueOps, Operations
<1> QED BY <1>1, <1>2, <1>3, LocalStepFrame DEF IInv

\* A tail read after the head is not behind it.
LEMMA DequeueReadTailStep ==
  ASSUME IInv, NEW t \in Threads, DequeueReadTail(t)
  PROVE  IInv'
<1> USE DEF DequeueReadTail, Goto, shared, answers, history
<1>1. TypeOK'
  BY DEF IInv, TypeOK, DequeuePcs
<1>2. OthersKeep(t) /\ node'[t] = node[t]
  BY DEF OthersKeep, IInv, TypeOK
<1>3. ThreadInv(t)'
  BY DEF IInv, TypeOK, ThreadInv, EnqueueInv, DequeueInv, At,
     EnqueuePcs, DequeuePcs, EndsInv, KnowsHead, KnowsTail, Linked, DequeueOps, EnqueueOps, Operations
<1> QED BY <1>1, <1>2, <1>3, LocalStepFrame DEF IInv

\* Only the last node has no successor, and a head behind the tail is not last.
LEMMA DequeueReadNextStep ==
  ASSUME IInv, NEW t \in Threads, DequeueReadNext(t)
  PROVE  IInv'
<1> USE DEF DequeueReadNext, Goto, shared, answers, history
<1>1. Linked(headOld[t].ptr) /\ Linked(tailOld[t].ptr)
  BY DEF IInv, ThreadInv, DequeueInv, KnowsHead, KnowsTail, At, DequeuePcs
<1>2. TypeOK'
  BY <1>1 DEF IInv, TypeOK, DequeuePcs, Linked
<1>3. OthersKeep(t) /\ node'[t] = node[t]
  BY DEF OthersKeep, IInv, TypeOK
<1>4. nextOld'[t] = next[headOld[t].ptr]
  BY DEF IInv, TypeOK
<1>5. KnowsSuccessor(t, headOld[t].ptr)'
  BY <1>1, <1>4 DEF IInv, ListInv, KnowsSuccessor, Linked
<1>6. rank[headOld[t].ptr] < rank[tailOld[t].ptr] => nextOld'[t].ptr # Null
  <2>1. rank[tailOld[t].ptr] \in 0..LastRank /\ rank[headOld[t].ptr] \in Nat
    BY <1>1 DEF IInv, ListInv, Linked
  <2> QED BY <2>1, <1>1, <1>4 DEF IInv, TypeOK, ListInv, Linked, LastRank
<1>7. ThreadInv(t)'
  BY <1>5, <1>6 DEF IInv, TypeOK, ThreadInv, EnqueueInv, DequeueInv, At,
     EnqueuePcs, DequeuePcs, KnowsHead, KnowsTail, Linked, EnqueueOps, DequeueOps
<1> QED BY <1>2, <1>3, <1>7, LocalStepFrame DEF IInv

\* Three ways out of the check; only the last reads the successor, which is
\* there because the head is behind the tail.
LEMMA DequeueCheckHeadStep ==
  ASSUME IInv, NEW t \in Threads, DequeueCheckHead(t)
  PROVE  IInv'
<1> USE DEF DequeueCheckHead, Goto, shared, history
<1>1. KnowsHead(t) /\ KnowsTail(t) /\ KnowsSuccessor(t, headOld[t].ptr)
  BY DEF IInv, ThreadInv, DequeueInv, At, DequeuePcs
<1>2. LocalTypes' /\ OthersKeep(t) /\ node'[t] \in {node[t], Null} /\ ThreadInv(t)'
  <2>1. CASE Retry(t, "D_head")
    BY <2>1, RetryLemma DEF LoopStart, At, DequeuePcs
  <2>2. CASE Respond(t, "empty", Null)
    BY <2>2, RespondLemma DEF AnswerKinds
  <2>3. CASE /\ headOld[t].ptr = tailOld[t].ptr /\ nextOld[t].ptr # Null
             /\ pc' = [pc EXCEPT ![t] = "D_help"]
             /\ UNCHANGED <<op, tailOld, headOld, nextOld, node, item, answers>>
    BY <2>3 DEF IInv, TypeOK, LocalTypes, OthersKeep, answers, ThreadInv,
       EnqueueInv, DequeueInv, KnowsHead, KnowsTail, KnowsSuccessor, Linked, At,
       EnqueuePcs, DequeuePcs, EnqueueOps, DequeueOps
  <2>4. CASE /\ headOld[t].ptr # tailOld[t].ptr
             /\ item' = [item EXCEPT ![t] = value[nextOld[t].ptr]]
             /\ pc' = [pc EXCEPT ![t] = "D_cas"]
             /\ UNCHANGED <<op, tailOld, headOld, nextOld, node, answers>>
    <3>1. rank[headOld[t].ptr] < rank[tailOld[t].ptr]
      <4>1. rank[headOld[t].ptr] # rank[tailOld[t].ptr]
        BY <1>1, <2>4 DEF IInv, ListInv, KnowsHead, KnowsTail, Linked
      <4>2. /\ rank[headOld[t].ptr] \in Int /\ rank[tailOld[t].ptr] \in Int
            /\ rank[headOld[t].ptr] <= rank[tailOld[t].ptr]
        BY <1>1 DEF IInv, TypeOK, ThreadInv, DequeueInv, KnowsHead, KnowsTail,
           Linked, At, DequeuePcs, Unlinked
      <4> QED BY <4>1, <4>2
    <3>2. Linked(nextOld[t].ptr)
      BY <1>1, <3>1 DEF IInv, ThreadInv, DequeueInv, KnowsSuccessor, At
    <3>3. value[nextOld[t].ptr] \in Values \cup {Null}
      BY <3>2 DEF IInv, TypeOK, Linked
    <3>4. LocalTypes' /\ OthersKeep(t) /\ node'[t] = node[t]
      BY <2>4, <3>3 DEF IInv, TypeOK, LocalTypes, OthersKeep, answers, DequeuePcs
    <3>5. ThreadInv(t)'
      BY <2>4, <3>1, <3>2 DEF IInv, TypeOK, ThreadInv, EnqueueInv, DequeueInv,
         KnowsHead, KnowsTail, KnowsSuccessor, Linked, At, EnqueuePcs,
         DequeuePcs, EnqueueOps, DequeueOps
    <3> QED BY <3>4, <3>5
  <2> QED BY <2>1, <2>2, <2>3, <2>4
<1>3. emptyState' \in [Threads -> Words]
  BY DEF IInv, TypeOK, EmptyState, Retry, Respond, answers
<1>4. TypeOK'
  BY <1>2, <1>3 DEF IInv, TypeOK, LocalTypes
<1> QED BY <1>2, <1>4, LocalStepFrame DEF IInv

\* A thread at D_return holds its item already.
LEMMA DequeueReturnStep ==
  ASSUME IInv, NEW t \in Threads, DequeueReturn(t)
  PROVE  IInv'
<1> USE DEF DequeueReturn, shared, history
<1>1. LocalTypes' /\ OthersKeep(t) /\ node'[t] = Null /\ ThreadInv(t)'
  BY RespondLemma DEF IInv, TypeOK, AnswerKinds
<1>2. TypeOK'
  BY <1>1 DEF IInv, TypeOK, LocalTypes
<1> QED BY <1>1, <1>2, LocalStepFrame DEF IInv

-----------------------------------------------------------------------------
\* Steps that change a shared word or hand out a node.

\* A node handed out to t was nobody's and is not in the list.
LEMMA NodeNewFrame ==
  ASSUME IInv, NEW t \in Threads, NEW n, NEW v \in Values, NodeNew(t, n, v),
         OthersKeep(t), UNCHANGED <<head, tail, history>>
  PROVE  /\ ListInv' /\ EndsInv' /\ NodesApart'
         /\ \A u \in Threads \ {t} : ThreadInv(u)'
         /\ n \in Nodes /\ n \in allocated' /\ ~Linked(n)'
         /\ value'[n] = v /\ node'[t] = n
<1> USE DEF NodeNew, history
<1>1. n \in Nodes /\ ~Linked(n) /\ next[n].ptr = Null
  BY DEF IInv, ListInv
<1>2. \A m \in Nodes : /\ next'[m].ptr = next[m].ptr
                       /\ Linked(m) => m # n /\ next'[m] = next[m]
                       /\ m # n => value'[m] = value[m]
  BY <1>1 DEF IInv, TypeOK, NullWord
<1>3. ListInv' /\ EndsInv'
  BY <1>1, <1>2 DEF IInv, TypeOK, ListInv, EndsInv, Linked, LastRank, Unlinked
<1>4. \A u \in Threads : node[u] # n
  BY <1>1, MSQueueAssumption DEF IInv, NodesApart
<1>5. NodesApart'
  BY <1>1, <1>4 DEF IInv, TypeOK, NodesApart, Linked, OthersKeep
<1>6. ASSUME NEW u \in Threads \ {t} PROVE ThreadInv(u)'
  <2>1. ThreadInv(u) /\ u \in Threads
    BY DEF IInv
  <2>2. OwnsNode(u) => OwnsNode(u)'
    BY <1>2, <2>1 DEF OwnsNode, OthersKeep, Linked, IInv, TypeOK
  <2>3. At(u, "D_cas") => value'[nextOld[u].ptr] = value[nextOld[u].ptr]
    BY <1>2, <2>1 DEF ThreadInv, DequeueInv, KnowsSuccessor, Linked, At, IInv, TypeOK
  <2>4. EnqueueInv(u)'
    BY <2>1, <2>2 DEF OthersKeep, ThreadInv, EnqueueInv, KnowsTail,
       KnowsSuccessor, Linked, At
  <2>5. DequeueInv(u)'
    BY <2>1, <2>3 DEF OthersKeep, ThreadInv, DequeueInv, KnowsTail, KnowsHead,
       KnowsSuccessor, Linked, At
  <2> QED BY <2>1, <2>4, <2>5 DEF OthersKeep, ThreadInv
<1> QED BY <1>1, <1>3, <1>5, <1>6 DEF IInv, TypeOK, Linked

\* A tail swung to a later node leaves every copy of the tail behind.
LEMMA TailFrame ==
  ASSUME IInv, NEW t \in Threads, OthersKeep(t), node'[t] \in {node[t], Null},
         UNCHANGED <<head, next, value, allocated, history>>,
         \/ tail' = tail
         \/ /\ Linked(tail.ptr) /\ Linked(tail'.ptr)
            /\ rank[tail.ptr] < rank[tail'.ptr]
  PROVE  /\ ListInv' /\ EndsInv' /\ NodesApart'
         /\ \A u \in Threads \ {t} : ThreadInv(u)'
         /\ KnowsTail(t) /\ tailOld'[t] = tailOld[t] => KnowsTail(t)'
<1> USE DEF history
<1>1. /\ Linked(tail'.ptr) /\ rank[tail.ptr] <= rank[tail'.ptr]
      /\ rank[tail.ptr] \in Int /\ rank[tail'.ptr] \in Int /\ rank[head.ptr] \in Int
  BY DEF IInv, TypeOK, EndsInv, Linked, Unlinked
<1>2. ListInv' /\ EndsInv' /\ NodesApart'
  BY <1>1 DEF IInv, TypeOK, ListInv, EndsInv, NodesApart, Linked, LastRank, OthersKeep
<1>3. ASSUME NEW u \in Threads, KnowsTail(u), tailOld'[u] = tailOld[u]
      PROVE  KnowsTail(u)'
  <2>1. rank[tailOld[u].ptr] \in Int
    BY <1>3 DEF KnowsTail, Linked, IInv, TypeOK, Unlinked
  <2> QED BY <1>1, <1>3, <2>1 DEF KnowsTail, Linked
<1>4. ASSUME NEW u \in Threads \ {t} PROVE ThreadInv(u)'
  BY <1>3 DEF IInv, OthersKeep, ThreadInv, EnqueueInv, DequeueInv, KnowsHead,
     KnowsSuccessor, OwnsNode, Linked, At
<1> QED BY <1>2, <1>3, <1>4

\* A head moved on leaves every copy of the head behind.
LEMMA HeadFrame ==
  ASSUME IInv, NEW t \in Threads, OthersKeep(t), node'[t] \in {node[t], Null},
         UNCHANGED <<tail, next, value, allocated, history>>,
         \/ head' = head
         \/ /\ Linked(head'.ptr)
            /\ rank[head.ptr] < rank[head'.ptr]
            /\ rank[head'.ptr] <= rank[tail.ptr]
  PROVE  /\ ListInv' /\ EndsInv' /\ NodesApart'
         /\ \A u \in Threads \ {t} : ThreadInv(u)'
<1> USE DEF history
<1>1. /\ Linked(head'.ptr) /\ rank[head.ptr] <= rank[head'.ptr]
      /\ rank[head.ptr] \in Int /\ rank[head'.ptr] \in Int
  BY DEF IInv, TypeOK, EndsInv, Linked, Unlinked
<1>2. ListInv' /\ EndsInv' /\ NodesApart'
  BY <1>1 DEF IInv, TypeOK, ListInv, EndsInv, NodesApart, Linked, LastRank, OthersKeep
<1>3. ASSUME NEW u \in Threads, KnowsHead(u), headOld'[u] = headOld[u]
      PROVE  KnowsHead(u)'
  <2>1. rank[headOld[u].ptr] \in Int
    BY <1>3 DEF KnowsHead, Linked, IInv, TypeOK, Unlinked
  <2> QED BY <1>1, <1>3, <2>1 DEF KnowsHead, Linked
<1>4. ASSUME NEW u \in Threads \ {t} PROVE ThreadInv(u)'
  BY <1>3 DEF IInv, OthersKeep, ThreadInv, EnqueueInv, DequeueInv, KnowsTail,
     KnowsSuccessor, OwnsNode, Linked, At
<1> QED BY <1>2, <1>4

\* enqueue allocates its node before it looks at the list.
LEMMA CallEnqueueStep ==
  ASSUME IInv, NEW t \in Threads, NEW n \in Nodes, NEW v \in Values,
         CallEnqueue(t, n, v)
  PROVE  IInv'
<1> USE DEF CallEnqueue
<1>1. OthersKeep(t)
  BY DEF OthersKeep, NodeNew, Goto, IInv, TypeOK
<1>2. /\ ListInv' /\ EndsInv' /\ NodesApart'
      /\ \A u \in Threads \ {t} : ThreadInv(u)'
      /\ n \in Nodes /\ n \in allocated' /\ ~Linked(n)'
      /\ value'[n] = v /\ node'[t] = n
  BY <1>1, NodeNewFrame
<1>3. TypeOK'
  BY <1>2, NullWordType DEF IInv, TypeOK, NodeNew, Goto, history, EnqueuePcs,
     Operations, EnqueueOps, NoAnswer, AnswerKinds
<1>4. pc'[t] = "E_tail" /\ op'[t] = "enqueue" /\ item'[t] = v
  BY DEF IInv, TypeOK, Goto
<1>5. ThreadInv(t)'
  BY <1>2, <1>4 DEF ThreadInv, EnqueueInv, DequeueInv, OwnsNode, At, EnqueuePcs,
     DequeuePcs, EnqueueOps
<1> QED BY <1>2, <1>3, <1>5 DEF IInv

\* The check of the tail: start over, help, or get ready to link; try_enqueue
\* allocates its node here.
LEMMA EnqueueCheckTailStep ==
  ASSUME IInv, NEW t \in Threads, EnqueueCheckTail(t)
  PROVE  IInv'
<1> USE DEF EnqueueCheckTail
<1>1. At(t, "E_check") /\ KnowsTail(t) /\ KnowsSuccessor(t, tailOld[t].ptr)
      /\ op[t] \in EnqueueOps /\ item[t] \in Values
  BY DEF IInv, ThreadInv, EnqueueInv, At, EnqueuePcs
<1>2. CASE Retry(t, "E_tail") /\ UNCHANGED <<next, value, allocated>>
  <2>1. LocalTypes' /\ OthersKeep(t) /\ node'[t] \in {node[t], Null} /\ ThreadInv(t)'
    BY <1>1, <1>2, RetryLemma DEF LoopStart, At, EnqueuePcs, history
  <2>2. TypeOK'
    BY <1>2, <2>1 DEF IInv, TypeOK, LocalTypes, history
  <2> QED BY <1>2, <2>1, <2>2, LocalStepFrame DEF IInv, shared
<1>3. CASE /\ nextOld[t].ptr # Null
           /\ Goto(t, "E_help")
           /\ UNCHANGED <<next, value, allocated, op, tailOld, headOld, nextOld,
                          node, item, res>>
  <2>1. TypeOK' /\ OthersKeep(t) /\ node'[t] = node[t]
    BY <1>3 DEF IInv, TypeOK, OthersKeep, Goto, history, EnqueuePcs
  <2>2. ThreadInv(t)'
    BY <1>1, <1>3 DEF IInv, TypeOK, ThreadInv, EnqueueInv, DequeueInv, KnowsTail,
       KnowsSuccessor, OwnsNode, Linked, At, Goto, history, EnqueuePcs, DequeuePcs
  <2> QED BY <1>3, <2>1, <2>2, LocalStepFrame DEF IInv, shared
<1>4. CASE /\ nextOld[t].ptr = Null
           /\ Goto(t, "E_link")
           /\ op[t] = "enqueue"
           /\ UNCHANGED <<next, value, allocated, node, op, tailOld, headOld,
                          nextOld, item, res>>
  <2>1. TypeOK' /\ OthersKeep(t) /\ node'[t] = node[t]
    BY <1>4 DEF IInv, TypeOK, OthersKeep, Goto, history, EnqueuePcs
  <2>2. ThreadInv(t)'
    BY <1>1, <1>4 DEF IInv, TypeOK, ThreadInv, EnqueueInv, DequeueInv, KnowsTail,
       KnowsSuccessor, OwnsNode, Linked, At, Goto, history, EnqueuePcs, DequeuePcs
  <2> QED BY <1>4, <2>1, <2>2, LocalStepFrame DEF IInv, shared
<1>5. ASSUME NEW n \in Nodes, NodeNew(t, n, item[t]), nextOld[t].ptr = Null,
             Goto(t, "E_link"), op[t] = "try_enqueue",
             UNCHANGED <<op, tailOld, headOld, nextOld, item, res>>
      PROVE  IInv'
  <2>1. OthersKeep(t)
    BY <1>5 DEF OthersKeep, NodeNew, Goto, IInv, TypeOK
  <2>2. /\ ListInv' /\ EndsInv' /\ NodesApart'
        /\ \A u \in Threads \ {t} : ThreadInv(u)'
        /\ n \in Nodes /\ n \in allocated' /\ ~Linked(n)'
        /\ value'[n] = item[t] /\ node'[t] = n
    BY <1>1, <1>5, <2>1, NodeNewFrame
  <2>3. TypeOK'
    BY <1>1, <1>5, NullWordType DEF IInv, TypeOK, NodeNew, Goto, history, EnqueuePcs
  <2>4. pc'[t] = "E_link"
    BY <1>5 DEF IInv, TypeOK, Goto
  <2>5. OwnsNode(t)' /\ KnowsTail(t)'
    BY <1>1, <1>5, <2>2 DEF OwnsNode, KnowsTail, Linked, history
  <2>6. ThreadInv(t)'
    BY <1>1, <1>5, <2>4, <2>5 DEF ThreadInv, EnqueueInv, DequeueInv, At,
       EnqueuePcs, DequeuePcs, EnqueueOps
  <2> QED BY <2>2, <2>3, <2>6 DEF IInv
<1> QED BY <1>1, <1>2, <1>3, <1>4, <1>5 DEF EnqueueOps

\* The helping CAS swings the tail to the successor of the tail it saw.
LEMMA HelpSwingTailStep ==
  ASSUME IInv, NEW t \in Threads, NEW label, HelpSwingTail(t, label),
         \/ At(t, "E_help") /\ label = "E_tail"
         \/ At(t, "D_help") /\ label = "D_head"
  PROVE  IInv'
<1> USE DEF HelpSwingTail
<1>1. LocalTypes' /\ OthersKeep(t) /\ node'[t] \in {node[t], Null} /\ ThreadInv(t)'
  BY RetryLemma DEF LoopStart, At, EnqueuePcs, DequeuePcs, history
<1>2. /\ Linked(nextOld[t].ptr)
      /\ Linked(tailOld[t].ptr)
      /\ rank[nextOld[t].ptr] = rank[tailOld[t].ptr] + 1
  BY DEF IInv, ThreadInv, EnqueueInv, DequeueInv, KnowsSuccessor, KnowsTail, At,
     EnqueuePcs, DequeuePcs
<1>3. tail' \in Words
  BY <1>2, SwingType DEF IInv, TypeOK, Linked
<1>4. \/ tail' = tail
      \/ /\ Linked(tail.ptr) /\ Linked(tail'.ptr)
         /\ rank[tail.ptr] < rank[tail'.ptr]
  BY <1>2 DEF IInv, TypeOK, TailUnchanged, Swing, Linked, Unlinked
<1>5. TypeOK'
  BY <1>1, <1>3 DEF IInv, TypeOK, LocalTypes, history
<1> QED BY <1>1, <1>4, <1>5, TailFrame DEF IInv

\* The last CAS of an insertion: the tail follows the node just linked.
LEMMA EnqueueSwingStep ==
  ASSUME IInv, NEW t \in Threads, EnqueueSwing(t)
  PROVE  IInv'
<1> USE DEF EnqueueSwing
<1>1. LocalTypes' /\ OthersKeep(t) /\ node'[t] \in {node[t], Null} /\ ThreadInv(t)'
  BY RespondLemma DEF AnswerKinds
<1>2. /\ Linked(node[t])
      /\ Linked(tailOld[t].ptr)
      /\ rank[node[t]] = rank[tailOld[t].ptr] + 1
  BY DEF IInv, ThreadInv, EnqueueInv, KnowsTail, At, EnqueuePcs
<1>3. tail' \in Words
  BY <1>2, SwingType DEF IInv, TypeOK, Linked
<1>4. \/ tail' = tail
      \/ /\ Linked(tail.ptr) /\ Linked(tail'.ptr)
         /\ rank[tail.ptr] < rank[tail'.ptr]
  BY <1>2 DEF IInv, TypeOK, TailUnchanged, Swing, Linked, Unlinked
<1>5. TypeOK'
  BY <1>1, <1>3 DEF IInv, TypeOK, LocalTypes, history
<1> QED BY <1>1, <1>4, <1>5, TailFrame DEF IInv

\* The CAS of an extraction: the head moves to its successor, which is not
\* past the tail.
LEMMA DequeueSwingHeadStep ==
  ASSUME IInv, NEW t \in Threads, DequeueSwingHead(t)
  PROVE  IInv'
<1> USE DEF DequeueSwingHead
<1>1. /\ At(t, "D_cas") /\ KnowsTail(t) /\ Linked(headOld[t].ptr)
      /\ rank[headOld[t].ptr] < rank[tailOld[t].ptr]
      /\ Linked(nextOld[t].ptr)
      /\ rank[nextOld[t].ptr] = rank[headOld[t].ptr] + 1
      /\ item[t] = value[nextOld[t].ptr]
  BY DEF IInv, ThreadInv, DequeueInv, KnowsHead, KnowsSuccessor, At, DequeuePcs
<1>2. CASE ~HeadUnchanged(t) /\ Retry(t, "D_head") /\ UNCHANGED head
  <2>1. LocalTypes' /\ OthersKeep(t) /\ node'[t] \in {node[t], Null} /\ ThreadInv(t)'
    BY <1>1, <1>2, RetryLemma DEF LoopStart, At, DequeuePcs, history
  <2>2. TypeOK'
    BY <1>2, <2>1 DEF IInv, TypeOK, LocalTypes, history
  <2> QED BY <1>2, <2>1, <2>2, LocalStepFrame DEF IInv, shared
<1>3. CASE /\ HeadUnchanged(t)
           /\ head' = Swing(headOld[t], nextOld[t].ptr)
           /\ Goto(t, "D_return")
           /\ UNCHANGED <<op, tailOld, headOld, nextOld, node, item, res>>
  <2>1. head' \in Words
    BY <1>1, <1>3, SwingType DEF IInv, TypeOK, Linked
  <2>2. TypeOK' /\ OthersKeep(t) /\ node'[t] = node[t]
    BY <1>3, <2>1 DEF IInv, TypeOK, OthersKeep, Goto, history, DequeuePcs
  <2>3. /\ Linked(head'.ptr) /\ head'.ptr = nextOld[t].ptr
        /\ rank[head'.ptr] = rank[head.ptr] + 1
    BY <1>1, <1>3 DEF Swing, HeadUnchanged
  <2>4. rank[head.ptr] < rank[head'.ptr] /\ rank[head'.ptr] <= rank[tail.ptr]
    <3>1. /\ rank[tail.ptr] \in Int /\ rank[tailOld[t].ptr] \in Int
          /\ rank[head.ptr] \in Int
      BY <1>1 DEF IInv, TypeOK, EndsInv, KnowsTail, Linked, Unlinked
    <3> QED BY <1>1, <1>3, <2>3, <3>1 DEF KnowsTail, HeadUnchanged
  <2>5. item[t] \in Values
    <3>1. rank[nextOld[t].ptr] \in 1..LastRank
      BY <1>1 DEF IInv, TypeOK, ListInv, Linked, LastRank
    <3>2. log[rank[nextOld[t].ptr]] \in Values
      BY <3>1 DEF IInv, TypeOK, LastRank
    <3> QED BY <1>1, <3>1, <3>2 DEF IInv, ListInv, Linked
  <2>6. ThreadInv(t)'
    BY <1>1, <1>3, <2>5 DEF IInv, TypeOK, ThreadInv, EnqueueInv, DequeueInv, At,
       Goto, EnqueuePcs, DequeuePcs, EnqueueOps, DequeueOps
  <2> QED BY <1>3, <2>2, <2>3, <2>4, <2>6, HeadFrame DEF IInv
<1> QED BY <1>2, <1>3

\* The linking CAS: the node goes behind the last one, whose successor is null.
LEMMA EnqueueLinkStep ==
  ASSUME IInv, NEW t \in Threads, EnqueueLink(t)
  PROVE  IInv'
<1>0. PICK m, n : m = tailOld[t].ptr /\ n = node[t]
  OBVIOUS
<1>1. /\ At(t, "E_link") /\ KnowsTail(t) /\ OwnsNode(t) /\ nextOld[t].ptr = Null
      /\ op[t] \in EnqueueOps /\ item[t] \in Values
  BY DEF EnqueueLink, IInv, ThreadInv, EnqueueInv, At, EnqueuePcs
<1>2. CASE Retry(t, "E_tail") /\ UNCHANGED <<next, history>>
  <2> USE DEF EnqueueLink
  <2>1. LocalTypes' /\ OthersKeep(t) /\ node'[t] \in {node[t], Null} /\ ThreadInv(t)'
    BY <1>1, <1>2, RetryLemma DEF LoopStart, At, EnqueuePcs, history
  <2>2. TypeOK'
    BY <1>2, <2>1 DEF IInv, TypeOK, LocalTypes, history
  <2> QED BY <1>2, <2>1, <2>2, LocalStepFrame DEF IInv, shared
<1>3. CASE /\ LinkUnchanged(t)
           /\ next' = [next EXCEPT ![tailOld[t].ptr] = Swing(nextOld[t], node[t])]
           /\ Goto(t, "E_swing")
           /\ log' = Append(log, item[t])
           /\ rank' = [rank EXCEPT ![node[t]] = Len(log) + 1]
           /\ UNCHANGED <<op, tailOld, headOld, nextOld, node, item, res>>
  <2>1. UNCHANGED <<head, tail, value, allocated, emptyState>>
    BY DEF EnqueueLink
  <2>2. /\ m \in Nodes /\ Linked(m) /\ next[m].ptr = Null /\ rank[m] = Len(log)
        /\ n \in Nodes /\ ~Linked(n) /\ n \in allocated /\ n # m
        /\ next[n].ptr = Null /\ value[n] = item[t] /\ Len(log) \in Nat
    BY <1>0, <1>1, <1>3 DEF IInv, TypeOK, ListInv, KnowsTail, OwnsNode, LinkUnchanged,
       Linked, LastRank
  <2>3. TypeOK'
    <3>1. Swing(nextOld[t], n) \in Words
      BY <1>0, <2>2, SwingType DEF IInv, TypeOK
    <3>2. log' \in Seq(Values)
      BY <1>1, <1>3 DEF IInv, TypeOK
    <3> QED BY <1>0, <1>3, <2>1, <2>2, <3>1, <3>2 DEF IInv, TypeOK, Goto, EnqueuePcs, Unlinked
  <2>4. /\ LastRank' = Len(log) + 1 /\ log'[Len(log) + 1] = item[t]
        /\ \A i \in 1..Len(log) : log'[i] = log[i]
    BY <1>1, <1>3 DEF IInv, TypeOK, LastRank
  <2>5. \A x \in Nodes : /\ Linked(x)' <=> Linked(x) \/ x = n
                         /\ x # n => rank'[x] = rank[x]
                         /\ x # m => next'[x] = next[x]
    BY <1>0, <1>3, <2>2 DEF IInv, TypeOK, Linked, Unlinked
  <2>6. next'[m].ptr = n /\ rank'[n] = Len(log) + 1
    BY <1>0, <1>3, <2>2 DEF IInv, TypeOK, Swing
  <2>7. ListInv'
    <3>1. \A x \in Nodes : Linked(x) => rank[x] \in 0..Len(log)
      BY DEF IInv, ListInv, LastRank
    <3>2. \A x \in Nodes : Linked(x)' => x \in allocated' /\ rank'[x] \in 0..LastRank'
      BY <2>1, <2>2, <2>4, <2>5, <2>6, <3>1 DEF IInv, ListInv
    <3>3. \A x, y \in Nodes : Linked(x)' /\ rank'[x] = rank'[y] => x = y
      BY <2>2, <2>5, <2>6, <3>1 DEF IInv, ListInv, Linked, Unlinked
    <3>4. \A x \in Nodes : next'[x].ptr = Null <=> ~Linked(x)' \/ rank'[x] = LastRank'
      <4>1. ASSUME NEW x \in Nodes, x # m, x # n
            PROVE  next'[x].ptr = Null <=> ~Linked(x)' \/ rank'[x] = LastRank'
        <5>1. Linked(x) => rank[x] # Len(log)
          BY <2>2, <4>1 DEF IInv, ListInv
        <5>2. Linked(x) => rank'[x] # LastRank'
          BY <2>4, <2>5, <3>1, <4>1
        <5> QED BY <2>5, <4>1, <5>1, <5>2 DEF IInv, ListInv, LastRank
      <4>2. next'[m].ptr # Null /\ Linked(m)' /\ rank'[m] # LastRank'
        BY <2>2, <2>4, <2>5, <2>6, MSQueueAssumption
      <4>3. next'[n].ptr = Null /\ rank'[n] = LastRank'
        BY <2>2, <2>4, <2>5, <2>6
      <4> QED BY <4>1, <4>2, <4>3
    <3>5. \A x \in Nodes : next'[x].ptr # Null =>
            Linked(next[x].ptr)' /\ rank'[next'[x].ptr] = rank'[x] + 1
      <4>1. ASSUME NEW x \in Nodes, x # m, next'[x].ptr # Null
            PROVE  Linked(next[x].ptr)' /\ rank'[next'[x].ptr] = rank'[x] + 1
        <5>1. /\ next'[x] = next[x] /\ Linked(next[x].ptr) /\ Linked(x)
              /\ rank[next[x].ptr] = rank[x] + 1
          BY <2>5, <4>1 DEF IInv, ListInv
        <5> QED BY <2>2, <2>5, <5>1 DEF Linked
      <4>2. Linked(next[m].ptr)' /\ rank'[next'[m].ptr] = rank'[m] + 1
        BY <2>2, <2>5, <2>6 DEF Linked
      <4> QED BY <4>1, <4>2
    <3>6. \A x \in Nodes : Linked(x)' /\ rank'[x] > 0 => value'[x] = log'[rank'[x]]
      BY <2>1, <2>2, <2>4, <2>5, <2>6, <3>1 DEF IInv, ListInv
    <3> QED BY <3>2, <3>3, <3>4, <3>5, <3>6 DEF ListInv
  <2>8. ASSUME NEW x, Linked(x) PROVE Linked(x)' /\ rank'[x] = rank[x]
    BY <2>2, <2>5, <2>8 DEF Linked
  <2>9. EndsInv'
    <3>1. Linked(tail.ptr) /\ Linked(head.ptr) /\ rank[m] <= rank[tail.ptr]
      BY <1>0, <1>1 DEF IInv, EndsInv, KnowsTail
    <3>2. Linked(tail.ptr)' /\ Linked(head.ptr)' /\ rank'[tail'.ptr] = rank[tail.ptr]
          /\ rank'[head'.ptr] = rank[head.ptr]
      BY <2>1, <2>8, <3>1
    <3> QED BY <2>2, <2>4, <3>1, <3>2 DEF IInv, EndsInv
  <2>10. NodesApart'
    BY <1>0, <1>3, <2>1, <2>5 DEF IInv, TypeOK, NodesApart, Linked
  <2>11. ThreadInv(t)'
    <3>1. pc'[t] = "E_swing" /\ KnowsTail(t)' /\ Linked(n)' /\ rank'[n] = rank'[m] + 1
      BY <1>0, <1>1, <1>3, <2>1, <2>2, <2>5, <2>6, <2>10 DEF IInv, TypeOK, EndsInv, KnowsTail, Goto
    <3> QED BY <1>0, <1>1, <1>3, <3>1 DEF ThreadInv, EnqueueInv, DequeueInv, At,
            EnqueuePcs, DequeuePcs, EnqueueOps, IInv
  <2>12. ASSUME NEW u \in Threads \ {t} PROVE ThreadInv(u)'
    <3>1. /\ pc'[u] = pc[u] /\ op'[u] = op[u] /\ ThreadInv(u) /\ u \in Threads
          /\ tailOld'[u] = tailOld[u] /\ headOld'[u] = headOld[u]
          /\ nextOld'[u] = nextOld[u] /\ node'[u] = node[u] /\ item'[u] = item[u]
      BY <1>3 DEF IInv, TypeOK, Goto
    <3>2. /\ KnowsTail(u) => KnowsTail(u)'
          /\ KnowsHead(u) => KnowsHead(u)'
      BY <2>1, <2>8, <3>1 DEF KnowsTail, KnowsHead, IInv, EndsInv
    <3>3. OwnsNode(u) => OwnsNode(u)'
      <4>1. OwnsNode(u) => node[u] # n
        BY <1>0, <2>2, MSQueueAssumption DEF IInv, NodesApart, OwnsNode
      <4> QED BY <4>1, <2>1, <2>5, <3>1 DEF OwnsNode, Linked
    <3>4. /\ Linked(tailOld[u].ptr) /\ KnowsSuccessor(u, tailOld[u].ptr)
               => KnowsSuccessor(u, tailOld[u].ptr)'
          /\ Linked(headOld[u].ptr) /\ KnowsSuccessor(u, headOld[u].ptr)
               => KnowsSuccessor(u, headOld[u].ptr)'
      BY <2>8, <3>1 DEF KnowsSuccessor
    <3>5. EnqueueInv(u)'
      BY <2>8, <3>1, <3>2, <3>3, <3>4 DEF ThreadInv, EnqueueInv, KnowsTail, At, EnqueuePcs
    <3>6. DequeueInv(u)'
      BY <2>1, <2>8, <3>1, <3>2, <3>4 DEF ThreadInv, DequeueInv, KnowsTail,
         KnowsHead, At, DequeuePcs
    <3> QED BY <3>1, <3>5, <3>6 DEF ThreadInv
  <2> QED BY <2>3, <2>7, <2>9, <2>10, <2>11, <2>12 DEF IInv
<1> QED BY <1>2, <1>3 DEF EnqueueLink

-----------------------------------------------------------------------------
\* The invariant of the algorithm holds in every reachable state.
LEMMA NextIInv == IInv /\ [Next]_vars => IInv'
<1> SUFFICES ASSUME IInv, [Next]_vars PROVE IInv'
  OBVIOUS
<1>1. ASSUME NEW t \in Threads, Invoke(t) PROVE IInv'
  BY <1>1, CallEnqueueStep, CallTryEnqueueStep, CallDequeueStep
     DEF Invoke, DequeueOps, EnqueueOps, Operations
<1>2. ASSUME NEW t \in Threads, Step(t) PROVE IInv'
  BY <1>2, EnqueueReadTailStep, EnqueueReadNextStep, EnqueueCheckTailStep,
     HelpSwingTailStep, EnqueueLinkStep, EnqueueSwingStep, DequeueReadHeadStep,
     DequeueReadTailStep, DequeueReadNextStep, DequeueCheckHeadStep,
     DequeueSwingHeadStep, DequeueReturnStep DEF Step, EnqueueHelp, DequeueHelp
<1>3. CASE UNCHANGED vars
  BY <1>3 DEF vars, shared, locals, answers, history, IInv, TypeOK, ListInv,
     EndsInv, NodesApart, ThreadInv, EnqueueInv, DequeueInv, KnowsTail, KnowsHead,
     KnowsSuccessor, OwnsNode, Linked, LastRank, At
<1> QED BY <1>1, <1>2, <1>3 DEF Next

\* Whatever the interleaving, the list is intact and every thread's stale copies
\* of head, tail and next mean what its next compare-and-swap takes them to mean.
THEOREM Invariance == Spec => []IInv
<1>1. Init => IInv
  BY InitIInv
<1>2. IInv /\ [Next]_vars => IInv'
  BY NextIInv
<1> QED BY <1>1, <1>2, PTL DEF Spec

\* Every word stays a pointer and a tag of the tag's width, in every run.
THEOREM TypeCorrect == Spec => []TypeOK
BY Invariance, PTL DEF IInv

\* Where dequeue dereferences next.value(), the head it read is behind the tail.
LEMMA NullSafe == IInv => NoNullDereference
<1> SUFFICES ASSUME IInv, NEW t \in Threads, At(t, "D_check"),
                    headOld[t].ptr # tailOld[t].ptr
             PROVE  nextOld[t].ptr # Null
  BY DEF NoNullDereference
<1>1. /\ KnowsHead(t) /\ KnowsTail(t)
      /\ rank[headOld[t].ptr] <= rank[tailOld[t].ptr]
      /\ rank[headOld[t].ptr] < rank[tailOld[t].ptr] => nextOld[t].ptr # Null
  BY DEF IInv, ThreadInv, DequeueInv, At, DequeuePcs
<1>2. rank[headOld[t].ptr] # rank[tailOld[t].ptr]
  BY <1>1 DEF IInv, ListInv, KnowsHead, KnowsTail, Linked
<1> QED BY <1>1, <1>2 DEF IInv, TypeOK, KnowsHead, KnowsTail, Linked, Unlinked

\* dequeue never reads the value of a null next pointer (ms_queue.h:153).
THEOREM NullSafety == Spec => []NoNullDereference
BY Invariance, NullSafe, PTL

-----------------------------------------------------------------------------
\* The refinement: every step of a thread is a step of FifoQueue or a stutter.

\* What the mapping gives for the threads that did not step.
LEMMA MapFrame ==
  ASSUME NEW t \in Threads, OthersKeep(t)
  PROVE  /\ PhaseMap' = [PhaseMap EXCEPT ![t] = Phase(t)']
         /\ ArgMap' = [ArgMap EXCEPT ![t] = Arg(t)']
         /\ head' = head => SeenMap' = [SeenMap EXCEPT ![t] = SawEmpty(t)']
<1>1. ASSUME NEW u \in Threads \ {t}
      PROVE  /\ Phase(u)' = Phase(u) /\ Arg(u)' = Arg(u)
             /\ head' = head => SawEmpty(u)' = SawEmpty(u)
  BY DEF OthersKeep, Phase, Arg, SawEmpty, At, HeadUnchanged
<1> QED BY <1>1 DEF PhaseMap, ArgMap, SeenMap

\* The steps the abstract queue does not see.
LEMMA Stutter ==
  ASSUME NEW t \in Threads, OthersKeep(t), head' = head, rank'[head.ptr] = rank[head.ptr],
         log' = log, res' = res,
         Phase(t)' = Phase(t), Arg(t)' = Arg(t), SawEmpty(t)' = SawEmpty(t)
  PROVE  UNCHANGED Fifo!fifoVars
<1>1. /\ PhaseMap' = [PhaseMap EXCEPT ![t] = Phase(t)']
      /\ ArgMap' = [ArgMap EXCEPT ![t] = Arg(t)']
      /\ SeenMap' = [SeenMap EXCEPT ![t] = SawEmpty(t)']
  BY MapFrame
<1>2. PhaseMap' = PhaseMap /\ ArgMap' = ArgMap /\ SeenMap' = SeenMap
  BY <1>1 DEF PhaseMap, ArgMap, SeenMap
<1> QED BY <1>2 DEF Fifo!fifoVars, Fifo!callVars, Taken

\* A returning call, whatever it answers.
LEMMA ReturnStep ==
  ASSUME IInv, NEW t \in Threads, NEW kind \in Fifo!Answers,
         NEW val \in Values \cup {Null}, Respond(t, kind, val),
         Fifo!Answer(t, kind, val), UNCHANGED <<head, rank, log>>
  PROVE  Fifo!Return(t)
<1>1. OthersKeep(t) /\ pc'[t] = "idle"
  BY DEF Respond, Goto, OthersKeep, IInv, TypeOK
<1>2. Phase(t)' = "idle" /\ Arg(t)' = Null /\ SawEmpty(t)' = FALSE
  BY <1>1 DEF Phase, Arg, SawEmpty, At, EnqueuePcs
<1>3. /\ PhaseMap' = [PhaseMap EXCEPT ![t] = "idle"]
      /\ ArgMap' = [ArgMap EXCEPT ![t] = Null]
      /\ SeenMap' = [SeenMap EXCEPT ![t] = FALSE]
  BY <1>1, <1>2, MapFrame
<1> QED BY <1>3 DEF Fifo!Return, Fifo!EndCall, Respond, Taken

\* Starting over is invisible; giving up is a "failed" answer.
LEMMA RetryRefines ==
  ASSUME IInv, NEW t \in Threads, NEW label, LoopStart(t, label), Retry(t, label),
         pc[t] # "D_return", ~SawEmpty(t), UNCHANGED <<head, rank, log>>
  PROVE  Fifo!Return(t) \/ UNCHANGED Fifo!fifoVars
<1>1. CASE op[t] \in Tries /\ Respond(t, "failed", Null)
  <2>1. Phase(t) \in Tries
    BY <1>1 DEF LoopStart, Phase, At, EnqueuePcs, DequeuePcs
  <2>2. Fifo!Answer(t, "failed", Null)
    BY <2>1 DEF Fifo!Answer, PhaseMap
  <2> QED BY <1>1, <2>2, ReturnStep DEF Fifo!Answers
<1>2. CASE /\ op[t] \notin Tries /\ Goto(t, label)
           /\ UNCHANGED <<op, tailOld, headOld, nextOld, node, item, res>>
  <2>1. OthersKeep(t) /\ pc'[t] = label
    BY <1>2 DEF OthersKeep, Goto, IInv, TypeOK
  <2>2. Phase(t)' = Phase(t) /\ Arg(t)' = Arg(t) /\ SawEmpty(t)' = FALSE
    BY <1>2, <2>1 DEF LoopStart, Phase, Arg, SawEmpty, At, EnqueuePcs, DequeuePcs
  <2> QED BY <1>2, <2>1, <2>2, Stutter DEF SawEmpty
<1> QED BY <1>1, <1>2 DEF Retry

\* The first step of an operation is the queue's call.
LEMMA CallRefines ==
  ASSUME IInv, NEW t \in Threads, Invoke(t)
  PROVE  Fifo!Call(t)
<1> USE DEF Goto
<1>1. Phase(t) = "idle" /\ At(t, "idle") /\ Arg(t) = Null /\ SawEmpty(t) = FALSE
  BY DEF Invoke, CallEnqueue, CallTryEnqueue, CallDequeue, Phase, Arg, SawEmpty,
     At, EnqueuePcs
<1>2. UNCHANGED <<head, rank, log>> /\ OthersKeep(t)
  BY DEF Invoke, CallEnqueue, CallTryEnqueue, CallDequeue, NodeNew, shared,
     history, OthersKeep, IInv, TypeOK
<1>3. /\ PhaseMap' = [PhaseMap EXCEPT ![t] = Phase(t)']
      /\ ArgMap' = [ArgMap EXCEPT ![t] = Arg(t)']
      /\ SeenMap' = [SeenMap EXCEPT ![t] = SawEmpty(t)']
  BY <1>2, MapFrame
<1>4. ASSUME NEW o \in EnqueueOps, NEW v \in Values, pc'[t] = "E_tail",
             op'[t] = o, item'[t] = v, res' = [res EXCEPT ![t] = NoAnswer]
      PROVE  Fifo!Call(t)
  <2>1. Phase(t)' = o /\ Arg(t)' = v /\ SawEmpty(t)' = FALSE
    BY <1>4 DEF Phase, Arg, SawEmpty, At, EnqueuePcs
  <2>2. SeenMap' = SeenMap
    BY <1>1, <1>3, <2>1 DEF SeenMap
  <2> QED BY <1>1, <1>2, <1>3, <1>4, <2>1, <2>2
          DEF Fifo!Call, Fifo!BeginCall, Fifo!NoAnswer, NoAnswer, Taken, PhaseMap
<1>5. ASSUME NEW o \in DequeueOps, pc'[t] = "D_head", op'[t] = o,
             res' = [res EXCEPT ![t] = NoAnswer]
      PROVE  Fifo!Call(t)
  <2>1. Phase(t)' = o /\ Arg(t)' = Null /\ SawEmpty(t)' = FALSE
    BY <1>5 DEF Phase, Arg, SawEmpty, At, EnqueuePcs
  <2>2. SeenMap' = SeenMap /\ ArgMap' = ArgMap
    BY <1>1, <1>3, <2>1 DEF SeenMap, ArgMap
  <2> QED BY <1>1, <1>2, <1>3, <1>5, <2>1, <2>2
          DEF Fifo!Call, Fifo!BeginCall, Fifo!NoAnswer, NoAnswer, Taken, PhaseMap
<1>6. CASE \E n \in Nodes, v \in Values : CallEnqueue(t, n, v)
  BY <1>4, <1>6 DEF CallEnqueue, IInv, TypeOK, EnqueueOps
<1>7. CASE \E v \in Values : CallTryEnqueue(t, v)
  BY <1>4, <1>7 DEF CallTryEnqueue, IInv, TypeOK, EnqueueOps
<1>8. CASE \E o \in DequeueOps : CallDequeue(t, o)
  BY <1>5, <1>8 DEF CallDequeue, IInv, TypeOK
<1> QED BY <1>6, <1>7, <1>8 DEF Invoke

\* The steps of enqueue and try_enqueue: the link is where the item enters.
LEMMA EnqueueRefines ==
  ASSUME IInv, IInv', NEW t \in Threads,
         \/ EnqueueReadTail(t) \/ EnqueueReadNext(t) \/ EnqueueCheckTail(t)
         \/ EnqueueHelp(t) \/ EnqueueLink(t) \/ EnqueueSwing(t)
  PROVE  \/ Fifo!Insert(t) \/ Fifo!Return(t)
         \/ UNCHANGED Fifo!fifoVars
<1> USE DEF Goto, answers, history, shared
<1>1. CASE EnqueueReadTail(t) \/ EnqueueReadNext(t)
  <2>1. OthersKeep(t) /\ pc[t] \in {"E_tail", "E_next"} /\ pc'[t] \in {"E_next", "E_check"}
        /\ op'[t] = op[t] /\ item'[t] = item[t]
    BY <1>1 DEF EnqueueReadTail, EnqueueReadNext, OthersKeep, At, IInv, TypeOK
  <2>2. Phase(t)' = Phase(t) /\ Arg(t)' = Arg(t) /\ SawEmpty(t)' = SawEmpty(t)
    BY <2>1 DEF Phase, Arg, SawEmpty, At, EnqueuePcs
  <2> QED BY <1>1, <2>1, <2>2, Stutter DEF EnqueueReadTail, EnqueueReadNext
<1>2. CASE EnqueueCheckTail(t)
  <2>1. At(t, "E_check") /\ UNCHANGED <<head, rank, log>>
    BY <1>2 DEF EnqueueCheckTail
  <2>2. CASE Retry(t, "E_tail")
    BY <2>1, <2>2, RetryRefines DEF LoopStart, SawEmpty, At, EnqueuePcs
  <2>3. CASE pc' \in {[pc EXCEPT ![t] = "E_help"], [pc EXCEPT ![t] = "E_link"]}
             /\ UNCHANGED <<op, tailOld, headOld, nextOld, item, res>>
             /\ (node' = node \/ \E n \in Nodes : NodeNew(t, n, item[t]))
    <3>1. OthersKeep(t) /\ pc'[t] \in {"E_help", "E_link"}
      BY <2>3 DEF NodeNew, OthersKeep, IInv, TypeOK
    <3>2. Phase(t)' = Phase(t) /\ Arg(t)' = Arg(t) /\ SawEmpty(t)' = SawEmpty(t)
      BY <2>1, <2>3, <3>1 DEF Phase, Arg, SawEmpty, At, EnqueuePcs
    <3> QED BY <2>1, <2>3, <3>1, <3>2, Stutter
  <2> QED BY <1>2, <2>2, <2>3 DEF EnqueueCheckTail
<1>3. CASE EnqueueHelp(t)
  BY <1>3, RetryRefines DEF EnqueueHelp, HelpSwingTail, LoopStart, SawEmpty, At, EnqueuePcs
<1>4. CASE EnqueueLink(t)
  <2>1. At(t, "E_link") /\ UNCHANGED head
    BY <1>4 DEF EnqueueLink
  <2>2. CASE Retry(t, "E_tail") /\ UNCHANGED history
    BY <2>1, <2>2, RetryRefines DEF LoopStart, SawEmpty, At, EnqueuePcs
  <2>3. CASE /\ pc' = [pc EXCEPT ![t] = "E_swing"]
             /\ log' = Append(log, item[t])
             /\ rank' = [rank EXCEPT ![node[t]] = Len(log) + 1]
             /\ UNCHANGED <<op, tailOld, headOld, nextOld, node, item, res>>
    <3>1. OthersKeep(t) /\ pc'[t] = "E_swing"
      BY <2>3 DEF OthersKeep, IInv, TypeOK
    <3>2. /\ Phase(t) = op[t] /\ op[t] \in EnqueueOps /\ Arg(t) = item[t]
          /\ Phase(t)' = "inserted" /\ Arg(t)' = Arg(t) /\ SawEmpty(t)' = SawEmpty(t)
      BY <2>1, <2>3, <3>1 DEF IInv, ThreadInv, EnqueueInv, Phase, Arg, SawEmpty,
         At, EnqueuePcs
    <3>3. /\ PhaseMap' = [PhaseMap EXCEPT ![t] = "inserted"]
          /\ ArgMap' = ArgMap /\ SeenMap' = SeenMap
      BY <2>1, <3>1, <3>2, MapFrame DEF PhaseMap, ArgMap, SeenMap
    <3>4. Taken' = Taken
      BY <2>1, <2>3 DEF IInv, TypeOK, ThreadInv, EnqueueInv, OwnsNode, EndsInv,
         Linked, Taken, At
    <3> QED BY <2>3, <3>2, <3>3, <3>4 DEF Fifo!Insert, Fifo!TakeIn, PhaseMap, ArgMap
  <2> QED BY <1>4, <2>2, <2>3 DEF EnqueueLink
<1>5. CASE EnqueueSwing(t)
  <2>1. Fifo!Answer(t, "ok", Null)
    BY <1>5 DEF EnqueueSwing, Fifo!Answer, PhaseMap, Phase, At
  <2> QED BY <1>5, <2>1, ReturnStep DEF EnqueueSwing, Fifo!Answers, AnswerKinds
<1> QED BY <1>1, <1>2, <1>3, <1>4, <1>5

\* A dequeue that has looked past the head does not see "empty" any more once
\* somebody moves the head.
LEMMA DequeueRefines ==
  ASSUME IInv, IInv', NEW t \in Threads,
         \/ DequeueReadHead(t) \/ DequeueReadTail(t) \/ DequeueReadNext(t)
         \/ DequeueCheckHead(t) \/ DequeueHelp(t) \/ DequeueSwingHead(t)
         \/ DequeueReturn(t)
  PROVE  \/ Fifo!SeeEmpty(t) \/ Fifo!Remove(t) \/ Fifo!Return(t)
         \/ UNCHANGED Fifo!fifoVars
<1> USE DEF Goto, answers, history, shared
<1>1. CASE DequeueReadHead(t) \/ DequeueReadTail(t)
  <2>1. OthersKeep(t) /\ pc[t] \in {"D_head", "D_tail"} /\ pc'[t] \in {"D_tail", "D_next"}
        /\ op'[t] = op[t] /\ item'[t] = item[t]
    BY <1>1 DEF DequeueReadHead, DequeueReadTail, OthersKeep, At, IInv, TypeOK
  <2>2. Phase(t)' = Phase(t) /\ Arg(t)' = Arg(t) /\ SawEmpty(t)' = SawEmpty(t)
    BY <2>1 DEF Phase, Arg, SawEmpty, At, EnqueuePcs
  <2> QED BY <1>1, <2>1, <2>2, Stutter DEF DequeueReadHead, DequeueReadTail
<1>2. CASE DequeueReadNext(t)
  <2>1. /\ OthersKeep(t) /\ At(t, "D_next") /\ pc'[t] = "D_check"
        /\ op'[t] = op[t] /\ item'[t] = item[t] /\ headOld'[t] = headOld[t]
        /\ nextOld'[t] = next[headOld[t].ptr] /\ UNCHANGED <<head, rank, log, res>>
    BY <1>2 DEF DequeueReadNext, OthersKeep, At, IInv, TypeOK
  <2>2. Phase(t)' = Phase(t) /\ Arg(t)' = Arg(t) /\ SawEmpty(t) = FALSE
    BY <2>1 DEF Phase, Arg, SawEmpty, At, EnqueuePcs
  <2>3. CASE nextOld'[t].ptr # Null \/ head # headOld[t]
    <3>1. SawEmpty(t)' = SawEmpty(t)
      BY <2>1, <2>2, <2>3 DEF SawEmpty, HeadUnchanged
    <3> QED BY <2>1, <2>2, <3>1, Stutter
  <2>4. CASE nextOld'[t].ptr = Null /\ head = headOld[t]
    <3>1. SawEmpty(t)' = TRUE
      BY <2>1, <2>4 DEF SawEmpty, HeadUnchanged, At
    <3>2. rank[head.ptr] = Len(log)
      BY <2>1, <2>4 DEF IInv, ListInv, EndsInv, Linked, LastRank
    <3>3. Phase(t) \in DequeueOps
      BY <2>1 DEF IInv, ThreadInv, DequeueInv, Phase, At, DequeuePcs
    <3>4. PhaseMap' = PhaseMap /\ ArgMap' = ArgMap
      BY <2>1, <2>2, MapFrame DEF PhaseMap, ArgMap
    <3>5. SeenMap' = [SeenMap EXCEPT ![t] = TRUE]
      BY <2>1, <3>1, MapFrame
    <3> QED BY <2>1, <3>2, <3>3, <3>4, <3>5 DEF Fifo!SeeEmpty, Fifo!Sight, Taken, PhaseMap
  <2> QED BY <2>3, <2>4
<1>3. CASE DequeueCheckHead(t)
  <2>1. At(t, "D_check") /\ UNCHANGED <<head, rank, log>> /\ op[t] \in DequeueOps
    BY <1>3 DEF DequeueCheckHead, IInv, ThreadInv, DequeueInv, At, DequeuePcs
  <2>2. CASE ~HeadUnchanged(t) /\ Retry(t, "D_head")
    BY <2>1, <2>2, RetryRefines DEF LoopStart, SawEmpty, At, DequeuePcs
  <2>3. CASE HeadUnchanged(t) /\ nextOld[t].ptr = Null /\ Respond(t, "empty", Null)
    <3>1. Fifo!Answer(t, "empty", Null)
      BY <2>1, <2>3 DEF Fifo!Answer, PhaseMap, SeenMap, Phase, SawEmpty, At
    <3> QED BY <2>1, <2>3, <3>1, ReturnStep DEF Fifo!Answers, AnswerKinds
  <2>4. CASE /\ nextOld[t].ptr # Null
             /\ pc' \in {[pc EXCEPT ![t] = "D_help"], [pc EXCEPT ![t] = "D_cas"]}
             /\ UNCHANGED <<op, tailOld, headOld, nextOld, node, res>>
             /\ \A u \in Threads \ {t} : item'[u] = item[u]
    <3>1. OthersKeep(t) /\ pc'[t] \in {"D_help", "D_cas"}
      BY <2>4 DEF OthersKeep, IInv, TypeOK
    <3>2. Phase(t)' = Phase(t) /\ Arg(t)' = Arg(t) /\ SawEmpty(t)' = SawEmpty(t)
      BY <2>1, <2>4, <3>1 DEF Phase, Arg, SawEmpty, At, EnqueuePcs
    <3> QED BY <2>1, <2>4, <3>1, <3>2, Stutter
  <2>5. HeadUnchanged(t) /\ headOld[t].ptr # tailOld[t].ptr => nextOld[t].ptr # Null
    BY <2>1, NullSafe DEF NoNullDereference
  <2> QED BY <1>3, <2>2, <2>3, <2>4, <2>5 DEF DequeueCheckHead, IInv, TypeOK
<1>4. CASE DequeueHelp(t)
  BY <1>4, RetryRefines DEF DequeueHelp, HelpSwingTail, LoopStart, SawEmpty, At, DequeuePcs
<1>5. CASE DequeueSwingHead(t)
  <2>1. At(t, "D_cas") /\ UNCHANGED <<rank, log>>
    BY <1>5 DEF DequeueSwingHead
  <2>2. CASE Retry(t, "D_head") /\ UNCHANGED head
    BY <2>1, <2>2, RetryRefines DEF LoopStart, SawEmpty, At, DequeuePcs
  <2>3. CASE /\ HeadUnchanged(t)
             /\ head' = Swing(headOld[t], nextOld[t].ptr)
             /\ pc' = [pc EXCEPT ![t] = "D_return"]
             /\ UNCHANGED <<op, tailOld, headOld, nextOld, node, item, res>>
    <3>1. OthersKeep(t) /\ pc'[t] = "D_return"
      BY <2>3 DEF OthersKeep, IInv, TypeOK
    <3>2. /\ Linked(nextOld[t].ptr) /\ Linked(head.ptr)
          /\ rank[nextOld[t].ptr] = rank[head.ptr] + 1
          /\ item[t] = value[nextOld[t].ptr] /\ op[t] \in DequeueOps
      BY <2>1, <2>3 DEF IInv, ThreadInv, DequeueInv, KnowsHead, KnowsSuccessor,
         HeadUnchanged, At, DequeuePcs
    <3>3. Taken' = Taken + 1
      BY <2>1, <2>3, <3>2 DEF Taken, Swing
    <3>4. Taken < Len(log) /\ item[t] = log[Taken + 1]
      BY <3>2 DEF IInv, TypeOK, ListInv, Linked, LastRank, Taken
    <3>5. Phase(t) = op[t] /\ Phase(t)' = "removed" /\ Arg(t)' = item[t]
      BY <2>1, <2>3, <3>1 DEF Phase, Arg, At, EnqueuePcs
    <3>6. SeenMap' = [u \in Threads |-> FALSE]
      <4>1. ASSUME NEW u \in Threads PROVE SawEmpty(u)' = FALSE
        <5>1. CASE u = t
          BY <3>1, <5>1 DEF SawEmpty, At
        <5>2. CASE u # t /\ At(u, "D_check")
          <6>1. rank[headOld[u].ptr] <= rank[head.ptr]
            BY <5>2 DEF IInv, ThreadInv, DequeueInv, KnowsHead, At, DequeuePcs
          <6>2. rank[headOld[u].ptr] # rank[head'.ptr] /\ headOld'[u] = headOld[u]
            BY <2>3, <3>2, <5>2, <6>1 DEF Swing, IInv, TypeOK, ThreadInv, DequeueInv,
               KnowsHead, Linked, Unlinked, At, DequeuePcs
          <6> QED BY <6>2 DEF SawEmpty, HeadUnchanged
        <5>3. CASE u # t /\ ~At(u, "D_check")
          BY <3>1, <5>3 DEF SawEmpty, At, OthersKeep
        <5> QED BY <5>1, <5>2, <5>3
      <4> QED BY <4>1 DEF SeenMap
    <3>7. /\ PhaseMap' = [PhaseMap EXCEPT ![t] = "removed"]
          /\ ArgMap' = [ArgMap EXCEPT ![t] = log[Taken + 1]]
      BY <3>1, <3>4, <3>5, MapFrame
    <3> QED BY <2>1, <2>3, <3>2, <3>3, <3>4, <3>5, <3>6, <3>7 DEF Fifo!Remove, Fifo!TakeOut, PhaseMap
  <2> QED BY <1>5, <2>2, <2>3 DEF DequeueSwingHead
<1>6. CASE DequeueReturn(t)
  <2>1. Fifo!Answer(t, "item", item[t]) /\ item[t] \in Values
    BY <1>6 DEF DequeueReturn, Fifo!Answer, PhaseMap, ArgMap, Phase, Arg, At, IInv,
       ThreadInv, DequeueInv
  <2> QED BY <1>6, <2>1, ReturnStep DEF DequeueReturn, Fifo!Answers, AnswerKinds
<1> QED BY <1>1, <1>2, <1>3, <1>4, <1>5, <1>6

\* MSQueue implements the FIFO queue of queue.h, whatever the threads do.
THEOREM Linearizability == Spec => Linearizable
<1>1. Init => Fifo!FifoInit
  <2> SUFFICES ASSUME Init PROVE Fifo!FifoInit
    OBVIOUS
  <2>1. \A t \in Threads : Phase(t) = "idle" /\ Arg(t) = Null /\ SawEmpty(t) = FALSE
    BY DEF Init, Phase, Arg, SawEmpty, At, EnqueuePcs
  <2> QED BY <2>1, MSQueueAssumption
          DEF Init, Fifo!FifoInit, Fifo!CallsInit, Fifo!NoAnswer, NoAnswer, Taken, PhaseMap, ArgMap, SeenMap
<1>2. IInv /\ IInv' /\ [Next]_vars => [Fifo!FifoNext]_Fifo!fifoVars
  <2> SUFFICES ASSUME IInv, IInv', [Next]_vars
               PROVE  Fifo!FifoNext \/ UNCHANGED Fifo!fifoVars
    OBVIOUS
  <2>1. CASE UNCHANGED vars
    BY <2>1 DEF vars, shared, locals, answers, history, Fifo!fifoVars, Fifo!callVars, Taken,
       PhaseMap, ArgMap, SeenMap, Phase, Arg, SawEmpty, HeadUnchanged, At
  <2>2. ASSUME NEW t \in Threads, Invoke(t) PROVE Fifo!FifoNext
    BY <2>2, CallRefines DEF Fifo!FifoNext
  <2>3. ASSUME NEW t \in Threads, Step(t)
        PROVE  Fifo!FifoNext \/ UNCHANGED Fifo!fifoVars
    BY <2>3, EnqueueRefines, DequeueRefines DEF Step, Fifo!FifoNext
  <2> QED BY <2>1, <2>2, <2>3 DEF Next
<1> QED BY <1>1, <1>2, Invariance, PTL DEF Spec, Linearizable, Fifo!FifoSpec

-----------------------------------------------------------------------------
\* The empty state: what DistributedQueue reads out of a false answer.

\* A lagging tail has its enqueuer on the way.
LEMMA TailLagStep ==
  ASSUME IInv, IInv', TailLag, [Next]_vars
  PROVE  TailLag'
<1>1. ASSUME NEW t \in Threads, EnqueueLink(t) PROVE TailLag'
  <2>1. /\ At(t, "E_link") /\ KnowsTail(t) /\ nextOld[t].ptr = Null
        /\ UNCHANGED <<head, tail>>
    BY <1>1 DEF EnqueueLink, IInv, ThreadInv, EnqueueInv, At, EnqueuePcs
  <2>2. CASE LinkUnchanged(t) /\ Goto(t, "E_swing") /\ UNCHANGED <<tailOld, node>>
             /\ log' = Append(log, item[t])
             /\ rank' = [rank EXCEPT ![node[t]] = Len(log) + 1]
    <3>1. rank[tailOld[t].ptr] = Len(log)
      BY <2>1, <2>2 DEF IInv, ListInv, KnowsTail, LinkUnchanged, Linked, LastRank
    <3>2. rank[tail.ptr] = Len(log)
      BY <2>1, <3>1 DEF IInv, TypeOK, ListInv, EndsInv, KnowsTail, Linked, LastRank, Unlinked
    <3>3. tailOld[t] = tail
      BY <2>1, <3>1, <3>2 DEF IInv, ListInv, EndsInv, KnowsTail, Linked
    <3>4. item[t] \in Values /\ node[t] \in Nodes
      BY <2>1 DEF IInv, TypeOK, ThreadInv, EnqueueInv, OwnsNode, At, EnqueuePcs
    <3>5. /\ At(t, "E_swing")' /\ tailOld'[t] = tail' /\ LastRank' = Len(log) + 1
          /\ rank'[node'[t]] = LastRank'
      BY <2>1, <2>2, <3>3, <3>4 DEF IInv, TypeOK, At, Goto, LastRank
    <3> QED BY <3>5 DEF TailLag
  <2>3. CASE Retry(t, "E_tail") /\ UNCHANGED history
    <3>1. \A u \in Threads \ {t} :
            pc'[u] = pc[u] /\ tailOld'[u] = tailOld[u] /\ node'[u] = node[u]
      BY <2>3 DEF Retry, Respond, Goto, IInv, TypeOK
    <3>2. \A u \in Threads : At(u, "E_swing") => u # t
      BY <2>1 DEF At
    <3>3. rank' = rank /\ LastRank' = LastRank /\ tail' = tail
      BY <2>1, <2>3 DEF history, LastRank
    <3> QED BY <3>1, <3>2, <3>3 DEF TailLag, At
  <2> QED BY <1>1, <2>2, <2>3 DEF EnqueueLink
<1>2. ASSUME NEW t \in Threads, OthersKeep(t), UNCHANGED <<tail, history>>, ~At(t, "E_swing")
      PROVE  TailLag'
  BY <1>2 DEF TailLag, LastRank, history, OthersKeep, At
\* Swinging the tail, for oneself or for another, ends the lag.
<1>3. ASSUME NEW t \in Threads, OthersKeep(t), NEW n, Linked(n), UNCHANGED history,
             Linked(tailOld[t].ptr), rank[n] = rank[tailOld[t].ptr] + 1,
             \/ TailUnchanged(t) /\ tail' = Swing(tailOld[t], n)
             \/ ~TailUnchanged(t) /\ tail' = tail
      PROVE  TailLag'
  <2>1. CASE TailUnchanged(t) /\ tail' = Swing(tailOld[t], n)
    <3>1. rank'[tail'.ptr] = rank[tail.ptr] + 1 /\ LastRank' = LastRank
      BY <1>3, <2>1 DEF TailUnchanged, Swing, history, LastRank
    <3>2. LastRank - 1 <= rank[tail.ptr] /\ LastRank \in Int /\ rank[tail.ptr] \in Int
      BY DEF IInv, TypeOK, EndsInv, LastRank, Linked, Unlinked
    <3> QED BY <3>1, <3>2 DEF TailLag
  <2>2. CASE ~TailUnchanged(t) /\ tail' = tail
    BY <1>3, <2>2 DEF TailLag, TailUnchanged, LastRank, history, OthersKeep, At
  <2> QED BY <1>3, <2>1, <2>2
<1>4. ASSUME NEW t \in Threads, NEW label, HelpSwingTail(t, label),
             \/ At(t, "E_help") /\ label = "E_tail"
             \/ At(t, "D_help") /\ label = "D_head"
      PROVE  TailLag'
  <2>1. OthersKeep(t)
    BY <1>4, RetryLemma DEF HelpSwingTail, LoopStart, At, EnqueuePcs, DequeuePcs, history
  <2>2. /\ Linked(nextOld[t].ptr) /\ Linked(tailOld[t].ptr)
        /\ rank[nextOld[t].ptr] = rank[tailOld[t].ptr] + 1
    BY <1>4 DEF IInv, ThreadInv, EnqueueInv, DequeueInv, KnowsSuccessor, KnowsTail, At,
       EnqueuePcs, DequeuePcs
  <2> QED BY <1>3, <1>4, <2>1, <2>2 DEF HelpSwingTail
<1>5. ASSUME NEW t \in Threads, EnqueueSwing(t) PROVE TailLag'
  <2>1. OthersKeep(t)
    BY <1>5, RespondLemma DEF EnqueueSwing, AnswerKinds
  <2>2. /\ Linked(node[t]) /\ Linked(tailOld[t].ptr)
        /\ rank[node[t]] = rank[tailOld[t].ptr] + 1
    BY <1>5 DEF EnqueueSwing, IInv, ThreadInv, EnqueueInv, KnowsTail, At, EnqueuePcs
  <2> QED BY <1>3, <1>5, <2>1, <2>2 DEF EnqueueSwing
<1>6. ASSUME NEW t \in Threads, Invoke(t) PROVE TailLag'
  <2>1. OthersKeep(t) /\ ~At(t, "E_swing") /\ UNCHANGED <<tail, history>>
    BY <1>6 DEF Invoke, CallEnqueue, CallTryEnqueue, CallDequeue, NodeNew, Goto, shared,
       OthersKeep, At, IInv, TypeOK
  <2> QED BY <1>2, <2>1
<1>7. ASSUME NEW t \in Threads,
             \/ EnqueueReadTail(t) \/ EnqueueReadNext(t) \/ EnqueueCheckTail(t)
             \/ DequeueReadHead(t) \/ DequeueReadTail(t) \/ DequeueReadNext(t)
             \/ DequeueCheckHead(t) \/ DequeueSwingHead(t) \/ DequeueReturn(t)
      PROVE  TailLag'
  <2>1. OthersKeep(t) /\ ~At(t, "E_swing") /\ UNCHANGED <<tail, history>>
    BY <1>7 DEF EnqueueReadTail, EnqueueReadNext, EnqueueCheckTail, DequeueReadHead,
       DequeueReadTail, DequeueReadNext, DequeueCheckHead, DequeueSwingHead,
       DequeueReturn, NodeNew, Retry, Respond, Goto, shared, OthersKeep, At, IInv, TypeOK
  <2> QED BY <1>2, <2>1
<1>8. CASE UNCHANGED vars
  BY <1>8 DEF vars, shared, locals, history, TailLag, LastRank, At
<1> QED BY <1>1, <1>4, <1>5, <1>6, <1>7, <1>8 DEF Next, Step, EnqueueHelp, DequeueHelp

\* Linked nodes stay where they are, and the head only moves on.
LEMMA RanksGrow ==
  ASSUME IInv, IInv', [Next]_vars
  PROVE  /\ \A x \in Nodes : Linked(x) => Linked(x)' /\ rank'[x] = rank[x]
         /\ rank[head.ptr] <= rank'[head'.ptr]
<1>1. Linked(head.ptr) /\ rank[head.ptr] \in Int
  BY DEF IInv, TypeOK, EndsInv, Linked, Unlinked
<1>2. ASSUME NEW t \in Threads, EnqueueLink(t)
      PROVE  head' = head /\ \A x \in Nodes : Linked(x) => rank'[x] = rank[x]
  <2>1. ~Linked(node[t])
    BY <1>2 DEF EnqueueLink, IInv, ThreadInv, EnqueueInv, OwnsNode, At
  <2> QED BY <1>2, <2>1 DEF EnqueueLink, history, IInv, TypeOK, Linked
<1>3. ASSUME NEW t \in Threads, DequeueSwingHead(t)
      PROVE  rank' = rank /\ rank[head.ptr] <= rank[head'.ptr]
  <2>1. rank[nextOld[t].ptr] = rank[headOld[t].ptr] + 1
    BY <1>3 DEF DequeueSwingHead, IInv, ThreadInv, DequeueInv, KnowsSuccessor, At, DequeuePcs
  <2> QED BY <1>1, <1>3, <2>1 DEF DequeueSwingHead, HeadUnchanged, Swing, history
<1>4. CASE UNCHANGED <<head, rank>>
  BY <1>1, <1>4 DEF Linked
<1>5. UNCHANGED <<head, rank>> \/ \E t \in Threads : EnqueueLink(t) \/ DequeueSwingHead(t)
  BY DEF Next, Invoke, Step, CallEnqueue, CallTryEnqueue, CallDequeue, EnqueueReadTail,
     EnqueueReadNext, EnqueueCheckTail, EnqueueHelp, HelpSwingTail, EnqueueSwing,
     DequeueReadHead, DequeueReadTail, DequeueReadNext, DequeueCheckHead, DequeueHelp,
     DequeueReturn, NodeNew, vars, shared, history
<1>6. ASSUME NEW t \in Threads, EnqueueLink(t)
      PROVE  /\ \A x \in Nodes : Linked(x) => Linked(x)' /\ rank'[x] = rank[x]
             /\ rank[head.ptr] <= rank'[head'.ptr]
  BY <1>1, <1>2, <1>6 DEF Linked
<1>7. ASSUME NEW t \in Threads, DequeueSwingHead(t)
      PROVE  /\ \A x \in Nodes : Linked(x) => Linked(x)' /\ rank'[x] = rank[x]
             /\ rank[head.ptr] <= rank'[head'.ptr]
  BY <1>3, <1>7 DEF Linked
<1> QED BY <1>4, <1>5, <1>6, <1>7

\* An empty state is handed out only when head has caught up with it.
LEMMA EmptyKnownStep ==
  ASSUME IInv, IInv', EmptyKnown, [Next]_vars
  PROVE  EmptyKnown'
<1>1. /\ \A x \in Nodes : Linked(x) => Linked(x)' /\ rank'[x] = rank[x]
      /\ rank[head.ptr] <= rank'[head'.ptr]
      /\ rank[head.ptr] \in Int /\ rank'[head'.ptr] \in Int
  BY RanksGrow DEF IInv, TypeOK, EndsInv, Linked, Unlinked
<1>2. ASSUME NEW u \in Threads, emptyState'[u] = emptyState[u], emptyState[u].ptr # Null
      PROVE  Linked(emptyState[u].ptr)' /\ rank'[emptyState'[u].ptr] <= rank'[head'.ptr]
  <2>1. Linked(emptyState[u].ptr) /\ rank[emptyState[u].ptr] <= rank[head.ptr]
        /\ rank[emptyState[u].ptr] \in Int
    BY <1>2 DEF EmptyKnown, Linked, IInv, TypeOK, Unlinked
  <2>2. Linked(emptyState'[u].ptr)
    BY <1>2, <2>1
  <2> QED BY <1>1, <1>2, <2>1, <2>2 DEF Linked
<1>3. CASE emptyState' = emptyState
  BY <1>2, <1>3 DEF EmptyKnown
<1>4. ASSUME NEW t \in Threads, HeadUnchanged(t), headOld[t].ptr = tailOld[t].ptr,
             At(t, "D_check"), UNCHANGED <<head, rank>>,
             emptyState' = [emptyState EXCEPT ![t] = EmptyState(t)]
      PROVE  EmptyKnown'
  <2>1. Linked(tailOld[t].ptr) /\ rank[tailOld[t].ptr] = rank[head.ptr]
    BY <1>4 DEF HeadUnchanged, IInv, ThreadInv, DequeueInv, KnowsTail, At, DequeuePcs
  <2>2. emptyState'[t] = tailOld[t] /\ \A u \in Threads \ {t} : emptyState'[u] = emptyState[u]
    BY <1>4 DEF EmptyState, IInv, TypeOK
  <2>3. Linked(emptyState[t].ptr)' /\ rank'[emptyState'[t].ptr] <= rank'[head'.ptr]
    BY <1>1, <1>4, <2>1, <2>2 DEF Linked
  <2> QED BY <1>2, <2>2, <2>3 DEF EmptyKnown
<1>5. \/ emptyState' = emptyState
      \/ \E t \in Threads : DequeueCheckHead(t)
  BY DEF Next, Invoke, Step, CallEnqueue, CallTryEnqueue, CallDequeue, EnqueueReadTail,
     EnqueueReadNext, EnqueueCheckTail, EnqueueHelp, HelpSwingTail, EnqueueLink, EnqueueSwing,
     DequeueReadHead, DequeueReadTail, DequeueReadNext, DequeueHelp, DequeueSwingHead,
     DequeueReturn, vars, answers
<1>6. ASSUME NEW t \in Threads, DequeueCheckHead(t), emptyState' # emptyState
      PROVE  EmptyKnown'
  BY <1>4, <1>6 DEF DequeueCheckHead, shared, history, answers
<1> QED BY <1>3, <1>5, <1>6

\* An empty state is never stale while an item is there for the taking.
THEOREM EmptyAnswers == Spec => []EmptyStateSound
<1> DEFINE EInv == TailLag /\ EmptyKnown
<1>1. Init => EInv
  BY MSQueueAssumption DEF Init, TailLag, EmptyKnown, LastRank, NullWord
<1>2. IInv /\ IInv' /\ EInv /\ [Next]_vars => EInv'
  BY TailLagStep, EmptyKnownStep
<1>3. IInv /\ EInv => EmptyStateSound
  <2> SUFFICES ASSUME IInv, EInv, NEW t \in Threads, tail = emptyState[t],
                      NEW i \in rank[head.ptr]+1 .. LastRank
               PROVE  \E u \in Threads : At(u, "E_swing") /\ rank[node[u]] = i
    BY DEF EmptyStateSound
  <2>1. /\ rank[tail.ptr] <= rank[head.ptr] /\ LastRank - 1 <= rank[tail.ptr]
        /\ rank[head.ptr] \in Int /\ rank[tail.ptr] \in Int /\ LastRank \in Int
    BY MSQueueAssumption DEF IInv, TypeOK, EndsInv, EmptyKnown, Linked, LastRank, Unlinked
  <2>2. i = LastRank /\ rank[tail.ptr] < LastRank
    BY <2>1
  <2> QED BY <2>2 DEF TailLag
<1> HIDE DEF EInv
<1>4. Spec => []EInv
  BY <1>1, <1>2, Invariance, PTL DEF Spec
<1> QED BY <1>3, <1>4, Invariance, PTL

=============================================================================
