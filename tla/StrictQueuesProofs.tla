------------------------ MODULE StrictQueuesProofs -------------------------
(***************************************************************************)
(* What StrictQueues says of the queues behind a lock and of the wait-free *)
(* ones, for every number of threads and items.                            *)
(*                                                                         *)
(* Of LockedQueue the invariant is one for all four modes: the list is a   *)
(* chain without a cycle, only the holder of the lock is at it, and every  *)
(* item that ever was in it is there, on its way to a thread (its pocket), *)
(* in a hand, or out.                                                      *)
(*                                                                         *)
(* The invariant of WaitfreeQueue is that of WaitfreeQueueProofs.          *)
(***************************************************************************)
EXTENDS WaitfreeQueueProofs

-----------------------------------------------------------------------------
\* The queues behind a lock.

LEMMA LCardinality == L!Cardinality(Threads) = Cardinality(Threads)
BY DEF L!Cardinality, Cardinality

Steps == [x \in L!Nodes |-> IF x = tail \/ next[x] = L!NoNode THEN {} ELSE {next[x]}]
Ever == After(Steps, L!Sentinel)       \* the items that ever were in the queue

BasePcs == {"link", "swing", "take", "advance"}
LockPcs == BasePcs \cup {"test", "wake", "unlock"}
CombinePcs == BasePcs \cup {"scan", "release"}
OpPcs == {"op_1", "op_2"}
OtherPcs == {"idle", "return", "lock", "wait", "try", "poll", "result"}

Combines == mode = "combining"
Records == [opcode : {"Done", "Enqueue", "Dequeue"}, data : Items \cup {Null}]
Locals == [pc : LockPcs \cup CombinePcs \cup OpPcs \cup OtherPcs, op : {"none", "put", "get"},
           item : Items \cup {Null}, end : {"left"}, node : Items \cup {Null},
           i : DOMAIN LockedNum, set : Records, then : {"idle", "try", "scan", "return"},
           expired : BOOLEAN]

LTypeOK ==
  /\ mode \in Modes /\ lock \in Threads \cup {Null} /\ waiting \in SUBSET Threads
  /\ head \in L!Nodes /\ tail \in L!Nodes /\ next \in [L!Nodes -> Items \cup {L!NoNode}]
  /\ operations \in [Threads -> Records]
  /\ th \in [Threads -> Locals]
  /\ done \in SUBSET Items /\ out \in SUBSET Items /\ late \in SUBSET Items
  /\ older \in [Items -> SUBSET Items]
  /\ start \in [Threads -> [done : SUBSET Items, late : SUBSET Items]] 
  /\ sight \in [Threads -> BOOLEAN]

\* t ends the operation in a record, and u's is the one.
Ends(t) == th[t].pc \in OpPcs /\ th[t].then = "scan"
Ending(u) == \E t \in Threads : Ends(t) /\ LockedNum[th[t].i] = u

Holds(t) == IF Combines THEN th[t].pc \in CombinePcs \/ Ends(t) ELSE th[t].pc \in LockPcs

LockInv == \A t \in Threads : Holds(t) => lock = t

ChainInv ==
  /\ Acyclic(Steps)
  /\ Ever \subseteq Items
  /\ head \in Ever \cup {L!Sentinel} /\ tail \in Ever \cup {L!Sentinel}
  /\ \A x \in Ever \cup {L!Sentinel} : x = tail \/ tail \in After(Steps, x)
  /\ \A x \in L!Nodes \ (Ever \cup {L!Sentinel}) : next[x] = L!NoNode
  /\ next[tail] # L!NoNode => \E t \in Threads : th[t].pc = "swing"

LPcInv(t) ==
  /\ th[t].pc = "idle" <=> th[t].op = "none"
  /\ th[t].op = "none" => th[t].item = Null
  /\ th[t].op = "put" => th[t].item \in Items
  /\ th[t].op = "get" /\ th[t].pc \notin {"unlock", "return"} \cup OpPcs => th[t].item = Null
  /\ th[t].op = "get" /\ th[t].pc \in OpPcs /\ th[t].then # "return" => th[t].item = Null
  /\ th[t].pc \in {"link", "swing"} => th[t].node \in Items \ Ever
  /\ th[t].pc = "swing" => next[tail] = th[t].node
  /\ th[t].pc \in {"take", "advance"} => head # tail
  /\ th[t].pc = "advance" => th[t].node = next[head]
  /\ t \in waiting => th[t].pc = "wait"

\* With a lock and a condition variable.
BlockInv(t) ==
  /\ th[t].pc \in {"idle", "return", "lock", "wait"} \cup LockPcs /\ operations[t] = L!NoOperation
  /\ th[t].pc \in {"link", "swing", "wake"} => th[t].op = "put"
  /\ th[t].pc \in {"test", "take", "advance", "wait"} => th[t].op = "get"
  /\ th[t].op = "put" /\ th[t].pc \in {"lock", "link", "swing"} =>
       th[t].node = th[t].item /\ th[t].item \notin Ever
  /\ th[t].op = "put" /\ th[t].pc \in {"wake", "unlock", "return"} => th[t].item \in Ever
  /\ th[t].op = "get" /\ th[t].pc \in {"unlock", "return", "wait"} /\ th[t].item = Null => sight[t]

\* With records: what u has set, or a combiner has made of it.
Own(t, i) == LockedNum[i] = t

RecordInv(u) ==
  LET record == operations[u]  r == th[u] IN
  /\ r.pc \in {"idle", "return"} => record = L!NoOperation
  /\ r.pc \in OpPcs /\ r.then = "try" =>
       /\ Own(u, r.i)
       /\ r.set = IF r.op = "put" THEN L!Operation("Enqueue", r.item) ELSE L!Operation("Dequeue", Null)
       /\ record.opcode = "Done"
       /\ record.data = IF r.pc = "op_1" THEN Null ELSE r.set.data
       /\ r.op = "put" => r.item \notin Ever
  /\ r.pc \in OpPcs /\ r.then = "return" =>
       /\ Own(u, r.i) /\ r.op = "get" /\ r.set = L!NoOperation
       /\ record.opcode = "Done"
       /\ record.data = IF r.pc = "op_1" THEN r.item ELSE Null
       /\ r.item = Null => sight[u]
  /\ r.pc = "return" => /\ r.op = "put" => r.item \in Ever
                        /\ r.op = "get" /\ r.item = Null => sight[u]
  /\ r.pc = "result" => record.opcode = "Done" /\ r.op = "get"

Submitted(u) == th[u].pc \in {"try", "poll", "result"} \cup CombinePcs \/ Ends(u)
SubmittedInv(u) ==
  LET record == operations[u]  r == th[u] IN
  Submitted(u) =>
    /\ r.op = "put" =>
         /\ record.opcode # "Dequeue"
         /\ record.opcode = "Done" => r.item \in Ever /\ record.data = Null
         /\ record.opcode = "Enqueue" /\ ~Ending(u) => r.item \notin Ever /\ record.data = r.item
    /\ r.op = "get" =>
         /\ record.opcode # "Enqueue"
         /\ record.opcode = "Done" /\ record.data = Null => sight[u]
         /\ record.opcode = "Dequeue" /\ ~Ending(u) => record.data = Null

\* A combiner c at the record of u; past its own, that one is done.
AtRecord(c, u) ==
  LET record == operations[u]  r == th[c] IN
  /\ r.pc \in BasePcs => Submitted(u)
  /\ r.pc \in {"link", "swing"} => record = L!Operation("Enqueue", r.node)
  /\ r.pc \in {"take", "advance"} => record.opcode = "Dequeue"
  /\ Ends(c) =>
       /\ Submitted(u) /\ record.opcode # "Done" /\ r.set.opcode = "Done"
       /\ record.opcode = "Enqueue" =>
            r.set.data = Null /\ th[u].item \in Ever /\ record.data \in {Null, th[u].item}
            /\ (r.pc = "op_2" => record.data = Null)
       /\ record.opcode = "Dequeue" =>
            /\ r.set.data = Null => sight[u]
            /\ record.data = IF r.pc = "op_1" THEN Null ELSE r.set.data

PastOwn(c) == th[c].pc = "release" \/ \E i \in DOMAIN LockedNum : Own(c, i) /\ i < th[c].i

CombinerInv(c) ==
  /\ (th[c].pc \in CombinePcs \/ Ends(c)) /\ PastOwn(c) => operations[c].opcode = "Done"
  /\ \A u \in Threads : LockedNum[th[c].i] = u => AtRecord(c, u)

CombinePc(t) ==
  /\ th[t].pc \in {"idle", "return", "try", "poll", "result"} \cup CombinePcs \cup OpPcs
  /\ th[t].pc \in OpPcs => th[t].then # "idle"
  /\ th[t].pc \in {"try", "poll"} => th[t].i = 0

CombineInv ==
  /\ waiting = {}
  /\ \A t \in Threads : CombinePc(t) /\ RecordInv(t) /\ SubmittedInv(t) /\ CombinerInv(t)

\* What is on its way to u.
Pocket(u) ==
  ((IF th[u].op = "get" /\ th[u].item = Null THEN {operations[u].data} ELSE {})
   \cup {th[t].set.data : t \in {c \in Threads : Ends(c) /\ LockedNum[th[c].i] = u}}) \ {Null}

LPlacesInv ==
  LET held == After(Steps, head) IN
  /\ done \subseteq Ever /\ Ever \subseteq L!Begun
  /\ \A x \in Ever \ held : x \in L!Hands \cup out \/ \E u \in Threads : x \in Pocket(u)
  /\ (L!Hands \cup out) \subseteq Ever /\ held \cap (L!Hands \cup out) = {} /\ L!Hands \cap out = {}
  /\ \A u \in Threads : /\ Pocket(u) \subseteq Ever
                        /\ Pocket(u) \cap (held \cup L!Hands \cup out) = {}
  /\ \A t, u \in Threads : t # u => L!InHand(t) \cap L!InHand(u) = {} /\ Pocket(t) \cap Pocket(u) = {}
  /\ \A t, u \in Threads : t # u /\ th[t].op = "put" /\ th[u].op = "put" => th[t].item # th[u].item
  /\ \A t \in Threads : th[t].op = "put" => th[t].item \notin done

LOrderInv ==
  /\ \A x \in Items : older[x] \subseteq done
  /\ \A x \in Ever : \A y \in older[x] : x \in After(Steps, y)
  /\ Order = "fifo" => late = {} /\ \A t \in Threads : start[t].late = {}

LInv == /\ LTypeOK /\ LockInv /\ ChainInv /\ \A t \in Threads : LPcInv(t)
        /\ IF Combines THEN CombineInv ELSE \A t \in Threads : BlockInv(t)
        /\ LPlacesInv /\ LOrderInv /\ L!NoSleeperByItem
-----------------------------------------------------------------------------
\* The queue as a chain.

LEMMA StepsFact ==
  ASSUME LTypeOK
  PROVE  /\ Steps \in [L!Nodes -> SUBSET L!Nodes] /\ L!Sentinel \in L!Nodes /\ Items \subseteq L!Nodes
         /\ \A x \in L!Nodes : x # tail /\ next[x] # L!NoNode => Steps[x] = {next[x]} /\ next[x] \in Items
         /\ \A x \in L!Nodes : x = tail \/ next[x] = L!NoNode => Steps[x] = {}
<1>1. L!Sentinel \in L!Nodes /\ Items \subseteq L!Nodes
  BY DEF L!Nodes
<1> QED BY <1>1 DEF Steps, LTypeOK

LEMMA HeldIs == LTypeOK /\ Acyclic(Steps) => L!Held = After(Steps, head)
<1> SUFFICES ASSUME LTypeOK, Acyclic(Steps) PROVE L!Held = After(Steps, head)
  OBVIOUS
<1> DEFINE g == [x \in L!Nodes |-> After(Steps, x)]
           f == CHOOSE f : f = [x \in L!Nodes |-> IF x = tail \/ next[x] = L!NoNode THEN {}
                                                ELSE {next[x]} \cup f[next[x]]]
<1>1. \A x \in L!Nodes : After(Steps, x) = IF x = tail \/ next[x] = L!NoNode THEN {}
                                         ELSE {next[x]} \cup After(Steps, next[x])
  <2> TAKE x \in L!Nodes
  <2>1. CASE x = tail \/ next[x] = L!NoNode
    BY <2>1, StepsFact, AfterNone
  <2>2. CASE ~(x = tail \/ next[x] = L!NoNode)
    BY <2>2, StepsFact, AfterOne
  <2> QED BY <2>1, <2>2
<1>2. \A x \in L!Nodes : ~(x = tail \/ next[x] = L!NoNode) => next[x] \in L!Nodes
  BY StepsFact
<1>3. g = [x \in L!Nodes |-> IF x = tail \/ next[x] = L!NoNode THEN {} ELSE {next[x]} \cup g[next[x]]]
  BY <1>1, <1>2
<1>4. f = [x \in L!Nodes |-> IF x = tail \/ next[x] = L!NoNode THEN {} ELSE {next[x]} \cup f[next[x]]]
  BY <1>3
<1>5. L!Held = f[head]
  BY DEF L!Held
<1> HIDE DEF f
<1>6. ASSUME NEW x \in L!Nodes PROVE f[x] = Steps[x] \cup UNION {f[y] : y \in Steps[x]}
  <2>1. CASE x = tail \/ next[x] = L!NoNode
    BY <1>4, <2>1, StepsFact
  <2>2. CASE ~(x = tail \/ next[x] = L!NoNode)
    <3>1. f[x] = {next[x]} \cup f[next[x]] /\ Steps[x] = {next[x]}
      BY <1>4, <2>2, StepsFact
    <3> QED BY <3>1
  <2> QED BY <2>1, <2>2
<1>7. \A x \in L!Nodes : f[x] = After(Steps, x)
  BY <1>6, StepsFact, AfterRecursion
<1> QED BY <1>5, <1>7 DEF LTypeOK

WellFounded == LTypeOK /\ Acyclic(Steps)
HeldIsRest == L!Held = After(Steps, head)

LEMMA HeldIsNext == WellFounded' => HeldIsRest'
<1>1. WellFounded => HeldIsRest
  BY HeldIs DEF WellFounded, HeldIsRest
<1> QED BY <1>1, PTL

LEMMA EmptyFact ==
  ASSUME LTypeOK, ChainInv
  PROVE  /\ L!Held = After(Steps, head)
         /\ head = tail => L!Held = {}
         /\ head # tail => /\ next[head] \in Ever /\ Steps[head] = {next[head]}
                           /\ L!Held = {next[head]} \cup After(Steps, next[head])
                           /\ After(Steps, next[head]) = L!Held \ {next[head]}
                           /\ next[head] \in L!Held
         /\ L!Held \subseteq Ever
<1>1. L!Held = After(Steps, head)
  BY HeldIs DEF ChainInv
<1>2. head \in L!Nodes /\ tail \in L!Nodes /\ L!Sentinel \in L!Nodes
  BY StepsFact DEF LTypeOK
<1>3. head = tail => L!Held = {}
  BY <1>1, <1>2, StepsFact, AfterNone
<1>4. L!Held \subseteq Ever
  BY <1>1, <1>2, StepsFact, AfterTransitive DEF ChainInv, Ever
<1>5. ASSUME head # tail PROVE next[head] \in Items /\ Steps[head] = {next[head]}
  <2>1. tail \in After(Steps, head)
    BY <1>5 DEF ChainInv
  <2>2. Steps[head] # {}
    BY <1>2, <2>1, StepsFact, AfterNone
  <2> QED BY <1>2, <2>2, StepsFact
<1> QED BY <1>1, <1>2, <1>3, <1>4, <1>5, StepsFact, AfterOne DEF ChainInv

-----------------------------------------------------------------------------
\* What steps leave alone.

LEMMA ChainKept ==
  ASSUME UNCHANGED <<head, tail, next>>
  PROVE  /\ Steps' = Steps /\ Ever' = Ever /\ L!Held' = L!Held
         /\ After(Steps, head)' = After(Steps, head)
         /\ \A x : After(Steps', x) = After(Steps, x)
BY DEF Steps, Ever, L!Held, L!Nodes

OthersKept(t) == \A u \in Threads \ {t} : th'[u] = th[u]
Within(t) ==
  /\ t \in Threads /\ OthersKept(t) /\ th' \in [Threads -> Locals]
  /\ th'[t].op = th[t].op /\ th'[t].item = th[t].item

LEMMA Quiet ==
  ASSUME LTypeOK, NEW t \in Threads, Within(t), NEW held, L!Observe(t, held)
  PROVE  /\ done' = done /\ out' = out /\ older' = older /\ start' = start /\ late' = late
         /\ sight' = [u \in Threads |-> th'[u].op = "get" /\ (sight[u] \/ done \cap held = {})]
         /\ \A u \in Threads : L!InHand(u)' = L!InHand(u)
         /\ L!Hands' = L!Hands /\ L!Begun' = L!Begun
<1>1. /\ done' = done /\ out' = out /\ older' = older /\ start' = start /\ late' = late
  BY DEF L!Observe, Within
<1>2. sight' = [u \in Threads |-> th'[u].op = "get" /\ (sight[u] \/ done \cap held = {})]
  BY <1>1 DEF L!Observe
<1>3. \A u \in Threads : th'[u].op = th[u].op /\ th'[u].item = th[u].item
  BY DEF Within, OthersKept
<1>4. \A u \in Threads : L!InHand(u)' = L!InHand(u)
  BY <1>3 DEF L!InHand
<1>5. L!Hands' = L!Hands
  BY <1>4 DEF L!Hands
<1>6. L!Begun' = L!Begun
  BY <1>1, <1>3 DEF L!Begun
<1> QED BY <1>1, <1>2, <1>4, <1>5, <1>6
-----------------------------------------------------------------------------
\* Steps that change neither the queue nor a record.

LEMMA QuietPlaces ==
  ASSUME LInv, NEW t \in Threads, Within(t), L!Observe(t, L!Held), UNCHANGED <<head, tail, next>>,
         \A u \in Threads : Pocket(u)' = Pocket(u)
  PROVE  LPlacesInv' /\ LOrderInv'
<1>1. /\ done' = done /\ out' = out /\ older' = older /\ late' = late /\ start' = start
      /\ \A u \in Threads : L!InHand(u)' = L!InHand(u)
      /\ L!Hands' = L!Hands /\ L!Begun' = L!Begun
  BY Quiet DEF LInv
<1>2. Steps' = Steps /\ Ever' = Ever /\ After(Steps, head)' = After(Steps, head)
  BY ChainKept
<1>3. \A u \in Threads : th'[u].op = th[u].op /\ th'[u].item = th[u].item
  BY DEF Within, OthersKept
<1>4. LPlacesInv'
  BY <1>1, <1>2, <1>3 DEF LInv, LPlacesInv
<1>5. LOrderInv'
  BY <1>1, <1>2 DEF LInv, LOrderInv
<1> QED BY <1>4, <1>5

LEMMA QuietChain ==
  ASSUME LInv, NEW t \in Threads, OthersKept(t), UNCHANGED <<head, tail, next>>, th[t].pc # "swing"
  PROVE  ChainInv'
<1>1. Steps' = Steps /\ Ever' = Ever /\ \A x : After(Steps', x) = After(Steps, x)
  BY ChainKept
<1>2. \A u \in Threads : th[u].pc = "swing" => th'[u].pc = "swing"
  BY DEF OthersKept
<1>3. L!Nodes' = L!Nodes
  BY DEF L!Nodes
<1> QED BY <1>1, <1>2, <1>3 DEF LInv, ChainInv

LEMMA QuietTypes ==
  ASSUME LTypeOK, NEW t \in Threads, Within(t), NEW held, L!Observe(t, held),
         head' \in L!Nodes, tail' \in L!Nodes, next' \in [L!Nodes -> Items \cup {L!NoNode}],
         mode' = mode, lock' \in Threads \cup {Null}, waiting' \in SUBSET Threads,
         operations' \in [Threads -> Records]
  PROVE  LTypeOK'
<1>1. /\ done' = done /\ out' = out /\ older' = older /\ start' = start /\ late' = late
      /\ sight' \in [Threads -> BOOLEAN]
  BY Quiet
<1> QED BY <1>1 DEF LTypeOK, Within, L!Nodes

LEMMA SightKept ==
  ASSUME LTypeOK, NEW t \in Threads, Within(t), NEW held, L!Observe(t, held)
  PROVE  \A u \in Threads : /\ th[u].op = "get" /\ sight[u] => sight'[u]
                            /\ th[u].op = "get" /\ held = {} => sight'[u]
<1>1. sight' = [u \in Threads |-> th'[u].op = "get" /\ (sight[u] \/ done \cap held = {})]
  BY Quiet
<1>2. \A u \in Threads : th'[u].op = th[u].op
  BY DEF Within, OthersKept
<1> QED BY <1>1, <1>2

LEMMA OthersPc ==
  ASSUME LInv, NEW t \in Threads, OthersKept(t), UNCHANGED <<head, tail, next>>,
         waiting' \subseteq waiting \cup {t}
  PROVE  \A u \in Threads \ {t} : LPcInv(u)'
<1>1. Ever' = Ever
  BY ChainKept
<1> QED BY <1>1 DEF LInv, LPcInv, OthersKept

LEMMA BlockQuiet ==
  ASSUME LInv, ~Combines, NEW t \in Threads, Within(t), L!Observe(t, L!Held),
         UNCHANGED <<mode, head, tail, next, operations>>,
         waiting' \in SUBSET Threads, waiting' \subseteq waiting \cup {t},
         lock' \in Threads \cup {Null}, th[t].pc # "swing",
         LPcInv(t)', BlockInv(t)', LockInv', L!NoSleeperByItem'
  PROVE  LInv'
<1>1. LTypeOK'
  <2>1. /\ head' \in L!Nodes /\ tail' \in L!Nodes /\ next' \in [L!Nodes -> Items \cup {L!NoNode}]
        /\ operations' \in [Threads -> Records] /\ LTypeOK
    BY DEF LInv, LTypeOK
  <2> QED BY <2>1, QuietTypes
<1>2. ChainInv'
  BY QuietChain DEF Within
<1>3. \A u \in Threads : LPcInv(u)'
  BY OthersPc DEF Within
<1>4. \A u \in Threads \ {t} : BlockInv(u)'
  <2>1. Ever' = Ever
    BY ChainKept
  <2>2. \A u \in Threads : th[u].op = "get" /\ sight[u] => sight'[u]
    BY SightKept DEF LInv
  <2>3. \A u \in Threads : BlockInv(u)
    BY DEF LInv
  <2> QED BY <2>1, <2>2, <2>3 DEF BlockInv, Within, OthersKept, L!NoOperation, L!Operation
<1>5. LPlacesInv' /\ LOrderInv'
  <2>1. \A u \in Threads : Pocket(u)' = {} /\ Pocket(u) = {}
    <3>1. \A u \in Threads : ~Ends(u) /\ ~Ends(u)' /\ operations[u].data = Null
                             /\ operations'[u].data = Null
      BY <1>4 DEF BlockInv, LInv, Ends, OpPcs, LockPcs, BasePcs, L!NoOperation, L!Operation
    <3> QED BY <3>1 DEF Pocket
  <2> QED BY <2>1, QuietPlaces
<1>6. ~Combines'
  BY DEF Combines
<1> QED BY <1>1, <1>2, <1>3, <1>4, <1>5, <1>6 DEF LInv
-----------------------------------------------------------------------------
\* The mutex and the condition variable.

LEMMA SetLocals ==
  ASSUME LTypeOK, NEW t \in Threads, NEW r \in Locals, L!Set(t, r),
         r.op = th[t].op, r.item = th[t].item
  PROVE  Within(t) /\ th'[t] = r
BY DEF Within, OthersKept, L!Set, LTypeOK

LEMMA GotoLocals ==
  ASSUME LTypeOK, NEW t \in Threads, NEW p \in LockPcs \cup CombinePcs \cup OpPcs \cup OtherPcs,
         L!Goto(t, p)
  PROVE  Within(t) /\ th'[t] = [th[t] EXCEPT !.pc = p]
<1>1. th[t] \in Locals
  BY DEF LTypeOK
<1>2. [th[t] EXCEPT !.pc = p] \in Locals
  BY <1>1 DEF Locals
<1> QED BY <1>1, <1>2, SetLocals DEF L!Goto, Locals

\* The lock is taken when free, and given up by its holder.
LEMMA LockTaken ==
  ASSUME LInv, NEW t \in Threads, OthersKept(t), UNCHANGED mode, lock = Null, lock' = t
  PROVE  LockInv'
BY StrictQueuesAssumption DEF LInv, LockInv, OthersKept, Holds, Ends, Combines

LEMMA LockKept ==
  ASSUME LInv, NEW t \in Threads, OthersKept(t), UNCHANGED <<mode, lock>>,
         Holds(t)' => lock = t
  PROVE  LockInv'
BY DEF LInv, LockInv, OthersKept, Holds, Ends, Combines

LEMMA LockGivenUp ==
  ASSUME LInv, NEW t \in Threads, OthersKept(t), UNCHANGED mode, lock = t, ~Holds(t)'
  PROVE  LockInv'
<1>1. \A u \in Threads \ {t} : ~Holds(u)
  BY DEF LInv, LockInv
<1> QED BY <1>1 DEF LockInv, OthersKept, Holds, Ends, Combines

LEMMA LockStep ==
  ASSUME LInv, ~Combines, NEW t \in Threads, L!Lock(t)
  PROVE  LInv'
<1> USE DEF LockPcs, BasePcs, OtherPcs, OpPcs
<1>0. th[t] \in Locals /\ LTypeOK /\ LPcInv(t) /\ BlockInv(t)
  BY DEF LInv, LTypeOK
<1> DEFINE p == IF th[t].op = "put" THEN "link" ELSE "test"
<1>1. Within(t) /\ th'[t] = [th[t] EXCEPT !.pc = p]
  <2>1. p \in LockPcs
    OBVIOUS
  <2> HIDE DEF p
  <2> QED BY <1>0, <2>1, GotoLocals DEF L!Lock, p
<1>2. /\ L!At(t, "lock") /\ lock = Null /\ lock' = t /\ L!Observe(t, L!Held)
      /\ UNCHANGED <<mode, waiting, head, tail, next, operations, gets, spurious>>
  BY DEF L!Lock
<1>3. Ever' = Ever
  BY <1>2, ChainKept
<1>4. th[t].op \in {"put", "get"} /\ t \notin waiting
  BY <1>0, <1>2 DEF LPcInv, L!At, Locals
<1>5. LPcInv(t)'
  BY <1>0, <1>1, <1>2, <1>3, <1>4 DEF LPcInv, BlockInv, L!At, Locals
<1>6. BlockInv(t)'
  BY <1>0, <1>1, <1>2, <1>3, <1>4 DEF BlockInv, LPcInv, L!At, Locals, L!NoOperation, L!Operation
<1>7. LockInv'
  BY <1>1, <1>2, LockTaken DEF Within
<1>8. L!NoSleeperByItem'
  BY <1>1, <1>2 DEF LInv, L!NoSleeperByItem, L!IsEmpty, Within, OthersKept, L!At
<1> QED BY <1>0, <1>1, <1>2, <1>5, <1>6, <1>7, <1>8, BlockQuiet DEF L!At, LTypeOK

LEMMA TestStep ==
  ASSUME LInv, ~Combines, NEW t \in Threads, L!Test(t)
  PROVE  LInv'
<1> USE DEF LockPcs, BasePcs, OtherPcs, OpPcs
<1>0. th[t] \in Locals /\ LTypeOK /\ LPcInv(t) /\ BlockInv(t) /\ ChainInv
  BY DEF LInv, LTypeOK
<1>1. /\ L!At(t, "test") /\ L!Observe(t, L!Held)
      /\ UNCHANGED <<mode, head, tail, next, operations, gets, spurious>>
  BY DEF L!Test
<1>2. lock = t /\ th[t].op = "get" /\ t \notin waiting /\ th[t].item = Null
  BY <1>0, <1>1 DEF LInv, LockInv, Holds, LPcInv, BlockInv, L!At
<1>3. Ever' = Ever
  BY <1>1, ChainKept
<1>4. L!IsEmpty => L!Held = {}
  BY <1>0, EmptyFact DEF L!IsEmpty
<1>5. PICK p \in {"take", "unlock", "wait"} :
        /\ L!Goto(t, p)
        /\ IF p = "take" THEN ~L!IsEmpty /\ UNCHANGED <<lock, waiting>>
           ELSE IF p = "unlock" THEN L!IsEmpty /\ UNCHANGED <<lock, waiting>>
           ELSE L!IsEmpty /\ lock' = Null /\ waiting' = waiting \cup {t}
  BY DEF L!Test
<1>6. Within(t) /\ th'[t] = [th[t] EXCEPT !.pc = p]
  BY <1>0, <1>5, GotoLocals
<1>7. L!IsEmpty => sight'[t]
  BY <1>0, <1>1, <1>2, <1>4, <1>6, SightKept
<1>8. LPcInv(t)'
  BY <1>0, <1>1, <1>2, <1>3, <1>5, <1>6 DEF LPcInv, L!IsEmpty, L!At, Locals
<1>9. BlockInv(t)'
  BY <1>0, <1>1, <1>2, <1>3, <1>5, <1>6, <1>7 DEF BlockInv, L!At, Locals, L!NoOperation, L!Operation
<1>10. LockInv'
  <2>1. CASE p = "wait"
    <3>1. ~Holds(t)'
      BY <1>0, <1>1, <1>6, <2>1 DEF Holds, Combines, Locals
    <3> QED BY <1>1, <1>2, <1>6, <3>1, LockGivenUp DEF Within
  <2>2. CASE p # "wait"
    BY <1>1, <1>2, <1>5, <1>6, <2>2, LockKept DEF Within
  <2> QED BY <2>1, <2>2
<1>11. L!NoSleeperByItem'
  <2>1. CASE L!IsEmpty
    BY <1>1, <2>1 DEF L!NoSleeperByItem, L!IsEmpty
  <2>2. CASE ~L!IsEmpty
    BY <1>1, <1>5, <1>6, <2>2 DEF LInv, L!NoSleeperByItem, L!IsEmpty, Within, OthersKept, L!At
  <2> QED BY <2>1, <2>2
<1>12. lock' \in Threads \cup {Null} /\ waiting' \in SUBSET Threads /\ waiting' \subseteq waiting \cup {t}
  BY <1>0, <1>5 DEF LTypeOK
<1> QED BY <1>1, <1>6, <1>8, <1>9, <1>10, <1>11, <1>12, BlockQuiet DEF L!At

LEMMA StopStep ==
  ASSUME LInv, ~Combines, NEW t \in Threads, NEW e \in BOOLEAN, L!StopWaiting(t, e)
  PROVE  LInv'
<1> USE DEF LockPcs, BasePcs, OtherPcs, OpPcs
<1>0. th[t] \in Locals /\ LTypeOK /\ LPcInv(t) /\ BlockInv(t)
  BY DEF LInv, LTypeOK
<1>1. /\ t \in waiting /\ waiting' = waiting \ {t} /\ L!Observe(t, L!Held)
      /\ L!Set(t, [th[t] EXCEPT !.expired = e])
      /\ UNCHANGED <<mode, lock, head, tail, next, operations, gets>>
  BY DEF L!StopWaiting
<1>2. Within(t) /\ th'[t] = [th[t] EXCEPT !.expired = e]
  <2>1. [th[t] EXCEPT !.expired = e] \in Locals
    BY <1>0 DEF Locals
  <2> QED BY <1>0, <1>1, <2>1, SetLocals DEF Locals
<1>3. Ever' = Ever
  BY <1>1, ChainKept
<1>4. th[t].pc = "wait"
  BY <1>0, <1>1 DEF LPcInv
<1>5. th[t].op = "get" /\ sight[t] => sight'[t]
  BY <1>0, <1>1, <1>2, SightKept
<1>6. LPcInv(t)'
  BY <1>0, <1>1, <1>2, <1>3, <1>4 DEF LPcInv, Locals
<1>7. BlockInv(t)'
  BY <1>0, <1>1, <1>2, <1>3, <1>4, <1>5 DEF BlockInv, Locals, L!NoOperation, L!Operation
<1>8. LockInv'
  <2>1. ~Holds(t)'
    BY <1>0, <1>1, <1>2, <1>4 DEF Holds, Combines, Locals
  <2> QED BY <1>1, <1>2, <2>1, LockKept DEF Within
<1>9. L!NoSleeperByItem'
  BY <1>1, <1>2, <1>4 DEF LInv, L!NoSleeperByItem, L!IsEmpty, Within, OthersKept
<1> QED BY <1>0, <1>1, <1>2, <1>4, <1>6, <1>7, <1>8, <1>9, BlockQuiet DEF LTypeOK

LEMMA RelockStep ==
  ASSUME LInv, ~Combines, NEW t \in Threads, L!Relock(t)
  PROVE  LInv'
<1> USE DEF LockPcs, BasePcs, OtherPcs, OpPcs
<1>0. th[t] \in Locals /\ LTypeOK /\ LPcInv(t) /\ BlockInv(t)
  BY DEF LInv, LTypeOK
<1> DEFINE p == IF th[t].expired THEN "unlock" ELSE "test"
<1>1. Within(t) /\ th'[t] = [th[t] EXCEPT !.pc = p]
  <2>1. p \in LockPcs
    OBVIOUS
  <2> HIDE DEF p
  <2> QED BY <1>0, <2>1, GotoLocals DEF L!Relock, p
<1>2. /\ L!At(t, "wait") /\ t \notin waiting /\ lock = Null /\ lock' = t /\ L!Observe(t, L!Held)
      /\ UNCHANGED <<mode, waiting, head, tail, next, operations, gets, spurious>>
  BY DEF L!Relock
<1>3. Ever' = Ever
  BY <1>2, ChainKept
<1>4. th[t].op = "get" /\ th[t].item = Null /\ sight[t]
  BY <1>0, <1>2 DEF BlockInv, LPcInv, L!At
<1>5. sight'[t]
  BY <1>0, <1>1, <1>2, <1>4, SightKept
<1>6. LPcInv(t)'
  BY <1>0, <1>1, <1>2, <1>3, <1>4 DEF LPcInv, L!At, Locals
<1>7. BlockInv(t)'
  BY <1>0, <1>1, <1>2, <1>3, <1>4, <1>5 DEF BlockInv, L!At, Locals, L!NoOperation, L!Operation
<1>8. LockInv'
  BY <1>1, <1>2, LockTaken DEF Within
<1>9. L!NoSleeperByItem'
  BY <1>1, <1>2 DEF LInv, L!NoSleeperByItem, L!IsEmpty, Within, OthersKept, L!At
<1> QED BY <1>0, <1>1, <1>2, <1>6, <1>7, <1>8, <1>9, BlockQuiet DEF L!At, LTypeOK

LEMMA WakeStep ==
  ASSUME LInv, ~Combines, NEW t \in Threads, L!Wake(t)
  PROVE  LInv'
<1> USE DEF LockPcs, BasePcs, OtherPcs, OpPcs
<1>0. th[t] \in Locals /\ LTypeOK /\ LPcInv(t) /\ BlockInv(t)
  BY DEF LInv, LTypeOK
<1>1. Within(t) /\ th'[t] = [th[t] EXCEPT !.pc = "unlock"]
  BY <1>0, GotoLocals DEF L!Wake
<1>2. /\ L!At(t, "wake") /\ waiting' = {} /\ L!Observe(t, L!Held)
      /\ UNCHANGED <<mode, lock, head, tail, next, operations, gets, spurious>>
  BY DEF L!Wake, L!Woken
<1>3. Ever' = Ever
  BY <1>2, ChainKept
<1>4. th[t].op = "put" /\ lock = t /\ t \notin waiting
  BY <1>0, <1>2 DEF LInv, LockInv, Holds, BlockInv, LPcInv, L!At
<1>6. LPcInv(t)'
  BY <1>0, <1>1, <1>2, <1>3, <1>4 DEF LPcInv, L!At, Locals
<1>7. BlockInv(t)'
  BY <1>0, <1>1, <1>2, <1>3, <1>4 DEF BlockInv, L!At, Locals, L!NoOperation, L!Operation
<1>8. LockInv'
  BY <1>1, <1>2, <1>4, LockKept DEF Within
<1>9. L!NoSleeperByItem'
  BY <1>2 DEF L!NoSleeperByItem
<1> QED BY <1>0, <1>1, <1>2, <1>6, <1>7, <1>8, <1>9, BlockQuiet DEF L!At, LTypeOK

LEMMA UnlockStep ==
  ASSUME LInv, ~Combines, NEW t \in Threads, L!Unlock(t)
  PROVE  LInv'
<1> USE DEF LockPcs, BasePcs, OtherPcs, OpPcs
<1>0. th[t] \in Locals /\ LTypeOK /\ LPcInv(t) /\ BlockInv(t)
  BY DEF LInv, LTypeOK
<1> DEFINE r == [th[t] EXCEPT !.pc = "return", !.node = Null, !.i = 0, !.expired = FALSE]
<1>1. Within(t) /\ th'[t] = r
  <2>1. 0 \in DOMAIN LockedNum
    BY StrictQueuesAssumption, FS_CardinalityType, FS_EmptySet
  <2>2. r \in Locals
    BY <1>0, <2>1 DEF Locals
  <2>3. r.op = th[t].op /\ r.item = th[t].item
    BY <1>0 DEF Locals
  <2> HIDE DEF r
  <2> QED BY <1>0, <2>2, <2>3, SetLocals DEF L!Unlock, r
<1>2. /\ L!At(t, "unlock") /\ lock' = Null /\ L!Observe(t, L!Held)
      /\ UNCHANGED <<mode, waiting, head, tail, next, operations, gets, spurious>>
  BY DEF L!Unlock, L!Released
<1>3. Ever' = Ever
  BY <1>2, ChainKept
<1>4. lock = t /\ t \notin waiting /\ th[t].op # "none"
  BY <1>0, <1>2 DEF LInv, LockInv, Holds, LPcInv, L!At
<1>5. th[t].op = "get" /\ sight[t] => sight'[t]
  BY <1>0, <1>1, <1>2, SightKept
<1>6. LPcInv(t)'
  BY <1>0, <1>1, <1>2, <1>3, <1>4 DEF LPcInv, L!At, Locals
<1>7. BlockInv(t)'
  BY <1>0, <1>1, <1>2, <1>3, <1>4, <1>5 DEF BlockInv, L!At, Locals, L!NoOperation, L!Operation
<1>8. LockInv'
  <2>1. ~Holds(t)'
    BY <1>0, <1>1, <1>2 DEF Holds, Combines, Locals
  <2> QED BY <1>1, <1>2, <1>4, <2>1, LockGivenUp DEF Within
<1>9. L!NoSleeperByItem'
  BY <1>1, <1>2 DEF LInv, L!NoSleeperByItem, L!IsEmpty, Within, OthersKept, L!At
<1> QED BY <1>0, <1>1, <1>2, <1>6, <1>7, <1>8, <1>9, BlockQuiet DEF L!At, LTypeOK
-----------------------------------------------------------------------------
\* The list: linking a node and moving the tail to it, and moving the head.

NodeFacts(t) == th[t].node \in Items \ Ever /\ tail \in L!Nodes /\ th[t].node \in L!Nodes
                /\ th[t].node # tail /\ Steps[tail] = {} /\ next[th[t].node] = L!NoNode

LEMMA NewNode ==
  ASSUME LInv, NEW t \in Threads, th[t].pc \in {"link", "swing"}
  PROVE  NodeFacts(t)
<1>1. th[t].node \in Items \ Ever
  BY DEF LInv, LPcInv
<1>2. tail \in Ever \cup {L!Sentinel} /\ tail \in L!Nodes /\ th[t].node \in L!Nodes
  BY <1>1, StepsFact DEF LInv, LTypeOK, ChainInv
<1>3. th[t].node # tail /\ th[t].node # L!Sentinel
  BY <1>1, <1>2, StrictQueuesAssumption
<1>4. next[th[t].node] = L!NoNode
  BY <1>1, <1>2, <1>3 DEF LInv, ChainInv
<1> QED BY <1>1, <1>2, <1>3, <1>4, StepsFact DEF LInv, NodeFacts

LEMMA LinkChain ==
  ASSUME LInv, NEW t \in Threads, th[t].pc = "link", UNCHANGED <<head, tail>>,
         next' = [next EXCEPT ![tail] = th[t].node]
  PROVE  /\ next' \in [L!Nodes -> Items \cup {L!NoNode}]
         /\ Steps' = Steps /\ Ever' = Ever
         /\ \A x : After(Steps', x) = After(Steps, x)
<1>1. NodeFacts(t)
  BY NewNode
<1>2. next' \in [L!Nodes -> Items \cup {L!NoNode}]
  BY <1>1 DEF LInv, LTypeOK, NodeFacts
<1>3. Steps' = Steps
  BY <1>1, <1>2 DEF Steps, LInv, LTypeOK, L!Nodes, NodeFacts
<1> QED BY <1>2, <1>3 DEF Ever

LEMMA SwingChain ==
  ASSUME LInv, NEW t \in Threads, th[t].pc = "swing", tail' = th[t].node, UNCHANGED <<head, next>>
  PROVE  /\ tail' \in L!Nodes /\ NodeFacts(t)
         /\ Acyclic(Steps') /\ Ever' = Ever \cup {th[t].node}
         /\ \A x \in Ever \cup {L!Sentinel} :
              After(Steps', x) = After(Steps, x) \cup {th[t].node}
         /\ After(Steps', th[t].node) = {}
<1> DEFINE n == th[t].node
<1>1. NodeFacts(t) /\ next[tail] = n
  BY NewNode DEF LInv, LPcInv
<1>2. Steps \in [L!Nodes -> SUBSET L!Nodes] /\ Acyclic(Steps) /\ tail \in L!Nodes /\ n \in L!Nodes
      /\ n # tail /\ Steps[tail] = {} /\ Steps[n] = {} /\ L!Sentinel \in L!Nodes /\ Items \subseteq L!Nodes
      /\ Ever \subseteq Items /\ tail' \in L!Nodes
  BY <1>1, StepsFact DEF LInv, ChainInv, NodeFacts
<1>3. /\ Steps' \in [L!Nodes -> SUBSET L!Nodes] /\ Steps'[tail] = {n}
      /\ \A x \in L!Nodes \ {tail} : Steps'[x] = Steps[x]
  <2>1. n # L!NoNode
    BY <1>1, StrictQueuesAssumption DEF NodeFacts
  <2>2. \A x \in L!Nodes : Steps'[x] = IF x = n \/ next[x] = L!NoNode THEN {} ELSE {next[x]}
    BY DEF Steps, L!Nodes, n
  <2>3. \A x \in L!Nodes : Steps[x] = IF x = tail \/ next[x] = L!NoNode THEN {} ELSE {next[x]}
    BY DEF Steps
  <2>4. \A x \in L!Nodes : next[x] \in Items \cup {L!NoNode}
    BY DEF LInv, LTypeOK
  <2>5. next[n] = L!NoNode
    BY <1>1 DEF NodeFacts
  <2> HIDE DEF n
  <2>6. \A x \in L!Nodes : Steps'[x] \subseteq L!Nodes
    BY <1>2, <2>2, <2>4
  <2>7. Steps' \in [L!Nodes -> SUBSET L!Nodes]
    BY <2>6 DEF Steps, L!Nodes
  <2> QED BY <1>1, <1>2, <2>1, <2>2, <2>3, <2>5, <2>7
<1> HIDE DEF n
<1>4. /\ Acyclic(Steps')
      /\ \A z \in L!Nodes : After(Steps', z) = IF z = tail \/ tail \in After(Steps, z)
                                             THEN After(Steps, z) \cup {n} ELSE After(Steps, z)
  BY <1>2, <1>3, ChainGrows
<1>5. \A x \in Ever \cup {L!Sentinel} : After(Steps', x) = After(Steps, x) \cup {n}
  BY <1>2, <1>4 DEF LInv, ChainInv
<1>6. Ever' = Ever \cup {n}
  BY <1>5 DEF Ever
<1>7. After(Steps', n) = {}
  <2>1. After(Steps, n) = {}
    BY <1>2, AfterNone
  <2> QED BY <1>2, <1>4, <2>1
<1> QED BY <1>1, <1>2, <1>4, <1>5, <1>6, <1>7 DEF n

LEMMA AdvanceChain ==
  ASSUME LInv, head # tail, head' = next[head], UNCHANGED <<tail, next>>
  PROVE  /\ head' \in Ever /\ head' \in L!Nodes /\ head' \in After(Steps, head)
         /\ Steps' = Steps /\ Ever' = Ever
         /\ \A x : After(Steps', x) = After(Steps, x)
         /\ After(Steps', head') = After(Steps, head) \ {head'}
         /\ After(Steps, head) = L!Held
<1>1. /\ next[head] \in Ever /\ next[head] \in After(Steps, head) /\ Ever \subseteq Items
      /\ After(Steps, next[head]) = After(Steps, head) \ {next[head]}
      /\ After(Steps, head) = L!Held
  BY EmptyFact DEF LInv, ChainInv
<1>2. Steps' = Steps
  BY DEF Steps, L!Nodes
<1> QED BY <1>1, <1>2, StepsFact DEF Ever, LInv

\* The other threads, with a lock and a condition variable.
LEMMA OthersBlock ==
  ASSUME LInv, ~Combines, NEW t \in Threads, OthersKept(t), UNCHANGED <<mode, operations>>,
         \A u \in Threads \ {t} : th[u].op = "get" /\ sight[u] => sight'[u],
         Ever \subseteq Ever',
         \A u \in Threads \ {t} : th[u].op = "put" /\ th[u].item \notin Ever => th[u].item \notin Ever'
  PROVE  ~Combines' /\ \A u \in Threads \ {t} : BlockInv(u)'
<1>1. \A u \in Threads : BlockInv(u)
  BY DEF LInv
<1>2. \A u \in Threads \ {t} : th'[u] = th[u] /\ operations'[u] = operations[u]
  BY DEF OthersKept
<1>3. ASSUME NEW u \in Threads \ {t} PROVE BlockInv(u)'
  BY <1>1, <1>2, <1>3 DEF BlockInv, L!NoOperation, L!Operation
<1> QED BY <1>3 DEF Combines

\* No other thread is at the list.
LEMMA AtList ==
  ASSUME LInv, NEW t \in Threads, th[t].pc \in BasePcs
  PROVE  lock = t /\ \A u \in Threads \ {t} : th[u].pc \notin BasePcs \cup {"wake"} \/ (Combines /\ th[u].pc = "wake")
<1>1. Holds(t)
  BY DEF Holds, LockPcs, CombinePcs
<1>2. lock = t /\ \A u \in Threads \ {t} : ~Holds(u)
  BY <1>1 DEF LInv, LockInv
<1> QED BY <1>2 DEF Holds, LockPcs, CombinePcs, BasePcs

LEMMA OthersAway ==
  ASSUME LInv, NEW t \in Threads, th[t].pc \in BasePcs, OthersKept(t),
         UNCHANGED waiting
  PROVE  \A u \in Threads \ {t} : LPcInv(u)'
<1>1. \A u \in Threads \ {t} : th[u].pc \notin BasePcs
  BY AtList
<1> QED BY <1>1 DEF LInv, LPcInv, OthersKept, BasePcs
-----------------------------------------------------------------------------
\* What these steps do to the items.

SwingHyp(t) ==
  /\ th[t].pc = "swing" /\ tail' = th[t].node /\ UNCHANGED <<head, next>>
  /\ Within(t)

LEMMA SwingInv ==
  ASSUME LInv, NEW t \in Threads, SwingHyp(t), NEW held, L!Observe(t, held),
         th[t].node \in L!Begun, \A u \in Threads : Pocket(u)' = Pocket(u)
  PROVE  ChainInv' /\ LPlacesInv' /\ LOrderInv'
<1> DEFINE n == th[t].node
<1>1. /\ tail' \in L!Nodes /\ NodeFacts(t)
      /\ Acyclic(Steps') /\ Ever' = Ever \cup {n}
      /\ \A x \in Ever \cup {L!Sentinel} : After(Steps', x) = After(Steps, x) \cup {n}
      /\ After(Steps', n) = {}
  BY SwingChain DEF SwingHyp
<1>2. /\ done' = done /\ out' = out /\ older' = older /\ late' = late /\ start' = start
      /\ \A u \in Threads : L!InHand(u)' = L!InHand(u)
      /\ L!Hands' = L!Hands /\ L!Begun' = L!Begun
  BY Quiet DEF LInv, SwingHyp
<1>3. /\ ChainInv /\ LPlacesInv /\ LOrderInv /\ tail' = n /\ head' = head /\ next' = next
      /\ \A u \in Threads : th'[u].op = th[u].op /\ th'[u].item = th[u].item
  BY DEF LInv, SwingHyp, Within, OthersKept
<1>4. n \in Items \ Ever /\ next[n] = L!NoNode /\ n \in L!Begun /\ L!Nodes' = L!Nodes
  BY <1>1 DEF NodeFacts, L!Nodes
<1> HIDE DEF n
<1>5. ChainInv'
  BY <1>1, <1>3, <1>4 DEF ChainInv
<1>6. After(Steps, head)' = After(Steps, head) \cup {n}
  BY <1>1, <1>3 DEF ChainInv
<1>7. LPlacesInv'
  BY <1>1, <1>2, <1>3, <1>4, <1>6 DEF LPlacesInv
<1>8. LOrderInv'
  <2>1. \A x \in Items : older[x] \subseteq done
    BY <1>3 DEF LOrderInv
  <2>2. done \subseteq Ever /\ Ever \subseteq Items
    BY <1>3 DEF LPlacesInv, ChainInv
  <2>3. \A x \in Ever : \A y \in older[x] : y \in Ever /\ x \in After(Steps', y)
    BY <1>1, <1>3, <2>1, <2>2 DEF LOrderInv
  <2>4. \A y \in older[n] : y \in Ever /\ n \in After(Steps', y)
    BY <1>1, <1>4, <2>1, <2>2
  <2> QED BY <1>1, <1>2, <1>3, <2>1, <2>3, <2>4 DEF LOrderInv
<1> QED BY <1>5, <1>7, <1>8

\* The first item goes to a caller, or into a pocket.
Gets(u, x) == /\ L!InHand(u)' = L!InHand(u) \cup {x} /\ Pocket(u)' = Pocket(u)
              /\ L!Hands' = L!Hands \cup {x}
Pockets(u, x) == /\ L!InHand(u)' = L!InHand(u) /\ Pocket(u)' = Pocket(u) \cup {x}
                 /\ L!Hands' = L!Hands

LEMMA AdvanceInv ==
  ASSUME LInv, NEW t \in Threads, head # tail, head' = next[head], UNCHANGED <<tail, next>>,
         UNCHANGED <<done, out, older, late, start, L!Begun>>, OthersKept(t), th[t].pc = "advance",
         \A u \in Threads : th'[u].op = th[u].op /\ (th[u].op = "put" => th'[u].item = th[u].item),
         NEW u \in Threads, Gets(u, next[head]) \/ Pockets(u, next[head]),
         \A v \in Threads \ {u} : L!InHand(v)' = L!InHand(v) /\ Pocket(v)' = Pocket(v)
  PROVE  ChainInv' /\ LPlacesInv' /\ LOrderInv'
<1> DEFINE x == next[head]
<1>1. /\ head' \in Ever /\ head' \in L!Nodes /\ x \in After(Steps, head)
      /\ Steps' = Steps /\ Ever' = Ever
      /\ \A y : After(Steps', y) = After(Steps, y)
      /\ After(Steps', head') = After(Steps, head) \ {x}
      /\ head' = x
  BY AdvanceChain
<1>2. ChainInv /\ LPlacesInv /\ LOrderInv /\ L!Nodes' = L!Nodes
  BY DEF LInv, L!Nodes
<1>3. \A v \in Threads : th[v].pc = "swing" => th'[v].pc = "swing"
  BY DEF OthersKept
<1>4. ChainInv'
  BY <1>1, <1>2, <1>3 DEF ChainInv
<1>5. LOrderInv'
  BY <1>1, <1>2 DEF LOrderInv
<1>6. /\ x \in Ever /\ x \notin L!Hands \cup out /\ \A v \in Threads : x \notin Pocket(v) /\ x \notin L!InHand(v)
  <2>1. \A v \in Threads : L!InHand(v) \subseteq L!Hands
    BY DEF L!Hands
  <2> QED BY <1>1, <1>2, <2>1 DEF LPlacesInv
<1> HIDE DEF x
<1>7. After(Steps, head)' = After(Steps, head) \ {x}
  BY <1>1
<1>8. LPlacesInv'
  <2>1. CASE Gets(u, x)
    BY <1>1, <1>2, <1>6, <1>7, <2>1 DEF LPlacesInv, Gets
  <2>2. CASE Pockets(u, x)
    BY <1>1, <1>2, <1>6, <1>7, <2>2 DEF LPlacesInv, Pockets
  <2> QED BY <2>1, <2>2 DEF x
<1> QED BY <1>4, <1>5, <1>8

LEMMA NoPockets ==
  ASSUME \A u \in Threads : BlockInv(u)
  PROVE  \A u \in Threads : Pocket(u) = {}
<1>1. \A u \in Threads : ~Ends(u) /\ operations[u].data = Null
  BY DEF BlockInv, Ends, OpPcs, LockPcs, BasePcs, L!NoOperation, L!Operation
<1> QED BY <1>1 DEF Pocket

LEMMA NoPocketsNext ==
  ASSUME \A u \in Threads : BlockInv(u)'
  PROVE  \A u \in Threads : Pocket(u)' = {}
<1>1. \A u \in Threads : ~Ends(u)' /\ operations'[u].data = Null
  BY DEF BlockInv, Ends, OpPcs, LockPcs, BasePcs, L!NoOperation, L!Operation
<1> QED BY <1>1 DEF Pocket
-----------------------------------------------------------------------------
\* The list behind the mutex.

LEMMA BlockLink ==
  ASSUME LInv, ~Combines, NEW t \in Threads, L!Link(t)
  PROVE  LInv'
<1> USE DEF LockPcs, BasePcs, OtherPcs, OpPcs
<1>0. th[t] \in Locals /\ LTypeOK /\ LPcInv(t) /\ BlockInv(t) /\ ChainInv /\ LPlacesInv /\ LOrderInv
  BY DEF LInv, LTypeOK
<1>1. /\ L!At(t, "link") /\ next' = [next EXCEPT ![tail] = th[t].node] /\ L!Observe(t, L!Held')
      /\ UNCHANGED <<mode, lock, waiting, head, tail, operations, gets, spurious>>
  BY DEF L!Link
<1>2. Within(t) /\ th'[t] = [th[t] EXCEPT !.pc = "swing"]
  BY <1>0, GotoLocals DEF L!Link
<1>3. /\ next' \in [L!Nodes -> Items \cup {L!NoNode}] /\ Steps' = Steps /\ Ever' = Ever
      /\ \A x : After(Steps', x) = After(Steps, x)
  BY <1>1, LinkChain DEF L!At
<1>4. /\ done' = done /\ out' = out /\ older' = older /\ late' = late /\ start' = start
      /\ \A u \in Threads : L!InHand(u)' = L!InHand(u)
      /\ L!Hands' = L!Hands /\ L!Begun' = L!Begun
  BY <1>0, <1>1, <1>2, Quiet
<1>5. LTypeOK'
  <2>1. head' \in L!Nodes /\ tail' \in L!Nodes /\ lock' \in Threads \cup {Null}
        /\ waiting' \in SUBSET Threads /\ operations' \in [Threads -> Records]
    BY <1>0, <1>1 DEF LTypeOK
  <2> QED BY <1>0, <1>1, <1>2, <1>3, <2>1, QuietTypes
<1>6. ChainInv'
  <2>1. th'[t].pc = "swing" /\ L!Nodes' = L!Nodes /\ tail \in Ever \cup {L!Sentinel}
    BY <1>0, <1>2 DEF Locals, L!Nodes, ChainInv
  <2>2. \A x \in L!Nodes \ (Ever \cup {L!Sentinel}) : next'[x] = next[x]
    BY <1>0, <1>1, <2>1 DEF LTypeOK
  <2> QED BY <1>0, <1>1, <1>3, <2>1, <2>2 DEF ChainInv
<1>7. lock = t /\ \A u \in Threads \ {t} : th[u].pc \notin BasePcs
  BY <1>1, AtList DEF L!At
<1>8. \A u \in Threads : LPcInv(u)'
  <2>1. ASSUME NEW u \in Threads \ {t} PROVE LPcInv(u)'
    BY <1>1, <1>2, <1>3, <1>7, <2>1 DEF LInv, LPcInv, Within, OthersKept
  <2>2. LPcInv(t)'
    <3>1. next'[tail'] = th[t].node
      BY <1>0, <1>1 DEF LTypeOK
    <3> QED BY <1>0, <1>1, <1>2, <1>3, <3>1 DEF LPcInv, L!At, Locals
  <2> QED BY <2>1, <2>2
<1>9. ~Combines' /\ \A u \in Threads \ {t} : BlockInv(u)'
  <2>1. \A u \in Threads : th[u].op = "get" /\ sight[u] => sight'[u]
    BY <1>0, <1>1, <1>2, SightKept
  <2> QED BY <1>1, <1>2, <1>3, <2>1, OthersBlock DEF Within
<1>10. BlockInv(t)'
  BY <1>0, <1>1, <1>2, <1>3 DEF BlockInv, L!At, Locals, L!NoOperation, L!Operation
<1>11. LockInv'
  BY <1>1, <1>2, <1>7, LockKept DEF Within
<1>12. LPlacesInv' /\ LOrderInv'
  <2>1. \A u \in Threads : BlockInv(u) /\ BlockInv(u)'
    BY <1>9, <1>10 DEF LInv
  <2>2. \A u \in Threads : Pocket(u)' = Pocket(u)
    BY <2>1, NoPockets, NoPocketsNext
  <2>3. \A u \in Threads : th'[u].op = th[u].op /\ th'[u].item = th[u].item
    BY <1>2 DEF Within, OthersKept
  <2>4. LPlacesInv'
    BY <1>0, <1>1, <1>3, <1>4, <2>2, <2>3 DEF LPlacesInv
  <2> QED BY <1>0, <1>3, <1>4, <2>4 DEF LOrderInv
<1>13. L!NoSleeperByItem'
  BY <1>1, <1>2 DEF LInv, L!NoSleeperByItem, L!IsEmpty, Within, OthersKept, L!At
<1> QED BY <1>5, <1>6, <1>8, <1>9, <1>10, <1>11, <1>12, <1>13 DEF LInv

LEMMA BlockSwing ==
  ASSUME LInv, ~Combines, NEW t \in Threads, L!Swing(t)
  PROVE  LInv'
<1> USE DEF LockPcs, BasePcs, OtherPcs, OpPcs
<1>0. th[t] \in Locals /\ LTypeOK /\ LPcInv(t) /\ BlockInv(t) /\ ChainInv /\ LPlacesInv /\ LOrderInv
  BY DEF LInv, LTypeOK
<1>1. /\ L!At(t, "swing") /\ tail' = th[t].node /\ L!Observe(t, L!Held')
      /\ UNCHANGED <<mode, lock, waiting, head, next, operations, gets, spurious>>
  BY DEF L!Swing
<1>2. Within(t) /\ th'[t] = [th[t] EXCEPT !.pc = "wake"]
  <2>1. L!Goto(t, "wake")
    BY DEF L!Swing, Combines, L!Goto
  <2> QED BY <1>0, <2>1, GotoLocals
<1>3. SwingHyp(t)
  BY <1>1, <1>2 DEF SwingHyp, L!At
<1>4. th[t].op = "put" /\ th[t].node = th[t].item /\ lock = t
      /\ \A u \in Threads \ {t} : th[u].pc \notin BasePcs
  BY <1>0, <1>1, AtList DEF L!At, BlockInv
<1>5. tail' \in L!Nodes /\ Ever' = Ever \cup {th[t].node}
  BY <1>1, SwingChain DEF L!At
<1>6. LTypeOK'
  <2>1. head' \in L!Nodes /\ lock' \in Threads \cup {Null} /\ next' \in [L!Nodes -> Items \cup {L!NoNode}]
        /\ waiting' \in SUBSET Threads /\ operations' \in [Threads -> Records]
    BY <1>0, <1>1 DEF LTypeOK
  <2> QED BY <1>0, <1>1, <1>2, <1>5, <2>1, QuietTypes
<1>7. ~Combines' /\ \A u \in Threads \ {t} : BlockInv(u)'
  <2>1. \A u \in Threads : th[u].op = "get" /\ sight[u] => sight'[u]
    BY <1>0, <1>1, <1>2, SightKept
  <2>2. \A u \in Threads \ {t} : th[u].op = "put" => th[u].item # th[t].item
    BY <1>0, <1>4 DEF LPlacesInv
  <2> QED BY <1>1, <1>2, <1>4, <1>5, <2>1, <2>2, OthersBlock DEF Within
<1>8. BlockInv(t)'
  BY <1>0, <1>1, <1>2, <1>4, <1>5 DEF BlockInv, L!At, Locals, L!NoOperation, L!Operation
<1>9. LockInv'
  BY <1>1, <1>2, <1>4, LockKept DEF Within
<1>10. ChainInv' /\ LPlacesInv' /\ LOrderInv'
  <2>1. \A u \in Threads : BlockInv(u) /\ BlockInv(u)'
    BY <1>7, <1>8 DEF LInv
  <2>2. \A u \in Threads : Pocket(u)' = Pocket(u)
    BY <2>1, NoPockets, NoPocketsNext
  <2>3. th[t].node \in L!Begun
    BY <1>4 DEF L!Begun
  <2> QED BY <1>1, <1>3, <2>2, <2>3, SwingInv
<1>11. \A u \in Threads : LPcInv(u)'
  <2>1. ASSUME NEW u \in Threads \ {t} PROVE LPcInv(u)'
    BY <1>1, <1>2, <1>4, <2>1 DEF LInv, LPcInv, Within, OthersKept
  <2>2. LPcInv(t)'
    BY <1>0, <1>1, <1>2 DEF LPcInv, L!At, Locals
  <2> QED BY <2>1, <2>2
<1>12. L!NoSleeperByItem'
  BY <1>0, <1>2, <1>4 DEF L!NoSleeperByItem, Within, Locals
<1> QED BY <1>6, <1>7, <1>8, <1>9, <1>10, <1>11, <1>12 DEF LInv

LEMMA BlockTake ==
  ASSUME LInv, ~Combines, NEW t \in Threads, L!Take(t)
  PROVE  LInv'
<1> USE DEF LockPcs, BasePcs, OtherPcs, OpPcs
<1>0. th[t] \in Locals /\ LTypeOK /\ LPcInv(t) /\ BlockInv(t) /\ ChainInv
  BY DEF LInv, LTypeOK
<1> DEFINE r == [th[t] EXCEPT !.pc = "advance", !.node = next[head]]
<1>1. L!At(t, "take") /\ L!Observe(t, L!Held) /\ UNCHANGED L!shared
  BY DEF L!Take
<1>2. head # tail /\ next[head] \in Items /\ lock = t /\ t \notin waiting
  BY <1>0, <1>1, EmptyFact, AtList DEF L!At, LPcInv, ChainInv
<1>3. Within(t) /\ th'[t] = r
  <2>1. r \in Locals /\ r.op = th[t].op /\ r.item = th[t].item
    BY <1>0, <1>2 DEF Locals
  <2> HIDE DEF r
  <2> QED BY <1>0, <2>1, SetLocals DEF L!Take, r
<1>4. Ever' = Ever /\ UNCHANGED <<mode, lock, waiting, head, tail, next, operations>>
  BY <1>1, ChainKept DEF L!shared
<1>5. LPcInv(t)'
  BY <1>0, <1>1, <1>2, <1>3, <1>4 DEF LPcInv, L!At, Locals
<1>6. BlockInv(t)'
  BY <1>0, <1>1, <1>2, <1>3, <1>4 DEF BlockInv, L!At, Locals, L!NoOperation, L!Operation
<1>7. LockInv'
  BY <1>2, <1>3, <1>4, LockKept DEF Within
<1>8. L!NoSleeperByItem'
  BY <1>1, <1>3, <1>4 DEF LInv, L!NoSleeperByItem, L!IsEmpty, Within, OthersKept, L!At
<1>9. lock' \in Threads \cup {Null} /\ waiting' \in SUBSET Threads
  BY <1>0, <1>4 DEF LTypeOK
<1> QED BY <1>1, <1>3, <1>4, <1>5, <1>6, <1>7, <1>8, <1>9, BlockQuiet DEF L!At

LEMMA BlockAdvance ==
  ASSUME LInv, ~Combines, NEW t \in Threads, L!Advance(t)
  PROVE  LInv'
<1> USE DEF LockPcs, BasePcs, OtherPcs, OpPcs
<1>0. th[t] \in Locals /\ LTypeOK /\ LPcInv(t) /\ BlockInv(t) /\ ChainInv /\ LPlacesInv /\ LOrderInv
  BY DEF LInv, LTypeOK
<1> DEFINE r == [th[t] EXCEPT !.pc = "unlock", !.item = th[t].node, !.node = Null]
<1>1. /\ L!At(t, "advance") /\ head' = next[head] /\ L!Observe(t, L!Held') /\ L!Set(t, r)
      /\ UNCHANGED <<mode, lock, waiting, tail, next, operations, gets, spurious>>
  BY DEF L!Advance, Combines
<1>2. /\ head # tail /\ th[t].node = next[head] /\ th[t].op = "get" /\ th[t].item = Null
      /\ lock = t /\ \A u \in Threads \ {t} : th[u].pc \notin BasePcs \cup {"wake"}
      /\ t \notin waiting
  BY <1>0, <1>1, AtList DEF L!At, LPcInv, BlockInv
<1>3. /\ head' \in Ever /\ head' \in L!Nodes /\ Steps' = Steps /\ Ever' = Ever /\ Ever \subseteq Items
  BY <1>0, <1>1, <1>2, AdvanceChain DEF ChainInv
<1>4. OthersKept(t) /\ th' \in [Threads -> Locals] /\ th'[t] = r /\ r \in Locals
  <2>1. r \in Locals
    BY <1>0, <1>1, <1>2, <1>3 DEF Locals
  <2> HIDE DEF r
  <2> QED BY <1>0, <1>1, <2>1 DEF L!Set, OthersKept, LTypeOK
<1>5. r.op = th[t].op /\ r.item = next[head] /\ r.pc = "unlock"
  BY <1>0, <1>2 DEF Locals
<1>6. /\ done' = done /\ out' = out /\ older' = older /\ start' = start /\ late' = late
      /\ sight' = [u \in Threads |-> th'[u].op = "get" /\ (sight[u] \/ done \cap L!Held' = {})]
  <2>1. th'[t].op = th[t].op
    BY <1>4, <1>5
  <2>2. done' = done /\ out' = out /\ older' = older /\ start' = start /\ late' = late
    BY <1>1, <1>2, <2>1 DEF L!Observe
  <2> QED BY <1>1, <2>2 DEF L!Observe
<1>7. L!Begun' = L!Begun
  <2>1. \A u \in Threads : th'[u].op = th[u].op /\ (th[u].op = "put" => th'[u].item = th[u].item)
    BY <1>2, <1>4, <1>5 DEF OthersKept
  <2> QED BY <1>6, <2>1 DEF L!Begun
<1>8. ~Combines' /\ \A u \in Threads \ {t} : BlockInv(u)'
  <2>1. \A u \in Threads \ {t} : th[u].op = "get" /\ sight[u] => sight'[u]
    BY <1>4, <1>6 DEF OthersKept
  <2>2. \A u \in Threads : BlockInv(u)
    BY DEF LInv
  <2> QED BY <1>1, <1>3, <1>4, <2>1, <2>2 DEF BlockInv, OthersKept, Combines, L!NoOperation, L!Operation
<1>9. BlockInv(t)'
  <2>1. r.op = "get" /\ r.item # Null /\ th'[t].item = r.item /\ th'[t].op = "get" /\ th'[t].pc = "unlock"
    BY <1>1, <1>2, <1>3, <1>4, <1>5, CallHistoryAssumption
  <2> HIDE DEF r
  <2> QED BY <1>0, <1>1, <2>1 DEF BlockInv, L!NoOperation, L!Operation
<1>10. ChainInv' /\ LPlacesInv' /\ LOrderInv'
  <2>1. \A u \in Threads : BlockInv(u) /\ BlockInv(u)'
    BY <1>8, <1>9 DEF LInv
  <2>2. \A u \in Threads : Pocket(u)' = Pocket(u)
    BY <2>1, NoPockets, NoPocketsNext
  <2>3. L!InHand(t)' = L!InHand(t) \cup {next[head]} /\ \A u \in Threads \ {t} : L!InHand(u)' = L!InHand(u)
    BY <1>1, <1>2, <1>3, <1>4, <1>5, CallHistoryAssumption DEF L!InHand, OthersKept
  <2>4. L!Hands' = L!Hands \cup {next[head]}
    BY <2>3 DEF L!Hands
  <2>5. Gets(t, next[head])
    BY <2>2, <2>3, <2>4 DEF Gets
  <2>6. \A u \in Threads : th'[u].op = th[u].op /\ (th[u].op = "put" => th'[u].item = th[u].item)
    BY <1>2, <1>4, <1>5 DEF OthersKept
  <2> QED BY <1>1, <1>2, <1>4, <1>6, <1>7, <2>2, <2>3, <2>5, <2>6, AdvanceInv DEF L!At
<1>11. LTypeOK'
  BY <1>0, <1>1, <1>3, <1>4, <1>6 DEF LTypeOK, L!Nodes
<1>12. \A u \in Threads : LPcInv(u)'
  <2>1. ASSUME NEW u \in Threads \ {t} PROVE LPcInv(u)'
    BY <1>1, <1>2, <1>3, <1>4, <2>1 DEF LInv, LPcInv, OthersKept
  <2>2. LPcInv(t)'
    BY <1>0, <1>1, <1>2, <1>3, <1>4 DEF LPcInv, L!At, Locals
  <2> QED BY <2>1, <2>2
<1>13. LockInv'
  BY <1>1, <1>2, <1>4, LockKept
<1>14. L!NoSleeperByItem'
  BY <1>1, <1>2, <1>4 DEF LInv, L!NoSleeperByItem, L!IsEmpty, OthersKept, L!At
<1> QED BY <1>8, <1>9, <1>10, <1>11, <1>12, <1>13, <1>14 DEF LInv
-----------------------------------------------------------------------------
\* Flat combining.

CombineSound(u) == CombinePc(u) /\ RecordInv(u) /\ SubmittedInv(u) /\ CombinerInv(u)

LEMMA CombineQuiet ==
  ASSUME LInv, Combines, NEW t \in Threads, Within(t), L!Observe(t, L!Held),
         UNCHANGED <<mode, head, tail, next, waiting>>, th[t].pc # "swing",
         lock' \in Threads \cup {Null}, operations' \in [Threads -> Records],
         LPcInv(t)', LockInv', \A u \in Threads : Pocket(u)' = Pocket(u),
         \A u \in Threads : CombineSound(u)'
  PROVE  LInv'
<1>1. LTypeOK'
  <2>1. /\ head' \in L!Nodes /\ tail' \in L!Nodes /\ next' \in [L!Nodes -> Items \cup {L!NoNode}]
        /\ waiting' \in SUBSET Threads /\ LTypeOK
    BY DEF LInv, LTypeOK
  <2> QED BY <2>1, QuietTypes
<1>2. ChainInv'
  BY QuietChain DEF Within
<1>3. \A u \in Threads : LPcInv(u)'
  BY OthersPc DEF Within
<1>4. LPlacesInv' /\ LOrderInv'
  BY QuietPlaces
<1>5. Combines' /\ CombineInv'
  BY DEF LInv, CombineInv, CombineSound, Combines
<1>6. L!NoSleeperByItem'
  BY DEF LInv, CombineInv, L!NoSleeperByItem
<1> QED BY <1>1, <1>2, <1>3, <1>4, <1>5, <1>6 DEF LInv

LEMMA CombineFacts ==
  ASSUME LInv, Combines
  PROVE  /\ waiting = {} /\ LTypeOK
         /\ \A u \in Threads : CombineSound(u) /\ LPcInv(u)
         /\ \A u \in Threads : LockedNum[th[u].i] \in Threads
         /\ \A c, u \in Threads : Holds(c) /\ Holds(u) => c = u
         /\ \A c \in Threads : Holds(c) <=> th[c].pc \in CombinePcs \/ Ends(c)
         /\ \A c, u \in Threads : Ends(c) /\ Ends(u) => c = u
<1>1. \A u \in Threads : LockedNum[th[u].i] \in Threads
  <2>1. \A u \in Threads : th[u].i \in DOMAIN LockedNum
    BY DEF LInv, LTypeOK, Locals
  <2> QED BY <2>1, StrictQueuesAssumption
<1> QED BY <1>1 DEF LInv, CombineInv, CombineSound, LockInv, Holds

\* Whoever does not hold the lock has nothing to do with other records.
LEMMA NotCombining ==
  ASSUME NEW u \in Threads, CombinePc(u), th[u].pc \notin CombinePcs, ~Ends(u)
  PROVE  CombinerInv(u)
BY DEF CombinerInv, AtRecord, CombinePc, Ends, CombinePcs, BasePcs

LEMMA NotCombiningNext ==
  ASSUME NEW u \in Threads, CombinePc(u)', th'[u].pc \notin CombinePcs, ~Ends(u)'
  PROVE  CombinerInv(u)'
BY DEF CombinerInv, AtRecord, CombinePc, Ends, CombinePcs, BasePcs

\* A thread t that does not hold the lock: its record is its own until it is submitted.
LEMMA OthersOutside ==
  ASSUME LInv, Combines, NEW t \in Threads, OthersKept(t), UNCHANGED <<mode, head, tail, next>>,
         \A u \in Threads : th[u].op = "get" /\ sight[u] /\ (u # t \/ Submitted(t)) => sight'[u],
         \A u \in Threads \ {t} : operations'[u] = operations[u],
         ~Holds(t), ~Ends(t)',
         Submitted(t) => /\ operations'[t] = operations[t]
                         /\ \/ Submitted(t)' /\ th'[t].item = th[t].item
                            \/ operations[t].opcode = "Done"
  PROVE  /\ \A u \in Threads \ {t} : CombineSound(u)'
         /\ \A u \in Threads : Ending(u)' <=> Ending(u)
<1>1. Ever' = Ever
  BY ChainKept
<1>2. \A u \in Threads \ {t} : th'[u] = th[u] /\ (Ends(u)' <=> Ends(u)) /\ (Submitted(u)' <=> Submitted(u))
  BY DEF OthersKept, Ends, Submitted
<1>3. ~Ends(t)
  BY CombineFacts
<1>4. ASSUME NEW u \in Threads PROVE Ending(u)' <=> Ending(u)
  BY <1>2, <1>3 DEF Ending
<1>5. ASSUME NEW u \in Threads \ {t} PROVE CombinePc(u)' /\ RecordInv(u)' /\ SubmittedInv(u)'
  <2>1. CombinePc(u) /\ RecordInv(u) /\ SubmittedInv(u)
    BY CombineFacts DEF CombineSound
  <2>2. CombinePc(u)'
    BY <1>2, <2>1 DEF CombinePc
  <2>3. RecordInv(u)'
    BY <1>1, <1>2, <2>1 DEF RecordInv
  <2>4. SubmittedInv(u)'
    BY <1>1, <1>2, <1>4, <2>1 DEF SubmittedInv
  <2> QED BY <2>2, <2>3, <2>4
<1>6. ASSUME NEW c \in Threads \ {t} PROVE CombinerInv(c)'
  <2>1. CombinerInv(c)
    BY CombineFacts DEF CombineSound
  <2>2. CASE th[c].pc \in CombinePcs \/ Ends(c)
    <3>1. th'[c] = th[c] /\ (Ends(c)' <=> Ends(c)) /\ operations'[c] = operations[c]
      BY <1>2
    <3>2. ASSUME NEW u \in Threads, LockedNum[th[c].i] = u PROVE AtRecord(c, u)'
      <4>1. AtRecord(c, u)
        BY <2>1, <3>2 DEF CombinerInv
      <4>2. SubmittedInv(u) /\ LPcInv(u)
        BY CombineFacts DEF CombineSound
      <4>3. CASE u # t
        <5>1. operations'[u] = operations[u] /\ th'[u] = th[u] /\ (Submitted(u)' <=> Submitted(u))
          BY <1>2, <4>3
        <5>2. Submitted(u) /\ operations[u].opcode = "Dequeue" => th[u].op = "get"
          BY <4>2, CombineFacts DEF SubmittedInv, LPcInv, Submitted, CombinePcs, BasePcs, LTypeOK, Locals, Ends, OpPcs
        <5> QED BY <1>1, <3>1, <4>1, <5>1, <5>2 DEF AtRecord
      <4>4. CASE u = t /\ (th[c].pc \in BasePcs \/ Ends(c))
        <5>1. Submitted(t) /\ operations[t].opcode # "Done"
          BY <4>1, <4>4 DEF AtRecord, BasePcs, L!Operation
        <5>2. Submitted(t)' /\ operations'[t] = operations[t] /\ th'[t].item = th[t].item
          BY <5>1
        <5>3. operations[t].opcode = "Dequeue" => th[t].op = "get"
          BY <4>2, <4>4, <5>1, CombineFacts DEF SubmittedInv, LPcInv, Submitted, CombinePcs, BasePcs, LTypeOK, Locals, Ends, OpPcs
        <5> QED BY <1>1, <3>1, <4>1, <4>4, <5>1, <5>2, <5>3 DEF AtRecord
      <4>5. CASE u = t /\ ~(th[c].pc \in BasePcs \/ Ends(c))
        BY <3>1, <4>5 DEF AtRecord, BasePcs
      <4> QED BY <4>3, <4>4, <4>5
    <3> QED BY <2>1, <3>1, <3>2 DEF CombinerInv, PastOwn
  <2>3. CASE ~(th[c].pc \in CombinePcs \/ Ends(c))
    BY <1>2, <1>5, <2>3, NotCombiningNext
  <2> QED BY <2>2, <2>3
<1> QED BY <1>4, <1>5, <1>6 DEF CombineSound

\* The combiner t, when it writes no record.
LEMMA OthersInside ==
  ASSUME LInv, Combines, NEW t \in Threads, OthersKept(t), UNCHANGED <<mode, operations>>,
         Holds(t) \/ lock = Null, Ever \subseteq Ever',
         \A u \in Threads \ {t} : th[u].op = "put" /\ th[u].item \notin Ever =>
                                    th[u].item \notin Ever' \/ (Submitted(u) /\ Ending(u)'),
         \A u \in Threads \ {t} : th[u].op = "get" /\ sight[u] => sight'[u],
         \A u \in Threads : Ending(u) => Ending(u)'
  PROVE  \A u \in Threads \ {t} : CombineSound(u)'
<1>2. \A u \in Threads \ {t} : th'[u] = th[u] /\ (Ends(u)' <=> Ends(u)) /\ (Submitted(u)' <=> Submitted(u))
  BY DEF OthersKept, Ends, Submitted
<1>3. \A u \in Threads \ {t} : ~Holds(u)
  BY StrictQueuesAssumption DEF LInv, LockInv
<1>5. ASSUME NEW u \in Threads \ {t} PROVE CombinePc(u)' /\ RecordInv(u)' /\ SubmittedInv(u)'
  <2>1. CombinePc(u) /\ RecordInv(u) /\ SubmittedInv(u)
    BY CombineFacts DEF CombineSound
  <2>2. CombinePc(u)'
    BY <1>2, <2>1 DEF CombinePc
  <2>3. RecordInv(u)'
    <3>1. th[u].pc \in OpPcs /\ th[u].then = "try" => ~Submitted(u)
      BY DEF Submitted, Ends, OpPcs, CombinePcs, BasePcs
    <3> QED BY <1>2, <2>1, <3>1 DEF RecordInv
  <2>4. SubmittedInv(u)'
    BY <1>2, <2>1 DEF SubmittedInv
  <2> QED BY <2>2, <2>3, <2>4
<1>6. ASSUME NEW c \in Threads \ {t} PROVE CombinerInv(c)'
  BY <1>2, <1>3, <1>5, NotCombiningNext, CombineFacts
<1> QED BY <1>5, <1>6 DEF CombineSound
-----------------------------------------------------------------------------
\* Steps of a thread that is not the combiner.

OwnData(u) == IF th[u].op = "get" /\ th[u].item = Null THEN {operations[u].data} \ {Null} ELSE {}

LEMMA PocketIs ==
  ASSUME NEW u \in Threads
  PROVE  Pocket(u) = OwnData(u) \cup ({th[c].set.data : c \in {d \in Threads : Ends(d) /\ LockedNum[th[d].i] = u}} \ {Null})
BY DEF Pocket, OwnData

LEMMA PocketIsNext ==
  ASSUME NEW u \in Threads
  PROVE  Pocket(u)' = OwnData(u)' \cup ({th'[c].set.data : c \in {d \in Threads : Ends(d)' /\ LockedNum[th'[d].i] = u}} \ {Null})
BY DEF Pocket, OwnData

LEMMA PocketsOutside ==
  ASSUME NEW t \in Threads, OthersKept(t), ~Ends(t), ~Ends(t)',
         \A u \in Threads \ {t} : operations'[u] = operations[u],
         OwnData(t)' = OwnData(t)
  PROVE  \A u \in Threads : Pocket(u)' = Pocket(u)
<1> TAKE u \in Threads
<1>1. \A c \in Threads : (Ends(c)' <=> Ends(c)) /\ (Ends(c) => th'[c] = th[c])
  BY DEF OthersKept, Ends
<1>2. {th'[c].set.data : c \in {d \in Threads : Ends(d)' /\ LockedNum[th'[d].i] = u}}
      = {th[c].set.data : c \in {d \in Threads : Ends(d) /\ LockedNum[th[d].i] = u}}
  BY <1>1
<1>3. OwnData(u)' = OwnData(u)
  BY DEF OwnData, OthersKept
<1> QED BY <1>2, <1>3, PocketIs, PocketIsNext

LEMMA OutsideStep ==
  ASSUME LInv, Combines, NEW t \in Threads, Within(t), L!Observe(t, L!Held),
         UNCHANGED <<mode, head, tail, next, waiting, lock>>, ~Holds(t), ~Holds(t)',
         operations' \in [Threads -> Records],
         \A u \in Threads \ {t} : operations'[u] = operations[u],
         OwnData(t)' = OwnData(t),
         Submitted(t) => operations'[t] = operations[t] /\ (Submitted(t)' \/ operations[t].opcode = "Done"),
         LPcInv(t)', CombinePc(t)', RecordInv(t)', SubmittedInv(t)'
  PROVE  LInv'
<1>1. LTypeOK /\ Combines' /\ OthersKept(t) /\ th'[t].item = th[t].item
  BY DEF LInv, Combines, Within
<1>2. \A u \in Threads : th[u].op = "get" /\ sight[u] => sight'[u]
  BY <1>1, SightKept
<1>3. ~Ends(t) /\ ~Ends(t)' /\ th'[t].pc \notin CombinePcs /\ th[t].pc # "swing"
  BY <1>1 DEF Holds, CombinePcs, BasePcs
<1>4. \A u \in Threads \ {t} : CombineSound(u)'
  BY <1>1, <1>2, <1>3, OthersOutside
<1>5. CombineSound(t)'
  BY <1>3, NotCombiningNext DEF CombineSound
<1>6. \A u \in Threads : Pocket(u)' = Pocket(u)
  BY <1>1, <1>3, PocketsOutside
<1>7. LockInv'
  BY <1>1, LockKept
<1>8. lock' \in Threads \cup {Null}
  BY <1>1 DEF LTypeOK
<1> QED BY <1>3, <1>4, <1>5, <1>6, <1>7, <1>8, CombineQuiet

\* set_op, of a thread's own operation.
LEMMA OutsideSetFirst ==
  ASSUME LInv, Combines, NEW t \in Threads, L!SetOpFirst(t), ~Ends(t)
  PROVE  LInv'
<1> USE DEF CombinePcs, BasePcs, OtherPcs, OpPcs
<1>0. /\ th[t] \in Locals /\ LTypeOK /\ LPcInv(t) /\ CombinePc(t) /\ RecordInv(t)
      /\ operations[t] \in Records
  BY CombineFacts DEF LTypeOK, CombineSound
<1>1. /\ L!At(t, "op_1") /\ L!Write(t, 1) /\ L!Observe(t, L!Held)
      /\ UNCHANGED <<mode, lock, waiting, head, tail, next, gets, spurious>>
  BY DEF L!SetOpFirst
<1>2. Within(t) /\ th'[t] = [th[t] EXCEPT !.pc = "op_2"]
  BY <1>0, GotoLocals DEF L!SetOpFirst
<1>3. th[t].pc = "op_1" /\ th[t].then \in {"try", "return"} /\ LockedNum[th[t].i] = t
  BY <1>0, <1>1 DEF L!At, CombinePc, RecordInv, Own, Ends, Locals
<1>4. operations' = [operations EXCEPT ![t].data = th[t].set.data]
  BY <1>1, <1>3 DEF L!Write, L!OpParts
<1>5. /\ operations' \in [Threads -> Records] /\ operations'[t].opcode = operations[t].opcode
      /\ operations'[t].data = th[t].set.data
      /\ \A u \in Threads \ {t} : operations'[u] = operations[u]
  BY <1>0, <1>4 DEF LTypeOK, Records, Locals
<1>6. ~Ends(t)' /\ ~Submitted(t) /\ ~Submitted(t)' /\ ~Holds(t) /\ ~Holds(t)'
  BY <1>0, <1>1, <1>2, <1>3 DEF Ends, Submitted, Holds, Combines, Locals
<1>7. Ever' = Ever
  BY <1>1, ChainKept
<1>8. \A u \in Threads : th[u].op = "get" /\ sight[u] => sight'[u]
  BY <1>0, <1>1, <1>2, SightKept
<1>9. RecordInv(t)'
  BY <1>0, <1>2, <1>3, <1>5, <1>7, <1>8 DEF RecordInv, Locals, Own, L!Operation, L!NoOperation
<1>10. OwnData(t)' = OwnData(t)
  BY <1>0, <1>2, <1>3, <1>5 DEF OwnData, RecordInv, Locals, L!Operation, L!NoOperation, LPcInv
<1>11. LPcInv(t)' /\ CombinePc(t)' /\ SubmittedInv(t)'
  BY <1>0, <1>1, <1>2, <1>3, <1>6, <1>7 DEF LPcInv, CombinePc, SubmittedInv, Locals
<1> QED BY <1>1, <1>2, <1>5, <1>6, <1>9, <1>10, <1>11, OutsideStep

LEMMA OutsideSetSecond ==
  ASSUME LInv, Combines, NEW t \in Threads, L!SetOpSecond(t), ~Ends(t)
  PROVE  LInv'
<1> USE DEF CombinePcs, BasePcs, OtherPcs, OpPcs
<1>0. /\ th[t] \in Locals /\ LTypeOK /\ LPcInv(t) /\ CombinePc(t) /\ RecordInv(t)
      /\ operations[t] \in Records
  BY CombineFacts DEF LTypeOK, CombineSound
<1> DEFINE r == [th[t] EXCEPT !.set = L!NoOperation, !.then = "idle", !.pc = th[t].then,
                              !.i = 0, !.node = Null]
<1>1. /\ L!At(t, "op_2") /\ L!Write(t, 2) /\ L!Observe(t, L!Held)
      /\ UNCHANGED <<mode, lock, waiting, head, tail, next, gets, spurious>>
  BY DEF L!SetOpSecond
<1>3. th[t].pc = "op_2" /\ th[t].then \in {"try", "return"} /\ LockedNum[th[t].i] = t
  BY <1>0, <1>1 DEF L!At, CombinePc, RecordInv, Own, Ends, Locals
<1>2. Within(t) /\ th'[t] = r
  <2>1. L!Set(t, r)
    BY <1>0, <1>3 DEF L!SetOpSecond, Locals
  <2>2. 0 \in DOMAIN LockedNum
    BY StrictQueuesAssumption, FS_CardinalityType, FS_EmptySet
  <2>3. r \in Locals /\ r.op = th[t].op /\ r.item = th[t].item
    BY <1>0, <1>3, <2>2 DEF Locals, Records, L!NoOperation, L!Operation
  <2> HIDE DEF r
  <2> QED BY <1>0, <2>1, <2>3, SetLocals
<1>4. operations' = [operations EXCEPT ![t].opcode = th[t].set.opcode]
  BY <1>1, <1>3 DEF L!Write, L!OpParts
<1>5. /\ operations' \in [Threads -> Records] /\ operations'[t].data = operations[t].data
      /\ operations'[t].opcode = th[t].set.opcode
      /\ \A u \in Threads \ {t} : operations'[u] = operations[u]
  BY <1>0, <1>4 DEF LTypeOK, Records, Locals
<1>6. ~Ends(t)' /\ ~Submitted(t) /\ ~Holds(t) /\ ~Holds(t)'
  BY <1>0, <1>1, <1>2, <1>3 DEF Ends, Submitted, Holds, Combines, Locals
<1>7. Ever' = Ever
  BY <1>1, ChainKept
<1>8. \A u \in Threads : th[u].op = "get" /\ sight[u] => sight'[u]
  BY <1>0, <1>1, <1>2, SightKept
<1>9. /\ th'[t].pc = th[t].then /\ th'[t].op = th[t].op /\ th'[t].item = th[t].item
      /\ th[t].op \in {"put", "get"} /\ th'[t].i = 0
  BY <1>0, <1>2, <1>3 DEF Locals, LPcInv
<1>10. operations'[t] = th[t].set
  <2>1. operations[t].data = th[t].set.data
    BY <1>0, <1>3 DEF RecordInv, L!NoOperation, L!Operation
  <2>2. operations'[t] \in Records /\ th[t].set \in Records
    BY <1>0, <1>5 DEF Locals
  <2> QED BY <1>5, <2>1, <2>2 DEF Records
<1> HIDE DEF r
<1>11. RecordInv(t)'
  BY <1>0, <1>3, <1>7, <1>8, <1>9, <1>10 DEF RecordInv, Own, L!Operation, L!NoOperation
<1>12. SubmittedInv(t)'
  BY <1>0, <1>3, <1>6, <1>7, <1>9, <1>10 DEF SubmittedInv, RecordInv, Submitted, L!Operation, L!NoOperation
<1>13. OwnData(t)' = OwnData(t)
  BY <1>5, <1>9 DEF OwnData
<1>14. LPcInv(t)' /\ CombinePc(t)'
  BY <1>0, <1>1, <1>3, <1>7, <1>9 DEF LPcInv, CombinePc
<1> QED BY <1>1, <1>2, <1>5, <1>6, <1>11, <1>12, <1>13, <1>14, OutsideStep

LEMMA OutsidePoll ==
  ASSUME LInv, Combines, NEW t \in Threads,
         NEW p \in {"return", "result", "try", "poll"}, L!Goto(t, p), UNCHANGED L!shared, L!Observe(t, L!Held),
         th[t].pc \in {"try", "poll"},
         p = "return" => th[t].op = "put", p = "result" => th[t].op = "get",
         p \in {"return", "result"} => operations[t].opcode = "Done"
  PROVE  LInv'
<1> USE DEF CombinePcs, BasePcs, OtherPcs, OpPcs
<1>0. /\ th[t] \in Locals /\ LTypeOK /\ LPcInv(t) /\ CombinePc(t) /\ RecordInv(t) /\ SubmittedInv(t)
      /\ operations \in [Threads -> Records] /\ operations[t] \in Records
  BY CombineFacts DEF LTypeOK, CombineSound
<1>1. UNCHANGED <<mode, lock, waiting, head, tail, next, operations, gets, spurious>>
  BY DEF L!shared
<1>2. Within(t) /\ th'[t] = [th[t] EXCEPT !.pc = p]
  BY <1>0, GotoLocals
<1>3. Ever' = Ever
  BY <1>1, ChainKept
<1>4. \A u \in Threads : th[u].op = "get" /\ sight[u] => sight'[u]
  BY <1>0, <1>2, SightKept
<1>5. th'[t].pc = p /\ th'[t].op = th[t].op /\ th'[t].item = th[t].item /\ th'[t].i = th[t].i
  BY <1>0, <1>2 DEF Locals
<1>6. ~Ends(t)' /\ ~Holds(t) /\ ~Holds(t)' /\ Submitted(t) /\ (p # "return" => Submitted(t)')
      /\ (p = "return" => ~Submitted(t)')
  BY <1>0, <1>1, <1>5 DEF Ends, Submitted, Holds, Combines
<1>7. RecordInv(t)'
  BY <1>0, <1>1, <1>3, <1>5, <1>6 DEF RecordInv, SubmittedInv, L!NoOperation, L!Operation, Records
<1>8. SubmittedInv(t)'
  <2>1. ~Ends(t)
    BY <1>0 DEF Ends
  <2>2. \A u \in Threads \ {t} : Ends(u)' <=> Ends(u)
    BY <1>2 DEF Within, OthersKept, Ends
  <2>3. Ending(t)' <=> Ending(t)
    BY <1>2, <1>6, <2>1, <2>2 DEF Ending, Within, OthersKept
  <2> QED BY <1>0, <1>1, <1>3, <1>4, <1>5, <1>6, <2>3 DEF SubmittedInv
<1>9. OwnData(t)' = OwnData(t)
  BY <1>1, <1>5 DEF OwnData
<1>10. LPcInv(t)' /\ CombinePc(t)'
  BY <1>0, <1>1, <1>3, <1>5 DEF LPcInv, CombinePc
<1>11. Submitted(t)' \/ operations[t].opcode = "Done"
  BY <1>6
<1>12. operations' \in [Threads -> Records] /\ operations' = operations
  BY <1>0, <1>1
<1> QED BY <1>1, <1>2, <1>6, <1>7, <1>8, <1>9, <1>10, <1>11, <1>12, OutsideStep

LEMMA PollStep ==
  ASSUME LInv, Combines, NEW t \in Threads, L!Poll(t)
  PROVE  LInv'
<1>1. th[t].op \in {"put", "get"} /\ th[t].pc = "poll"
  BY CombineFacts DEF CombineSound, LPcInv, LTypeOK, Locals, L!Poll, L!At
<1> DEFINE p == IF L!Answered(t) THEN L!AfterCombining(t) ELSE "try"
<1>2. /\ L!Goto(t, p) /\ UNCHANGED L!shared /\ L!Observe(t, L!Held)
  BY DEF L!Poll
<1>3. /\ p \in {"return", "result", "try"}
      /\ p = "return" => th[t].op = "put"
      /\ p = "result" => th[t].op = "get"
      /\ p \in {"return", "result"} => operations[t].opcode = "Done"
  BY <1>1 DEF L!Answered, L!AfterCombining
<1> HIDE DEF p
<1> QED BY <1>1, <1>2, <1>3, OutsidePoll
\* Whoever gets no lock waits; whoever gets it combines.
LEMMA NoEnding ==
  ASSUME LInv, Combines, NEW t \in Threads, Holds(t) \/ lock = Null, ~Ends(t)
  PROVE  \A u \in Threads : ~Ending(u)
<1>1. \A c \in Threads \ {t} : ~Holds(c)
  BY StrictQueuesAssumption DEF LInv, LockInv
<1> QED BY <1>1, CombineFacts DEF Ending

LEMMA PocketsInside ==
  ASSUME LTypeOK, NEW t \in Threads, Within(t), UNCHANGED operations,
         ~Ends(t), Ends(t)' => th'[t].set.data = Null
  PROVE  \A u \in Threads : Pocket(u)' = Pocket(u)
<1> TAKE u \in Threads
<1>1. \A c \in Threads \ {t} : (Ends(c)' <=> Ends(c)) /\ th'[c] = th[c]
  BY DEF Within, OthersKept, Ends
<1>2. {th'[c].set.data : c \in {d \in Threads : Ends(d)' /\ LockedNum[th'[d].i] = u}} \ {Null}
      = {th[c].set.data : c \in {d \in Threads : Ends(d) /\ LockedNum[th[d].i] = u}} \ {Null}
  BY <1>1
<1>3. OwnData(u)' = OwnData(u)
  BY DEF OwnData, Within, OthersKept
<1> QED BY <1>2, <1>3, PocketIs, PocketIsNext

LEMMA InsideStep ==
  ASSUME LInv, Combines, NEW t \in Threads, Within(t), L!Observe(t, L!Held),
         UNCHANGED <<mode, head, tail, next, waiting, operations>>,
         Holds(t) \/ lock = Null, ~Ends(t), th[t].pc # "swing",
         Ends(t)' => th'[t].set.data = Null,
         lock' \in Threads \cup {Null}, LockInv', LPcInv(t)', CombineSound(t)'
  PROVE  LInv'
<1>1. LTypeOK /\ OthersKept(t) /\ Ever' = Ever
  BY ChainKept DEF LInv, Within
<1>2. \A u \in Threads : th[u].op = "get" /\ sight[u] => sight'[u]
  BY <1>1, SightKept
<1>3. \A u \in Threads \ {t} : CombineSound(u)'
  BY <1>1, <1>2, NoEnding, OthersInside
<1>4. \A u \in Threads : Pocket(u)' = Pocket(u)
  BY <1>1, PocketsInside
<1>5. operations' \in [Threads -> Records]
  BY <1>1 DEF LTypeOK
<1> QED BY <1>3, <1>4, <1>5, CombineQuiet

\* The combiner t is at the record of u, or at none.
LEMMA OwnSubmitted ==
  ASSUME LInv, Combines, NEW t \in Threads, OthersKept(t), UNCHANGED <<head, tail, next, operations>>,
         \A u \in Threads : th[u].op = "get" /\ sight[u] => sight'[u],
         th'[t].op = th[t].op, th'[t].item = th[t].item,
         Submitted(t), Holds(t) \/ lock = Null, ~Ends(t),
         th'[t].pc \in CombinePcs \cup {"try", "poll"} \/ Ends(t)', CombinePc(t)'
  PROVE  RecordInv(t)' /\ SubmittedInv(t)'
<1> USE DEF CombinePcs, BasePcs, OtherPcs, OpPcs
<1>1. Ever' = Ever
  BY ChainKept
<1>2. RecordInv(t)'
  BY DEF RecordInv, Ends
<1>3. SubmittedInv(t) /\ ~Ending(t)
  BY NoEnding, CombineFacts DEF CombineSound
<1>4. SubmittedInv(t)'
  BY <1>1, <1>3 DEF SubmittedInv
<1> QED BY <1>2, <1>4

LEMMA TryLockStep ==
  ASSUME LInv, Combines, NEW t \in Threads, L!TryLock(t)
  PROVE  LInv'
<1> USE DEF CombinePcs, BasePcs, OtherPcs, OpPcs
<1>0. /\ th[t] \in Locals /\ LTypeOK /\ LPcInv(t) /\ CombineSound(t)
  BY CombineFacts DEF LTypeOK
<1>1. /\ th[t].pc = "try" /\ L!Observe(t, L!Held)
      /\ UNCHANGED <<mode, waiting, head, tail, next, operations, gets, spurious>>
  BY DEF L!TryLock, L!At
<1>2. CASE lock # Null /\ UNCHANGED lock /\ L!Goto(t, "poll")
  <2>1. UNCHANGED L!shared
    BY <1>1, <1>2 DEF L!shared
  <2> QED BY <1>1, <1>2, <2>1, OutsidePoll
<1>3. CASE lock = Null /\ lock' = t /\ L!Goto(t, "scan")
  <2>1. Within(t) /\ th'[t] = [th[t] EXCEPT !.pc = "scan"]
    BY <1>0, <1>3, GotoLocals
  <2>2. th'[t].pc = "scan" /\ th'[t].op = th[t].op /\ th'[t].item = th[t].item /\ th'[t].i = th[t].i
    BY <1>0, <2>1 DEF Locals
  <2>3. Ever' = Ever
    BY <1>1, ChainKept
  <2>4. \A u \in Threads : th[u].op = "get" /\ sight[u] => sight'[u]
    BY <1>0, <1>1, <2>1, SightKept
  <2>5. th[t].i = 0
    BY <1>0, <1>1 DEF CombineSound, CombinePc
  <2>6. CombinerInv(t)'
    <3>1. ~PastOwn(t)'
      <4>1. \A i \in DOMAIN LockedNum : ~(i < 0)
        BY StrictQueuesAssumption
      <4> QED BY <2>2, <2>5, <4>1 DEF PastOwn
    <3>2. ~Ends(t)'
      BY <2>2 DEF Ends
    <3> QED BY <2>2, <3>1, <3>2 DEF CombinerInv, AtRecord
  <2>7. LPcInv(t)' /\ CombinePc(t)'
    BY <1>0, <1>1, <2>2, <2>3 DEF LPcInv, CombinePc
  <2>8. RecordInv(t)' /\ SubmittedInv(t)'
    BY <1>1, <1>3, <2>1, <2>2, <2>4, <2>7, OwnSubmitted DEF Submitted, Ends, Within
  <2>9. LockInv'
    BY <1>1, <1>3, <2>1, LockTaken DEF Within
  <2> QED BY <1>1, <1>3, <2>1, <2>2, <2>6, <2>7, <2>8, <2>9, InsideStep DEF CombineSound, Ends
<1> QED BY <1>2, <1>3 DEF L!TryLock
-----------------------------------------------------------------------------
\* A dequeue fetches its result.

LEMMA IdFact ==
  ASSUME NEW t \in Threads
  PROVE  L!Id(t) \in DOMAIN LockedNum /\ LockedNum[L!Id(t)] = t
BY StrictQueuesAssumption DEF L!Id

LEMMA DoneUnended ==
  ASSUME LInv, Combines, NEW u \in Threads, operations[u].opcode = "Done"
  PROVE  ~Ending(u)
<1> SUFFICES ASSUME NEW c \in Threads, Ends(c), LockedNum[th[c].i] = u PROVE FALSE
  BY DEF Ending
<1>1. AtRecord(c, u)
  BY CombineFacts DEF CombineSound, CombinerInv
<1> QED BY <1>1 DEF AtRecord

LEMMA ResultStep ==
  ASSUME LInv, Combines, NEW t \in Threads, L!Result(t)
  PROVE  LInv'
<1> USE DEF CombinePcs, BasePcs, OtherPcs, OpPcs
<1>0. /\ th[t] \in Locals /\ LTypeOK /\ LPcInv(t) /\ CombineSound(t) /\ waiting = {}
      /\ operations[t] \in Records
  BY CombineFacts DEF LTypeOK
<1> DEFINE x == operations[t].data
           r == [th[t] EXCEPT !.pc = "op_1", !.i = L!Id(t), !.set = L!NoOperation, !.then = "return",
                              !.item = x]
<1>1. th[t].pc = "result" /\ L!Observe(t, L!Held) /\ UNCHANGED L!shared
  BY DEF L!Result, L!At
<1>2. UNCHANGED <<mode, lock, waiting, head, tail, next, operations, gets, spurious>>
  BY <1>1 DEF L!shared
<1>3. /\ th[t].op = "get" /\ th[t].item = Null /\ operations[t].opcode = "Done"
      /\ x \in Items \cup {Null} /\ (x = Null => sight[t]) /\ Submitted(t)
  BY <1>0, <1>1 DEF CombineSound, RecordInv, SubmittedInv, Submitted, LPcInv, Records
<1>4. OthersKept(t) /\ th'[t] = r /\ r \in Locals /\ th' \in [Threads -> Locals]
  <2>1. L!Id(t) \in DOMAIN LockedNum
    BY IdFact
  <2>2. r \in Locals
    <3>1. L!NoOperation \in Records
      BY DEF L!NoOperation, L!Operation, Records
    <3>2. th[t] \in Locals /\ x \in Items \cup {Null}
      BY <1>0, <1>3
    <3> HIDE DEF x
    <3> QED BY <2>1, <3>1, <3>2 DEF Locals
  <2>3. L!Set(t, r)
    BY <1>0 DEF L!Result, L!SetOp, L!NoOperation, Locals
  <2> HIDE DEF r
  <2> QED BY <1>0, <2>2, <2>3 DEF L!Set, LTypeOK, OthersKept
<1>5. /\ th'[t].pc = "op_1" /\ th'[t].op = "get" /\ th'[t].item = x /\ th'[t].then = "return"
      /\ th'[t].set = L!NoOperation /\ th'[t].i = L!Id(t)
  BY <1>0, <1>3, <1>4 DEF Locals
<1> HIDE DEF r
<1>6. /\ done' = done /\ out' = out /\ older' = older /\ late' = late /\ start' = start
      /\ sight' = [u \in Threads |-> th'[u].op = "get" /\ (sight[u] \/ done \cap L!Held = {})]
  <2>1. done' = done /\ out' = out /\ older' = older /\ late' = late /\ start' = start
    BY <1>1, <1>3, <1>5 DEF L!Observe
  <2> QED BY <1>1, <2>1 DEF L!Observe
<1>7. L!Begun' = L!Begun
  <2>1. \A u \in Threads : th'[u].op = th[u].op /\ (th[u].op = "put" => th'[u].item = th[u].item)
    BY <1>3, <1>4, <1>5 DEF OthersKept
  <2> QED BY <1>6, <2>1 DEF L!Begun
<1>8. ~Ends(t) /\ ~Ends(t)' /\ ~Holds(t) /\ ~Holds(t)' /\ Combines'
  BY <1>1, <1>2, <1>5 DEF Ends, Holds, Combines
<1>9. \A u \in Threads : th[u].op = "get" /\ sight[u] => sight'[u]
  BY <1>3, <1>4, <1>5, <1>6 DEF OthersKept
<1>10. \A u \in Threads \ {t} : CombineSound(u)'
  BY <1>2, <1>3, <1>4, <1>8, <1>9, OthersOutside
<1>11. CombineSound(t)'
  <2>1. CombinePc(t)' /\ SubmittedInv(t)'
    BY <1>5, <1>8 DEF CombinePc, SubmittedInv, Submitted
  <2>2. RecordInv(t)'
    BY <1>2, <1>3, <1>5, <1>9, IdFact DEF RecordInv, Own
  <2>3. CombinerInv(t)'
    BY <1>5, <1>8, <2>1, NotCombiningNext
  <2> QED BY <2>1, <2>2, <2>3 DEF CombineSound
<1>12. Ever' = Ever /\ Steps' = Steps /\ After(Steps, head)' = After(Steps, head)
       /\ \A y : After(Steps', y) = After(Steps, y)
  BY <1>2, ChainKept
<1>13. LTypeOK'
  BY <1>0, <1>2, <1>4, <1>6 DEF LTypeOK, L!Nodes
<1>14. ChainInv' /\ \A u \in Threads : LPcInv(u)'
  <2>1. ChainInv'
    BY <1>1, <1>2, <1>4, QuietChain
  <2>2. \A u \in Threads \ {t} : LPcInv(u)'
    BY <1>2, <1>4, OthersPc
  <2>3. LPcInv(t)'
    BY <1>0, <1>2, <1>5 DEF LPcInv
  <2> QED BY <2>1, <2>2, <2>3
<1>15. LPlacesInv'
  <2>1. L!InHand(t) = {} /\ L!InHand(t)' = {x} \ {Null} /\ \A u \in Threads \ {t} : L!InHand(u)' = L!InHand(u)
    BY <1>3, <1>4, <1>5 DEF L!InHand, OthersKept
  <2>2. /\ Pocket(t) = {x} \ {Null} /\ Pocket(t)' = {}
        /\ \A u \in Threads \ {t} : Pocket(u)' = Pocket(u)
    <3>1. \A u \in Threads : (Ends(u)' <=> Ends(u)) /\ (Ends(u) => th'[u] = th[u])
      BY <1>4, <1>8 DEF OthersKept, Ends
    <3>2. ~Ending(t)
      BY <1>3, DoneUnended
    <3>3. ~\E c \in Threads : Ends(c)' /\ LockedNum[th'[c].i] = t
      BY <3>1, <3>2 DEF Ending
    <3>4. \A u \in Threads \ {t} : Pocket(u)' = Pocket(u)
      <4> TAKE u \in Threads \ {t}
      <4>1. {th'[c].set.data : c \in {d \in Threads : Ends(d)' /\ LockedNum[th'[d].i] = u}}
            = {th[c].set.data : c \in {d \in Threads : Ends(d) /\ LockedNum[th[d].i] = u}}
        BY <3>1
      <4>2. OwnData(u)' = OwnData(u)
        BY <1>2, <1>4 DEF OwnData, OthersKept
      <4> QED BY <4>1, <4>2, PocketIs, PocketIsNext
    <3>5. OwnData(t) = {x} \ {Null} /\ OwnData(t)' = {}
      BY <1>2, <1>3, <1>5 DEF OwnData
    <3>6. Pocket(t) = {x} \ {Null}
      BY <3>2, <3>5, PocketIs DEF Ending
    <3>7. Pocket(t)' = {}
      BY <3>3, <3>5, PocketIsNext
    <3> QED BY <3>4, <3>6, <3>7
  <2>3. L!Hands' = L!Hands \cup ({x} \ {Null})
    BY <2>1 DEF L!Hands
  <2>4. \A u \in Threads : th'[u].op = th[u].op /\ (th[u].op = "put" => th'[u].item = th[u].item)
    BY <1>3, <1>4, <1>5 DEF OthersKept
  <2>5. \A u \in Threads : L!InHand(u) \subseteq L!Hands
    BY DEF L!Hands
  <2> HIDE DEF x
  <2>6. LPlacesInv
    BY DEF LInv
  <2>7. \A u \in Threads \ {t} : Pocket(u) \cap Pocket(t) = {} /\ Pocket(t) \cap L!InHand(u) = {}
    BY <2>5, <2>6 DEF LPlacesInv
  <2>8. \A u, v \in Threads : u # v => L!InHand(u)' \cap L!InHand(v)' = {} /\ Pocket(u)' \cap Pocket(v)' = {}
    BY <2>1, <2>2, <2>6, <2>7 DEF LPlacesInv
  <2>9. Pocket(t) \subseteq Ever /\ Pocket(t) \cap (After(Steps, head) \cup L!Hands \cup out) = {}
    BY <2>6 DEF LPlacesInv
  <2>10. \A y \in Ever' \ After(Steps, head)' : y \in L!Hands' \cup out' \/ \E u \in Threads : y \in Pocket(u)'
    BY <1>6, <1>12, <2>2, <2>3, <2>6 DEF LPlacesInv
  <2>11. \A u \in Threads : Pocket(u)' \subseteq Ever' /\ Pocket(u)' \cap (After(Steps, head)' \cup L!Hands' \cup out') = {}
    BY <1>6, <1>12, <2>2, <2>3, <2>6, <2>7 DEF LPlacesInv
  <2> QED BY <1>6, <1>7, <1>12, <2>2, <2>3, <2>4, <2>6, <2>8, <2>9, <2>10, <2>11 DEF LPlacesInv
<1>16. LOrderInv'
  BY <1>6, <1>12 DEF LInv, LOrderInv
<1>17. LockInv'
  BY <1>2, <1>4, <1>8, LockKept
<1>18. CombineInv' /\ L!NoSleeperByItem'
  BY <1>0, <1>2, <1>10, <1>11 DEF CombineInv, CombineSound, L!NoSleeperByItem
<1> QED BY <1>8, <1>13, <1>14, <1>15, <1>16, <1>17, <1>18 DEF LInv
-----------------------------------------------------------------------------
\* The combiner looks at one record after the other.

LEMMA NextRecordIs ==
  ASSUME NEW r \in Locals
  PROVE  /\ L!NextRecord(r) \in Locals /\ L!NextRecord(r).op = r.op /\ L!NextRecord(r).item = r.item
         /\ L!NextRecord(r).pc \in {"scan", "release"}
         /\ \A t \in Threads :
              L!NextRecord(r).pc = "release" \/ (\E i \in DOMAIN LockedNum : Own(t, i) /\ i < L!NextRecord(r).i)
              => LockedNum[r.i] = t \/ \E i \in DOMAIN LockedNum : Own(t, i) /\ i < r.i
<1>1. Cardinality(Threads) \in Nat /\ DOMAIN LockedNum = 0 .. Cardinality(Threads) - 1
  BY StrictQueuesAssumption, FS_CardinalityType
<1>2. r.i \in DOMAIN LockedNum
  BY DEF Locals
<1>3. CASE r.i + 1 = Cardinality(Threads)
  <2>1. 0 \in DOMAIN LockedNum
    BY <1>1, <1>2
  <2>2. L!NextRecord(r) = [r EXCEPT !.pc = "release", !.i = 0, !.node = Null]
    BY <1>3, LCardinality DEF L!NextRecord
  <2>3. L!NextRecord(r) \in Locals /\ L!NextRecord(r).op = r.op /\ L!NextRecord(r).item = r.item
        /\ L!NextRecord(r).pc = "release"
    BY <2>1, <2>2 DEF Locals, CombinePcs
  <2>4. \A t \in Threads : \E i \in DOMAIN LockedNum : Own(t, i)
    BY StrictQueuesAssumption DEF Own
  <2>5. \A i \in DOMAIN LockedNum : i = r.i \/ i < r.i
    BY <1>1, <1>2, <1>3
  <2> QED BY <2>3, <2>4, <2>5 DEF Own
<1>4. CASE r.i + 1 # Cardinality(Threads)
  <2>1. r.i + 1 \in DOMAIN LockedNum
    BY <1>1, <1>2, <1>4
  <2>2. L!NextRecord(r) = [r EXCEPT !.pc = "scan", !.i = r.i + 1, !.node = Null]
    BY <1>4, LCardinality DEF L!NextRecord
  <2>3. L!NextRecord(r) \in Locals /\ L!NextRecord(r).op = r.op /\ L!NextRecord(r).item = r.item
        /\ L!NextRecord(r).pc = "scan" /\ L!NextRecord(r).i = r.i + 1
    BY <2>1, <2>2 DEF Locals, CombinePcs
  <2>4. \A i \in DOMAIN LockedNum : i < r.i + 1 => i = r.i \/ i < r.i
    BY <1>1, <1>2
  <2> QED BY <2>3, <2>4 DEF Own
<1> QED BY <1>3, <1>4

\* The record that the combiner is at.
LEMMA CombinerAt ==
  ASSUME LInv, Combines, NEW t \in Threads, Holds(t)
  PROVE  \E u \in Threads : LockedNum[th[t].i] = u /\ AtRecord(t, u) /\ SubmittedInv(u) /\ RecordInv(u)
                            /\ LPcInv(u) /\ operations[u] \in Records /\ th[u] \in Locals
BY CombineFacts DEF CombineSound, CombinerInv, LTypeOK

LEMMA RecordOfSubmitted ==
  ASSUME LInv, Combines, NEW u \in Threads, operations[u].opcode # "Done"
  PROVE  /\ Submitted(u)
         /\ operations[u].opcode = "Enqueue" => th[u].op = "put" /\ th[u].item \in Items
         /\ operations[u].opcode = "Dequeue" => th[u].op = "get" /\ th[u].item = Null
<1>1. CombineSound(u) /\ LPcInv(u) /\ th[u] \in Locals /\ operations[u] \in Records
  BY CombineFacts DEF LTypeOK
<1>2. Submitted(u)
  BY <1>1 DEF CombineSound, RecordInv, CombinePc, Submitted, Ends, L!NoOperation, L!Operation,
              OpPcs, CombinePcs, BasePcs, Locals
<1>3. th[u].op \in {"put", "get"}
  BY <1>1, <1>2 DEF LPcInv, Locals, Submitted, Ends, OpPcs, CombinePcs, BasePcs
<1>4. th[u].op = "get" => th[u].item = Null
  BY <1>1, <1>2 DEF LPcInv, Submitted, Ends, OpPcs, CombinePcs, BasePcs
<1>5. th[u].op = "put" => th[u].item \in Items
  BY <1>1 DEF LPcInv
<1> QED BY <1>1, <1>2, <1>3, <1>4, <1>5 DEF CombineSound, SubmittedInv

\* The combiner moves, and writes nothing.
LEMMA CombinerMoves ==
  ASSUME LInv, Combines, NEW t \in Threads, Within(t), L!Observe(t, L!Held),
         UNCHANGED <<mode, head, tail, next, waiting, operations, lock>>,
         Holds(t), ~Ends(t), th[t].pc # "swing",
         th'[t].pc \in CombinePcs \/ Ends(t)', Ends(t)' => th'[t].set.data = Null,
         LPcInv(t)', CombinerInv(t)'
  PROVE  LInv'
<1> USE DEF CombinePcs, BasePcs, OtherPcs, OpPcs
<1>1. LTypeOK /\ OthersKept(t) /\ Ever' = Ever /\ th'[t].op = th[t].op /\ th'[t].item = th[t].item
  BY ChainKept DEF LInv, Within
<1>2. \A u \in Threads : th[u].op = "get" /\ sight[u] => sight'[u]
  BY <1>1, SightKept
<1>3. CombinePc(t)'
  BY DEF CombinePc, Ends
<1>4. Submitted(t)
  BY CombineFacts DEF Submitted
<1>5. RecordInv(t)' /\ SubmittedInv(t)'
  BY <1>1, <1>2, <1>3, <1>4, OwnSubmitted
<1>6. LockInv'
  BY <1>1, LockKept DEF LInv, LockInv
<1>7. lock' \in Threads \cup {Null}
  BY <1>1 DEF LTypeOK
<1> QED BY <1>3, <1>5, <1>6, <1>7, InsideStep DEF CombineSound

LEMMA ScanStep ==
  ASSUME LInv, Combines, NEW t \in Threads, L!Scan(t)
  PROVE  LInv'
<1> USE DEF CombinePcs, BasePcs, OtherPcs, OpPcs
<1>0. /\ th[t] \in Locals /\ LTypeOK /\ LPcInv(t) /\ CombinerInv(t) /\ waiting = {} /\ ChainInv
  BY CombineFacts DEF LTypeOK, CombineSound, LInv
<1>1. th[t].pc = "scan" /\ L!Observe(t, L!Held) /\ UNCHANGED L!shared
  BY DEF L!Scan, L!At
<1>2. UNCHANGED <<mode, lock, waiting, head, tail, next, operations, gets, spurious>>
  BY <1>1 DEF L!shared
<1>3. Holds(t) /\ ~Ends(t)
  BY <1>1 DEF Holds, Combines, Ends
<1>4. PICK u \in Threads : LockedNum[th[t].i] = u /\ SubmittedInv(u) /\ operations[u] \in Records
  BY <1>3, CombinerAt
<1>5. \A v \in Threads : ~Ending(v)
  BY <1>3, NoEnding
<1>6. Ever' = Ever
  BY <1>2, ChainKept
<1>7. \A v \in Threads : (Submitted(v) /\ v # t) \/ th'[v].pc \in CombinePcs \/ Ends(v)' => (OthersKept(t) => Submitted(v)')
  BY DEF OthersKept, Submitted, Ends
<1>8. CASE operations[u].opcode = "Done"
  <2>1. Within(t) /\ th'[t] = L!NextRecord(th[t])
    BY <1>0, <1>4, <1>8, NextRecordIs, SetLocals DEF L!Scan
  <2>2. th'[t].pc \in {"scan", "release"} /\ th'[t].op = th[t].op /\ th'[t].item = th[t].item
    BY <1>0, <2>1, NextRecordIs
  <2>3. ~Ends(t)'
    BY <2>2 DEF Ends
  <2>4. LPcInv(t)'
    BY <1>0, <1>1, <1>2, <2>2 DEF LPcInv
  <2>5. CombinerInv(t)'
    <3>1. PastOwn(t)' => u = t \/ PastOwn(t)
      BY <1>0, <1>4, <2>1, NextRecordIs DEF PastOwn
    <3>2. PastOwn(t)' => operations[t].opcode = "Done"
      BY <1>0, <1>1, <1>8, <3>1 DEF CombinerInv
    <3> QED BY <1>2, <2>2, <2>3, <3>2 DEF CombinerInv, AtRecord
  <2> QED BY <1>1, <1>2, <1>3, <2>1, <2>2, <2>3, <2>4, <2>5, CombinerMoves
<1>9. CASE operations[u].opcode # "Done"
  <2>1. /\ Submitted(u)
        /\ operations[u].opcode = "Enqueue" => th[u].op = "put" /\ th[u].item \in Items
        /\ operations[u].opcode = "Dequeue" => th[u].op = "get" /\ th[u].item = Null
    BY <1>9, RecordOfSubmitted
  <2>2. operations[u].opcode = "Enqueue" => operations[u].data = th[u].item /\ th[u].item \notin Ever
    BY <1>4, <1>5, <2>1 DEF SubmittedInv
  <2>3. ASSUME Within(t), th'[t].i = th[t].i, th'[t].pc \in BasePcs \/ Ends(t)', AtRecord(t, u)'
        PROVE  CombinerInv(t)'
    <3>1. PastOwn(t)' => PastOwn(t)
      BY <2>3 DEF PastOwn, Ends
    <3> QED BY <1>0, <1>1, <1>2, <1>4, <2>3, <3>1 DEF CombinerInv
  <2>4. CASE operations[u].opcode = "Enqueue"
    <3> DEFINE r == [th[t] EXCEPT !.pc = "link", !.node = operations[u].data]
    <3>1. L!Set(t, r)
      BY <1>4, <2>4 DEF L!Scan
    <3>2. r \in Locals /\ r.op = th[t].op /\ r.item = th[t].item /\ r.pc = "link"
          /\ r.node = operations[u].data /\ r.i = th[t].i
      BY <1>0, <2>1, <2>2, <2>4 DEF Locals
    <3> HIDE DEF r
    <3>3. Within(t) /\ th'[t] = r
      BY <1>0, <3>1, <3>2, SetLocals
    <3>4. LPcInv(t)' /\ ~Ends(t)'
      BY <1>0, <1>1, <1>2, <1>6, <2>1, <2>2, <2>4, <3>2, <3>3 DEF LPcInv, Ends
    <3>5. AtRecord(t, u)'
      <4>1. Submitted(u)'
        BY <2>1, <3>2, <3>3 DEF Within, OthersKept, Submitted, Ends
      <4>2. operations[u] = L!Operation("Enqueue", operations[u].data)
        BY <1>4, <2>4 DEF L!Operation, Records
      <4> QED BY <1>2, <3>2, <3>3, <3>4, <4>1, <4>2 DEF AtRecord
    <3> QED BY <1>1, <1>2, <1>3, <2>3, <3>2, <3>3, <3>4, <3>5, CombinerMoves
  <2>5. CASE operations[u].opcode = "Dequeue" /\ L!Goto(t, "take") /\ ~L!IsEmpty
    <3>1. Within(t) /\ th'[t] = [th[t] EXCEPT !.pc = "take"]
      BY <1>0, <2>5, GotoLocals
    <3>2. th'[t].pc = "take" /\ th'[t].op = th[t].op /\ th'[t].item = th[t].item /\ th'[t].i = th[t].i
      BY <1>0, <3>1 DEF Locals
    <3>3. LPcInv(t)' /\ ~Ends(t)'
      BY <1>0, <1>1, <1>2, <1>6, <2>5, <3>2 DEF LPcInv, Ends, L!IsEmpty
    <3>4. AtRecord(t, u)'
      <4>1. Submitted(u)'
        BY <2>1, <3>1, <3>2 DEF Within, OthersKept, Submitted, Ends
      <4> QED BY <1>2, <2>5, <3>2, <3>3, <4>1 DEF AtRecord
    <3> QED BY <1>1, <1>2, <1>3, <2>3, <3>1, <3>2, <3>3, <3>4, CombinerMoves
  <2>6. CASE operations[u].opcode = "Dequeue" /\ L!IsEmpty /\ L!Set(t, L!SetOp(th[t], th[t].i, "Done", Null, "scan"))
    <3> DEFINE r == L!SetOp(th[t], th[t].i, "Done", Null, "scan")
    <3>1. r \in Locals /\ r.op = th[t].op /\ r.item = th[t].item /\ r.pc = "op_1" /\ r.then = "scan"
          /\ r.set = L!NoOperation /\ r.i = th[t].i
      <4>1. L!NoOperation \in Records
        BY DEF L!NoOperation, L!Operation, Records
      <4>2. r = [th[t] EXCEPT !.pc = "op_1", !.set = L!NoOperation, !.then = "scan"]
        BY <1>0 DEF L!SetOp, L!NoOperation, Locals
      <4> HIDE DEF r
      <4> QED BY <1>0, <4>1, <4>2 DEF Locals
    <3> HIDE DEF r
    <3>2. Within(t) /\ th'[t] = r
      BY <1>0, <2>6, <3>1, SetLocals DEF r
    <3>3. LPcInv(t)'
      BY <1>0, <1>1, <1>2, <1>6, <2>5, <3>1, <3>2 DEF LPcInv
    <3>4. Ends(t)' /\ L!NoOperation.data = Null /\ L!NoOperation.opcode = "Done"
      BY <3>1, <3>2 DEF Ends, L!NoOperation, L!Operation
    <3>5. L!Held = {} /\ sight'[u]
      <4>1. L!Held = {}
        BY <1>0, <2>6, EmptyFact DEF L!IsEmpty
      <4> QED BY <1>0, <1>1, <2>1, <2>6, <3>2, <4>1, SightKept
    <3>6. AtRecord(t, u)'
      <4>1. Submitted(u)'
        BY <2>1, <3>2, <3>4 DEF Within, OthersKept, Submitted, Ends
      <4>2. operations[u].data = Null
        BY <1>4, <1>5, <2>1, <2>6 DEF SubmittedInv
      <4> QED BY <1>2, <2>6, <3>1, <3>2, <3>4, <3>5, <4>1, <4>2 DEF AtRecord
    <3> QED BY <1>1, <1>2, <1>3, <2>3, <3>1, <3>2, <3>3, <3>4, <3>6, CombinerMoves
  <2>7. operations[u].opcode \in {"Enqueue", "Dequeue"}
    BY <1>4, <1>9 DEF Records
  <2> QED BY <1>4, <2>4, <2>5, <2>6, <2>7 DEF L!Scan
<1> QED BY <1>8, <1>9

LEMMA CombineTake ==
  ASSUME LInv, Combines, NEW t \in Threads, L!Take(t)
  PROVE  LInv'
<1> USE DEF CombinePcs, BasePcs, OtherPcs, OpPcs
<1>0. /\ th[t] \in Locals /\ LTypeOK /\ LPcInv(t) /\ CombinerInv(t) /\ waiting = {} /\ ChainInv
  BY CombineFacts DEF LTypeOK, CombineSound, LInv
<1> DEFINE r == [th[t] EXCEPT !.pc = "advance", !.node = next[head]]
<1>1. th[t].pc = "take" /\ L!Observe(t, L!Held) /\ UNCHANGED L!shared
  BY DEF L!Take, L!At
<1>2. UNCHANGED <<mode, lock, waiting, head, tail, next, operations, gets, spurious>> /\ Ever' = Ever
  BY <1>1, ChainKept DEF L!shared
<1>3. Holds(t) /\ ~Ends(t) /\ head # tail /\ next[head] \in Items
  BY <1>0, <1>1, EmptyFact DEF Holds, Combines, Ends, LPcInv, ChainInv
<1>4. r \in Locals /\ r.op = th[t].op /\ r.item = th[t].item /\ r.pc = "advance"
      /\ r.i = th[t].i /\ r.node = next[head]
  BY <1>0, <1>3 DEF Locals
<1>5. Within(t) /\ th'[t] = r
  <2> HIDE DEF r
  <2> QED BY <1>0, <1>4, SetLocals DEF L!Take, r
<1> HIDE DEF r
<1>6. LPcInv(t)' /\ ~Ends(t)'
  BY <1>0, <1>1, <1>2, <1>3, <1>4, <1>5 DEF LPcInv, Ends
<1>7. CombinerInv(t)'
  <2>1. PastOwn(t)' => PastOwn(t)
    BY <1>4, <1>5 DEF PastOwn
  <2>2. \A u \in Threads : Submitted(u) => Submitted(u)'
    BY <1>4, <1>5 DEF Submitted, Ends, Within, OthersKept
  <2>3. \A u \in Threads : AtRecord(t, u) => AtRecord(t, u)'
    BY <1>1, <1>2, <1>4, <1>5, <1>6, <2>2 DEF AtRecord
  <2> QED BY <1>0, <1>1, <1>2, <1>4, <1>5, <2>1, <2>3 DEF CombinerInv
<1> QED BY <1>1, <1>2, <1>3, <1>4, <1>5, <1>6, <1>7, CombinerMoves

LEMMA ReleaseStep ==
  ASSUME LInv, Combines, NEW t \in Threads, L!ReleaseLock(t)
  PROVE  LInv'
<1> USE DEF CombinePcs, BasePcs, OtherPcs, OpPcs
<1>0. /\ th[t] \in Locals /\ LTypeOK /\ LPcInv(t) /\ CombineSound(t) /\ waiting = {}
      /\ operations[t] \in Records
  BY CombineFacts DEF LTypeOK
<1> DEFINE p == L!AfterCombining(t)
<1>1. th[t].pc = "release" /\ L!Observe(t, L!Held) /\ lock' = Null /\ L!Goto(t, p)
      /\ UNCHANGED <<mode, waiting, head, tail, next, operations, gets, spurious>>
  BY DEF L!ReleaseLock, L!At
<1>2. Ever' = Ever /\ Holds(t) /\ ~Ends(t) /\ Submitted(t)
  BY <1>1, ChainKept DEF Holds, Combines, Ends, Submitted
<1>3. p = (IF th[t].op = "put" THEN "return" ELSE "result") /\ th[t].op \in {"put", "get"}
  BY <1>0, <1>1 DEF L!AfterCombining, LPcInv, Locals
<1> HIDE DEF p
<1>4. Within(t) /\ th'[t] = [th[t] EXCEPT !.pc = p]
  BY <1>0, <1>1, <1>3, GotoLocals
<1>5. th'[t].pc = p /\ th'[t].op = th[t].op /\ th'[t].item = th[t].item
  BY <1>0, <1>4 DEF Locals
<1>6. ~Ends(t)' /\ ~Holds(t)'
  BY <1>1, <1>3, <1>5 DEF Ends, Holds, Combines
<1>7. operations[t].opcode = "Done"
  BY <1>0, <1>1 DEF CombineSound, CombinerInv, PastOwn
<1>8. \A u \in Threads : th[u].op = "get" /\ sight[u] => sight'[u]
  BY <1>0, <1>1, <1>4, SightKept
<1>9. LPcInv(t)' /\ CombinePc(t)'
  BY <1>0, <1>1, <1>2, <1>3, <1>5 DEF LPcInv, CombinePc
<1>10. RecordInv(t)'
  BY <1>0, <1>1, <1>2, <1>3, <1>5, <1>7, <1>8 DEF CombineSound, SubmittedInv, RecordInv, L!NoOperation, L!Operation, Records
<1>11. SubmittedInv(t)'
  BY <1>0, <1>1, <1>2, <1>3, <1>5, <1>7, <1>8 DEF CombineSound, SubmittedInv
<1>12. CombinerInv(t)'
  BY <1>3, <1>5, <1>6, <1>9, NotCombiningNext
<1>13. LockInv'
  BY <1>1, <1>2, <1>4, <1>6, LockGivenUp DEF LInv, LockInv, Within
<1> QED BY <1>1, <1>2, <1>4, <1>6, <1>9, <1>10, <1>11, <1>12, <1>13, InsideStep DEF CombineSound
-----------------------------------------------------------------------------
\* The combiner t ends the operation in the record of u.

LEMMA EndingStep ==
  ASSUME LInv, Combines, NEW t \in Threads, Within(t), L!Observe(t, L!Held),
         UNCHANGED <<mode, head, tail, next, waiting, lock>>, Ends(t),
         NEW u \in Threads, LockedNum[th[t].i] = u,
         operations' \in [Threads -> Records],
         \A v \in Threads \ {u} : operations'[v] = operations[v],
         operations'[u].opcode \in {operations[u].opcode, "Done"},
         th'[t].pc \in CombinePcs \/ Ends(t)', th'[t].pc # "swing",
         LPcInv(t)', SubmittedInv(u)', CombinerInv(t)',
         \A v \in Threads : Pocket(v)' = Pocket(v)
  PROVE  LInv'
<1> USE DEF CombinePcs, BasePcs, OtherPcs, OpPcs
<1>1. LTypeOK /\ OthersKept(t) /\ Ever' = Ever /\ Holds(t) /\ th[t].pc # "swing" /\ Combines'
      /\ th'[t].op = th[t].op /\ th'[t].item = th[t].item
  BY ChainKept DEF LInv, Within, Holds, Combines, Ends
<1>2. \A v \in Threads : th[v].op = "get" /\ sight[v] => sight'[v]
  BY <1>1, SightKept
<1>3. \A v \in Threads \ {t} : /\ th'[v] = th[v] /\ ~Holds(v) /\ ~Holds(v)'
                               /\ (Submitted(v)' <=> Submitted(v)) /\ ~Ends(v) /\ ~Ends(v)'
  BY <1>1, CombineFacts DEF OthersKept, Submitted, Ends, Holds, Combines
<1>4. \A v \in Threads : CombinePc(v) /\ RecordInv(v) /\ SubmittedInv(v)
  BY CombineFacts DEF CombineSound
<1>5. Submitted(u) /\ operations[u].opcode # "Done"
  <2>1. AtRecord(t, u)
    BY <1>1, CombinerAt
  <2> QED BY <2>1 DEF AtRecord
<1>6. \A v \in Threads \ {u} : ~Ending(v)
  BY <1>3 DEF Ending
<1>7. \A v \in Threads \ {u} : SubmittedInv(v)'
  <2> TAKE v \in Threads \ {u}
  <2>1. SubmittedInv(v) /\ ~Ending(v) /\ operations'[v] = operations[v]
    BY <1>4, <1>6
  <2>2. th'[v].op = th[v].op /\ th'[v].item = th[v].item /\ (Submitted(v)' => Submitted(v))
    <3>1. Submitted(t)
      BY DEF Submitted
    <3> QED BY <1>1, <1>3, <3>1
  <2> QED BY <1>1, <1>2, <2>1, <2>2 DEF SubmittedInv
<1>8. RecordInv(t)' /\ CombinePc(t)'
  BY DEF RecordInv, CombinePc, Ends
<1>9. \A v \in Threads \ {t} : RecordInv(v)' /\ CombinePc(v)'
  <2> TAKE v \in Threads \ {t}
  <2>1. CombinePc(v) /\ RecordInv(v) /\ th'[v] = th[v]
    BY <1>3, <1>4
  <2>2. CASE v = u
    BY <1>5, <2>1, <2>2 DEF RecordInv, CombinePc, Submitted, Ends
  <2>3. CASE v # u
    BY <1>1, <1>2, <2>1, <2>3 DEF RecordInv, CombinePc
  <2> QED BY <2>2, <2>3
<1>10. \A v \in Threads \ {t} : CombinerInv(v)'
  BY <1>3, <1>9, NotCombiningNext DEF Holds, Combines
<1>11. \A v \in Threads : CombineSound(v)'
  BY <1>7, <1>8, <1>9, <1>10 DEF CombineSound
<1>12. LockInv'
  BY <1>1, LockKept DEF LInv, LockInv
<1>13. lock' \in Threads \cup {Null}
  BY <1>1 DEF LTypeOK
<1> QED BY <1>1, <1>11, <1>12, <1>13, CombineQuiet

\* The pocket of u holds what is set for it, before and after.
LEMMA PocketsEnding ==
  ASSUME LInv, Combines, NEW t \in Threads, OthersKept(t), Ends(t),
         NEW u \in Threads, LockedNum[th[t].i] = u,
         \A v \in Threads \ {u} : operations'[v] = operations[v],
         \A v \in Threads : th'[v].op = th[v].op /\ th'[v].item = th[v].item,
         \/ Ends(t)' /\ th'[t].i = th[t].i /\ th'[t].set = th[t].set
         \/ ~Ends(t)' /\ OwnData(u)' = OwnData(u) \cup ({th[t].set.data} \ {Null}),
         OwnData(u)' \subseteq OwnData(u) \cup {th[t].set.data},
         OwnData(u) \subseteq OwnData(u)' \cup {th[t].set.data}
  PROVE  \A v \in Threads : Pocket(v)' = Pocket(v)
<1>1. \A c \in Threads \ {t} : ~Ends(c) /\ ~Ends(c)'
  BY CombineFacts DEF OthersKept, Ends
<1>2. ASSUME NEW v \in Threads \ {u} PROVE Pocket(v)' = Pocket(v)
  <2>1. OwnData(v)' = OwnData(v)
    BY DEF OwnData
  <2> DEFINE S == {th[c].set.data : c \in {d \in Threads : Ends(d) /\ LockedNum[th[d].i] = v}}
             R == {th'[c].set.data : c \in {d \in Threads : Ends(d)' /\ LockedNum[th'[d].i] = v}}
  <2>2. S = {} /\ R = {}
    BY <1>1
  <2>3. Pocket(v) = OwnData(v) \cup (S \ {Null}) /\ Pocket(v)' = OwnData(v)' \cup (R \ {Null})
    BY PocketIs, PocketIsNext
  <2> HIDE DEF S, R
  <2>4. Pocket(v) = OwnData(v) /\ Pocket(v)' = OwnData(v)'
    BY <2>2, <2>3
  <2> QED BY <2>1, <2>4
<1>3. Pocket(u)' = Pocket(u)
  <2>1. {th[c].set.data : c \in {d \in Threads : Ends(d) /\ LockedNum[th[d].i] = u}} = {th[t].set.data}
    BY <1>1
  <2>2. Pocket(u) = OwnData(u) \cup ({th[t].set.data} \ {Null})
    BY <2>1, PocketIs
  <2>3. OwnData(u) \cap {Null} = {} /\ OwnData(u)' \cap {Null} = {}
    BY DEF OwnData
  <2>4. CASE Ends(t)' /\ th'[t].i = th[t].i /\ th'[t].set = th[t].set
    <3>1. {th'[c].set.data : c \in {d \in Threads : Ends(d)' /\ LockedNum[th'[d].i] = u}} = {th[t].set.data}
      BY <1>1, <2>4
    <3>2. Pocket(u)' = OwnData(u)' \cup ({th[t].set.data} \ {Null})
      BY <3>1, PocketIsNext
    <3> QED BY <2>2, <2>3, <3>2
  <2>5. CASE ~Ends(t)' /\ OwnData(u)' = OwnData(u) \cup ({th[t].set.data} \ {Null})
    <3>1. {th'[c].set.data : c \in {d \in Threads : Ends(d)' /\ LockedNum[th'[d].i] = u}} = {}
      BY <1>1, <2>5
    <3>2. Pocket(u)' = OwnData(u)'
      BY <3>1, PocketIsNext
    <3> QED BY <2>2, <2>5, <3>2
  <2> QED BY <2>4, <2>5
<1> QED BY <1>2, <1>3

LEMMA EndingSetFirst ==
  ASSUME LInv, Combines, NEW t \in Threads, L!SetOpFirst(t), Ends(t)
  PROVE  LInv'
<1> USE DEF CombinePcs, BasePcs, OtherPcs, OpPcs
<1>0. th[t] \in Locals /\ LTypeOK /\ LPcInv(t) /\ CombinerInv(t)
  BY CombineFacts DEF LTypeOK, CombineSound
<1>1. /\ th[t].pc = "op_1" /\ th[t].then = "scan" /\ L!Write(t, 1) /\ L!Observe(t, L!Held)
      /\ UNCHANGED <<mode, lock, waiting, head, tail, next, gets, spurious>>
  BY DEF L!SetOpFirst, L!At, Ends
<1>2. Within(t) /\ th'[t] = [th[t] EXCEPT !.pc = "op_2"]
  BY <1>0, GotoLocals DEF L!SetOpFirst
<1>3. Holds(t)
  BY DEF Holds, Combines
<1>4. PICK u \in Threads : LockedNum[th[t].i] = u /\ AtRecord(t, u) /\ SubmittedInv(u) /\ operations[u] \in Records
  BY <1>3, CombinerAt
<1>5. operations' = [operations EXCEPT ![u].data = th[t].set.data]
  BY <1>1, <1>4 DEF L!Write, L!OpParts
<1>6. /\ operations' \in [Threads -> Records] /\ operations'[u].opcode = operations[u].opcode
      /\ operations'[u].data = th[t].set.data
      /\ \A v \in Threads \ {u} : operations'[v] = operations[v]
      /\ \A v \in Threads : operations'[v].opcode = operations[v].opcode
  BY <1>0, <1>4, <1>5 DEF LTypeOK, Records, Locals
<1>7. /\ th'[t].pc = "op_2" /\ th'[t].then = "scan" /\ th'[t].i = th[t].i /\ th'[t].set = th[t].set
      /\ th'[t].op = th[t].op /\ th'[t].item = th[t].item /\ Ends(t)'
  BY <1>0, <1>1, <1>2 DEF Locals, Ends
<1>8. Ever' = Ever
  BY <1>1, ChainKept
<1>9. \A v \in Threads : th'[v].op = th[v].op /\ th'[v].item = th[v].item
                         /\ (Submitted(v)' <=> Submitted(v))
  BY <1>2, <1>7 DEF Within, OthersKept, Submitted, Ends
<1>10. /\ Submitted(u)
       /\ operations[u].opcode = "Enqueue" => th[u].op = "put" /\ th[u].item \in Items
       /\ operations[u].opcode = "Dequeue" => th[u].op = "get" /\ th[u].item = Null
       /\ operations[u].opcode \in {"Enqueue", "Dequeue"}
  BY <1>4, RecordOfSubmitted DEF AtRecord, Records
<1>11. \A v \in Threads : th[v].op = "get" /\ sight[v] => sight'[v]
  BY <1>0, <1>1, <1>2, SightKept
<1>12. LPcInv(t)'
  BY <1>0, <1>1, <1>7, <1>8 DEF LPcInv
<1>13. SubmittedInv(u)'
  <2>1. Ending(u)'
    BY <1>4, <1>7 DEF Ending
  <2> QED BY <1>4, <1>6, <1>9, <1>10, <2>1 DEF SubmittedInv
<1>14. CombinerInv(t)'
  <2>1. PastOwn(t)' => PastOwn(t)
    BY <1>7 DEF PastOwn
  <2>2. AtRecord(t, u)'
    BY <1>1, <1>4, <1>6, <1>7, <1>8, <1>9, <1>10, <1>11 DEF AtRecord
  <2> QED BY <1>0, <1>4, <1>6, <1>7, <2>1, <2>2 DEF CombinerInv
<1>15. \A v \in Threads : Pocket(v)' = Pocket(v)
  <2>1. OwnData(u)' \subseteq {th[t].set.data}
    BY <1>6 DEF OwnData
  <2>2. OwnData(u) = {}
    BY <1>1, <1>4, <1>10 DEF OwnData, AtRecord
  <2> QED BY <1>2, <1>4, <1>6, <1>7, <1>9, <2>1, <2>2, PocketsEnding DEF Within
<1> QED BY <1>1, <1>2, <1>4, <1>6, <1>7, <1>12, <1>13, <1>14, <1>15, EndingStep

LEMMA EndingSetSecond ==
  ASSUME LInv, Combines, NEW t \in Threads, L!SetOpSecond(t), Ends(t)
  PROVE  LInv'
<1> USE DEF CombinePcs, BasePcs, OtherPcs, OpPcs
<1>0. th[t] \in Locals /\ LTypeOK /\ LPcInv(t) /\ CombinerInv(t)
  BY CombineFacts DEF LTypeOK, CombineSound
<1> DEFINE r == [th[t] EXCEPT !.set = L!NoOperation, !.then = "idle"]
           q == L!NextRecord(r)
<1>1. /\ th[t].pc = "op_2" /\ th[t].then = "scan" /\ L!Write(t, 2) /\ L!Observe(t, L!Held) /\ L!Set(t, q)
      /\ UNCHANGED <<mode, lock, waiting, head, tail, next, gets, spurious>>
  BY DEF L!SetOpSecond, L!At, Ends
<1>2. r \in Locals /\ r.op = th[t].op /\ r.item = th[t].item /\ r.i = th[t].i
  <2>1. L!NoOperation \in Records
    BY DEF L!NoOperation, L!Operation, Records
  <2> QED BY <1>0, <2>1 DEF Locals
<1> HIDE DEF r
<1>3. /\ q \in Locals /\ q.op = th[t].op /\ q.item = th[t].item /\ q.pc \in {"scan", "release"}
  BY <1>2, NextRecordIs
<1>4. q.pc = "release" \/ (\E i \in DOMAIN LockedNum : Own(t, i) /\ i < q.i)
      => LockedNum[th[t].i] = t \/ \E i \in DOMAIN LockedNum : Own(t, i) /\ i < th[t].i
  BY <1>2, NextRecordIs
<1> HIDE DEF q
<1>5. Within(t) /\ th'[t] = q
  BY <1>0, <1>1, <1>3, SetLocals
<1>6. Holds(t)
  BY DEF Holds, Combines
<1>7. PICK u \in Threads : LockedNum[th[t].i] = u /\ AtRecord(t, u) /\ SubmittedInv(u) /\ operations[u] \in Records
  BY <1>6, CombinerAt
<1>8. th[t].set.opcode = "Done" /\ th[t].set.data \in Items \cup {Null}
  BY <1>0, <1>7 DEF AtRecord, Locals, Records
<1>9. operations' = [operations EXCEPT ![u].opcode = "Done"]
  BY <1>1, <1>7, <1>8 DEF L!Write, L!OpParts
<1>10. /\ operations' \in [Threads -> Records] /\ operations'[u].opcode = "Done"
       /\ operations'[u].data = operations[u].data
       /\ \A v \in Threads \ {u} : operations'[v] = operations[v]
  BY <1>0, <1>7, <1>9 DEF LTypeOK, Records
<1>11. Ever' = Ever /\ ~Ends(t)' /\ th'[t].pc \in CombinePcs
  BY <1>1, <1>3, <1>5, ChainKept DEF Ends
<1>12. \A v \in Threads : th'[v].op = th[v].op /\ th'[v].item = th[v].item
  BY <1>3, <1>5 DEF Within, OthersKept
<1>13. /\ Submitted(u)
       /\ operations[u].opcode = "Enqueue" => th[u].op = "put" /\ th[u].item \in Items
       /\ operations[u].opcode = "Dequeue" => th[u].op = "get" /\ th[u].item = Null
       /\ operations[u].opcode \in {"Enqueue", "Dequeue"}
  BY <1>7, RecordOfSubmitted DEF AtRecord, Records, Ends
<1>14. \A v \in Threads : th[v].op = "get" /\ sight[v] => sight'[v]
  BY <1>0, <1>1, <1>5, SightKept
<1>15. LPcInv(t)'
  BY <1>0, <1>1, <1>3, <1>5, <1>11 DEF LPcInv
<1>16. SubmittedInv(u)'
  <2>1. operations[u].opcode = "Enqueue" => operations[u].data = Null /\ th[u].item \in Ever
    BY <1>1, <1>7 DEF AtRecord
  <2>2. operations[u].opcode = "Dequeue" => (operations[u].data = Null => sight'[u])
    BY <1>1, <1>7, <1>13, <1>14 DEF AtRecord
  <2> QED BY <1>10, <1>11, <1>12, <1>13, <2>1, <2>2 DEF SubmittedInv
<1>17. CombinerInv(t)'
  <2>1. PastOwn(t)' => u = t \/ PastOwn(t)
    BY <1>4, <1>5, <1>7 DEF PastOwn
  <2>2. PastOwn(t)' => operations'[t].opcode = "Done"
    BY <1>0, <1>10, <2>1 DEF CombinerInv
  <2> QED BY <1>3, <1>5, <1>11, <2>2 DEF CombinerInv, AtRecord
<1>18. \A v \in Threads : Pocket(v)' = Pocket(v)
  <2>1. CASE operations[u].opcode = "Enqueue"
    <3>1. OwnData(u) = {} /\ OwnData(u)' = {} /\ th[t].set.data = Null
      BY <1>7, <1>12, <1>13, <2>1 DEF OwnData, AtRecord
    <3> QED BY <1>5, <1>7, <1>10, <1>11, <1>12, <3>1, PocketsEnding DEF Within
  <2>2. CASE operations[u].opcode = "Dequeue"
    <3>1. operations[u].data = th[t].set.data
      BY <1>1, <1>7, <2>2 DEF AtRecord
    <3>2. OwnData(u) = {th[t].set.data} \ {Null} /\ OwnData(u)' = {th[t].set.data} \ {Null}
      BY <1>10, <1>12, <1>13, <2>2, <3>1 DEF OwnData
    <3> QED BY <1>5, <1>7, <1>10, <1>11, <1>12, <3>2, PocketsEnding DEF Within
  <2> QED BY <1>13, <2>1, <2>2
<1>19. th'[t].pc # "swing"
  BY <1>3, <1>5
<1> QED BY <1>1, <1>5, <1>7, <1>10, <1>11, <1>15, <1>16, <1>17, <1>18, <1>19, EndingStep
-----------------------------------------------------------------------------
\* The combiner at the list.

LEMMA CombinerAtList ==
  ASSUME LInv, Combines, NEW t \in Threads, th[t].pc \in BasePcs
  PROVE  /\ Holds(t) /\ ~Ends(t) /\ lock = t /\ (\A v \in Threads : ~Ending(v)) /\ waiting = {}
         /\ \A v \in Threads \ {t} : ~Holds(v) /\ ~Ends(v) /\ th[v].pc \notin BasePcs
         /\ \E u \in Threads : /\ LockedNum[th[t].i] = u /\ AtRecord(t, u) /\ SubmittedInv(u)
                               /\ operations[u] \in Records /\ Submitted(u)
<1>1. Holds(t) /\ ~Ends(t)
  BY DEF Holds, Combines, Ends, CombinePcs, BasePcs, OpPcs
<1>2. \A v \in Threads \ {t} : ~Holds(v) /\ ~Ends(v) /\ th[v].pc \notin BasePcs
  BY <1>1, CombineFacts DEF CombinePcs
<1>3. lock = t
  BY <1>1 DEF LInv, LockInv
<1>4. \A v \in Threads : ~Ending(v)
  BY <1>1, NoEnding
<1>5. \E u \in Threads : /\ LockedNum[th[t].i] = u /\ AtRecord(t, u) /\ SubmittedInv(u)
                         /\ operations[u] \in Records /\ Submitted(u)
  BY <1>1, CombinerAt DEF AtRecord
<1> QED BY <1>1, <1>2, <1>3, <1>4, <1>5, CombineFacts

LEMMA CombineLink ==
  ASSUME LInv, Combines, NEW t \in Threads, L!Link(t)
  PROVE  LInv'
<1> USE DEF CombinePcs, BasePcs, OtherPcs, OpPcs
<1>0. /\ th[t] \in Locals /\ LTypeOK /\ LPcInv(t) /\ CombinerInv(t)
      /\ ChainInv /\ LPlacesInv /\ LOrderInv
  BY CombineFacts DEF LInv, LTypeOK, CombineSound
<1>1. /\ th[t].pc = "link" /\ next' = [next EXCEPT ![tail] = th[t].node] /\ L!Observe(t, L!Held')
      /\ UNCHANGED <<mode, lock, waiting, head, tail, operations, gets, spurious>>
  BY DEF L!Link, L!At
<1>2. Within(t) /\ th'[t] = [th[t] EXCEPT !.pc = "swing"]
  BY <1>0, GotoLocals DEF L!Link
<1>3. /\ next' \in [L!Nodes -> Items \cup {L!NoNode}] /\ Steps' = Steps /\ Ever' = Ever
      /\ \A x : After(Steps', x) = After(Steps, x)
  BY <1>1, LinkChain
<1>4. /\ done' = done /\ out' = out /\ older' = older /\ late' = late /\ start' = start
      /\ \A u \in Threads : L!InHand(u)' = L!InHand(u)
      /\ L!Hands' = L!Hands /\ L!Begun' = L!Begun
  BY <1>0, <1>1, <1>2, Quiet
<1>5. LTypeOK'
  <2>1. head' \in L!Nodes /\ tail' \in L!Nodes /\ lock' \in Threads \cup {Null}
        /\ waiting' \in SUBSET Threads /\ operations' \in [Threads -> Records]
    BY <1>0, <1>1 DEF LTypeOK
  <2> QED BY <1>0, <1>1, <1>2, <1>3, <2>1, QuietTypes
<1>6. ChainInv'
  <2>1. th'[t].pc = "swing" /\ L!Nodes' = L!Nodes /\ tail \in Ever \cup {L!Sentinel}
    BY <1>0, <1>2 DEF Locals, L!Nodes, ChainInv
  <2>2. \A x \in L!Nodes \ (Ever \cup {L!Sentinel}) : next'[x] = next[x]
    BY <1>0, <1>1, <2>1 DEF LTypeOK
  <2> QED BY <1>0, <1>1, <1>3, <2>1, <2>2 DEF ChainInv
<1>7. /\ Holds(t) /\ ~Ends(t) /\ lock = t /\ (\A v \in Threads : ~Ending(v)) /\ waiting = {}
      /\ \A v \in Threads \ {t} : ~Holds(v) /\ ~Ends(v) /\ th[v].pc \notin BasePcs
  BY <1>1, CombinerAtList
<1>8. th'[t].pc = "swing" /\ th'[t].op = th[t].op /\ th'[t].item = th[t].item /\ th'[t].i = th[t].i
      /\ th'[t].node = th[t].node /\ ~Ends(t)' /\ Holds(t)' /\ Combines'
  BY <1>0, <1>1, <1>2 DEF Locals, Ends, Holds, Combines
<1>9. \A u \in Threads : LPcInv(u)'
  <2>1. ASSUME NEW u \in Threads \ {t} PROVE LPcInv(u)'
    BY <1>1, <1>2, <1>3, <1>7, <2>1 DEF LInv, LPcInv, Within, OthersKept
  <2>2. LPcInv(t)'
    <3>1. next'[tail'] = th[t].node
      BY <1>0, <1>1 DEF LTypeOK
    <3> QED BY <1>0, <1>1, <1>3, <1>8, <3>1 DEF LPcInv
  <2> QED BY <2>1, <2>2
<1>10. \A u \in Threads : th[u].op = "get" /\ sight[u] => sight'[u]
  BY <1>0, <1>1, <1>2, SightKept
<1>11. \A u \in Threads \ {t} : CombineSound(u)'
  BY <1>1, <1>2, <1>3, <1>7, <1>10, OthersInside DEF Within
<1>12. CombineSound(t)'
  <2>1. CombinePc(t)' /\ RecordInv(t)'
    BY <1>8 DEF CombinePc, RecordInv
  <2>2. SubmittedInv(t)'
    <3>1. SubmittedInv(t) /\ Submitted(t)
      BY <1>1, CombineFacts DEF CombineSound, Submitted
    <3> QED BY <1>1, <1>3, <1>7, <1>8, <1>10, <3>1 DEF SubmittedInv
  <2>3. CombinerInv(t)'
    <3>1. \A u \in Threads : Submitted(u) => Submitted(u)'
      BY <1>2, <1>8 DEF Submitted, Ends, Within, OthersKept
    <3>2. \A u \in Threads : AtRecord(t, u) => AtRecord(t, u)'
      BY <1>1, <1>8, <3>1 DEF AtRecord
    <3> QED BY <1>0, <1>1, <1>8, <3>2 DEF CombinerInv, PastOwn
  <2> QED BY <2>1, <2>2, <2>3 DEF CombineSound
<1>13. LockInv'
  BY <1>1, <1>2, <1>7, LockKept DEF Within
<1>14. LPlacesInv' /\ LOrderInv'
  <2>1. \A u \in Threads : Pocket(u)' = Pocket(u)
    BY <1>0, <1>1, <1>2, <1>7, <1>8, PocketsInside
  <2>2. \A u \in Threads : th'[u].op = th[u].op /\ th'[u].item = th[u].item
    BY <1>2 DEF Within, OthersKept
  <2>3. LPlacesInv'
    BY <1>0, <1>1, <1>3, <1>4, <2>1, <2>2 DEF LPlacesInv
  <2> QED BY <1>0, <1>3, <1>4, <2>3 DEF LOrderInv
<1>15. CombineInv' /\ L!NoSleeperByItem'
  BY <1>1, <1>7, <1>11, <1>12 DEF CombineInv, CombineSound, L!NoSleeperByItem
<1> QED BY <1>5, <1>6, <1>8, <1>9, <1>13, <1>14, <1>15 DEF LInv

LEMMA CombineSwing ==
  ASSUME LInv, Combines, NEW t \in Threads, L!Swing(t)
  PROVE  LInv'
<1> USE DEF CombinePcs, BasePcs, OtherPcs, OpPcs
<1>0. /\ th[t] \in Locals /\ LTypeOK /\ LPcInv(t) /\ CombinerInv(t)
      /\ ChainInv /\ LPlacesInv /\ LOrderInv
  BY CombineFacts DEF LInv, LTypeOK, CombineSound
<1> DEFINE r == L!SetOp(th[t], th[t].i, "Done", Null, "scan")
<1>1. /\ th[t].pc = "swing" /\ tail' = th[t].node /\ L!Observe(t, L!Held') /\ L!Set(t, r)
      /\ UNCHANGED <<mode, lock, waiting, head, next, operations, gets, spurious>>
  BY DEF L!Swing, L!At, Combines
<1>2. r \in Locals /\ r.op = th[t].op /\ r.item = th[t].item /\ r.pc = "op_1" /\ r.then = "scan"
      /\ r.set = L!NoOperation /\ r.i = th[t].i
  <2>1. L!NoOperation \in Records
    BY DEF L!NoOperation, L!Operation, Records
  <2>2. r = [th[t] EXCEPT !.pc = "op_1", !.set = L!NoOperation, !.then = "scan"]
    BY <1>0 DEF L!SetOp, L!NoOperation, Locals
  <2> HIDE DEF r
  <2> QED BY <1>0, <2>1, <2>2 DEF Locals
<1> HIDE DEF r
<1>3. Within(t) /\ th'[t] = r
  BY <1>0, <1>1, <1>2, SetLocals
<1>4. SwingHyp(t)
  BY <1>1, <1>3 DEF SwingHyp
<1>5. PICK u \in Threads : /\ LockedNum[th[t].i] = u /\ AtRecord(t, u) /\ SubmittedInv(u)
                           /\ operations[u] \in Records /\ Submitted(u)
  BY <1>1, CombinerAtList
<1>6. /\ Holds(t) /\ ~Ends(t) /\ lock = t /\ (\A v \in Threads : ~Ending(v)) /\ waiting = {}
      /\ \A v \in Threads \ {t} : ~Holds(v) /\ ~Ends(v) /\ th[v].pc \notin BasePcs
  BY <1>1, CombinerAtList
<1>7. operations[u].opcode = "Enqueue" /\ operations[u].data = th[t].node
  BY <1>1, <1>5 DEF AtRecord, L!Operation
<1>8. th[u].op = "put" /\ th[u].item = th[t].node
  BY <1>5, <1>6, <1>7, RecordOfSubmitted DEF SubmittedInv
<1>9. tail' \in L!Nodes /\ Ever' = Ever \cup {th[t].node}
  BY <1>1, SwingChain
<1>10. Ends(t)' /\ th'[t].pc = "op_1" /\ th'[t].then = "scan" /\ th'[t].i = th[t].i
       /\ th'[t].set.data = Null /\ th'[t].set.opcode = "Done"
       /\ th'[t].op = th[t].op /\ th'[t].item = th[t].item /\ Combines' /\ Holds(t)'
  BY <1>1, <1>2, <1>3 DEF Ends, L!NoOperation, L!Operation, Combines, Holds
<1>11. LTypeOK'
  <2>1. head' \in L!Nodes /\ lock' \in Threads \cup {Null} /\ next' \in [L!Nodes -> Items \cup {L!NoNode}]
        /\ waiting' \in SUBSET Threads /\ operations' \in [Threads -> Records]
    BY <1>0, <1>1 DEF LTypeOK
  <2> QED BY <1>0, <1>1, <1>3, <1>9, <2>1, QuietTypes
<1>12. ChainInv' /\ LPlacesInv' /\ LOrderInv'
  <2>1. \A v \in Threads : Pocket(v)' = Pocket(v)
    BY <1>0, <1>1, <1>3, <1>6, <1>10, PocketsInside
  <2>2. th[t].node \in L!Begun
    BY <1>8 DEF L!Begun
  <2> QED BY <1>1, <1>4, <2>1, <2>2, SwingInv
<1>13. \A v \in Threads : LPcInv(v)'
  <2>1. ASSUME NEW v \in Threads \ {t} PROVE LPcInv(v)'
    BY <1>1, <1>3, <1>6, <2>1 DEF LInv, LPcInv, Within, OthersKept
  <2>2. LPcInv(t)'
    BY <1>0, <1>1, <1>6, <1>10 DEF LPcInv
  <2> QED BY <2>1, <2>2
<1>14. \A v \in Threads : th[v].op = "get" /\ sight[v] => sight'[v]
  BY <1>0, <1>1, <1>3, SightKept
<1>15. Ending(u)'
  BY <1>5, <1>10 DEF Ending
<1>16. \A v \in Threads \ {u} : th[v].op = "put" /\ th[v].item \notin Ever => th[v].item \notin Ever'
  BY <1>0, <1>8, <1>9 DEF LPlacesInv
<1>17. \A v \in Threads \ {t} : CombineSound(v)'
  BY <1>1, <1>3, <1>5, <1>6, <1>9, <1>14, <1>15, <1>16, OthersInside DEF Within
<1>18. CombineSound(t)'
  <2>1. CombinePc(t)' /\ RecordInv(t)'
    BY <1>10 DEF CombinePc, RecordInv
  <2>2. SubmittedInv(t)'
    <3>1. SubmittedInv(t) /\ Submitted(t)
      BY <1>1, CombineFacts DEF CombineSound, Submitted
    <3> QED BY <1>1, <1>6, <1>9, <1>10, <1>14, <1>15, <1>16, <3>1 DEF SubmittedInv
  <2>3. CombinerInv(t)'
    <3>1. PastOwn(t)' => PastOwn(t)
      BY <1>10 DEF PastOwn
    <3>2. Submitted(u)' /\ th'[u].item = th[u].item
      BY <1>3, <1>5, <1>10 DEF Submitted, Ends, Within, OthersKept
    <3>3. AtRecord(t, u)'
      BY <1>1, <1>7, <1>8, <1>9, <1>10, <3>2 DEF AtRecord
    <3> QED BY <1>0, <1>1, <1>5, <1>10, <3>1, <3>3 DEF CombinerInv
  <2> QED BY <2>1, <2>2, <2>3 DEF CombineSound
<1>19. LockInv'
  BY <1>1, <1>3, <1>6, LockKept DEF Within
<1>20. CombineInv' /\ L!NoSleeperByItem'
  BY <1>1, <1>6, <1>17, <1>18 DEF CombineInv, CombineSound, L!NoSleeperByItem
<1> QED BY <1>10, <1>11, <1>12, <1>13, <1>19, <1>20 DEF LInv

LEMMA CombineAdvance ==
  ASSUME LInv, Combines, NEW t \in Threads, L!Advance(t)
  PROVE  LInv'
<1> USE DEF CombinePcs, BasePcs, OtherPcs, OpPcs
<1>0. /\ th[t] \in Locals /\ LTypeOK /\ LPcInv(t) /\ CombinerInv(t)
      /\ ChainInv /\ LPlacesInv /\ LOrderInv
  BY CombineFacts DEF LInv, LTypeOK, CombineSound
<1> DEFINE r == L!SetOp(th[t], th[t].i, "Done", th[t].node, "scan")
<1>1. /\ th[t].pc = "advance" /\ head' = next[head] /\ L!Observe(t, L!Held') /\ L!Set(t, r)
      /\ UNCHANGED <<mode, lock, waiting, tail, next, operations, gets, spurious>>
  BY DEF L!Advance, L!At, Combines
<1>2. head # tail /\ th[t].node = next[head]
  BY <1>0, <1>1 DEF LPcInv
<1>3. /\ head' \in Ever /\ head' \in L!Nodes /\ Steps' = Steps /\ Ever' = Ever /\ Ever \subseteq Items
      /\ next[head] # Null
  BY <1>0, <1>1, <1>2, AdvanceChain, CallHistoryAssumption DEF ChainInv
<1>4. r \in Locals /\ r.op = th[t].op /\ r.item = th[t].item /\ r.pc = "op_1" /\ r.then = "scan"
      /\ r.set = L!Operation("Done", next[head]) /\ r.i = th[t].i
  <2>1. L!Operation("Done", next[head]) \in Records
    BY <1>1, <1>3 DEF L!Operation, Records
  <2>2. r = [th[t] EXCEPT !.pc = "op_1", !.set = L!Operation("Done", next[head]), !.then = "scan"]
    BY <1>0, <1>2 DEF L!SetOp, Locals
  <2> HIDE DEF r
  <2> QED BY <1>0, <2>1, <2>2 DEF Locals
<1> HIDE DEF r
<1>5. Within(t) /\ th'[t] = r
  BY <1>0, <1>1, <1>4, SetLocals
<1>6. PICK u \in Threads : /\ LockedNum[th[t].i] = u /\ AtRecord(t, u) /\ SubmittedInv(u)
                           /\ operations[u] \in Records /\ Submitted(u)
  BY <1>1, CombinerAtList
<1>7. /\ Holds(t) /\ ~Ends(t) /\ lock = t /\ (\A v \in Threads : ~Ending(v)) /\ waiting = {}
      /\ \A v \in Threads \ {t} : ~Holds(v) /\ ~Ends(v) /\ th[v].pc \notin BasePcs
  BY <1>1, CombinerAtList
<1>8. operations[u].opcode = "Dequeue"
  BY <1>1, <1>6 DEF AtRecord
<1>9. th[u].op = "get" /\ operations[u].data = Null
  BY <1>6, <1>7, <1>8, RecordOfSubmitted DEF SubmittedInv
<1>10. Ends(t)' /\ th'[t].pc = "op_1" /\ th'[t].then = "scan" /\ th'[t].i = th[t].i
       /\ th'[t].set.data = next[head] /\ th'[t].set.opcode = "Done"
       /\ th'[t].op = th[t].op /\ th'[t].item = th[t].item /\ Combines' /\ Holds(t)'
  BY <1>1, <1>4, <1>5 DEF Ends, L!Operation, Combines, Holds
<1>11. LTypeOK'
  <2>1. tail' \in L!Nodes /\ lock' \in Threads \cup {Null} /\ next' \in [L!Nodes -> Items \cup {L!NoNode}]
        /\ waiting' \in SUBSET Threads /\ operations' \in [Threads -> Records]
    BY <1>0, <1>1 DEF LTypeOK
  <2> QED BY <1>0, <1>1, <1>3, <1>5, <2>1, QuietTypes
<1>12. ChainInv' /\ LPlacesInv' /\ LOrderInv'
  <2>1. \A c \in Threads \ {t} : ~Ends(c) /\ ~Ends(c)'
    BY <1>5, <1>7 DEF Within, OthersKept, Ends
  <2>2. \A v \in Threads : OwnData(v)' = OwnData(v)
    BY <1>1, <1>5 DEF OwnData, Within, OthersKept
  <2>3. \A v \in Threads : Pocket(v) = OwnData(v)
    <3> TAKE v \in Threads
    <3> DEFINE S == {th[c].set.data : c \in {d \in Threads : Ends(d) /\ LockedNum[th[d].i] = v}}
    <3>1. S = {}
      BY <1>7, <2>1
    <3>2. Pocket(v) = OwnData(v) \cup (S \ {Null})
      BY PocketIs
    <3> HIDE DEF S
    <3> QED BY <3>1, <3>2
  <2>4. \A v \in Threads : Pocket(v)' = IF v = u THEN OwnData(v) \cup {next[head]} ELSE OwnData(v)
    <3> TAKE v \in Threads
    <3> DEFINE R == {th'[c].set.data : c \in {d \in Threads : Ends(d)' /\ LockedNum[th'[d].i] = v}}
    <3>1. R = IF v = u THEN {next[head]} ELSE {}
      BY <1>6, <1>10, <2>1
    <3>2. Pocket(v)' = OwnData(v) \cup (R \ {Null})
      BY <2>2, PocketIsNext
    <3> HIDE DEF R
    <3> QED BY <1>3, <3>1, <3>2
  <2>5. /\ done' = done /\ out' = out /\ older' = older /\ late' = late /\ start' = start
        /\ \A v \in Threads : L!InHand(v)' = L!InHand(v)
        /\ L!Hands' = L!Hands /\ L!Begun' = L!Begun
    BY <1>0, <1>1, <1>5, Quiet
  <2>6. Pockets(u, next[head])
    BY <2>3, <2>4, <2>5 DEF Pockets
  <2>7. \A v \in Threads \ {u} : L!InHand(v)' = L!InHand(v) /\ Pocket(v)' = Pocket(v)
    BY <2>3, <2>4, <2>5
  <2>8. \A v \in Threads : th'[v].op = th[v].op /\ (th[v].op = "put" => th'[v].item = th[v].item)
    BY <1>5 DEF Within, OthersKept
  <2> QED BY <1>1, <1>2, <1>5, <2>5, <2>6, <2>7, <2>8, AdvanceInv DEF Within
<1>13. \A v \in Threads : LPcInv(v)'
  <2>1. ASSUME NEW v \in Threads \ {t} PROVE LPcInv(v)'
    BY <1>1, <1>3, <1>5, <1>7, <2>1 DEF LInv, LPcInv, Within, OthersKept
  <2>2. LPcInv(t)'
    BY <1>0, <1>1, <1>7, <1>10 DEF LPcInv
  <2> QED BY <2>1, <2>2
<1>14. \A v \in Threads : th[v].op = "get" /\ sight[v] => sight'[v]
  BY <1>0, <1>1, <1>5, SightKept
<1>15. \A v \in Threads \ {t} : CombineSound(v)'
  BY <1>1, <1>3, <1>5, <1>7, <1>14, OthersInside DEF Within
<1>16. CombineSound(t)'
  <2>1. CombinePc(t)' /\ RecordInv(t)'
    BY <1>10 DEF CombinePc, RecordInv
  <2>2. SubmittedInv(t)'
    <3>1. SubmittedInv(t) /\ Submitted(t)
      BY <1>1, CombineFacts DEF CombineSound, Submitted
    <3> QED BY <1>1, <1>3, <1>7, <1>10, <1>14, <3>1 DEF SubmittedInv
  <2>3. CombinerInv(t)'
    <3>1. PastOwn(t)' => PastOwn(t)
      BY <1>10 DEF PastOwn
    <3>2. Submitted(u)' /\ th'[u].item = th[u].item
      BY <1>5, <1>6, <1>10 DEF Submitted, Ends, Within, OthersKept
    <3>3. AtRecord(t, u)'
      BY <1>1, <1>3, <1>8, <1>9, <1>10, <3>2 DEF AtRecord
    <3> QED BY <1>0, <1>1, <1>6, <1>10, <3>1, <3>3 DEF CombinerInv
  <2> QED BY <2>1, <2>2, <2>3 DEF CombineSound
<1>17. LockInv'
  BY <1>1, <1>5, <1>7, LockKept DEF Within
<1>18. CombineInv' /\ L!NoSleeperByItem'
  BY <1>1, <1>7, <1>15, <1>16 DEF CombineInv, CombineSound, L!NoSleeperByItem
<1> QED BY <1>10, <1>11, <1>12, <1>13, <1>17, <1>18 DEF LInv
-----------------------------------------------------------------------------
\* Calls.

LEMMA CallKept ==
  ASSUME LInv, NEW t \in Threads, OthersKept(t),
         UNCHANGED <<mode, lock, waiting, head, tail, next, operations>>,
         th[t].pc \in {"idle", "return"}, th'[t].pc \in {"idle", "lock", "op_1"}, ~Ends(t)',
         \A u \in Threads \ {t} : th[u].op = "get" /\ sight[u] => sight'[u],
         OwnData(t) = {}, OwnData(t)' = {}, LPcInv(t)',
         IF Combines THEN RecordInv(t)' /\ CombinePc(t)' ELSE BlockInv(t)'
  PROVE  /\ ChainInv' /\ LockInv' /\ (\A u \in Threads : LPcInv(u)') /\ L!NoSleeperByItem'
         /\ IF Combines' THEN CombineInv' ELSE \A u \in Threads : BlockInv(u)'
         /\ \A u \in Threads : Pocket(u)' = Pocket(u)
<1> USE DEF CombinePcs, BasePcs, OtherPcs, OpPcs, LockPcs
<1>1. ~Ends(t) /\ ~Holds(t) /\ ~Holds(t)' /\ ~Submitted(t) /\ ~Submitted(t)' /\ (Combines' <=> Combines)
      /\ Ever' = Ever
  BY ChainKept DEF Ends, Holds, Combines, Submitted
<1>2. ChainInv' /\ \A u \in Threads : LPcInv(u)'
  BY QuietChain, OthersPc
<1>3. LockInv'
  BY <1>1, LockKept
<1>4. L!NoSleeperByItem'
  BY DEF LInv, L!NoSleeperByItem, L!IsEmpty, OthersKept
<1>5. \A u \in Threads : Pocket(u)' = Pocket(u)
  BY <1>1, PocketsOutside
<1>6. CASE Combines
  <2>1. \A u \in Threads \ {t} : CombineSound(u)'
    BY <1>1, <1>6, OthersOutside
  <2>2. SubmittedInv(t)' /\ CombinerInv(t)'
    BY <1>1, <1>6, NotCombiningNext DEF SubmittedInv
  <2>3. CombineInv'
    BY <1>6, <2>1, <2>2, CombineFacts DEF CombineInv, CombineSound
  <2> QED BY <1>1, <1>2, <1>3, <1>4, <1>5, <1>6, <2>3
<1>7. CASE ~Combines
  <2>1. \A u \in Threads \ {t} : BlockInv(u)'
    BY <1>1, <1>7, OthersBlock
  <2> QED BY <1>1, <1>2, <1>3, <1>4, <1>5, <1>7, <2>1
<1> QED BY <1>6, <1>7

LEMMA IdleFacts ==
  ASSUME LInv, NEW t \in Threads, th[t].pc \in {"idle", "return"}
  PROVE  operations[t] = L!NoOperation /\ OwnData(t) = {}
<1>1. operations[t] = L!NoOperation
  BY CombineFacts DEF LInv, CombineSound, RecordInv, BlockInv
<1> QED BY <1>1 DEF OwnData, L!NoOperation, L!Operation

LEMMA EnqueueStep ==
  ASSUME LInv, NEW t \in Threads, L!CallEnqueue(t)
  PROVE  LInv'
<1> USE DEF CombinePcs, BasePcs, OtherPcs, OpPcs, LockPcs
<1>0. /\ th[t] \in Locals /\ LTypeOK /\ LPcInv(t) /\ ChainInv /\ LPlacesInv /\ LOrderInv
      /\ th[t].pc = "idle" /\ UNCHANGED L!shared /\ L!Observe(t, L!Held)
  BY DEF LInv, LTypeOK, L!CallEnqueue, L!At
<1>1. UNCHANGED <<mode, lock, waiting, head, tail, next, operations, gets, spurious>>
  BY <1>0 DEF L!shared
<1>2. PICK x \in L!Fresh :
        LET r == [L!Idle EXCEPT !.op = "put", !.item = x, !.node = x] IN
        L!Set(t, IF mode = "combining" THEN L!SetOp(r, L!Id(t), "Enqueue", x, "try")
               ELSE [r EXCEPT !.pc = "lock"])
  BY DEF L!CallEnqueue
<1>3. x \in Items /\ x \notin L!Begun /\ x \notin Ever /\ x \notin done
      /\ \A u \in Threads : th[u].op = "put" => th[u].item # x
  BY <1>0 DEF L!Fresh, L!Begun, LPlacesInv
<1> DEFINE q == IF mode = "combining" THEN L!SetOp([L!Idle EXCEPT !.op = "put", !.item = x, !.node = x], L!Id(t), "Enqueue", x, "try")
                ELSE [[L!Idle EXCEPT !.op = "put", !.item = x, !.node = x] EXCEPT !.pc = "lock"]
<1>4. /\ q \in Locals /\ q.op = "put" /\ q.item = x /\ q.node = x
      /\ q.pc = IF Combines THEN "op_1" ELSE "lock"
      /\ Combines => q.i = L!Id(t) /\ q.set = L!Operation("Enqueue", x) /\ q.then = "try"
  <2>1. 0 \in DOMAIN LockedNum /\ L!Id(t) \in DOMAIN LockedNum
    BY StrictQueuesAssumption, FS_CardinalityType, FS_EmptySet, IdFact
  <2>2. L!NoOperation \in Records /\ L!Operation("Enqueue", x) \in Records
    BY <1>3 DEF L!NoOperation, L!Operation, Records
  <2>3. CASE Combines
    <3>1. q = [pc |-> "op_1", op |-> "put", item |-> x, end |-> "left", node |-> x,
               i |-> L!Id(t), set |-> L!Operation("Enqueue", x), then |-> "try", expired |-> FALSE]
      BY <2>3 DEF L!SetOp, L!Idle, Combines
    <3> HIDE DEF q
    <3> QED BY <1>3, <2>1, <2>2, <2>3, <3>1 DEF Locals
  <2>4. CASE ~Combines
    <3>1. q = [pc |-> "lock", op |-> "put", item |-> x, end |-> "left", node |-> x,
               i |-> 0, set |-> L!NoOperation, then |-> "idle", expired |-> FALSE]
      BY <2>4 DEF L!Idle, Combines
    <3> HIDE DEF q
    <3> QED BY <1>3, <2>1, <2>2, <2>4, <3>1 DEF Locals
  <2> QED BY <2>3, <2>4
<1>5. OthersKept(t) /\ th'[t] = q /\ th' \in [Threads -> Locals]
  <2>1. L!Set(t, q)
    BY <1>2
  <2> HIDE DEF q
  <2> QED BY <1>0, <1>4, <2>1 DEF L!Set, OthersKept, LTypeOK
<1> HIDE DEF q
<1>6. th[t].op = "none" /\ th[t].item = Null /\ t \notin waiting
  BY <1>0 DEF LPcInv
<1>7. /\ done' = done /\ out' = out /\ late' = late /\ start' = start
      /\ older' = [older EXCEPT ![x] = done]
      /\ sight' = [u \in Threads |-> th'[u].op = "get" /\ (sight[u] \/ done \cap L!Held = {})]
  <2>1. /\ done' = done /\ out' = out /\ late' = late /\ start' = start
        /\ older' = [older EXCEPT ![x] = done]
    BY <1>0, <1>4, <1>5, <1>6 DEF L!Observe
  <2> QED BY <1>0, <2>1 DEF L!Observe
<1>8. /\ L!Begun' = L!Begun \cup {x} /\ L!Hands' = L!Hands /\ \A u \in Threads : L!InHand(u)' = L!InHand(u)
  <2>1. L!Begun' = L!Begun \cup {x}
    BY <1>4, <1>5, <1>6, <1>7 DEF L!Begun, OthersKept
  <2>2. \A u \in Threads : L!InHand(u)' = L!InHand(u)
    BY <1>4, <1>5, <1>6 DEF L!InHand, OthersKept
  <2> QED BY <2>1, <2>2 DEF L!Hands
<1>9. Ever' = Ever /\ Steps' = Steps /\ After(Steps, head)' = After(Steps, head)
      /\ \A y : After(Steps', y) = After(Steps, y)
  BY <1>1, ChainKept
<1>10. LTypeOK'
  <2>1. older' \in [Items -> SUBSET Items] /\ sight' \in [Threads -> BOOLEAN]
    BY <1>0, <1>3, <1>7 DEF LTypeOK
  <2> QED BY <1>0, <1>1, <1>5, <1>7, <2>1 DEF LTypeOK, L!Nodes
<1>11. operations[t] = L!NoOperation /\ OwnData(t) = {} /\ OwnData(t)' = {}
  BY <1>0, <1>4, <1>5, IdleFacts DEF OwnData
<1>12. LPcInv(t)'
  BY <1>0, <1>1, <1>3, <1>4, <1>5, <1>6 DEF LPcInv
<1>13. IF Combines THEN RecordInv(t)' /\ CombinePc(t)' ELSE BlockInv(t)'
  <2>1. CASE Combines
    BY <1>1, <1>3, <1>4, <1>5, <1>9, <1>11, <2>1, IdFact DEF RecordInv, CombinePc, L!NoOperation, L!Operation, Own
  <2>2. CASE ~Combines
    BY <1>1, <1>3, <1>4, <1>5, <1>9, <1>11, <2>2 DEF BlockInv, L!NoOperation, L!Operation
  <2> QED BY <2>1, <2>2
<1>14. th'[t].pc \in {"idle", "lock", "op_1"} /\ ~Ends(t)'
       /\ \A u \in Threads \ {t} : th[u].op = "get" /\ sight[u] => sight'[u]
  BY <1>4, <1>5, <1>7 DEF Ends, OthersKept
<1>15. /\ ChainInv' /\ LockInv' /\ (\A u \in Threads : LPcInv(u)') /\ L!NoSleeperByItem'
       /\ IF Combines' THEN CombineInv' ELSE \A u \in Threads : BlockInv(u)'
       /\ \A u \in Threads : Pocket(u)' = Pocket(u)
  BY <1>0, <1>1, <1>5, <1>11, <1>12, <1>13, <1>14, CallKept
<1>16. LPlacesInv'
  <2>1. \A u \in Threads \ {t} : th'[u] = th[u]
    BY <1>5 DEF OthersKept
  <2>2. \A u, v \in Threads : u # v /\ th'[u].op = "put" /\ th'[v].op = "put" => th'[u].item # th'[v].item
    BY <1>0, <1>3, <1>4, <1>5, <2>1 DEF LPlacesInv
  <2>3. \A u \in Threads : th'[u].op = "put" => th'[u].item \notin done'
    BY <1>0, <1>3, <1>4, <1>5, <1>7, <2>1 DEF LPlacesInv
  <2> QED BY <1>0, <1>7, <1>8, <1>9, <1>15, <2>2, <2>3 DEF LPlacesInv
<1>17. LOrderInv'
  <2>1. \A y \in Ever : older'[y] = older[y]
    BY <1>0, <1>3, <1>7 DEF LTypeOK, ChainInv
  <2>2. \A y \in Items : older'[y] \subseteq done'
    BY <1>0, <1>3, <1>7 DEF LTypeOK, LOrderInv
  <2> QED BY <1>0, <1>7, <1>9, <2>1, <2>2 DEF LOrderInv
<1> QED BY <1>10, <1>15, <1>16, <1>17 DEF LInv

LEMMA DequeueStep ==
  ASSUME LInv, NEW t \in Threads, L!CallDequeue(t)
  PROVE  LInv'
<1> USE DEF CombinePcs, BasePcs, OtherPcs, OpPcs, LockPcs
<1>0. /\ th[t] \in Locals /\ LTypeOK /\ LPcInv(t) /\ ChainInv /\ LPlacesInv /\ LOrderInv
      /\ th[t].pc = "idle" /\ L!Observe(t, L!Held)
  BY DEF LInv, LTypeOK, L!CallDequeue, L!At
<1>1. UNCHANGED <<mode, lock, waiting, head, tail, next, operations, spurious>>
  BY DEF L!CallDequeue
<1> DEFINE q == IF mode = "combining" THEN L!SetOp([L!Idle EXCEPT !.op = "get"], L!Id(t), "Dequeue", Null, "try")
                ELSE [[L!Idle EXCEPT !.op = "get"] EXCEPT !.pc = "lock"]
<1>4. /\ q \in Locals /\ q.op = "get" /\ q.item = Null
      /\ q.pc = IF Combines THEN "op_1" ELSE "lock"
      /\ Combines => q.i = L!Id(t) /\ q.set = L!Operation("Dequeue", Null) /\ q.then = "try"
  <2>1. 0 \in DOMAIN LockedNum /\ L!Id(t) \in DOMAIN LockedNum
    BY StrictQueuesAssumption, FS_CardinalityType, FS_EmptySet, IdFact
  <2>2. L!NoOperation \in Records /\ L!Operation("Dequeue", Null) \in Records
    BY DEF L!NoOperation, L!Operation, Records
  <2>3. CASE Combines
    <3>1. q = [pc |-> "op_1", op |-> "get", item |-> Null, end |-> "left", node |-> Null,
               i |-> L!Id(t), set |-> L!Operation("Dequeue", Null), then |-> "try", expired |-> FALSE]
      BY <2>3 DEF L!SetOp, L!Idle, Combines
    <3> HIDE DEF q
    <3> QED BY <2>1, <2>2, <2>3, <3>1 DEF Locals
  <2>4. CASE ~Combines
    <3>1. q = [pc |-> "lock", op |-> "get", item |-> Null, end |-> "left", node |-> Null,
               i |-> 0, set |-> L!NoOperation, then |-> "idle", expired |-> FALSE]
      BY <2>4 DEF L!Idle, Combines
    <3> HIDE DEF q
    <3> QED BY <2>1, <2>2, <2>4, <3>1 DEF Locals
  <2> QED BY <2>3, <2>4
<1>5. OthersKept(t) /\ th'[t] = q /\ th' \in [Threads -> Locals]
  <2>1. L!Set(t, q)
    BY DEF L!CallDequeue
  <2> HIDE DEF q
  <2> QED BY <1>0, <1>4, <2>1 DEF L!Set, OthersKept, LTypeOK
<1> HIDE DEF q
<1>6. th[t].op = "none" /\ th[t].item = Null /\ t \notin waiting
  BY <1>0 DEF LPcInv
<1>7. /\ done' = done /\ out' = out /\ late' = late /\ start' = [start EXCEPT ![t] = L!Memo]
      /\ older' = older
      /\ sight' = [u \in Threads |-> th'[u].op = "get" /\ (sight[u] \/ done \cap L!Held = {})]
  <2>1. /\ done' = done /\ out' = out /\ late' = late /\ start' = [start EXCEPT ![t] = L!Memo]
        /\ older' = older
    BY <1>0, <1>4, <1>5, <1>6 DEF L!Observe
  <2> QED BY <1>0, <2>1 DEF L!Observe
<1>8. /\ L!Begun' = L!Begun /\ L!Hands' = L!Hands /\ \A u \in Threads : L!InHand(u)' = L!InHand(u)
  <2>1. L!Begun' = L!Begun
    BY <1>4, <1>5, <1>6, <1>7 DEF L!Begun, OthersKept
  <2>2. \A u \in Threads : L!InHand(u)' = L!InHand(u)
    BY <1>4, <1>5, <1>6 DEF L!InHand, OthersKept
  <2> QED BY <2>1, <2>2 DEF L!Hands
<1>9. Ever' = Ever /\ Steps' = Steps /\ After(Steps, head)' = After(Steps, head)
      /\ \A y : After(Steps', y) = After(Steps, y)
  BY <1>1, ChainKept
<1>10. LTypeOK'
  <2>1. start' \in [Threads -> [done : SUBSET Items, late : SUBSET Items]] /\ sight' \in [Threads -> BOOLEAN]
    BY <1>0, <1>7 DEF LTypeOK, L!Memo
  <2> QED BY <1>0, <1>1, <1>5, <1>7, <2>1 DEF LTypeOK, L!Nodes
<1>11. operations[t] = L!NoOperation /\ OwnData(t) = {} /\ OwnData(t)' = {}
  BY <1>0, <1>1, IdleFacts DEF OwnData, L!NoOperation, L!Operation
<1>12. LPcInv(t)'
  BY <1>0, <1>1, <1>4, <1>5, <1>6 DEF LPcInv
<1>13. IF Combines THEN RecordInv(t)' /\ CombinePc(t)' ELSE BlockInv(t)'
  <2>1. CASE Combines
    BY <1>1, <1>4, <1>5, <1>9, <1>11, <2>1, IdFact DEF RecordInv, CombinePc, L!NoOperation, L!Operation, Own
  <2>2. CASE ~Combines
    BY <1>1, <1>4, <1>5, <1>9, <1>11, <2>2 DEF BlockInv, L!NoOperation, L!Operation
  <2> QED BY <2>1, <2>2
<1>14. th'[t].pc \in {"idle", "lock", "op_1"} /\ ~Ends(t)'
       /\ \A u \in Threads \ {t} : th[u].op = "get" /\ sight[u] => sight'[u]
  BY <1>4, <1>5, <1>7 DEF Ends, OthersKept
<1>15. /\ ChainInv' /\ LockInv' /\ (\A u \in Threads : LPcInv(u)') /\ L!NoSleeperByItem'
       /\ IF Combines' THEN CombineInv' ELSE \A u \in Threads : BlockInv(u)'
       /\ \A u \in Threads : Pocket(u)' = Pocket(u)
  BY <1>0, <1>1, <1>5, <1>11, <1>12, <1>13, <1>14, CallKept
<1>16. LPlacesInv'
  <2>1. \A u \in Threads : th'[u].op = "put" => u # t /\ th'[u] = th[u]
    BY <1>4, <1>5 DEF OthersKept
  <2> QED BY <1>0, <1>7, <1>8, <1>9, <1>15, <2>1 DEF LPlacesInv
<1>17. LOrderInv'
  <2>1. Order = "fifo" => \A u \in Threads : start'[u].late = {}
    BY <1>0, <1>7 DEF LOrderInv, LTypeOK, L!Memo, L!Strict
  <2> QED BY <1>0, <1>7, <1>9, <2>1 DEF LOrderInv
<1> QED BY <1>10, <1>15, <1>16, <1>17 DEF LInv

LEMMA ReturnStep ==
  ASSUME LInv, NEW t \in Threads, L!Return(t)
  PROVE  LInv'
<1> USE DEF CombinePcs, BasePcs, OtherPcs, OpPcs, LockPcs
<1>0. /\ th[t] \in Locals /\ LTypeOK /\ LPcInv(t) /\ ChainInv /\ LPlacesInv /\ LOrderInv
      /\ th[t].pc = "return" /\ UNCHANGED L!shared /\ L!Observe(t, L!Held)
  BY DEF LInv, LTypeOK, L!Return, L!At
<1>1. UNCHANGED <<mode, lock, waiting, head, tail, next, operations, gets, spurious>>
  BY <1>0 DEF L!shared
<1>2. L!Idle \in Locals /\ L!Idle.pc = "idle" /\ L!Idle.op = "none" /\ L!Idle.item = Null
  <2>1. 0 \in DOMAIN LockedNum
    BY StrictQueuesAssumption, FS_CardinalityType, FS_EmptySet
  <2>2. L!NoOperation \in Records
    BY DEF L!NoOperation, L!Operation, Records
  <2> QED BY <2>1, <2>2 DEF L!Idle, Locals
<1>3. OthersKept(t) /\ th'[t] = L!Idle /\ th' \in [Threads -> Locals]
  <2>1. L!Set(t, L!Idle)
    BY DEF L!Return
  <2> QED BY <1>0, <1>2, <2>1 DEF L!Set, OthersKept, LTypeOK
<1> DEFINE x == th[t].item
<1>4. /\ th[t].op \in {"put", "get"} /\ x \in Items \cup {Null} /\ t \notin waiting
      /\ th[t].op = "put" => x \in Items
  BY <1>0 DEF LPcInv, Locals
<1>5. th[t].op = "put" => x \in Ever
  <2>1. CASE Combines
    BY <1>0, <2>1, CombineFacts DEF CombineSound, RecordInv
  <2>2. CASE ~Combines
    BY <1>0, <2>2 DEF LInv, BlockInv
  <2> QED BY <2>1, <2>2
<1>6. L!Held = After(Steps, head) /\ L!Held \subseteq Ever /\ Ever \subseteq Items
  BY <1>0, EmptyFact DEF ChainInv
<1>7. /\ done' = IF th[t].op = "put" THEN done \cup {x} ELSE done
      /\ out' = out \cup L!InHand(t)
      /\ older' = older /\ \A u \in Threads \ {t} : start'[u] = start[u]
      /\ start' = [start EXCEPT ![t] = L!NoMemo]
      /\ late' = late \/ (late' = late \cup (L!First(t, x) \cap L!Held) /\ x \in L!InHand(t))
      /\ sight' = [u \in Threads |-> th'[u].op = "get" /\ (sight[u] \/ done' \cap L!Held = {})]
  <2>1. x \in Items => x # Null
    BY CallHistoryAssumption
  <2>2. L!InHand(t) = IF th[t].op = "get" /\ x # Null THEN {x} ELSE {}
    BY DEF L!InHand
  <2>3. /\ done' = IF th[t].op = "put" THEN done \cup {x} ELSE done
        /\ out' = IF th[t].op = "get" /\ x # Null THEN out \cup {x} ELSE out
        /\ older' = older /\ start' = [start EXCEPT ![t] = L!NoMemo]
        /\ late' = IF th[t].op = "get" /\ x # Null /\ L!Strict THEN late \cup (L!First(t, x) \cap L!Held) ELSE late
    BY <1>0, <1>2, <1>3, <1>4, <2>1 DEF L!Observe
  <2>4. sight' = [u \in Threads |-> th'[u].op = "get" /\ (sight[u] \/ done' \cap L!Held = {})]
    BY <1>0 DEF L!Observe
  <2>5. \A u \in Threads \ {t} : start'[u] = start[u]
    BY <1>0, <2>3 DEF LTypeOK
  <2> HIDE DEF x
  <2>6. out' = out \cup L!InHand(t)
    <3>1. CASE th[t].op = "get" /\ x # Null
      BY <2>2, <2>3, <3>1
    <3>2. CASE ~(th[t].op = "get" /\ x # Null)
      <4>1. L!InHand(t) = {} /\ out' = out
        BY <2>2, <2>3, <3>2
      <4> QED BY <4>1
    <3> QED BY <3>1, <3>2
  <2>7. late' = late \/ (late' = late \cup (L!First(t, x) \cap L!Held) /\ x \in L!InHand(t))
    <3>1. CASE th[t].op = "get" /\ x # Null
      <4>1. x \in L!InHand(t)
        BY <2>2, <3>1
      <4> QED BY <2>3, <4>1
    <3>2. CASE ~(th[t].op = "get" /\ x # Null)
      BY <2>3, <3>2
    <3> QED BY <3>1, <3>2
  <2> QED BY <2>3, <2>4, <2>5, <2>6, <2>7
<1>8. /\ L!Begun' = L!Begun /\ L!InHand(t)' = {} /\ \A u \in Threads \ {t} : L!InHand(u)' = L!InHand(u)
  <2>1. L!InHand(t)' = {} /\ \A u \in Threads \ {t} : L!InHand(u)' = L!InHand(u)
    BY <1>2, <1>3 DEF L!InHand, OthersKept
  <2>2. \A u \in Threads : th'[u].op = "put" <=> th[u].op = "put" /\ u # t
    BY <1>2, <1>3 DEF OthersKept
  <2>3. {th'[v].item : v \in {u \in Threads : th'[u].op = "put"}}
        = {th[v].item : v \in {u \in Threads : th[u].op = "put" /\ u # t}}
    BY <2>2, <1>3 DEF OthersKept
  <2>4. {th[v].item : v \in {u \in Threads : th[u].op = "put"}}
        = {th[v].item : v \in {u \in Threads : th[u].op = "put" /\ u # t}}
          \cup (IF th[t].op = "put" THEN {x} ELSE {})
    OBVIOUS
  <2> QED BY <1>7, <2>1, <2>3, <2>4 DEF L!Begun
<1>9. Ever' = Ever /\ Steps' = Steps /\ After(Steps, head)' = After(Steps, head)
      /\ \A y : After(Steps', y) = After(Steps, y)
  BY <1>1, ChainKept
<1>10. L!InHand(t) \subseteq L!Hands /\ L!Hands' = L!Hands \ L!InHand(t) /\ L!InHand(t) \subseteq Ever
  <2>1. \A u \in Threads \ {t} : L!InHand(u) \cap L!InHand(t) = {}
    BY <1>0 DEF LPlacesInv
  <2>2. L!InHand(t) \subseteq L!Hands
    BY DEF L!Hands
  <2>3. L!Hands' = L!Hands \ L!InHand(t)
    BY <1>8, <2>1 DEF L!Hands
  <2> QED BY <1>0, <2>2, <2>3 DEF LPlacesInv
<1>11. operations[t] = L!NoOperation /\ OwnData(t) = {} /\ OwnData(t)' = {}
  BY <1>0, <1>2, <1>3, IdleFacts DEF OwnData
<1>12. LPcInv(t)'
  BY <1>0, <1>1, <1>2, <1>3, <1>4 DEF LPcInv
<1>13. IF Combines THEN RecordInv(t)' /\ CombinePc(t)' ELSE BlockInv(t)'
  BY <1>1, <1>2, <1>3, <1>11 DEF RecordInv, CombinePc, BlockInv
<1>14. th'[t].pc \in {"idle", "lock", "op_1"} /\ ~Ends(t)'
       /\ \A u \in Threads \ {t} : th[u].op = "get" /\ sight[u] => sight'[u]
  BY <1>2, <1>3, <1>7 DEF Ends, OthersKept
<1>15. /\ ChainInv' /\ LockInv' /\ (\A u \in Threads : LPcInv(u)') /\ L!NoSleeperByItem'
       /\ IF Combines' THEN CombineInv' ELSE \A u \in Threads : BlockInv(u)'
       /\ \A u \in Threads : Pocket(u)' = Pocket(u)
  BY <1>0, <1>1, <1>3, <1>11, <1>12, <1>13, <1>14, CallKept
<1>16. LTypeOK'
  <2>1. start' \in [Threads -> [done : SUBSET Items, late : SUBSET Items]] /\ sight' \in [Threads -> BOOLEAN]
    BY <1>0, <1>7 DEF LTypeOK, L!NoMemo
  <2>2. late' \subseteq Items /\ done' \subseteq Items /\ out' \subseteq Items
    BY <1>0, <1>4, <1>6, <1>7, <1>10 DEF LTypeOK
  <2> QED BY <1>0, <1>1, <1>3, <1>7, <2>1, <2>2 DEF LTypeOK, L!Nodes
<1>17. LPlacesInv'
  <2>1. \A u \in Threads \ {t} : th'[u] = th[u]
    BY <1>3 DEF OthersKept
  <2>2. th'[t].op = "none"
    BY <1>2, <1>3
  <2>3. done' \subseteq Ever /\ \A u \in Threads \ {t} : th[u].op = "put" => th[u].item \notin done'
    BY <1>0, <1>5, <1>7 DEF LPlacesInv
  <2>4. L!Hands' \cup out' = L!Hands \cup out /\ L!Hands' \cap out' = {}
    BY <1>0, <1>7, <1>10 DEF LPlacesInv
  <2>5. \A u \in Threads : L!InHand(u)' \subseteq L!InHand(u) /\ Pocket(u)' = Pocket(u)
    BY <1>8, <1>15
  <2>6. \A u, v \in Threads : u # v => L!InHand(u)' \cap L!InHand(v)' = {} /\ Pocket(u)' \cap Pocket(v)' = {}
    BY <1>0, <2>5 DEF LPlacesInv
  <2> QED BY <1>0, <1>8, <1>9, <2>1, <2>2, <2>3, <2>4, <2>5, <2>6 DEF LPlacesInv
<1>18. LOrderInv'
  <2>1. \A y \in Items : older'[y] \subseteq done'
    BY <1>0, <1>7 DEF LOrderInv
  <2>2. ASSUME Order = "fifo" PROVE late' = {}
    <3>1. late = {}
      BY <1>0, <2>2 DEF LOrderInv
    <3>2. CASE late' = late
      BY <3>1, <3>2
    <3>3. CASE late' = late \cup (L!First(t, x) \cap L!Held) /\ x \in L!InHand(t)
      <4>1. L!First(t, x) = older[x]
        BY <2>2 DEF L!First, L!Earlier
      <4>2. x \in Ever /\ x \notin After(Steps, head)
        BY <1>0, <1>10, <3>3 DEF LPlacesInv
      <4>3. ASSUME NEW y \in older[x] \cap L!Held PROVE FALSE
        <5>1. x \in After(Steps, y)
          BY <1>0, <4>2 DEF LOrderInv
        <5>2. y \in After(Steps, head) /\ head \in L!Nodes
          BY <1>0, <1>6 DEF LTypeOK
        <5>3. After(Steps, y) \subseteq After(Steps, head)
          BY <1>0, <5>2, StepsFact, AfterTransitive
        <5> QED BY <4>2, <5>1, <5>3
      <4> QED BY <3>1, <3>3, <4>1, <4>3
    <3> QED BY <1>7, <3>2, <3>3
  <2>3. Order = "fifo" => \A u \in Threads : start'[u].late = {}
    BY <1>0, <1>7 DEF LOrderInv, LTypeOK, L!NoMemo
  <2> QED BY <1>0, <1>7, <1>9, <2>1, <2>2, <2>3 DEF LOrderInv
<1> QED BY <1>15, <1>16, <1>17, <1>18 DEF LInv

-----------------------------------------------------------------------------
\* All steps.

LEMMA LInitially == L!Init => LInv
<1> SUFFICES ASSUME L!Init PROVE LInv
  OBVIOUS
<1> USE DEF CombinePcs, BasePcs, OtherPcs, OpPcs, LockPcs
<1>1. /\ mode \in Modes /\ lock = Null /\ waiting = {} /\ head = L!Sentinel /\ tail = L!Sentinel
      /\ next = [x \in L!Nodes |-> L!NoNode] /\ operations = [t \in Threads |-> L!NoOperation]
      /\ th = [t \in Threads |-> L!Idle] /\ done = {} /\ out = {} /\ late = {}
      /\ older = [x \in Items |-> {}] /\ start = [t \in Threads |-> L!NoMemo]
      /\ sight = [t \in Threads |-> FALSE]
  BY DEF L!Init, L!HistoryInit
<1>2. L!Idle.pc = "idle" /\ L!Idle.op = "none" /\ L!Idle.item = Null
  BY DEF L!Idle
<1>3. th \in [Threads -> Locals]
  <2>1. L!NoOperation \in Records
    BY DEF L!NoOperation, L!Operation, Records
  <2>2. ASSUME NEW t \in Threads PROVE L!Idle \in Locals
    <3>1. 0 \in DOMAIN LockedNum
      BY StrictQueuesAssumption, FS_CardinalityType, FS_EmptySet
    <3> QED BY <2>1, <3>1 DEF L!Idle, Locals
  <2> QED BY <1>1, <2>2
<1>4. L!NoMemo \in [done : SUBSET Items, late : SUBSET Items]
  BY DEF L!NoMemo
<1>5. LTypeOK
  <2>1. operations \in [Threads -> Records]
    BY <1>1 DEF L!NoOperation, L!Operation, Records
  <2>2. L!Sentinel \in L!Nodes
    BY DEF L!Nodes
  <2> QED BY <1>1, <1>3, <1>4, <2>1, <2>2 DEF LTypeOK
<1>6. \A x \in L!Nodes : Steps[x] = {}
  BY <1>1, <1>5, StepsFact
<1>7. Steps \in [L!Nodes -> SUBSET L!Nodes] /\ L!Sentinel \in L!Nodes
  BY <1>5, StepsFact
<1>8. \A x \in L!Nodes : After(Steps, x) = {}
  BY <1>6, <1>7, AfterNone
<1>9. Ever = {} /\ After(Steps, head) = {}
  BY <1>1, <1>7, <1>8 DEF Ever
<1>10. Acyclic(Steps)
  BY <1>6, <1>7 DEF Acyclic
<1>11. ChainInv
  BY <1>1, <1>7, <1>9, <1>10 DEF ChainInv
<1>12. \A t \in Threads : th[t] = L!Idle /\ operations[t] = L!NoOperation /\ start[t] = L!NoMemo
  BY <1>1
<1>13. \A t \in Threads : ~Ends(t) /\ ~Holds(t) /\ LPcInv(t) /\ OwnData(t) = {} /\ L!InHand(t) = {} /\ th[t].op # "put"
  BY <1>1, <1>2, <1>12 DEF Ends, Holds, LPcInv, OwnData, L!InHand
<1>14. IF Combines THEN CombineInv ELSE \A t \in Threads : BlockInv(t)
  <2>1. \A t \in Threads : BlockInv(t)
    BY <1>2, <1>12 DEF BlockInv
  <2>2. \A t \in Threads : CombinePc(t) /\ RecordInv(t)
    BY <1>2, <1>12 DEF CombinePc, RecordInv
  <2>3. \A t \in Threads : SubmittedInv(t)
    BY <1>2, <1>12, <1>13 DEF SubmittedInv, Submitted
  <2>4. \A t \in Threads : CombinerInv(t)
    BY <1>2, <1>12, <1>13, <2>2, NotCombining
  <2> QED BY <1>1, <2>1, <2>2, <2>3, <2>4 DEF CombineInv
<1>15. \A u \in Threads : Pocket(u) = {}
  <2> TAKE u \in Threads
  <2> DEFINE S == {th[c].set.data : c \in {d \in Threads : Ends(d) /\ LockedNum[th[d].i] = u}}
  <2>1. S = {}
    BY <1>13
  <2>2. Pocket(u) = OwnData(u) \cup (S \ {Null})
    BY PocketIs
  <2> HIDE DEF S
  <2> QED BY <1>13, <2>1, <2>2
<1>16. LPlacesInv
  <2>1. L!Hands = {}
    BY <1>13 DEF L!Hands
  <2> QED BY <1>1, <1>9, <1>13, <1>15, <2>1 DEF LPlacesInv
<1>17. LOrderInv
  BY <1>1, <1>9, <1>12 DEF LOrderInv, L!NoMemo
<1> QED BY <1>1, <1>5, <1>11, <1>13, <1>14, <1>16, <1>17 DEF LInv, LockInv, L!NoSleeperByItem

\* The one property of LockedQueue's steps.
LEMMA LStep == LInv /\ L!Next => LInv'
<1> SUFFICES ASSUME LInv, NEW t \in Threads,
                    L!CallEnqueue(t) \/ L!CallDequeue(t) \/ L!Step(t) \/ L!Spurious(t)
             PROVE  LInv'
  BY DEF L!Next
<1>1. LPcInv(t) /\ (Combines => CombinePc(t)) /\ (~Combines => BlockInv(t))
  BY CombineFacts DEF LInv, CombineSound
<1>2. CASE L!CallEnqueue(t) \/ L!CallDequeue(t) \/ L!Return(t)
  BY <1>2, EnqueueStep, DequeueStep, ReturnStep
<1>3. CASE L!Link(t) \/ L!Swing(t) \/ L!Take(t) \/ L!Advance(t)
  BY <1>3, BlockLink, BlockSwing, BlockTake, BlockAdvance,
           CombineLink, CombineSwing, CombineTake, CombineAdvance
<1>4. CASE L!LockBased(t) \/ L!Spurious(t)
  <2>1. ~Combines
    <3>1. Combines => waiting = {}
      BY CombineFacts
    <3> QED BY <1>1, <1>4, <3>1 DEF L!LockBased, L!Lock, L!Test, L!Relock, L!Wake, L!Unlock, L!TimedOut, L!Spurious,
               L!StopWaiting, L!At, CombinePc, CombinePcs, BasePcs, OpPcs
  <2>2. L!Lock(t) \/ L!Test(t) \/ L!Relock(t) \/ L!Wake(t) \/ L!Unlock(t) \/ L!StopWaiting(t, TRUE) \/ L!StopWaiting(t, FALSE)
    BY <1>4 DEF L!LockBased, L!TimedOut, L!Spurious
  <2> QED BY <2>1, <2>2, LockStep, TestStep, RelockStep, WakeStep, UnlockStep, StopStep
<1>5. CASE L!Combining(t)
  <2>1. Combines
    BY <1>1, <1>5 DEF L!Combining, L!SetOpFirst, L!SetOpSecond, L!TryLock, L!Poll, L!Scan, L!ReleaseLock, L!Result,
                      L!At, BlockInv, LockPcs, BasePcs
  <2> QED BY <1>5, <2>1, OutsideSetFirst, EndingSetFirst, OutsideSetSecond, EndingSetSecond,
             TryLockStep, PollStep, ScanStep, ReleaseStep, ResultStep DEF L!Combining
<1> QED BY <1>2, <1>3, <1>4, <1>5 DEF L!Step

LEMMA LStutter == LInv /\ UNCHANGED L!vars => LInv'
<1> SUFFICES ASSUME LInv, UNCHANGED L!vars PROVE LInv'
  OBVIOUS
<1>1. UNCHANGED <<th, mode, lock, waiting, head, tail, next, operations, done, out, older, late, start, sight>>
  BY DEF L!vars, L!shared, L!history
<1>2. Steps' = Steps /\ Ever' = Ever /\ L!Nodes' = L!Nodes /\ After(Steps, head)' = After(Steps, head)
      /\ \A x : After(Steps', x) = After(Steps, x)
  BY <1>1, ChainKept DEF L!Nodes
<1>3. \A t \in Threads : /\ (Ends(t)' <=> Ends(t)) /\ (Ending(t)' <=> Ending(t)) /\ (Holds(t)' <=> Holds(t))
                         /\ (Submitted(t)' <=> Submitted(t)) /\ (PastOwn(t)' <=> PastOwn(t))
  BY <1>1 DEF Ends, Ending, Holds, Combines, Submitted, PastOwn
<1>4. LTypeOK'
  BY <1>1, <1>2 DEF LInv, LTypeOK
<1>5. LockInv' /\ ChainInv' /\ \A t \in Threads : LPcInv(t)'
  BY <1>1, <1>2, <1>3 DEF LInv, LockInv, ChainInv, LPcInv
<1>6. IF Combines' THEN CombineInv' ELSE \A t \in Threads : BlockInv(t)'
  <2>1. \A t \in Threads : BlockInv(t) => BlockInv(t)'
    BY <1>1, <1>2 DEF BlockInv
  <2>2. \A t \in Threads : CombinePc(t) /\ RecordInv(t) => CombinePc(t)' /\ RecordInv(t)'
    BY <1>1, <1>2 DEF CombinePc, RecordInv
  <2>3. \A t \in Threads : SubmittedInv(t) => SubmittedInv(t)'
    BY <1>1, <1>2, <1>3 DEF SubmittedInv
  <2>4. \A t, u \in Threads : AtRecord(t, u) => AtRecord(t, u)'
    BY <1>1, <1>2, <1>3 DEF AtRecord
  <2>5. \A t \in Threads : CombinerInv(t) => CombinerInv(t)'
    BY <1>1, <1>3, <2>4 DEF CombinerInv
  <2> QED BY <1>1, <2>1, <2>2, <2>3, <2>5 DEF LInv, Combines, CombineInv
<1>7. LPlacesInv' /\ LOrderInv'
  <2>1. \A u \in Threads : L!InHand(u)' = L!InHand(u) /\ OwnData(u)' = OwnData(u)
    BY <1>1 DEF L!InHand, OwnData
  <2>2. L!Hands' = L!Hands /\ L!Begun' = L!Begun
    BY <1>1, <2>1 DEF L!Hands, L!Begun
  <2>3. \A u \in Threads : Pocket(u)' = Pocket(u)
    BY <1>1, <1>3 DEF Pocket
  <2>4. LPlacesInv'
    BY <1>1, <1>2, <2>1, <2>2, <2>3 DEF LInv, LPlacesInv
  <2> QED BY <1>1, <1>2, <2>4 DEF LInv, LOrderInv
<1>8. L!NoSleeperByItem'
  BY <1>1 DEF LInv, L!NoSleeperByItem, L!IsEmpty
<1> QED BY <1>4, <1>5, <1>6, <1>7, <1>8 DEF LInv

-----------------------------------------------------------------------------
\* What the invariant says of the callers.

LEMMA LConserved == LInv => L!Conserved
<1> SUFFICES ASSUME LInv PROVE L!Conserved
  OBVIOUS
<1>1. LPlacesInv /\ L!Held = After(Steps, head)
  BY EmptyFact DEF LInv
<1>2. ASSUME NEW u \in Threads PROVE Pocket(u) = Pocket(u) \cap (L!Transit \ {Null})
  <2>1. OwnData(u) \subseteq L!Transit \ {Null}
    BY DEF OwnData, L!Transit
  <2>2. {th[c].set.data : c \in {d \in Threads : Ends(d) /\ LockedNum[th[d].i] = u}} \subseteq L!Transit
    BY DEF L!Transit, Ends, OpPcs
  <2> QED BY <2>1, <2>2, PocketIs
<1>3. L!Transit \ {Null} \subseteq UNION {Pocket(u) : u \in Threads}
  <2>1. ASSUME NEW t \in Threads, th[t].op = "get", th[t].item = Null, operations[t].data # Null
        PROVE  operations[t].data \in Pocket(t)
    BY <2>1 DEF Pocket
  <2>2. ASSUME NEW t \in Threads, th[t].pc \in {"op_1", "op_2"}, th[t].then = "scan", th[t].set.data # Null
        PROVE  \E u \in Threads : th[t].set.data \in Pocket(u)
    <3>1. Ends(t) /\ th[t].i \in DOMAIN LockedNum /\ LockedNum[th[t].i] \in Threads
      BY <2>2, StrictQueuesAssumption DEF Ends, OpPcs, LInv, LTypeOK, Locals
    <3> QED BY <2>2, <3>1 DEF Pocket
  <2> QED BY <2>1, <2>2 DEF L!Transit
<1>4. done \subseteq L!Held \cup (L!Transit \ {Null}) \cup L!Hands \cup out
  BY <1>1, <1>2 DEF LPlacesInv
<1>5. (L!Transit \ {Null}) \cap (L!Hands \cup out) = {}
  BY <1>1, <1>3 DEF LPlacesInv
<1> QED BY <1>1, <1>4, <1>5 DEF L!Conserved, L!ConservedIn, LPlacesInv

LEMMA LEmptyIsTrue == LInv => \A t \in Threads : L!SaysEmpty(t) => sight[t]
BY CombineFacts DEF LInv, CombineSound, L!SaysEmpty, RecordInv, BlockInv

LEMMA LInOrder == LInv /\ Order = "fifo" => \A t \in Threads : th[t].item \notin start[t].late
BY DEF LInv, LOrderInv

-----------------------------------------------------------------------------
\* The queues side by side.

LockedInv == Locked => LInv
WaitfreeInv == ~Locked => WInv

\* What L!Next or a stutter does is seen by LInv, and what W!Next does by WInv; no
\* step turns the one kind of queue into the other.
LEMMA LockedInvariant == Spec => []LockedInv
<1>1. Init => LockedInv
  BY LInitially DEF Init, LockedInv, Locked, W!Init
<1>2. LockedInv /\ [Next]_vars => LockedInv'
  <2> SUFFICES ASSUME LockedInv, [Next]_vars, Locked' PROVE LInv'
    BY DEF LockedInv
  <2>1. CASE Locked /\ L!Next
    BY <2>1, LStep DEF LockedInv
  <2>2. CASE ~Locked /\ UNCHANGED ofL
    BY <2>2 DEF Locked, ofL
  <2>3. CASE UNCHANGED vars
    <3>1. Locked /\ UNCHANGED L!vars
      BY <2>3 DEF Locked, vars, ofL, history, L!vars, L!shared, L!history
    <3> QED BY <3>1, LStutter DEF LockedInv
  <2> QED BY <2>1, <2>2, <2>3 DEF Next
<1> QED BY <1>1, <1>2, PTL DEF Spec

LEMMA WaitfreeInvariant == Spec => []WaitfreeInv
<1>1. Init => WaitfreeInv
  <2>1. CASE L!Init
    BY <2>1, StrictQueuesAssumption DEF L!Init, WaitfreeInv, Locked
  <2>2. CASE W!Init
    BY <2>2, InitKept DEF WaitfreeInv
  <2> QED BY <2>1, <2>2 DEF Init
<1>2. LockedInv /\ WaitfreeInv /\ [Next]_vars => WaitfreeInv'
  <2> SUFFICES ASSUME LockedInv, WaitfreeInv, [Next]_vars, ~Locked' PROVE WInv'
    BY DEF WaitfreeInv
  <2>1. CASE ~Locked /\ W!Next
    BY <2>1, NextKept DEF WaitfreeInv
  <2>2. CASE Locked /\ L!Next
    <3>1. LInv'
      BY <2>2, LStep DEF LockedInv
    <3> QED BY <3>1, StrictQueuesAssumption DEF LInv, LTypeOK, Locked
  <2>3. CASE UNCHANGED vars
    <3>1. ~Locked /\ UNCHANGED W!vars
      BY <2>3 DEF Locked, vars, ofL, ofW, history, W!vars, W!shared, W!list, W!history
    <3> QED BY <3>1, WStutter DEF WaitfreeInv
  <2> QED BY <2>1, <2>2, <2>3 DEF Next
<1> QED BY <1>1, <1>2, LockedInvariant, PTL DEF Spec

\* Nobody sleeps on the condition variable next to an item: an enqueue under way will
\* wake everyone (Wake broadcasts, whatever the queue held before).
THEOREM NobodySleepsByAnItem == Spec => []NoSleeperByItem
<1>1. LockedInv => NoSleeperByItem
  BY DEF LockedInv, LInv, NoSleeperByItem
<1> QED BY <1>1, LockedInvariant, PTL

\* No item is lost or got twice, whoever carries out an operation: a combiner, every
\* helper of the wait-free queue at once, or one that is late by any number of steps
\* (Combiner, help_enqueue, help_dequeue).
THEOREM NothingLost == Spec => []Conserved
<1>1. LockedInv /\ WaitfreeInv => Conserved
  BY LConserved, WSafe DEF LockedInv, WaitfreeInv, Conserved
<1> QED BY <1>1, LockedInvariant, WaitfreeInvariant, PTL

\* A dequeue that returns empty-handed is one during which the queue was empty, though
\* it may be another that looked, and marked the descriptor as done.
THEOREM EmptyWasSeen == Spec => []EmptyIsTrue
<1>1. LockedInv /\ WaitfreeInv => EmptyIsTrue
  BY LEmptyIsTrue, WSafe DEF LockedInv, WaitfreeInv, EmptyIsTrue, SaysEmpty, L!SaysEmpty, W!SaysEmpty
<1> QED BY <1>1, LockedInvariant, WaitfreeInvariant, PTL

\* Items leave in the order in which they came, whichever thread carries out an
\* operation, and when.
THEOREM FifoOrder == Order = "fifo" => (Spec => []InOrder)
<1> SUFFICES ASSUME Order = "fifo" PROVE Spec => []InOrder
  OBVIOUS
<1>1. LockedInv /\ WaitfreeInv => InOrder
  BY LInOrder, WSafe DEF LockedInv, WaitfreeInv, InOrder
<1> QED BY <1>1, LockedInvariant, WaitfreeInvariant, PTL

\* A descriptor is marked as done (help_finish_enqueue, help_finish_dequeue, the empty
\* queue) in no step but one in which its operation has been carried out: its node is
\* in the list, the head is claimed for it, or the queue was empty since it was begun.
THEOREM NoneMarkedTooEarly == Spec => DoneOnlyIfCarriedOut
<1>1. LockedInv /\ WaitfreeInv /\ [Next]_vars => [~Locked => W!MarksCarriedOut]_vars
  <2> SUFFICES ASSUME WaitfreeInv, Next, ~Locked PROVE W!MarksCarriedOut
    OBVIOUS
  <2>1. WInv /\ W!Next
    BY DEF WaitfreeInv, Next
  <2> QED BY <2>1, NextMarks
<1> QED BY <1>1, LockedInvariant, WaitfreeInvariant, PTL DEF Spec, DoneOnlyIfCarriedOut
=============================================================================
