------------------------ MODULE WaitfreeQueueProofs ------------------------
(***************************************************************************)
(* The inductive invariant of the wait-free half of StrictQueues, for      *)
(* both versions and every number of threads and items.                    *)
(*                                                                         *)
(* Nothing is ever taken from the list, so that the order in which nodes   *)
(* were linked orders all that a helper remembers, however late it is: its *)
(* head and tail are behind the shared ones, its descriptor is the shared  *)
(* one or older, and a CAS that succeeds found the present, not the past.  *)
(***************************************************************************)
EXTENDS StrictQueues, FiniteSetTheorems, TLAPS

-----------------------------------------------------------------------------
\* A chain: what comes next to each node, nothing or one node, and what comes after.
Closed(s, C) == \A z \in C : s[z] \subseteq C
After(s, x) ==
  {y \in DOMAIN s : \A C \in SUBSET DOMAIN s : s[x] \subseteq C /\ Closed(s, C) => y \in C}
Acyclic(s) == \A C \in SUBSET DOMAIN s : C # {} => \E x \in C : s[x] \cap C = {}

LEMMA AfterClosed ==
  ASSUME NEW S, NEW s \in [S -> SUBSET S], NEW x \in S
  PROVE  /\ After(s, x) \subseteq S /\ s[x] \subseteq After(s, x)
         /\ Closed(s, After(s, x))
         /\ \A C \in SUBSET S : s[x] \subseteq C /\ Closed(s, C) => After(s, x) \subseteq C
BY DEF After, Closed

LEMMA AfterTransitive ==
  ASSUME NEW S, NEW s \in [S -> SUBSET S], NEW x \in S, NEW y \in After(s, x)
  PROVE  After(s, y) \subseteq After(s, x)
<1>1. s[y] \subseteq After(s, x)
  BY AfterClosed DEF Closed
<1> QED BY <1>1, AfterClosed

LEMMA AfterUnfold ==
  ASSUME NEW S, NEW s \in [S -> SUBSET S], NEW x \in S
  PROVE  After(s, x) = s[x] \cup UNION {After(s, z) : z \in s[x]}
<1> DEFINE C == s[x] \cup UNION {After(s, z) : z \in s[x]}
<1>1. \A z \in s[x] : After(s, z) \subseteq After(s, x)
  BY AfterClosed, AfterTransitive
<1>2. C \subseteq After(s, x)
  BY <1>1, AfterClosed
<1>3. Closed(s, C)
  <2>1. ASSUME NEW z \in s[x] PROVE s[z] \subseteq C /\ \A y \in After(s, z) : s[y] \subseteq C
    <3>1. s[z] \subseteq After(s, z) /\ Closed(s, After(s, z))
      BY AfterClosed
    <3>2. After(s, z) \subseteq C
      OBVIOUS
    <3> QED BY <3>1, <3>2 DEF Closed
  <2> QED BY <2>1 DEF Closed
<1>4. After(s, x) \subseteq C
  <2>1. C \subseteq S /\ s[x] \subseteq C
    BY <1>2, AfterClosed
  <2> HIDE DEF C
  <2> QED BY <1>3, <2>1, AfterClosed
<1> QED BY <1>2, <1>4

LEMMA NotAfterItself ==
  ASSUME NEW S, NEW s \in [S -> SUBSET S], Acyclic(s), NEW x \in S
  PROVE  x \notin After(s, x)
<1> SUFFICES ASSUME x \in After(s, x) PROVE FALSE
  OBVIOUS
<1> DEFINE C == {y \in After(s, x) : x \in After(s, y)}
<1>1. x \in C /\ C \subseteq S
  BY AfterClosed
<1>2. ASSUME NEW y \in C PROVE s[y] \cap C # {}
  <2>1. y \in S /\ s[y] \subseteq After(s, x)
    BY AfterClosed DEF Closed
  <2>2. x \in s[y] \/ \E z \in s[y] : x \in After(s, z)
    BY <2>1, AfterUnfold
  <2> QED BY <1>1, <2>1, <2>2
<1> HIDE DEF C
<1> QED BY <1>1, <1>2 DEF Acyclic

\* One node, or nothing, comes next.
LEMMA AfterOne ==
  ASSUME NEW S, NEW s \in [S -> SUBSET S], Acyclic(s), NEW x \in S, NEW y \in S, s[x] = {y}
  PROVE  /\ y \in After(s, x) /\ y \notin After(s, y)
         /\ After(s, x) = {y} \cup After(s, y) /\ After(s, y) = After(s, x) \ {y}
<1>1. After(s, x) = {y} \cup After(s, y)
  BY AfterUnfold
<1>2. y \notin After(s, y)
  BY NotAfterItself
<1> QED BY <1>1, <1>2

LEMMA AfterNone ==
  ASSUME NEW S, NEW s \in [S -> SUBSET S], NEW x \in S, s[x] = {}
  PROVE  After(s, x) = {}
BY AfterUnfold

\* A chain grows at its end.
LEMMA ChainGrows ==
  ASSUME NEW S, NEW s \in [S -> SUBSET S], Acyclic(s),
         NEW x \in S, NEW y \in S, x # y, s[x] = {}, s[y] = {},
         NEW r \in [S -> SUBSET S], r[x] = {y}, \A z \in S \ {x} : r[z] = s[z]
  PROVE  /\ Acyclic(r)
         /\ \A z \in S : After(r, z) = IF z = x \/ x \in After(s, z)
                                       THEN After(s, z) \cup {y} ELSE After(s, z)
<1>1. /\ r[x] = {y} /\ r[y] = {}
      /\ \A z \in S : s[z] \subseteq r[z] /\ (z # x => r[z] = s[z])
  OBVIOUS
<1>2. Acyclic(r)
  <2> SUFFICES ASSUME NEW C \in SUBSET S, C # {} PROVE \E z \in C : r[z] \cap C = {}
    BY <1>1 DEF Acyclic
  <2>1. CASE y \in C
    BY <1>1, <2>1
  <2>2. CASE y \notin C
    <3>1. PICK z \in C : s[z] \cap C = {}
      BY DEF Acyclic
    <3> QED BY <1>1, <2>2, <3>1
  <2> QED BY <2>1, <2>2
<1>3. ASSUME NEW z \in S PROVE After(s, z) \subseteq After(r, z)
  <2>1. Closed(s, After(r, z)) /\ s[z] \subseteq After(r, z) /\ After(r, z) \subseteq S
    BY <1>1, AfterClosed DEF Closed
  <2> QED BY <2>1, AfterClosed
<1>4. ASSUME NEW z \in S, z = x \/ x \in After(s, z) PROVE After(r, z) = After(s, z) \cup {y}
  <2>1. y \in After(r, z)
    <3>1. After(r, z) \subseteq S /\ r[z] \subseteq After(r, z) /\ Closed(r, After(r, z))
      BY <1>1, AfterClosed
    <3> QED BY <1>1, <1>3, <1>4, <3>1 DEF Closed
  <2>2. Closed(r, After(s, z) \cup {y}) /\ r[z] \subseteq After(s, z) \cup {y}
    BY <1>1, AfterClosed DEF Closed
  <2>3. After(s, z) \cup {y} \subseteq S
    BY AfterClosed
  <2>4. After(r, z) \subseteq After(s, z) \cup {y}
    BY <1>1, <2>2, <2>3, AfterClosed
  <2> QED BY <1>3, <2>1, <2>4
<1>5. ASSUME NEW z \in S, z # x, x \notin After(s, z) PROVE After(r, z) = After(s, z)
  <2>1. Closed(r, After(s, z)) /\ r[z] \subseteq After(s, z) /\ After(s, z) \subseteq S
    BY <1>1, <1>5, AfterClosed DEF Closed
  <2>2. After(r, z) \subseteq After(s, z)
    BY <1>1, <2>1, AfterClosed
  <2> QED BY <1>3, <2>2
<1> QED BY <1>1, <1>2, <1>4, <1>5

\* What the recursive definitions of the queues compute: a function that satisfies such
\* an equation is that of what comes after, as the chain has no cycle.
LEMMA AfterRecursion ==
  ASSUME NEW S, NEW s \in [S -> SUBSET S], Acyclic(s), NEW f,
         \A z \in S : f[z] = s[z] \cup UNION {f[y] : y \in s[z]}
  PROVE  \A z \in S : f[z] = After(s, z)
<1> DEFINE C == {z \in S : f[z] # After(s, z)}
<1>1. ASSUME NEW z \in C PROVE s[z] \cap C # {}
  <2>1. PICK y \in s[z] : f[y] # After(s, y)
    <3>1. After(s, z) = s[z] \cup UNION {After(s, y) : y \in s[z]}
      BY AfterUnfold
    <3>2. f[z] = s[z] \cup UNION {f[y] : y \in s[z]}
      OBVIOUS
    <3>3. SUFFICES ASSUME \A y \in s[z] : f[y] = After(s, y) PROVE FALSE
      OBVIOUS
    <3>4. {f[y] : y \in s[z]} = {After(s, y) : y \in s[z]}
      BY <3>3
    <3> QED BY <3>1, <3>2, <3>4
  <2> QED BY <2>1
<1>2. C = {}
  <2> HIDE DEF C
  <2>1. C \subseteq DOMAIN s
    BY DEF C
  <2> QED BY <1>1, <2>1 DEF Acyclic
<1> QED BY <1>2

-----------------------------------------------------------------------------
\* The wait-free queues.

\* What was ever linked, and the order of it.
Succ == [x \in W!Nodes |-> IF next[x] = Null THEN {} ELSE {next[x]}]
Linked == After(Succ, W!Sentinel)
Chain == Linked \cup {W!Sentinel}
Before(x, y) == y \in After(Succ, x)
UpTo(x, y) == x = y \/ Before(x, y)

PutPcs == {"E_pending", "E_tail", "E_next", "E_same", "E_again", "E_node", "E_link"}
EndPutPcs == {"FE_tail", "FE_next", "FE_state", "FE_same", "FE_node", "FE_done", "FE_swing"}
EmptyPcs == {"D_still", "D_empty"}
TakePcs == {"D_mark", "D_cas", "D_claim"}
GetPcs == {"D_pending", "D_head", "D_tail", "D_next", "D_same", "D_state", "D_again"}
          \cup EmptyPcs \cup TakePcs
EndGetPcs == {"FD_head", "FD_next", "FD_tid", "FD_state", "FD_same", "FD_done", "FD_swing"}
FastPutPcs == {"Q_tail", "Q_next", "Q_same", "Q_link"}
FastGetPcs == {"R_head", "R_tail", "R_next", "R_same", "R_tid", "R_take"}
FastPcs == {"check", "fast"} \cup FastPutPcs \cup FastGetPcs
WPcs == {"idle", "return", "max", "publish", "help", "result"} \cup PutPcs \cup EndPutPcs
        \cup GetPcs \cup EndGetPcs \cup FastPcs

NodesOrNone == W!Nodes \cup {Null}
ThreadsOrNone == Threads \cup {Null}
Descriptors == [phase : Nat \cup {W!kNoPhase}, pending : BOOLEAN, type : {"put", "get"},
                node : NodesOrNone]
Heads == [node : NodesOrNone, tid : ThreadsOrNone]
WLocals == [pc : WPcs, op : {"none", "put", "get"}, item : Items \cup {Null}, end : {"left"},
            slow : BOOLEAN, trials : Nat, i : DOMAIN WaitfreeNum, phase : Nat \cup {W!kNoPhase},
            back : {"idle", "help", "finish"},
            then : {"idle", "E_pending", "D_pending", "helped", "return", "result", "fast"},
            head : Heads, tail : NodesOrNone, next : NodesOrNone, cur : Descriptors,
            tid : ThreadsOrNone]

WTypeOK ==
  /\ version \in Versions
  /\ head \in [node : W!Nodes, tid : ThreadsOrNone] /\ tail \in W!Nodes
  /\ next \in [W!Nodes -> Items \cup {Null}]
  /\ enq_tid \in [W!Nodes -> ThreadsOrNone] /\ deq_tid \in [W!Nodes -> ThreadsOrNone]
  /\ state \in [Threads -> Descriptors]
  /\ th \in [Threads -> WLocals]
  /\ done \in SUBSET Items /\ out \in SUBSET Items /\ late \in SUBSET Items
  /\ older \in [Items -> SUBSET Items]
  /\ start \in [Threads -> [done : SUBSET Items, late : SUBSET Items]]
  /\ sight \in [Threads -> BOOLEAN]

Helping(r) == r.pc \in PutPcs \cup GetPcs \/ r.then \in {"E_pending", "helped", "D_pending"}
HelpsPut(r) == r.pc \in PutPcs \/ r.then \in {"E_pending", "helped"}
Finishing(r) == r.then \in {"return", "result"} \/ r.pc = "result" \/ (r.pc = "return" /\ r.slow)

\* Where a thread may be, with what it does.
ControlAt(t, r) ==
  /\ r.pc = "idle" <=> r.op = "none"
  /\ r.pc = "idle" => r = W!Idle
  /\ r.op # "none" => \E i \in DOMAIN WaitfreeNum : WaitfreeNum[i] = t
  /\ r.op = "put" => r.item \in Items
  /\ r.op = "get" /\ r.pc # "return" => r.item = Null
  /\ r.pc \notin EndPutPcs \cup EndGetPcs => r.then = "idle"
  /\ r.pc \in EndPutPcs => r.then \in {"E_pending", "helped", "D_pending", "return", "fast"}
  /\ r.pc \in EndGetPcs => r.then \in {"D_pending", "result", "fast"}
  /\ Helping(r) => r.slow /\ IF version = "ppopp11" THEN r.back = "help"
                             ELSE r.back = "finish" /\ WaitfreeNum[r.i] = t
  /\ r.pc \in {"help", "result"} \/ r.then \in {"return", "result"} => r.slow
  /\ r.pc \in {"max", "publish"} \cup FastPcs \/ r.then = "fast" => ~r.slow
  /\ r.pc \in {"max", "help", "FD_tid"} => version = "ppopp11"
  /\ r.pc \in FastPcs \/ r.then = "fast" => version = "ppopp12"
  /\ r.pc = "publish" /\ version = "ppopp11" => r.i = 0
  /\ r.pc \in FastPutPcs \/ r.then = "return" => r.op = "put"
  /\ r.pc \in FastGetPcs \cup {"result"} \/ r.then = "result" => r.op = "get"
ControlInv(t) == ControlAt(t, th[t])

\* The list: the tail is at its last node or at the one before.
ListInv ==
  /\ Acyclic(Succ) /\ Linked \subseteq Items
  /\ \A x \in W!Nodes \ Chain : next[x] = Null
  /\ head.node \in Chain /\ tail \in Chain /\ UpTo(head.node, tail)
  /\ next[tail] # Null => next[next[tail]] = Null

\* For whom the head is claimed.
Claimant == IF version = "ppopp11" THEN deq_tid[head.node] ELSE head.tid
Claimable(x) == IF version = "ppopp11" THEN deq_tid[x] = W!kTidNotSet
                ELSE head = W!Head(x, W!kTidNotSet)

ClaimInv ==
  /\ Claimant # W!kTidNotSet =>
       /\ state[Claimant].type = "get" /\ state[Claimant].node = head.node
       /\ th[Claimant].slow /\ th[Claimant].op = "get" /\ th[Claimant].item = Null
  /\ version = "ppopp11" =>
       /\ head.tid = W!kTidNotSet
       /\ \A x \in W!Nodes : deq_tid[x] # W!kTidNotSet => x \in Chain /\ UpTo(x, head.node)
       /\ \A x \in Chain : Before(x, head.node) => deq_tid[x] # W!kTidNotSet

\* The descriptor of u.
DescAt(u, r) ==
  LET d == state[u] IN
  /\ d.pending => r.slow /\ d.phase # W!kNoPhase /\ ~Finishing(r)
  /\ r.slow => d.type = r.op /\ (r.op = "put" => d.node = r.item)
  /\ r.slow /\ ~Finishing(r) => d.phase = r.phase
  /\ d.type = "put" /\ d.node # Null => d.node \in Items /\ enq_tid[d.node] = u
  /\ r.slow /\ r.op = "put" /\ ~d.pending => r.item \in Linked
  /\ d.pending /\ d.type = "put" /\ d.node \in Linked => d.node = next[tail]
  /\ d.type = "get" /\ d.node # Null =>
       d.node \in Chain /\ UpTo(d.node, head.node) /\ Before(d.node, tail)
  /\ r.slow /\ r.op = "get" /\ ~d.pending /\ d.node = Null => sight[u]
  /\ r.slow /\ r.op = "get" /\ ~d.pending /\ d.node # Null =>
       IF version = "ppopp11" THEN deq_tid[d.node] = u ELSE (d.node = head.node => head.tid = u)
  /\ ~r.slow /\ r.op = "put" /\ r.pc # "return" => r.item \notin Linked /\ enq_tid[r.item] = W!kTidNotSet
  /\ r.op = "put" /\ r.pc = "return" => r.item \in Linked
  /\ r.op = "get" /\ r.pc = "return" /\ r.item = Null => sight[u]
  /\ r.slow /\ r.op = "get" /\ r.pc = "return" /\ r.item = Null => d.node = Null
DescInv(u) == DescAt(u, th[u])

\* Descriptors and heads never return.
Newer(d, e) ==
  \/ e.phase > d.phase
  \/ /\ e.phase = d.phase /\ d.pending /\ d.type = e.type
     /\ \/ ~e.pending
        \/ d.type = "get" /\ e.node # Null /\ (d.node = Null \/ Before(d.node, e.node))
UpToNow(d, u) == d = state[u] \/ Newer(d, state[u])
HeadNewer(h) == \/ Before(h.node, head.node)
                \/ h.node = head.node /\ h.tid = W!kTidNotSet /\ head.tid # W!kTidNotSet
WasHead(h) == h.node \in Chain /\ (h = head \/ HeadNewer(h))
WasTail(x) == x \in Chain /\ UpTo(x, tail)
Pending(r) == LET d == state[WaitfreeNum[r.i]] IN d.pending /\ d.phase <= r.phase

\* t helps Num[th[t].i].
HelpAt(t, r) ==
  LET u == WaitfreeNum[r.i] IN
  /\ Helping(r) /\ Pending(r) => state[u].type = IF HelpsPut(r) THEN "put" ELSE "get"
  /\ r.pc = "help" \/ Helping(r) =>
       \A j \in DOMAIN WaitfreeNum : WaitfreeNum[j] = t /\ j < r.i => ~state[t].pending
  /\ r.then = "helped" /\ u = t /\ state[t].pending =>
       r.item \in Linked /\ (r.pc # "FE_tail" => r.tail = tail)
HelpInv(t) == HelpAt(t, th[t])

\* The phase that u finds is later than all with which it is helped.
PhaseAt(u, r) ==
  version = "ppopp11" /\ r.pc \in {"max", "publish"} =>
    \A j \in DOMAIN WaitfreeNum :
      r.pc = "publish" \/ j < r.i =>
        /\ WaitfreeNum[j] = u => state[u].phase <= r.phase
        /\ Helping(th[WaitfreeNum[j]]) /\ WaitfreeNum[th[WaitfreeNum[j]].i] = u => th[WaitfreeNum[j]].phase <= r.phase
PhaseInv(u) == PhaseAt(u, th[u])

\* Linking.
LinkAt(t, r) ==
  LET u == WaitfreeNum[r.i] IN
  /\ r.pc \in {"E_next", "E_same", "E_again", "E_node", "E_link", "Q_next", "Q_same", "Q_link"} =>
       WasTail(r.tail)
  /\ r.pc \in {"E_same", "Q_same"} /\ r.next # Null => r.next = next[r.tail]
  /\ r.pc \in {"E_node", "E_link"} /\ next[r.tail] = Null =>
       Pending(r) /\ state[u].node \notin Linked
  /\ r.pc = "E_link" /\ next[r.tail] = Null => r.next = state[u].node
PutInv(t) == LinkAt(t, th[t])

\* Ending an enqueue.
EndPutAt(t, r) ==
  LET u == r.tid IN
  /\ r.pc \in EndPutPcs \ {"FE_tail"} => WasTail(r.tail)
  /\ r.pc \in EndPutPcs \ {"FE_tail", "FE_next"} => r.next = next[r.tail] /\ r.next # Null
  /\ r.pc \in EndPutPcs \ {"FE_tail", "FE_next", "FE_swing"} => u \in Threads /\ enq_tid[r.next] = u
  /\ r.pc \in {"FE_same", "FE_node", "FE_done"} =>
       /\ UpToNow(r.cur, u)
       /\ state[u].pending /\ state[u].type = "put" /\ state[u].node = r.next => r.cur = state[u]
  /\ r.pc = "FE_same" /\ r.cur.type = "get" /\ r.cur.node # Null => WasTail(r.cur.node)
  /\ r.pc \in {"FE_node", "FE_done"} /\ r.cur.type = "get" => r.cur.node # r.next
  /\ r.pc = "FE_done" /\ r.cur = state[u] => r.cur.node = r.next
  /\ r.pc = "FE_swing" =>
       \A v \in Threads : state[v].pending /\ state[v].type = "put" => state[v].node # r.next
EndPutInv(t) == EndPutAt(t, th[t])

\* Looking at head and tail, on either path.
LookAt(t, r) ==
  /\ r.pc \in {"D_tail", "D_next", "D_same", "D_state", "R_tail", "R_next", "R_same", "R_tid", "R_take"}
              \cup EmptyPcs \cup TakePcs \cup {"D_again"} => WasHead(r.head)
  /\ r.pc \in {"D_next", "D_same", "R_next", "R_same"} => WasTail(r.tail) /\ UpTo(r.head.node, r.tail)
  /\ r.pc \in {"D_same", "R_same"} =>
       /\ r.next # Null => r.next = next[r.head.node]
       /\ r.next = Null => r.head.node = r.tail
  /\ r.pc = "D_same" /\ r.next = Null /\ head = r.head /\ Pending(r) => sight[WaitfreeNum[r.i]]
  /\ r.pc = "R_same" /\ r.next = Null /\ head = r.head => sight[t]
  /\ r.pc \in {"R_tid", "R_take"} => r.next = next[r.head.node] /\ r.next # Null /\ Before(r.head.node, tail)
  /\ r.pc = "R_take" /\ head = r.head => head.tid = W!kTidNotSet
LookInv(t) == LookAt(t, th[t])

\* Claiming the head, or finding the queue empty.
GetAt(t, r) ==
  LET u == WaitfreeNum[r.i] IN
  /\ r.pc \in {"D_state", "D_again"} \cup EmptyPcs \cup TakePcs =>
       IF r.tail # Null
       THEN r.pc \notin TakePcs /\ r.tail = r.head.node /\ (Pending(r) => sight[u])
       ELSE r.pc \notin EmptyPcs /\ Before(r.head.node, tail)
  /\ r.pc \in {"D_again", "D_mark", "D_cas"} \cup EmptyPcs =>
       /\ UpToNow(r.cur, u)
       /\ state[u].phase = r.cur.phase \/ state[u].phase > r.phase
       /\ r.cur.type = "get" /\ r.cur.node # Null =>
            /\ r.cur.node \in Chain /\ UpTo(r.cur.node, head.node) /\ Before(r.cur.node, tail)
            /\ r.cur.pending /\ Claimable(r.cur.node) => r.cur = state[u]
       /\ r.pc \in {"D_again", "D_empty"} /\ r.tail # Null /\ r.cur.type = "get" /\ r.cur.node # Null =>
            Before(r.cur.node, r.head.node)
  /\ r.pc \in {"D_mark", "D_cas", "D_empty"} =>
       r.cur.pending /\ r.cur.type = "get" /\ r.cur.phase <= r.phase
  /\ r.pc = "D_cas" /\ r.cur.node # Null => Before(r.cur.node, r.head.node)
  /\ r.pc = "D_claim" /\ Claimable(r.head.node) =>
       state[u].pending /\ state[u].type = "get" /\ state[u].node = r.head.node
GetInv(t) == GetAt(t, th[t])

\* Ending a dequeue.
EndGetAt(t, r) ==
  LET u == r.tid  x == state[t].node IN
  /\ r.pc \in EndGetPcs \ {"FD_head"} => WasHead(r.head)
  /\ r.pc \in EndGetPcs \ {"FD_head", "FD_next"} /\ r.next # Null => r.next = next[r.head.node]
  /\ r.pc \in {"FD_state", "FD_same", "FD_done", "FD_swing"} =>
       u \in Threads /\ IF version = "ppopp11" THEN deq_tid[r.head.node] = u ELSE r.head.tid = u
  /\ r.pc \in {"FD_same", "FD_done"} =>
       /\ UpToNow(r.cur, u)
       /\ head = r.head => /\ r.cur.type = "get" /\ r.cur.node = head.node
                           /\ state[u].pending => r.cur = state[u]
  /\ r.pc \in {"FD_done", "FD_swing"} => r.next # Null
  /\ r.pc = "FD_done" /\ r.cur = state[u] /\ r.cur.pending => head = r.head
  /\ r.pc = "FD_swing" /\ head = r.head => ~state[u].pending
  /\ r.then = "result" /\ r.pc # "FD_head" /\ x # Null =>
       /\ UpTo(x, r.head.node)
       /\ r.head.node = x => /\ version = "ppopp12" => r.head.tid = t
                             /\ r.pc # "FD_next" => r.next # Null
  /\ r.pc = "result" /\ x # Null => head.node # x
EndGetInv(t) == EndGetAt(t, th[t])

\* The item behind the node that u claimed, which it has yet to fetch.
Behind(u) ==
  IF th[u].op = "get" /\ th[u].slow /\ th[u].item = Null /\ ~state[u].pending /\ state[u].node # Null
  THEN {next[state[u].node]} ELSE {}

PlacesInv ==
  LET held == After(Succ, head.node) IN
  /\ done \subseteq Linked /\ Linked \subseteq W!Begun
  /\ \A x \in Linked \ held : x \in W!Hands \cup out \/ \E u \in Threads : x \in Behind(u)
  /\ W!Hands \cup out \subseteq Linked /\ held \cap (W!Hands \cup out) = {} /\ W!Hands \cap out = {}
  /\ \A u \in Threads : Behind(u) \cap (W!Hands \cup out) = {}
  /\ \A t, u \in Threads : t # u => W!InHand(t) \cap W!InHand(u) = {} /\ Behind(t) \cap Behind(u) = {}
  /\ \A t, u \in Threads : t # u /\ th[t].op = "put" /\ th[u].op = "put" => th[t].item # th[u].item
  /\ \A x \in Items : enq_tid[x] # W!kTidNotSet => x \in W!Begun
  /\ \A t \in Threads : th[t].op = "put" => th[t].item \notin done
  /\ held \cap done = {} => \A t \in Threads : th[t].op = "get" => sight[t]

OrderInv ==
  /\ \A x \in Items : older[x] \subseteq done
  /\ \A x \in Linked : \A y \in older[x] : Before(y, x)
  /\ Order = "fifo" => late = {} /\ \A t \in Threads : start[t].late = {}

ThreadAt(t, r) == /\ ControlAt(t, r) /\ DescAt(t, r) /\ HelpAt(t, r) /\ PhaseAt(t, r) /\ LinkAt(t, r)
                  /\ EndPutAt(t, r) /\ LookAt(t, r) /\ GetAt(t, r) /\ EndGetAt(t, r)

ThreadInv(t) == /\ ControlInv(t) /\ DescInv(t) /\ HelpInv(t) /\ PhaseInv(t) /\ PutInv(t)
                /\ EndPutInv(t) /\ LookInv(t) /\ GetInv(t) /\ EndGetInv(t)

WInv == /\ WTypeOK /\ ListInv /\ ClaimInv /\ (\A t \in Threads : ThreadInv(t))
        /\ PlacesInv /\ OrderInv
-----------------------------------------------------------------------------
\* The order in which nodes were linked.

LEMMA SuccFact ==
  ASSUME WTypeOK
  PROVE  /\ Succ \in [W!Nodes -> SUBSET W!Nodes] /\ W!Sentinel \in W!Nodes /\ Items \subseteq W!Nodes
         /\ Null \notin W!Nodes
         /\ \A x \in W!Nodes : next[x] # Null => Succ[x] = {next[x]} /\ next[x] \in Items
         /\ \A x \in W!Nodes : next[x] = Null => Succ[x] = {}
<1>1. W!Sentinel \in W!Nodes /\ Items \subseteq W!Nodes /\ Null \notin W!Nodes
  BY StrictQueuesAssumption, CallHistoryAssumption DEF W!Nodes
<1> QED BY <1>1 DEF Succ, WTypeOK

LEMMA WHeldIs == WTypeOK /\ Acyclic(Succ) => W!Held = After(Succ, head.node)
<1> SUFFICES ASSUME WTypeOK, Acyclic(Succ) PROVE W!Held = After(Succ, head.node)
  OBVIOUS
<1> DEFINE g == [x \in W!Nodes |-> After(Succ, x)]
           f == CHOOSE f : f = [x \in W!Nodes |-> IF next[x] = Null THEN {} ELSE {next[x]} \cup f[next[x]]]
<1>1. \A x \in W!Nodes : After(Succ, x) = IF next[x] = Null THEN {} ELSE {next[x]} \cup After(Succ, next[x])
  <2> TAKE x \in W!Nodes
  <2>1. CASE next[x] = Null
    BY <2>1, SuccFact, AfterNone
  <2>2. CASE next[x] # Null
    <3>1. next[x] \in W!Nodes /\ Succ[x] = {next[x]}
      BY <2>2, SuccFact
    <3> QED BY <2>2, <3>1, SuccFact, AfterOne
  <2> QED BY <2>1, <2>2
<1>2. \A x \in W!Nodes : next[x] # Null => next[x] \in W!Nodes
  BY SuccFact
<1>3. g = [x \in W!Nodes |-> IF next[x] = Null THEN {} ELSE {next[x]} \cup g[next[x]]]
  BY <1>1, <1>2
<1>4. f = [x \in W!Nodes |-> IF next[x] = Null THEN {} ELSE {next[x]} \cup f[next[x]]]
  BY <1>3
<1>5. W!Held = f[head.node]
  BY DEF W!Held
<1> HIDE DEF f
<1>6. ASSUME NEW x \in W!Nodes PROVE f[x] = Succ[x] \cup UNION {f[y] : y \in Succ[x]}
  <2>1. CASE next[x] = Null
    BY <1>4, <2>1, SuccFact
  <2>2. CASE next[x] # Null
    <3>1. f[x] = {next[x]} \cup f[next[x]] /\ Succ[x] = {next[x]}
      BY <1>4, <2>2, SuccFact
    <3> QED BY <3>1
  <2> QED BY <2>1, <2>2
<1>7. \A x \in W!Nodes : f[x] = After(Succ, x)
  BY <1>6, SuccFact, AfterRecursion
<1>8. head.node \in W!Nodes
  BY DEF WTypeOK
<1> QED BY <1>5, <1>7, <1>8

InList == WTypeOK /\ Acyclic(Succ)
WHeldIsRest == W!Held = After(Succ, head.node)

LEMMA WHeldIsNext == InList' => WHeldIsRest'
<1>1. InList => WHeldIsRest
  BY WHeldIs DEF InList, WHeldIsRest
<1> QED BY <1>1, PTL

\* A strict order, total on what was linked, in which next is the successor.
Ordered ==
  /\ \A x, y \in W!Nodes : Before(x, y) => x # y
  /\ \A x, y, z \in W!Nodes : Before(x, y) /\ Before(y, z) => Before(x, z)
  /\ \A x, y \in W!Nodes : Before(x, y) => next[x] # Null /\ UpTo(next[x], y)
  /\ \A x \in W!Nodes : next[x] # Null => next[x] \in W!Nodes /\ Before(x, next[x])
  /\ \A x \in Chain, y \in W!Nodes : Before(x, y) => y \in Linked
  /\ \A x, y \in Chain : x = y \/ Before(x, y) \/ Before(y, x)
  /\ Chain \subseteq W!Nodes /\ W!Sentinel \notin Linked /\ \A x \in Linked : Before(W!Sentinel, x)

LEMMA OrderedFact ==
  ASSUME WTypeOK, ListInv
  PROVE  Ordered
<1>1. /\ Acyclic(Succ) /\ Succ \in [W!Nodes -> SUBSET W!Nodes] /\ W!Sentinel \in W!Nodes
  BY SuccFact DEF ListInv
<1>2. Chain \subseteq W!Nodes /\ Linked \subseteq W!Nodes
  BY <1>1, AfterClosed DEF Chain, Linked
<1>3. \A x, y \in W!Nodes : Before(x, y) => x # y
  BY <1>1, NotAfterItself DEF Before
<1>4. \A x, y, z \in W!Nodes : Before(x, y) /\ Before(y, z) => Before(x, z)
  BY <1>1, AfterTransitive DEF Before
<1>5. ASSUME NEW x \in W!Nodes, next[x] # Null
      PROVE  /\ next[x] \in W!Nodes /\ Before(x, next[x])
             /\ \A y \in W!Nodes : Before(x, y) => UpTo(next[x], y)
  <2>1. next[x] \in W!Nodes /\ Succ[x] = {next[x]}
    BY <1>5, SuccFact
  <2>2. After(Succ, x) = {next[x]} \cup After(Succ, next[x])
    BY <1>1, <2>1, AfterOne
  <2> QED BY <2>1, <2>2 DEF Before, UpTo
<1>6. ASSUME NEW x \in W!Nodes, next[x] = Null, NEW y \in W!Nodes PROVE ~Before(x, y)
  BY <1>1, <1>6, SuccFact, AfterNone DEF Before
<1>7. ASSUME NEW x \in Chain, NEW y \in W!Nodes, Before(x, y) PROVE y \in Linked
  <2>1. CASE x = W!Sentinel
    BY <1>7, <2>1 DEF Before, Linked
  <2>2. CASE x \in Linked
    BY <1>1, <1>7, <2>2, AfterTransitive DEF Before, Linked
  <2> QED BY <2>1, <2>2 DEF Chain
<1>8. ASSUME NEW x \in Chain PROVE \A y \in Chain : x = y \/ Before(x, y) \/ Before(y, x)
  <2> DEFINE C == {y \in W!Nodes : x = y \/ Before(x, y) \/ Before(y, x)}
  <2>1. x \in W!Nodes
    BY <1>2
  <2>2. ASSUME NEW y \in C, NEW z \in Succ[y] PROVE z \in C
    <3>1. y \in W!Nodes /\ next[y] # Null /\ z = next[y] /\ z \in W!Nodes
      BY <2>2, SuccFact
    <3>2. Before(y, z) /\ (Before(y, x) => UpTo(z, x))
      BY <1>5, <2>1, <3>1
    <3> QED BY <1>4, <2>1, <3>1, <3>2 DEF UpTo
  <2>3. W!Sentinel \in C
    <3>1. x = W!Sentinel \/ Before(W!Sentinel, x)
      BY DEF Chain, Linked, Before
    <3> QED BY <1>1, <3>1
  <2>4. C \in SUBSET W!Nodes
    OBVIOUS
  <2> HIDE DEF C
  <2>5. Succ[W!Sentinel] \subseteq C /\ Closed(Succ, C)
    BY <2>2, <2>3 DEF Closed
  <2>6. Linked \subseteq C
    BY <1>1, <2>4, <2>5, AfterClosed DEF Linked
  <2> QED BY <2>3, <2>6 DEF C, Chain
<1>9. W!Sentinel \notin Linked /\ \A x \in Linked : Before(W!Sentinel, x)
  BY <1>1, NotAfterItself DEF Linked, Before
<1>10. \A x, y \in W!Nodes : Before(x, y) => next[x] # Null /\ UpTo(next[x], y)
  BY <1>5, <1>6
<1> QED BY <1>2, <1>3, <1>4, <1>5, <1>7, <1>8, <1>9, <1>10 DEF Ordered

InOrdered == WTypeOK /\ ListInv

LEMMA OrderedNext == InOrdered' => Ordered'
<1>1. InOrdered => Ordered
  BY OrderedFact DEF InOrdered
<1> QED BY <1>1, PTL
-----------------------------------------------------------------------------
\* What a step of t may do to what is shared.

Others(t) == \A u \in Threads \ {t} : th'[u] = th[u]

ListMoves ==
  /\ \A x \in W!Nodes : next[x] # Null => next'[x] = next[x]
  /\ \A x, y \in W!Nodes : Before(x, y) => y \in After(Succ', x)
  /\ Chain \subseteq Chain'
  /\ Linked' # Linked => (\A x \in Chain : next'[x] # Null) /\ tail' = tail
  /\ \A x \in Linked' \ Linked : x = next'[tail]
  /\ \A x \in W!Nodes : enq_tid[x] # W!kTidNotSet => enq_tid'[x] = enq_tid[x]
  /\ \A x \in W!Nodes : deq_tid[x] # W!kTidNotSet => deq_tid'[x] = deq_tid[x]

HeadMoves ==
  \/ head' = head
  \/ /\ Before(head.node, head'.node)
     /\ Claimant # W!kTidNotSet => ~state[Claimant].pending
  \/ /\ version = "ppopp12" /\ head'.node = head.node
     /\ head.tid = W!kTidNotSet /\ head'.tid # W!kTidNotSet

TailMoves ==
  \/ tail' = tail
  \/ /\ Before(tail, tail')
     /\ \A v \in Threads : ~(state[v].pending /\ state[v].type = "put" /\ state[v].node \in Linked)

NeverClaimable == \A x \in W!Nodes : UpTo(x, head.node) /\ Claimable(x)' => Claimable(x)

\* The ways in which u's descriptor changes.
Published(t, u) ==
  LET d == state[u]  e == state'[u] IN
  /\ u = t /\ ~th[t].slow /\ ~d.pending /\ e.pending /\ e.phase > d.phase
  /\ e.type = "put" => e.node \notin Linked'
  /\ \A v \in Threads \ {t} : Helping(th[v]) /\ WaitfreeNum[th[v].i] = t => e.phase > th[v].phase

PutDone(u) ==
  LET d == state[u]  e == state'[u] IN
  d.pending /\ d.type = "put" /\ d.node \in Linked /\ e = [d EXCEPT !.pending = FALSE]

GetDone(u) ==
  LET d == state[u]  e == state'[u] IN
  /\ d.pending /\ d.type = "get" /\ e = [d EXCEPT !.pending = FALSE]
  /\ Claimant = u /\ head' = head /\ deq_tid' = deq_tid

Unclaimable(d) == d.node # Null => \A x \in {d.node} : ~Claimable(x)

FoundEmpty(u) ==
  LET d == state[u]  e == state'[u] IN
  /\ d.pending /\ d.type = "get" /\ e = W!Descriptor(d.phase, FALSE, "get", Null)
  /\ Claimant # u /\ Unclaimable(d) /\ sight[u]

Marked(u) ==
  LET d == state[u]  e == state'[u] IN
  /\ d.pending /\ d.type = "get" /\ e = W!Descriptor(d.phase, TRUE, "get", e.node)
  /\ Claimant # u /\ Unclaimable(d)
  /\ e.node \in Chain /\ UpTo(e.node, head.node) /\ Before(e.node, tail)
  /\ d.node # Null => Before(d.node, e.node)

DescMoves(t) ==
  \A u \in Threads : \/ state'[u] = state[u] \/ Published(t, u) \/ PutDone(u) \/ GetDone(u)
                     \/ FoundEmpty(u) \/ Marked(u)

CallMoves(t) ==
  /\ \A u \in Threads : state[u].pending => th'[u].op = th[u].op
  /\ \A u \in Threads : th[u].op = "get" /\ th'[u].op = "get" /\ sight[u] => sight'[u]
  /\ Helping(th'[t]) => \/ Helping(th[t]) /\ th'[t].i = th[t].i /\ th'[t].phase = th[t].phase
                        \/ state[WaitfreeNum[th'[t].i]].pending \/ WaitfreeNum[th'[t].i] = t
  /\ \A v \in Threads \ {t} : th[v].op = "put" /\ ~th[v].slow /\ th[v].pc # "return" =>
       th[v].item \notin Linked' /\ enq_tid'[th[v].item] = W!kTidNotSet

Moves(t) == /\ WTypeOK' /\ version' = version /\ Others(t)
            /\ ListMoves /\ HeadMoves /\ TailMoves /\ NeverClaimable /\ DescMoves(t) /\ CallMoves(t)

LEMMA NumType ==
  \A i \in DOMAIN WaitfreeNum : WaitfreeNum[i] \in Threads
BY StrictQueuesAssumption

\* What was the head or the tail remains that; what is not the head any more never is again.
LEMMA WasHeadKept ==
  ASSUME WTypeOK, WTypeOK', Ordered, Ordered', ListMoves, HeadMoves, NEW h \in Heads, WasHead(h)
  PROVE  WasHead(h)' /\ (head' = h => head = h)
<1>1. /\ h.node \in Chain /\ h.node \in W!Nodes /\ head.node \in W!Nodes /\ head'.node \in W!Nodes
      /\ Chain \subseteq Chain' /\ W!Nodes' = W!Nodes
  BY DEF WasHead, Ordered, WTypeOK, ListMoves, W!Nodes
<1>2. \A x, y \in W!Nodes : Before(x, y) => Before(x, y)'
  BY DEF ListMoves, Before
<1>3. h = head \/ Before(h.node, head.node) \/ (h.node = head.node /\ h.tid = W!kTidNotSet /\ head.tid # W!kTidNotSet)
  BY DEF WasHead, HeadNewer
<1>4. head' = head \/ Before(head.node, head'.node)
      \/ (head'.node = head.node /\ head.tid = W!kTidNotSet /\ head'.tid # W!kTidNotSet)
  BY DEF HeadMoves
<1>5. /\ \A x, y \in W!Nodes : Before(x, y) => x # y
      /\ \A x, y, z \in W!Nodes : Before(x, y) /\ Before(y, z) => Before(x, z)
  BY DEF Ordered
<1>6. h = head' \/ Before(h.node, head'.node) \/ (h.node = head'.node /\ h.tid = W!kTidNotSet /\ head'.tid # W!kTidNotSet)
  BY <1>1, <1>3, <1>4, <1>5
<1>7. \A y \in W!Nodes : y = head'.node /\ Before(h.node, y) => Before(h.node, y)'
  BY <1>1, <1>2
<1>8. WasHead(h)'
  BY <1>1, <1>6, <1>7 DEF WasHead, HeadNewer, W!kTidNotSet
<1>9. head' = h => head = h
  BY <1>1, <1>3, <1>4, <1>5
<1> QED BY <1>8, <1>9

LEMMA WasTailKept ==
  ASSUME WTypeOK, WTypeOK', Ordered, Ordered', ListMoves, TailMoves, NEW x, WasTail(x)
  PROVE  WasTail(x)'
<1>1. x \in Chain /\ x \in W!Nodes /\ tail \in W!Nodes /\ tail' \in W!Nodes /\ Chain \subseteq Chain'
      /\ W!Nodes' = W!Nodes /\ UpTo(x, tail)
  BY DEF WasTail, Ordered, WTypeOK, ListMoves, W!Nodes
<1>2. \A z, y \in W!Nodes : Before(z, y) => Before(z, y)'
  BY DEF ListMoves, Before
<1>3. x = tail' \/ Before(x, tail')
  BY <1>1 DEF TailMoves, Ordered, UpTo
<1> QED BY <1>1, <1>2, <1>3 DEF WasTail, UpTo

\* The order is kept, for what is not the concern of a step.
LEMMA OrderKept ==
  ASSUME WTypeOK, WTypeOK', Ordered, Ordered', ListMoves, HeadMoves, TailMoves
  PROVE  /\ \A x, y \in W!Nodes : (Before(x, y) => Before(x, y)') /\ (UpTo(x, y) => UpTo(x, y)')
         /\ \A x \in W!Nodes : UpTo(x, head.node) => UpTo(x, head.node)'
         /\ \A x \in W!Nodes : Before(x, head.node) => Before(x, head.node)'
         /\ \A x \in W!Nodes : Before(x, tail) => Before(x, tail)'
<1>1. head.node \in W!Nodes /\ tail \in W!Nodes /\ head'.node \in W!Nodes /\ tail' \in W!Nodes
  BY DEF WTypeOK, W!Nodes
<1>2. \A x, y \in W!Nodes : Before(x, y) => Before(x, y)'
  BY DEF ListMoves, Before
<1>3. \A x, y \in W!Nodes : UpTo(x, y) => UpTo(x, y)'
  BY <1>2 DEF UpTo
<1>4. ASSUME NEW x \in W!Nodes, Before(x, head.node) PROVE Before(x, head'.node)
  BY <1>1, <1>4 DEF HeadMoves, Ordered
<1>5. ASSUME NEW x \in W!Nodes, Before(x, tail) PROVE Before(x, tail')
  BY <1>1, <1>5 DEF TailMoves, Ordered
<1>6. ASSUME NEW x \in W!Nodes, x = head.node PROVE x = head'.node \/ Before(x, head'.node)
  BY <1>6 DEF HeadMoves
<1>7. \A x, y \in W!Nodes : y = head'.node /\ Before(x, y) => Before(x, y)'
  BY <1>2
<1>8. \A x, y \in W!Nodes : y = tail' /\ Before(x, y) => Before(x, y)'
  BY <1>2
<1>9. \A x \in W!Nodes : Before(x, head.node) => Before(x, head.node)'
  BY <1>1, <1>4, <1>7
<1>10. \A x \in W!Nodes : Before(x, tail) => Before(x, tail)'
  BY <1>1, <1>5, <1>8
<1>11. \A x \in W!Nodes : UpTo(x, head.node) => UpTo(x, head.node)'
  BY <1>1, <1>6, <1>7, <1>9 DEF UpTo
<1> QED BY <1>2, <1>3, <1>9, <1>10, <1>11
-----------------------------------------------------------------------------
\* Descriptors change in one direction.

LEMMA NewerOrder ==
  ASSUME Ordered, NEW d \in Descriptors, NEW e \in Descriptors, NEW f \in Descriptors
  PROVE  ~Newer(d, d) /\ (Newer(d, e) /\ Newer(e, f) => Newer(d, f))
<1>1. ~Newer(d, d)
  BY DEF Newer, Descriptors, Ordered, NodesOrNone, W!kNoPhase
<1>2. ASSUME Newer(d, e), Newer(e, f) PROVE Newer(d, f)
  <2>1. /\ d.node # Null => d.node \in W!Nodes
        /\ e.node # Null => e.node \in W!Nodes
        /\ f.node # Null => f.node \in W!Nodes
        /\ d.phase \in Int /\ e.phase \in Int /\ f.phase \in Int
    BY DEF Descriptors, NodesOrNone, W!kNoPhase
  <2>2. \A x, y, z \in W!Nodes : Before(x, y) /\ Before(y, z) => Before(x, z)
    BY DEF Ordered
  <2>3. CASE e.phase > d.phase \/ f.phase > e.phase
    <3>1. e.phase >= d.phase /\ f.phase >= e.phase
      BY <1>2, <2>1 DEF Newer
    <3>2. f.phase > d.phase
      BY <2>1, <2>3, <3>1
    <3> QED BY <3>2 DEF Newer
  <2>4. CASE ~(e.phase > d.phase \/ f.phase > e.phase)
    BY <1>2, <2>1, <2>2, <2>4 DEF Newer
  <2> QED BY <2>3, <2>4
<1> QED BY <1>1, <1>2

LEMMA NewerKept ==
  ASSUME WTypeOK, ListMoves, NEW d \in Descriptors, NEW e \in Descriptors, Newer(d, e)
  PROVE  Newer(d, e)'
<1>1. \A x, y \in W!Nodes : Before(x, y) => Before(x, y)'
  BY DEF ListMoves, Before
<1>2. (d.node # Null => d.node \in W!Nodes) /\ (e.node # Null => e.node \in W!Nodes)
  BY DEF Descriptors, NodesOrNone
<1> QED BY <1>1, <1>2 DEF Newer

LEMMA ChangeIsNewer ==
  ASSUME WTypeOK, WTypeOK', Ordered, NEW t \in Threads, DescMoves(t), NEW u \in Threads
  PROVE  state'[u] = state[u] \/ Newer(state[u], state'[u])
<1>1. state[u] \in Descriptors /\ state'[u] \in Descriptors
  BY DEF WTypeOK
<1>2. CASE Published(t, u)
  BY <1>2 DEF Published, Newer
<1>3. CASE PutDone(u)
  BY <1>1, <1>3 DEF PutDone, Newer, Descriptors
<1>4. CASE GetDone(u)
  BY <1>1, <1>4 DEF GetDone, Newer, Descriptors
<1>5. CASE FoundEmpty(u)
  BY <1>1, <1>5 DEF FoundEmpty, Newer, Descriptors, W!Descriptor
<1>6. CASE Marked(u)
  <2>1. Null \notin Chain
    BY SuccFact DEF Ordered
  <2> QED BY <1>1, <1>6, <2>1 DEF Marked, Newer, Descriptors, W!Descriptor
<1> QED BY <1>2, <1>3, <1>4, <1>5, <1>6 DEF DescMoves

LEMMA UpToNowKept ==
  ASSUME WTypeOK, WTypeOK', Ordered, ListMoves, NEW t \in Threads, DescMoves(t),
         NEW u \in Threads, NEW d \in Descriptors, UpToNow(d, u)
  PROVE  UpToNow(d, u)' /\ (d = state'[u] => d = state[u])
<1> DEFINE s == state[u]
           e == state'[u]
<1>1. s \in Descriptors /\ e \in Descriptors
  BY DEF WTypeOK
<1>2. d = s \/ Newer(d, s)
  BY DEF UpToNow
<1>3. e = s \/ Newer(s, e)
  BY ChangeIsNewer
<1> HIDE DEF s, e
<1>4. d = e \/ Newer(d, e)
  BY <1>1, <1>2, <1>3, NewerOrder
<1>5. d = e => d = s
  BY <1>1, <1>2, <1>3, NewerOrder
<1>6. \A f \in Descriptors : Newer(d, f) => Newer(d, f)'
  BY NewerKept
<1>7. d = state'[u] \/ \A f : f = state'[u] => Newer(d, f)'
  BY <1>1, <1>4, <1>6 DEF e
<1> QED BY <1>5, <1>7 DEF UpToNow, s, e

\* What stays of a descriptor.
LEMMA DescKept ==
  ASSUME WTypeOK, WTypeOK', Ordered, NEW t \in Threads, DescMoves(t), NEW u \in Threads
  PROVE  /\ u # t \/ th[t].slow \/ state[t].pending =>
              /\ state'[u].phase = state[u].phase /\ state'[u].type = state[u].type
              /\ state'[u].pending => state[u].pending
              /\ ~state[u].pending => state'[u] = state[u]
         /\ \A v \in Threads \ {t} : Helping(th[v]) /\ WaitfreeNum[th[v].i] = u =>
              \/ /\ state'[u].phase = state[u].phase /\ state'[u].type = state[u].type
                 /\ state'[u].pending => state[u].pending
              \/ state'[u].phase > th[v].phase
         /\ state'[u].type = "put" /\ state'[u].pending /\ state'[u].node \in Linked' =>
              state'[u] = state[u]
         /\ state[u].pending /\ state[u].type = "put" /\ state[u].node \notin Linked =>
              state'[u] = state[u]
         /\ state[u].type = "put" /\ (u # t \/ th[t].slow \/ state[t].pending) =>
              state'[u].node = state[u].node
         /\ \A x \in W!Nodes : state[u].pending /\ state[u].type = "get" /\ state[u].node = x
                             /\ Claimable(x) /\ Claimant # u => state'[u] = state[u]
         /\ Claimant = u /\ (u # t \/ th[t].slow \/ state[t].pending) =>
              state'[u] = state[u] \/ (~state'[u].pending /\ state'[u].node = state[u].node)
<1>1. state[u] \in Descriptors /\ state'[u] \in Descriptors
  BY DEF WTypeOK
<1>2. CASE state'[u] = state[u]
  BY <1>2
<1>3. CASE Published(t, u)
  BY <1>1, <1>3 DEF Published, Descriptors
<1>4. CASE PutDone(u)
  BY <1>1, <1>4 DEF PutDone, Descriptors
<1>5. CASE GetDone(u)
  BY <1>1, <1>5 DEF GetDone, Descriptors
<1>6. CASE FoundEmpty(u)
  BY <1>1, <1>6, SuccFact DEF FoundEmpty, Descriptors, W!Descriptor, Unclaimable
<1>7. CASE Marked(u)
  BY <1>1, <1>7, SuccFact DEF Marked, Descriptors, W!Descriptor, Unclaimable
<1> QED BY <1>2, <1>3, <1>4, <1>5, <1>6, <1>7 DEF DescMoves
-----------------------------------------------------------------------------
\* What the other threads rely on is kept.

\* The other thread, with locals r, helping u.
LEMMA OtherFacts ==
  ASSUME WInv, NEW t \in Threads, Moves(t), Ordered, Ordered', NEW v \in Threads \ {t}, NEW r, r = th[v]
  PROVE  /\ th'[v] = r /\ r \in WLocals
         /\ \A h \in Heads : WasHead(h) => WasHead(h)' /\ (head' = h => head = h)
         /\ \A x : WasTail(x) => WasTail(x)'
         /\ \A u \in Threads, d \in Descriptors :
              UpToNow(d, u) => UpToNow(d, u)' /\ (d = state'[u] => d = state[u])
         /\ WaitfreeNum[r.i] \in Threads
         /\ \A u \in Threads : state[u] \in Descriptors /\ state'[u] \in Descriptors
         /\ Helping(r) /\ Pending(r)' => Pending(r) /\ state'[WaitfreeNum[r.i]].type = state[WaitfreeNum[r.i]].type
         /\ Chain \subseteq W!Nodes /\ Null \notin W!Nodes /\ Chain \subseteq Chain'
<1>1. th'[v] = r /\ r \in WLocals
  BY DEF Moves, Others, WInv, WTypeOK
<1>2. WTypeOK /\ WTypeOK' /\ ListMoves /\ HeadMoves /\ TailMoves /\ DescMoves(t)
  BY DEF WInv, Moves
<1>3. \A h \in Heads : WasHead(h) => WasHead(h)' /\ (head' = h => head = h)
  BY <1>2, WasHeadKept
<1>4. \A x : WasTail(x) => WasTail(x)'
  BY <1>2, WasTailKept
<1>5. \A u \in Threads, d \in Descriptors :
        UpToNow(d, u) => UpToNow(d, u)' /\ (d = state'[u] => d = state[u])
  BY <1>2, UpToNowKept
<1>6. WaitfreeNum[r.i] \in Threads
  BY <1>1, NumType DEF WLocals
<1>7. \A u \in Threads : state[u] \in Descriptors /\ state'[u] \in Descriptors
  BY <1>2 DEF WTypeOK
<1>8. Helping(r) /\ Pending(r)' => Pending(r) /\ state'[WaitfreeNum[r.i]].type = state[WaitfreeNum[r.i]].type
  <2> SUFFICES ASSUME Helping(r), Pending(r)'
               PROVE  Pending(r) /\ state'[WaitfreeNum[r.i]].type = state[WaitfreeNum[r.i]].type
    OBVIOUS
  <2> DEFINE u == WaitfreeNum[r.i]
  <2>1. \/ /\ state'[u].phase = state[u].phase /\ state'[u].type = state[u].type
           /\ state'[u].pending => state[u].pending
        \/ state'[u].phase > r.phase
    BY <1>2, <1>6, DescKept
  <2>2. state'[u].pending /\ state'[u].phase <= r.phase
    BY DEF Pending
  <2>3. state'[u].phase \in Int /\ r.phase \in Int
    BY <1>1, <1>6, <1>7 DEF Descriptors, WLocals, W!kNoPhase
  <2>4. state'[u].phase = state[u].phase /\ state'[u].type = state[u].type /\ state[u].pending
    BY <2>1, <2>2, <2>3
  <2> QED BY <2>2, <2>4 DEF Pending
<1>9. Chain \subseteq W!Nodes /\ Null \notin W!Nodes /\ Chain \subseteq Chain'
  BY <1>2, SuccFact DEF Ordered, ListMoves
<1> QED BY <1>1, <1>3, <1>4, <1>5, <1>6, <1>7, <1>8, <1>9

LEMMA OtherControl ==
  ASSUME WInv, NEW t \in Threads, Moves(t), NEW v \in Threads \ {t}
  PROVE  ControlInv(v)'
<1>1. ControlInv(v) /\ th'[v] = th[v] /\ version' = version
  BY DEF WInv, ThreadInv, Moves, Others
<1> QED BY <1>1 DEF ControlInv, ControlAt, Helping, W!Idle

LEMMA OtherPut ==
  ASSUME WInv, NEW t \in Threads, Moves(t), Ordered, Ordered', NEW v \in Threads \ {t}
  PROVE  PutInv(v)'
<1> PICK r : r = th[v]
  OBVIOUS
<1>1. /\ th'[v] = r /\ r \in WLocals
      /\ \A x : WasTail(x) => WasTail(x)'
      /\ WaitfreeNum[r.i] \in Threads
      /\ Chain \subseteq W!Nodes /\ Null \notin W!Nodes
  BY OtherFacts
<1>2. PutInv(v) /\ HelpInv(v)
  BY DEF WInv, ThreadInv
<1>3. \A x \in W!Nodes : next[x] # Null => next'[x] = next[x]
  BY DEF Moves, ListMoves
<1>4. r.pc \in {"E_next", "E_same", "E_again", "E_node", "E_link", "Q_next", "Q_same", "Q_link"} =>
        WasTail(r.tail) /\ r.tail \in W!Nodes
  BY <1>1, <1>2 DEF PutInv, LinkAt, WasTail
<1>5. r.pc \in {"E_same", "Q_same"} /\ r.next # Null => r.next = next'[r.tail]
  BY <1>2, <1>3, <1>4 DEF PutInv, LinkAt
<1>6. ASSUME r.pc \in {"E_node", "E_link"}, next'[r.tail] = Null
      PROVE  /\ Pending(r)' /\ state'[WaitfreeNum[r.i]].node \notin Linked'
             /\ r.pc = "E_link" => r.next = state'[WaitfreeNum[r.i]].node
  <2>1. next[r.tail] = Null /\ r.tail \in Chain
    BY <1>3, <1>4, <1>6 DEF WasTail
  <2>2. Linked' = Linked
    BY <1>6, <2>1 DEF Moves, ListMoves
  <2> DEFINE u == WaitfreeNum[r.i]
  <2>3. Pending(r) /\ state[u].node \notin Linked /\ (r.pc = "E_link" => r.next = state[u].node)
    BY <1>2, <1>6, <2>1 DEF PutInv, LinkAt
  <2>4. state[u].pending /\ state[u].type = "put"
    BY <1>2, <1>6, <2>3 DEF HelpInv, HelpAt, Helping, HelpsPut, PutPcs, Pending
  <2>5. state'[u] = state[u]
    BY <1>1, <2>3, <2>4, DescKept DEF WInv, Moves
  <2> QED BY <2>2, <2>3, <2>5 DEF Pending
<1> QED BY <1>1, <1>4, <1>5, <1>6 DEF PutInv, LinkAt

LEMMA OtherEndPut ==
  ASSUME WInv, NEW t \in Threads, Moves(t), Ordered, Ordered', NEW v \in Threads \ {t}
  PROVE  EndPutInv(v)'
<1> PICK r : r = th[v]
  OBVIOUS
<1> DEFINE u == r.tid
<1>1. /\ th'[v] = r /\ r \in WLocals
      /\ \A x : WasTail(x) => WasTail(x)'
      /\ \A w \in Threads, d \in Descriptors :
           UpToNow(d, w) => UpToNow(d, w)' /\ (d = state'[w] => d = state[w])
      /\ Chain \subseteq W!Nodes /\ Null \notin W!Nodes
  BY OtherFacts
<1>2. EndPutInv(v)
  BY DEF WInv, ThreadInv
<1>3. \A x \in W!Nodes : /\ next[x] # Null => next'[x] = next[x]
                         /\ enq_tid[x] # W!kTidNotSet => enq_tid'[x] = enq_tid[x]
  BY DEF Moves, ListMoves
<1>4. r.pc \in EndPutPcs \ {"FE_tail"} => WasTail(r.tail) /\ r.tail \in W!Nodes
  BY <1>1, <1>2 DEF EndPutInv, EndPutAt, WasTail
<1>5. r.pc \in EndPutPcs \ {"FE_tail", "FE_next"} =>
        r.next = next[r.tail] /\ r.next = next'[r.tail] /\ r.next # Null /\ r.next \in Linked /\ r.next \in W!Nodes
  <2> SUFFICES ASSUME r.pc \in EndPutPcs \ {"FE_tail", "FE_next"}
               PROVE r.next = next[r.tail] /\ r.next = next'[r.tail] /\ r.next # Null /\ r.next \in Linked /\ r.next \in W!Nodes
    OBVIOUS
  <2>1. r.next = next[r.tail] /\ r.next # Null
    BY <1>2 DEF EndPutInv, EndPutAt
  <2>2. r.tail \in Chain /\ r.tail \in W!Nodes
    BY <1>4 DEF WasTail
  <2>3. next[r.tail] # Null /\ next'[r.tail] = next[r.tail]
    BY <1>3, <2>1, <2>2
  <2>4. next[r.tail] \in Linked /\ next[r.tail] \in W!Nodes
    BY <1>1, <2>2, <2>3 DEF Ordered, Chain
  <2> QED BY <2>1, <2>3, <2>4
<1>6. r.pc \in EndPutPcs \ {"FE_tail", "FE_next", "FE_swing"} => u \in Threads /\ enq_tid'[r.next] = u
  <2> SUFFICES ASSUME r.pc \in EndPutPcs \ {"FE_tail", "FE_next", "FE_swing"}
               PROVE u \in Threads /\ enq_tid'[r.next] = u
    OBVIOUS
  <2>1. u \in Threads /\ enq_tid[r.next] = u /\ r.next \in W!Nodes
    BY <1>2, <1>5 DEF EndPutInv, EndPutAt
  <2>2. u # W!kTidNotSet
    BY <2>1, StrictQueuesAssumption DEF W!kTidNotSet
  <2>3. enq_tid'[r.next] = enq_tid[r.next]
    BY <1>3, <2>1, <2>2
  <2> QED BY <2>1, <2>3
<1>7. r.cur \in Descriptors
  BY <1>1 DEF WLocals
<1>8. \A w \in Threads : state'[w].pending /\ state'[w].type = "put" /\ state'[w].node = r.next
                         /\ r.pc \in EndPutPcs \ {"FE_tail", "FE_next"} => state'[w] = state[w]
  <2>1. Linked \subseteq Linked'
    BY DEF Moves, ListMoves, Chain, Ordered
  <2>2. WTypeOK /\ WTypeOK' /\ DescMoves(t)
    BY DEF WInv, Moves
  <2> QED BY <1>5, <2>1, <2>2, DescKept
<1>9. r.pc \in {"FE_same", "FE_node", "FE_done"} =>
       /\ UpToNow(r.cur, u)'
       /\ state'[u].pending /\ state'[u].type = "put" /\ state'[u].node = r.next => r.cur = state'[u]
       /\ r.cur = state'[u] => r.cur = state[u]
  <2> SUFFICES ASSUME r.pc \in {"FE_same", "FE_node", "FE_done"}
               PROVE  /\ UpToNow(r.cur, u)'
                      /\ state'[u].pending /\ state'[u].type = "put" /\ state'[u].node = r.next => r.cur = state'[u]
                      /\ r.cur = state'[u] => r.cur = state[u]
    OBVIOUS
  <2>1. u \in Threads /\ UpToNow(r.cur, u)
    BY <1>2 DEF EndPutInv, EndPutAt, EndPutPcs
  <2>2. state[u].pending /\ state[u].type = "put" /\ state[u].node = r.next => r.cur = state[u]
    BY <1>2 DEF EndPutInv, EndPutAt
  <2>3. r.pc \in EndPutPcs \ {"FE_tail", "FE_next"}
    BY DEF EndPutPcs
  <2> QED BY <1>1, <1>7, <1>8, <2>1, <2>2, <2>3
<1>10. r.pc = "FE_same" /\ r.cur.type = "get" /\ r.cur.node # Null => WasTail(r.cur.node)'
  BY <1>1, <1>2 DEF EndPutInv, EndPutAt
<1>11. r.pc \in {"FE_node", "FE_done"} /\ r.cur.type = "get" => r.cur.node # r.next
  BY <1>2 DEF EndPutInv, EndPutAt
<1>12. r.pc = "FE_done" /\ r.cur = state'[u] => r.cur.node = r.next
  BY <1>2, <1>9 DEF EndPutInv, EndPutAt
<1>13. r.pc = "FE_swing" =>
         \A w \in Threads : state'[w].pending /\ state'[w].type = "put" => state'[w].node # r.next
  BY <1>2, <1>8 DEF EndPutInv, EndPutAt, EndPutPcs
<1> QED BY <1>1, <1>4, <1>5, <1>6, <1>9, <1>10, <1>11, <1>12, <1>13 DEF EndPutInv, EndPutAt

LEMMA PendingOp ==
  ASSUME WInv, NEW u \in Threads, state[u].pending
  PROVE  th[u].slow /\ state[u].type = th[u].op /\ ~Finishing(th[u])
BY DEF WInv, ThreadInv, DescInv, DescAt

LEMMA OtherLook ==
  ASSUME WInv, NEW t \in Threads, Moves(t), Ordered, Ordered', NEW v \in Threads \ {t}
  PROVE  LookInv(v)'
<1> PICK r : r = th[v]
  OBVIOUS
<1> DEFINE u == WaitfreeNum[r.i]
<1>1. /\ th'[v] = r /\ r \in WLocals
      /\ \A h \in Heads : WasHead(h) => WasHead(h)' /\ (head' = h => head = h)
      /\ \A x : WasTail(x) => WasTail(x)'
      /\ u \in Threads
      /\ Helping(r) /\ Pending(r)' => Pending(r) /\ state'[u].type = state[u].type
      /\ Chain \subseteq W!Nodes /\ Null \notin W!Nodes
  BY OtherFacts
<1>2. LookInv(v) /\ HelpInv(v) /\ ControlInv(v)
  BY DEF WInv, ThreadInv
<1>3. \A x \in W!Nodes : next[x] # Null => next'[x] = next[x]
  BY DEF Moves, ListMoves
<1>4. r.head \in Heads
  BY <1>1 DEF WLocals
<1> DEFINE look == {"D_tail", "D_next", "D_same", "D_state", "R_tail", "R_next", "R_same", "R_tid", "R_take"}
                   \cup EmptyPcs \cup TakePcs \cup {"D_again"}
<1>5. r.pc \in look => WasHead(r.head) /\ WasHead(r.head)' /\ (head' = r.head => head = r.head) /\ r.head.node \in W!Nodes
  BY <1>1, <1>2, <1>4 DEF LookInv, LookAt, WasHead
<1>6. r.pc \in {"D_next", "D_same", "R_next", "R_same"} => WasTail(r.tail)' /\ UpTo(r.head.node, r.tail)'
  <2> SUFFICES ASSUME r.pc \in {"D_next", "D_same", "R_next", "R_same"}
               PROVE  WasTail(r.tail)' /\ UpTo(r.head.node, r.tail)'
    OBVIOUS
  <2>1. WasTail(r.tail) /\ UpTo(r.head.node, r.tail)
    BY <1>2 DEF LookInv, LookAt
  <2>2. r.head.node \in W!Nodes /\ r.tail \in W!Nodes
    BY <1>1, <1>5, <2>1 DEF WasTail
  <2>3. \A x, y \in W!Nodes : UpTo(x, y) => UpTo(x, y)'
    BY OrderKept DEF WInv, Moves
  <2> QED BY <1>1, <2>1, <2>2, <2>3
<1>7. r.pc \in {"D_same", "R_same"} =>
       /\ r.next # Null => r.next = next'[r.head.node]
       /\ r.next = Null => r.head.node = r.tail
  BY <1>2, <1>3, <1>5 DEF LookInv, LookAt
<1>8. r.pc = "D_same" /\ r.next = Null /\ head' = r.head /\ Pending(r)' => sight'[u]
  <2> SUFFICES ASSUME r.pc = "D_same", r.next = Null, head' = r.head, Pending(r)' PROVE sight'[u]
    OBVIOUS
  <2>1. Helping(r)
    BY DEF Helping, GetPcs
  <2>2. head = r.head /\ Pending(r)
    BY <1>1, <1>5, <2>1
  <2>3. sight[u] /\ state[u].type = "get"
    BY <1>2, <2>1, <2>2 DEF LookInv, LookAt, HelpInv, HelpAt, HelpsPut, PutPcs, ControlInv, ControlAt, EndPutPcs, EndGetPcs
  <2>4. state[u].pending
    BY <2>2 DEF Pending
  <2>5. th[u].op = "get" /\ th'[u].op = "get"
    BY <1>1, <2>3, <2>4, PendingOp DEF Moves, CallMoves
  <2> QED BY <1>1, <2>3, <2>5 DEF Moves, CallMoves
<1>9. r.pc = "R_same" /\ r.next = Null /\ head' = r.head => sight'[v]
  <2> SUFFICES ASSUME r.pc = "R_same", r.next = Null, head' = r.head PROVE sight'[v]
    OBVIOUS
  <2>1. sight[v] /\ r.op = "get"
    BY <1>2, <1>5 DEF LookInv, LookAt, ControlInv, ControlAt, FastGetPcs
  <2> QED BY <1>1, <2>1 DEF Moves, CallMoves
<1>10. r.pc \in {"R_tid", "R_take"} => r.next = next'[r.head.node] /\ r.next # Null /\ Before(r.head.node, tail)'
  <2> SUFFICES ASSUME r.pc \in {"R_tid", "R_take"}
               PROVE  r.next = next'[r.head.node] /\ r.next # Null /\ Before(r.head.node, tail)'
    OBVIOUS
  <2>1. r.next = next[r.head.node] /\ r.next # Null /\ Before(r.head.node, tail)
    BY <1>2 DEF LookInv, LookAt
  <2>2. \A x \in W!Nodes : Before(x, tail) => Before(x, tail)'
    BY OrderKept DEF WInv, Moves
  <2> QED BY <1>3, <1>5, <2>1, <2>2
<1>11. r.pc = "R_take" /\ head' = r.head => head'.tid = W!kTidNotSet
  BY <1>2, <1>5 DEF LookInv, LookAt
<1> QED BY <1>1, <1>5, <1>6, <1>7, <1>8, <1>9, <1>10, <1>11 DEF LookInv, LookAt, W!kTidNotSet

LEMMA OtherGet ==
  ASSUME WInv, NEW t \in Threads, Moves(t), Ordered, Ordered', NEW v \in Threads \ {t}
  PROVE  GetInv(v)'
<1> PICK r : r = th[v]
  OBVIOUS
<1> DEFINE u == WaitfreeNum[r.i]
           c == r.cur.node
           get == {"D_state", "D_again"} \cup EmptyPcs \cup TakePcs
           cur == {"D_again", "D_mark", "D_cas"} \cup EmptyPcs
<1>1. /\ th'[v] = r /\ r \in WLocals
      /\ \A h \in Heads : WasHead(h) => WasHead(h)' /\ (head' = h => head = h)
      /\ \A w \in Threads, d \in Descriptors :
           UpToNow(d, w) => UpToNow(d, w)' /\ (d = state'[w] => d = state[w])
      /\ u \in Threads
      /\ Helping(r) /\ Pending(r)' => Pending(r) /\ state'[u].type = state[u].type
      /\ Chain \subseteq W!Nodes /\ Null \notin W!Nodes /\ Chain \subseteq Chain'
  BY OtherFacts
<1>2. GetInv(v) /\ HelpInv(v) /\ ControlInv(v) /\ LookInv(v)
  BY DEF WInv, ThreadInv
<1>3. /\ \A x, y \in W!Nodes : (Before(x, y) => Before(x, y)') /\ (UpTo(x, y) => UpTo(x, y)')
      /\ \A x \in W!Nodes : UpTo(x, head.node) => UpTo(x, head.node)'
      /\ \A x \in W!Nodes : Before(x, tail) => Before(x, tail)'
      /\ \A x \in W!Nodes : UpTo(x, head.node) /\ Claimable(x)' => Claimable(x)
  BY OrderKept DEF WInv, Moves, NeverClaimable
<1>4. r.pc \in get => WasHead(r.head) /\ r.head.node \in Chain /\ r.head.node \in W!Nodes /\ UpTo(r.head.node, head.node)
  <2> SUFFICES ASSUME r.pc \in get
               PROVE WasHead(r.head) /\ r.head.node \in Chain /\ r.head.node \in W!Nodes /\ UpTo(r.head.node, head.node)
    OBVIOUS
  <2>1. WasHead(r.head)
    BY <1>2 DEF LookInv, LookAt
  <2> QED BY <1>1, <2>1 DEF WasHead, HeadNewer, UpTo
<1>5. r.pc \in get => Helping(r) /\ ~HelpsPut(r)
  BY <1>2 DEF Helping, HelpsPut, GetPcs, PutPcs, EmptyPcs, TakePcs, ControlInv, ControlAt, EndPutPcs, EndGetPcs
<1>6. r.pc \in get =>
       IF r.tail # Null
       THEN r.pc \notin TakePcs /\ r.tail = r.head.node /\ (Pending(r)' => sight'[u])
       ELSE r.pc \notin EmptyPcs /\ Before(r.head.node, tail)'
  <2>1. ASSUME r.pc \in get, r.tail # Null, Pending(r)' PROVE sight'[u]
    <3>1. Pending(r) /\ sight[u] /\ state[u].type = "get"
      BY <1>1, <1>2, <1>5, <2>1 DEF GetInv, GetAt, HelpInv, HelpAt
    <3>2. th[u].op = "get" /\ th'[u].op = "get"
      BY <1>1, <3>1, PendingOp DEF Pending, Moves, CallMoves
    <3> QED BY <1>1, <3>1, <3>2 DEF Moves, CallMoves
  <2>2. ASSUME r.pc \in get, r.tail # Null PROVE r.pc \notin TakePcs /\ r.tail = r.head.node
    BY <1>2, <2>2 DEF GetInv, GetAt
  <2>3. ASSUME r.pc \in get, r.tail = Null PROVE r.pc \notin EmptyPcs /\ Before(r.head.node, tail)'
    BY <1>2, <1>3, <1>4, <2>3 DEF GetInv, GetAt
  <2> QED BY <2>1, <2>2, <2>3
<1>7. ASSUME r.pc \in cur
      PROVE  /\ UpToNow(r.cur, u)'
             /\ state'[u].phase = r.cur.phase \/ state'[u].phase > r.phase
             /\ r.cur.type = "get" /\ c # Null =>
                  /\ c \in Chain' /\ UpTo(c, head.node)' /\ Before(c, tail)'
                  /\ r.cur.pending /\ Claimable(c)' => r.cur = state'[u]
             /\ r.pc \in {"D_again", "D_empty"} /\ r.tail # Null /\ r.cur.type = "get" /\ c # Null =>
                  Before(c, r.head.node)'
  <2>1. /\ UpToNow(r.cur, u) /\ r.cur \in Descriptors
        /\ state[u].phase = r.cur.phase \/ state[u].phase > r.phase
        /\ r.cur.type = "get" /\ c # Null =>
             /\ c \in Chain /\ UpTo(c, head.node) /\ Before(c, tail)
             /\ r.cur.pending /\ Claimable(c) => r.cur = state[u]
        /\ r.pc \in {"D_again", "D_empty"} /\ r.tail # Null /\ r.cur.type = "get" /\ c # Null =>
             Before(c, r.head.node)
    BY <1>1, <1>2, <1>7 DEF GetInv, GetAt, WLocals
  <2>2. UpToNow(r.cur, u)'
    BY <1>1, <2>1
  <2>3. Helping(r) /\ r.pc \in get
    BY <1>5, <1>7 DEF EmptyPcs, TakePcs
  <2>4. state'[u].phase = state[u].phase \/ state'[u].phase > r.phase
    <3>1. WTypeOK /\ WTypeOK' /\ DescMoves(t)
      BY DEF WInv, Moves
    <3> QED BY <1>1, <2>3, <3>1, DescKept
  <2>5. state'[u].phase = r.cur.phase \/ state'[u].phase > r.phase
    BY <2>1, <2>4
  <2>6. ASSUME r.cur.type = "get", c # Null
        PROVE  /\ c \in Chain' /\ UpTo(c, head.node)' /\ Before(c, tail)'
               /\ r.cur.pending /\ Claimable(c)' => r.cur = state'[u]
               /\ r.pc \in {"D_again", "D_empty"} /\ r.tail # Null => Before(c, r.head.node)'
    <3>1. c \in W!Nodes
      BY <1>1, <2>1, <2>6
    <3>2. ASSUME r.cur.pending, Claimable(c)' PROVE r.cur = state'[u]
      <4>1. Claimable(c) /\ r.cur = state[u]
        BY <1>3, <2>1, <2>6, <3>1, <3>2
      <4>2. Claimant # u
        <5>1. UpTo(c, head.node) /\ c \in Chain /\ u # W!kTidNotSet
          BY <1>1, <2>1, <2>6, StrictQueuesAssumption DEF W!kTidNotSet
        <5>2. Claimant = u => c = head.node
          BY <1>1, <4>1, <5>1 DEF WInv, ClaimInv
        <5> QED BY <4>1, <5>1, <5>2 DEF Claimant, Claimable, W!Head
      <4>3. WTypeOK /\ WTypeOK' /\ DescMoves(t)
        BY DEF WInv, Moves
      <4> QED BY <1>1, <2>6, <3>1, <3>2, <4>1, <4>2, <4>3, DescKept
    <3>3. \A x \in W!Nodes : x = r.head.node /\ Before(c, x) => Before(c, x)'
      BY <1>3, <3>1
    <3> QED BY <1>1, <1>3, <1>4, <2>1, <2>3, <2>6, <3>1, <3>2, <3>3
  <2> QED BY <2>2, <2>5, <2>6
<1>8. r.pc \in {"D_mark", "D_cas", "D_empty"} =>
       r.cur.pending /\ r.cur.type = "get" /\ r.cur.phase <= r.phase
  BY <1>2 DEF GetInv, GetAt
<1>9. r.pc = "D_cas" /\ c # Null => Before(c, r.head.node)'
  <2> SUFFICES ASSUME r.pc = "D_cas", c # Null PROVE Before(c, r.head.node)'
    OBVIOUS
  <2>1. Before(c, r.head.node) /\ c \in Chain /\ r.head.node \in W!Nodes
    BY <1>2, <1>4 DEF GetInv, GetAt, TakePcs
  <2> QED BY <1>1, <1>3, <2>1
<1>10. r.pc = "D_claim" /\ Claimable(r.head.node)' =>
       state'[u].pending /\ state'[u].type = "get" /\ state'[u].node = r.head.node
  <2> SUFFICES ASSUME r.pc = "D_claim", Claimable(r.head.node)'
               PROVE  state'[u].pending /\ state'[u].type = "get" /\ state'[u].node = r.head.node
    OBVIOUS
  <2>1. r.pc \in get
    BY DEF TakePcs
  <2>2. Claimable(r.head.node)
    BY <1>3, <1>4, <2>1
  <2>3. state[u].pending /\ state[u].type = "get" /\ state[u].node = r.head.node
    BY <1>2, <2>2 DEF GetInv, GetAt
  <2>4. Claimant # u
    <3>1. u # W!kTidNotSet
      BY <1>1, StrictQueuesAssumption DEF W!kTidNotSet
    <3>2. Claimant = u => r.head.node = head.node
      BY <2>3, <3>1 DEF WInv, ClaimInv
    <3> QED BY <2>2, <3>1, <3>2 DEF Claimant, Claimable, W!Head
  <2>5. WTypeOK /\ WTypeOK' /\ DescMoves(t)
    BY DEF WInv, Moves
  <2>6. state'[u] = state[u]
    BY <1>1, <1>4, <2>1, <2>2, <2>3, <2>4, <2>5, DescKept
  <2> QED BY <2>3, <2>6
<1> HIDE DEF u, c
<1>11. th'[v] = r
  BY <1>1
<1> QED BY <1>6, <1>7, <1>8, <1>9, <1>10, <1>11 DEF GetInv, GetAt, u, c

LEMMA OtherEndGet ==
  ASSUME WInv, NEW t \in Threads, Moves(t), Ordered, Ordered', NEW v \in Threads \ {t}
  PROVE  EndGetInv(v)'
<1> PICK r : r = th[v]
  OBVIOUS
<1> DEFINE u == r.tid
           x == state[v].node
           same == {"FD_state", "FD_same", "FD_done", "FD_swing"}
<1>1. /\ th'[v] = r /\ r \in WLocals
      /\ \A h \in Heads : WasHead(h) => WasHead(h)' /\ (head' = h => head = h)
      /\ \A w \in Threads, d \in Descriptors :
           UpToNow(d, w) => UpToNow(d, w)' /\ (d = state'[w] => d = state[w])
      /\ Chain \subseteq W!Nodes /\ Null \notin W!Nodes /\ Chain \subseteq Chain'
      /\ state[v] \in Descriptors
  BY OtherFacts
<1>2. EndGetInv(v) /\ ControlInv(v) /\ DescInv(v)
  BY DEF WInv, ThreadInv
<1>3. WTypeOK /\ WTypeOK' /\ DescMoves(t) /\ version' = version /\ HeadMoves /\ ClaimInv
  BY DEF WInv, Moves
<1>4. /\ \A y \in W!Nodes : /\ next[y] # Null => next'[y] = next[y]
                            /\ deq_tid[y] # W!kTidNotSet => deq_tid'[y] = deq_tid[y]
      /\ \A y, z \in W!Nodes : (Before(y, z) => Before(y, z)') /\ (UpTo(y, z) => UpTo(y, z)')
  BY OrderKept DEF WInv, Moves, ListMoves
<1>5. r.pc \in EndGetPcs \ {"FD_head"} =>
        /\ WasHead(r.head) /\ WasHead(r.head)' /\ (head' = r.head => head = r.head)
        /\ r.head.node \in W!Nodes /\ r.head.node \in Chain
  BY <1>1, <1>2 DEF EndGetInv, EndGetAt, WLocals, WasHead
<1>6. r.pc \in EndGetPcs \ {"FD_head", "FD_next"} /\ r.next # Null => r.next = next'[r.head.node]
  <2> SUFFICES ASSUME r.pc \in EndGetPcs \ {"FD_head", "FD_next"}, r.next # Null
               PROVE  r.next = next'[r.head.node]
    OBVIOUS
  <2>1. r.next = next[r.head.node]
    BY <1>2 DEF EndGetInv, EndGetAt
  <2>2. r.head.node \in W!Nodes
    BY <1>5
  <2> QED BY <1>4, <2>1, <2>2
<1>7. r.pc \in same =>
       u \in Threads /\ u # W!kTidNotSet /\ IF version = "ppopp11" THEN deq_tid[r.head.node] = u ELSE r.head.tid = u
  BY <1>2, StrictQueuesAssumption DEF EndGetInv, EndGetAt, W!kTidNotSet
<1>8. r.pc \in same => IF version' = "ppopp11" THEN deq_tid'[r.head.node] = u ELSE r.head.tid = u
  <2> SUFFICES ASSUME r.pc \in same
               PROVE  IF version' = "ppopp11" THEN deq_tid'[r.head.node] = u ELSE r.head.tid = u
    OBVIOUS
  <2>1. version' = version
    BY <1>3
  <2>2. r.head.node \in W!Nodes
    BY <1>5 DEF EndGetPcs
  <2>3. u # W!kTidNotSet /\ IF version = "ppopp11" THEN deq_tid[r.head.node] = u ELSE r.head.tid = u
    BY <1>7
  <2>4. CASE version = "ppopp11"
    <3>1. deq_tid'[r.head.node] = deq_tid[r.head.node]
      BY <1>4, <2>2, <2>3, <2>4
    <3> QED BY <2>1, <2>3, <2>4, <3>1
  <2>5. CASE version # "ppopp11"
    BY <2>1, <2>3, <2>5
  <2> QED BY <2>4, <2>5
<1>9. r.pc \in same /\ head' = r.head =>
        /\ head = r.head /\ Claimant = u /\ th[u].slow
        /\ state'[u].pending => state'[u] = state[u]
  <2> SUFFICES ASSUME r.pc \in same, head' = r.head
               PROVE  /\ head = r.head /\ Claimant = u /\ th[u].slow
                      /\ state'[u].pending => state'[u] = state[u]
    OBVIOUS
  <2>1. head = r.head /\ Claimant = u
    BY <1>5, <1>7 DEF EndGetPcs, Claimant
  <2>2. th[u].slow
    BY <1>3, <1>7, <2>1 DEF ClaimInv
  <2> QED BY <1>3, <1>7, <2>1, <2>2, DescKept
<1>10. r.pc \in {"FD_same", "FD_done"} =>
       /\ UpToNow(r.cur, u)' /\ (r.cur = state'[u] => r.cur = state[u])
       /\ head' = r.head => /\ r.cur.type = "get" /\ r.cur.node = head'.node
                            /\ state'[u].pending => r.cur = state'[u]
  <2> SUFFICES ASSUME r.pc \in {"FD_same", "FD_done"}
               PROVE  /\ UpToNow(r.cur, u)' /\ (r.cur = state'[u] => r.cur = state[u])
                      /\ head' = r.head => /\ r.cur.type = "get" /\ r.cur.node = head'.node
                                           /\ state'[u].pending => r.cur = state'[u]
    OBVIOUS
  <2>1. u \in Threads /\ UpToNow(r.cur, u) /\ r.cur \in Descriptors
    BY <1>1, <1>2, <1>7 DEF EndGetInv, EndGetAt, WLocals
  <2>2. head = r.head => /\ r.cur.type = "get" /\ r.cur.node = head.node
                         /\ state[u].pending => r.cur = state[u]
    BY <1>2 DEF EndGetInv, EndGetAt
  <2> QED BY <1>1, <1>9, <2>1, <2>2
<1>11. r.pc \in {"FD_done", "FD_swing"} => r.next # Null
  BY <1>2 DEF EndGetInv, EndGetAt
<1>12. r.pc = "FD_done" /\ r.cur = state'[u] /\ r.cur.pending => head' = r.head
  <2> SUFFICES ASSUME r.pc = "FD_done", r.cur = state'[u], r.cur.pending PROVE head' = r.head
    OBVIOUS
  <2>1. r.cur = state[u] /\ head = r.head
    BY <1>2, <1>10 DEF EndGetInv, EndGetAt
  <2>2. Claimant = u /\ state[Claimant].pending /\ Claimant # W!kTidNotSet
    BY <1>7, <2>1 DEF Claimant
  <2>3. version = "ppopp12" => head.tid # W!kTidNotSet
    BY <1>7, <2>1, StrictQueuesAssumption DEF WInv, WTypeOK
  <2> QED BY <1>3, <2>1, <2>2, <2>3 DEF HeadMoves
<1>13. r.pc = "FD_swing" /\ head' = r.head => ~state'[u].pending
  BY <1>2, <1>9 DEF EndGetInv, EndGetAt
<1>14. r.then = "result" \/ r.pc = "result" => state'[v] = state[v]
  <2>1. r.then = "result" \/ r.pc = "result" => ~state[v].pending
    BY <1>2 DEF DescInv, DescAt, Finishing
  <2> QED BY <1>3, <2>1, DescKept
<1>15. r.then = "result" /\ r.pc # "FD_head" /\ x # Null =>
       /\ UpTo(x, r.head.node)'
       /\ r.head.node = x => /\ version = "ppopp12" => r.head.tid = v
                             /\ r.pc # "FD_next" => r.next # Null
  <2> SUFFICES ASSUME r.then = "result", r.pc # "FD_head", x # Null
               PROVE  /\ UpTo(x, r.head.node)'
                      /\ r.head.node = x => /\ version = "ppopp12" => r.head.tid = v
                                            /\ r.pc # "FD_next" => r.next # Null
    OBVIOUS
  <2>1. /\ UpTo(x, r.head.node)
        /\ r.head.node = x => /\ version = "ppopp12" => r.head.tid = v
                              /\ r.pc # "FD_next" => r.next # Null
    BY <1>2 DEF EndGetInv, EndGetAt
  <2>2. r.pc \in EndGetPcs
    BY <1>2 DEF ControlInv, ControlAt, EndPutPcs
  <2>3. x \in W!Nodes /\ r.head.node \in W!Nodes
    BY <1>1, <1>5, <2>2 DEF Descriptors, NodesOrNone
  <2>4. \A y \in W!Nodes : y = x => UpTo(y, r.head.node)'
    BY <1>4, <2>1, <2>3
  <2>5. \A y \in W!Nodes : UpTo(y, r.head.node)' /\ y = state'[v].node => UpTo(x, r.head.node)'
    BY <1>14 DEF UpTo, Before
  <2> QED BY <1>14, <2>1, <2>3, <2>4, <2>5
<1>16. r.pc = "result" /\ x # Null => head'.node # x
  <2> SUFFICES ASSUME r.pc = "result", x # Null PROVE head'.node # x
    OBVIOUS
  <2>1. head.node # x /\ state[v].type = "get"
    BY <1>2 DEF EndGetInv, EndGetAt, DescInv, DescAt, ControlInv, ControlAt
  <2>2. x \in W!Nodes /\ UpTo(x, head.node) /\ head.node \in W!Nodes /\ head'.node \in W!Nodes
    BY <1>1, <1>2, <1>3, <2>1 DEF DescInv, DescAt, WTypeOK
  <2>3. Before(x, head.node)
    BY <2>1, <2>2 DEF UpTo
  <2>4. Before(x, head'.node)
    BY <1>3, <2>2, <2>3 DEF HeadMoves, Ordered
  <2> QED BY <2>2, <2>4 DEF Ordered
<1> HIDE DEF u
<1>17. th'[v] = r /\ version' = version
  BY <1>1, <1>3
<1>18. ASSUME r.then = "result", r.pc # "FD_head", state'[v].node # Null
       PROVE  /\ UpTo(state[v].node, r.head.node)'
              /\ r.head.node = state'[v].node => /\ version = "ppopp12" => r.head.tid = v
                                                 /\ r.pc # "FD_next" => r.next # Null
  BY <1>14, <1>15, <1>18
<1>19. r.pc = "result" /\ state'[v].node # Null => head'.node # state'[v].node
  BY <1>14, <1>16
<1>20. r.pc \in same => u \in Threads
  BY <1>7
<1> QED BY <1>5, <1>6, <1>8, <1>10, <1>11, <1>12, <1>13, <1>17, <1>18, <1>19, <1>20 DEF EndGetInv, EndGetAt, u

LEMMA OtherHelp ==
  ASSUME WInv, NEW t \in Threads, Moves(t), Ordered, Ordered', NEW v \in Threads \ {t}
  PROVE  HelpInv(v)'
<1> PICK r : r = th[v]
  OBVIOUS
<1> DEFINE u == WaitfreeNum[r.i]
<1>1. /\ th'[v] = r /\ r \in WLocals /\ u \in Threads
      /\ Helping(r) /\ Pending(r)' => Pending(r) /\ state'[u].type = state[u].type
      /\ Chain \subseteq W!Nodes /\ Null \notin W!Nodes /\ Chain \subseteq Chain'
  BY OtherFacts
<1>2. HelpInv(v) /\ ControlInv(v) /\ DescInv(v)
  BY DEF WInv, ThreadInv
<1>3. state'[v].pending => state[v].pending
  BY DescKept DEF WInv, Moves
<1>4. Helping(r) /\ Pending(r)' => state'[u].type = IF HelpsPut(r) THEN "put" ELSE "get"
  BY <1>1, <1>2 DEF HelpInv, HelpAt
<1>5. r.pc = "help" \/ Helping(r) => \A j \in DOMAIN WaitfreeNum : WaitfreeNum[j] = v /\ j < r.i => ~state'[v].pending
  BY <1>2, <1>3 DEF HelpInv, HelpAt
<1>6. r.then = "helped" /\ u = v /\ state'[v].pending =>
       r.item \in Linked' /\ (r.pc # "FE_tail" => r.tail = tail')
  <2> SUFFICES ASSUME r.then = "helped", u = v, state'[v].pending
               PROVE  r.item \in Linked' /\ (r.pc # "FE_tail" => r.tail = tail')
    OBVIOUS
  <2>1. /\ state[v].pending /\ r.item \in Linked
        /\ r.pc # "FE_tail" => r.tail = tail
    BY <1>2, <1>3 DEF HelpInv, HelpAt
  <2>2. Helping(r) /\ HelpsPut(r) /\ ~Finishing(r) /\ r.slow
    BY <1>2, <2>1 DEF Helping, HelpsPut, DescInv, DescAt
  <2>3. state[v].phase = r.phase
    BY <1>2, <2>2 DEF DescInv, DescAt
  <2>4. Pending(r)
    <3>1. state[v].phase \in Int
      BY DEF WInv, WTypeOK, Descriptors, W!kNoPhase
    <3> QED BY <2>1, <2>3, <3>1 DEF Pending
  <2>5. state[v].type = "put" /\ state[v].node = r.item
    BY <1>2, <2>2, <2>4 DEF HelpInv, HelpAt, DescInv, DescAt
  <2>6. tail' = tail
    BY <2>1, <2>5 DEF Moves, TailMoves
  <2>7. Linked \subseteq Linked'
    BY DEF Moves, ListMoves, Chain, Ordered
  <2> QED BY <2>1, <2>6, <2>7
<1> HIDE DEF u
<1> QED BY <1>1, <1>4, <1>5, <1>6 DEF HelpInv, HelpAt, u

LEMMA OtherPhase ==
  ASSUME WInv, NEW t \in Threads, Moves(t), NEW v \in Threads \ {t}, Ordered
  PROVE  PhaseInv(v)'
<1>1. PhaseInv(v) /\ th'[v] = th[v] /\ version' = version
  BY DEF WInv, ThreadInv, Moves, Others
<1>2. state'[v].phase = state[v].phase
  BY DescKept DEF WInv, Moves
<1>3. SUFFICES ASSUME version = "ppopp11", th[v].pc \in {"max", "publish"}, NEW j \in DOMAIN WaitfreeNum,
                      th[v].pc = "publish" \/ j < th[v].i, Helping(th'[WaitfreeNum[j]]), WaitfreeNum[th'[WaitfreeNum[j]].i] = v
               PROVE  th'[WaitfreeNum[j]].phase <= th[v].phase
  BY <1>1, <1>2 DEF PhaseInv, PhaseAt
<1>4. CASE WaitfreeNum[j] # t
  BY <1>1, <1>3, <1>4, NumType DEF Moves, Others, PhaseInv, PhaseAt
<1>5. CASE WaitfreeNum[j] = t
  <2>1. ~state[v].pending
    BY <1>3, PendingOp DEF WInv, ThreadInv, ControlInv, ControlAt
  <2>2. Helping(th[t]) /\ th'[t].i = th[t].i /\ th'[t].phase = th[t].phase
    BY <1>3, <1>5, <2>1 DEF Moves, CallMoves
  <2> QED BY <1>1, <1>3, <1>5, <2>2 DEF PhaseInv, PhaseAt
<1> QED BY <1>4, <1>5

LEMMA OtherDesc ==
  ASSUME WInv, NEW t \in Threads, Moves(t), Ordered, Ordered', NEW v \in Threads \ {t}
  PROVE  DescInv(v)'
<1> PICK r : r = th[v]
  OBVIOUS
<1> PICK d : d = state[v]
  OBVIOUS
<1> PICK e : e = state'[v]
  OBVIOUS
<1>1. /\ th'[v] = r /\ r \in WLocals /\ d \in Descriptors /\ e \in Descriptors
      /\ Chain \subseteq W!Nodes /\ Null \notin W!Nodes /\ Chain \subseteq Chain' /\ Linked \subseteq Linked'
  <2>1. Linked \subseteq Linked'
    BY DEF Moves, ListMoves, Chain, Ordered
  <2> QED BY <2>1, OtherFacts
<1>2. DescInv(v) /\ ControlInv(v)
  BY DEF WInv, ThreadInv
<1>3. WTypeOK /\ WTypeOK' /\ DescMoves(t) /\ version' = version /\ HeadMoves /\ TailMoves /\ ListMoves /\ CallMoves(t)
  BY DEF WInv, Moves
<1>4. /\ e.phase = d.phase /\ e.type = d.type /\ (e.pending => d.pending) /\ (~d.pending => e = d)
      /\ e.type = "put" => e.node = d.node
      /\ e.type = "put" /\ e.pending /\ e.node \in Linked' => e = d
  BY <1>3, DescKept
<1>5. e = d \/ PutDone(v) \/ GetDone(v) \/ FoundEmpty(v) \/ Marked(v)
  BY <1>3 DEF DescMoves, Published
<1>6. r.op = "get" /\ sight[v] => sight'[v]
  BY <1>1, <1>3 DEF CallMoves
<1>7. /\ \A y, z \in W!Nodes : (Before(y, z) => Before(y, z)') /\ (UpTo(y, z) => UpTo(y, z)')
      /\ \A y \in W!Nodes : UpTo(y, head.node) => UpTo(y, head.node)'
      /\ \A y \in W!Nodes : Before(y, tail) => Before(y, tail)'
      /\ head.node \in W!Nodes /\ tail \in W!Nodes /\ head'.node \in W!Nodes
  BY <1>3, OrderKept DEF WTypeOK
<1>8. /\ e.pending => r.slow /\ e.phase # W!kNoPhase /\ ~Finishing(r)
      /\ r.slow => e.type = r.op /\ (r.op = "put" => e.node = r.item)
      /\ r.slow /\ ~Finishing(r) => e.phase = r.phase
  BY <1>2, <1>4 DEF DescInv, DescAt
<1>9. e.type = "put" /\ e.node # Null => e.node \in Items /\ enq_tid'[e.node] = v
  <2>1. v # W!kTidNotSet /\ Items \subseteq W!Nodes
    BY <1>3, SuccFact, StrictQueuesAssumption DEF W!kTidNotSet
  <2> QED BY <1>2, <1>3, <1>4, <2>1 DEF DescInv, DescAt, ListMoves
<1>10. r.slow /\ r.op = "put" /\ ~e.pending => r.item \in Linked'
  <2> SUFFICES ASSUME r.slow, r.op = "put", ~e.pending PROVE r.item \in Linked
    BY <1>1
  <2>1. d.type = "put" /\ d.node = r.item
    BY <1>2 DEF DescInv, DescAt
  <2>2. CASE ~d.pending
    BY <1>2, <2>2 DEF DescInv, DescAt
  <2>3. CASE d.pending
    BY <1>5, <2>1, <2>3 DEF PutDone, GetDone, FoundEmpty, Marked
  <2> QED BY <2>2, <2>3
<1>11. e.pending /\ e.type = "put" /\ e.node \in Linked' => e.node = next'[tail']
  <2> SUFFICES ASSUME e.pending, e.type = "put", e.node \in Linked' PROVE e.node = next'[tail']
    OBVIOUS
  <2>1. e = d
    BY <1>4
  <2>2. CASE d.node \in Linked
    <3>1. d.node = next[tail] /\ tail' = tail
      BY <1>2, <1>3, <2>1, <2>2 DEF DescInv, DescAt, TailMoves
    <3>2. next[tail] # Null
      BY <1>1, <2>2, <3>1 DEF Chain
    <3> QED BY <1>3, <1>7, <2>1, <3>1, <3>2 DEF ListMoves
  <2>3. CASE d.node \notin Linked
    BY <1>3, <2>1, <2>3 DEF ListMoves
  <2> QED BY <2>2, <2>3
<1>12. ASSUME e.type = "get", e.node # Null
       PROVE  e.node \in Chain' /\ UpTo(e.node, head.node)' /\ Before(e.node, tail)'
  <2>1. e.node \in Chain /\ UpTo(e.node, head.node) /\ Before(e.node, tail)
    <3>1. CASE e.node = d.node
      BY <1>2, <1>4, <1>12, <3>1 DEF DescInv, DescAt
    <3>2. CASE e.node # d.node
      <4>2. CASE PutDone(v) \/ GetDone(v)
        <5>1. e = [d EXCEPT !.pending = FALSE]
          BY <4>2 DEF PutDone, GetDone
        <5> QED BY <1>1, <3>2, <5>1 DEF Descriptors
      <4>3. CASE FoundEmpty(v)
        BY <1>12, <4>3 DEF FoundEmpty, W!Descriptor
      <4>4. CASE Marked(v)
        BY <4>4 DEF Marked
      <4> QED BY <1>5, <3>2, <4>2, <4>3, <4>4
    <3> QED BY <3>1, <3>2
  <2> QED BY <1>1, <1>7, <2>1
<1>13. r.slow /\ r.op = "get" /\ ~e.pending /\ e.node = Null => sight'[v]
  <2> SUFFICES ASSUME r.slow, r.op = "get", ~e.pending, e.node = Null PROVE sight[v]
    BY <1>6
  <2>1. CASE e = d
    BY <1>2, <2>1 DEF DescInv, DescAt
  <2>2. CASE e # d
    <3>1. CASE GetDone(v)
      <4>1. d.node = head.node
        <5>1. v # W!kTidNotSet
          BY StrictQueuesAssumption DEF W!kTidNotSet
        <5> QED BY <3>1, <5>1 DEF GetDone, WInv, ClaimInv
      <4> QED BY <1>1, <1>7, <3>1, <4>1 DEF GetDone, Descriptors
    <3>2. CASE FoundEmpty(v)
      BY <3>2 DEF FoundEmpty
    <3>3. CASE PutDone(v)
      BY <1>2, <3>3 DEF PutDone, DescInv, DescAt
    <3>4. CASE Marked(v)
      BY <3>4 DEF Marked, W!Descriptor
    <3> QED BY <1>5, <2>2, <3>1, <3>2, <3>3, <3>4
  <2> QED BY <2>1, <2>2
<1>14. ASSUME r.slow, r.op = "get", ~e.pending, e.node # Null
       PROVE  IF version = "ppopp11" THEN deq_tid'[e.node] = v ELSE (e.node = head'.node => head'.tid = v)
  <2>0. v # W!kTidNotSet /\ version \in {"ppopp11", "ppopp12"}
    BY <1>3, StrictQueuesAssumption DEF W!kTidNotSet, WTypeOK
  <2>1. CASE e = d
    <3>1. /\ IF version = "ppopp11" THEN deq_tid[e.node] = v ELSE (e.node = head.node => head.tid = v)
          /\ d.type = "get"
      BY <1>2, <1>14, <2>1 DEF DescInv, DescAt
    <3>2. e.node \in W!Nodes /\ UpTo(e.node, head.node)
      BY <1>1, <1>2, <1>14, <2>1, <3>1 DEF DescInv, DescAt
    <3>3. e.node = head'.node => head.node = head'.node
      BY <1>3, <1>7, <3>2 DEF HeadMoves, UpTo, Ordered
    <3>4. e.node = head'.node /\ version # "ppopp11" => head' = head
      BY <1>3, <1>7, <2>0, <3>1, <3>2, <3>3 DEF HeadMoves, Ordered
    <3>5. version = "ppopp11" => deq_tid'[e.node] = v
      BY <1>3, <2>0, <3>1, <3>2 DEF ListMoves
    <3> QED BY <2>0, <3>1, <3>3, <3>4, <3>5
  <2>2. CASE e # d
    <3>1. GetDone(v)
      BY <1>2, <1>5, <1>14, <2>2 DEF PutDone, FoundEmpty, Marked, DescInv, DescAt, W!Descriptor
    <3>2. d.node = head.node /\ e.node = d.node
      <4>1. d.node = head.node /\ e = [d EXCEPT !.pending = FALSE]
        BY <2>0, <3>1 DEF GetDone, WInv, ClaimInv
      <4> QED BY <1>1, <4>1 DEF Descriptors
    <3> QED BY <2>0, <3>1, <3>2 DEF GetDone, Claimant
  <2> QED BY <2>1, <2>2
<1>15. ~r.slow /\ r.op = "put" /\ r.pc # "return" => r.item \notin Linked' /\ enq_tid'[r.item] = W!kTidNotSet
  BY <1>3 DEF CallMoves
<1>16. r.op = "put" /\ r.pc = "return" => r.item \in Linked'
  BY <1>1, <1>2 DEF DescInv, DescAt
<1>17. r.op = "get" /\ r.pc = "return" /\ r.item = Null => sight'[v]
  BY <1>2, <1>6 DEF DescInv, DescAt
<1>18. r.slow /\ r.op = "get" /\ r.pc = "return" /\ r.item = Null => e.node = Null
  <2> SUFFICES ASSUME r.slow, r.op = "get", r.pc = "return", r.item = Null PROVE e.node = Null
    OBVIOUS
  <2>1. ~d.pending /\ d.node = Null
    BY <1>2 DEF DescInv, DescAt, Finishing
  <2> QED BY <1>4, <2>1
<1> QED BY <1>1, <1>3, <1>8, <1>9, <1>10, <1>11, <1>12, <1>13, <1>14, <1>15, <1>16, <1>17, <1>18 DEF DescInv, DescAt, W!kTidNotSet

LEMMA WOthersKept ==
  ASSUME WInv, NEW t \in Threads, Moves(t), ListInv'
  PROVE  Ordered /\ Ordered' /\ \A v \in Threads \ {t} : ThreadInv(v)'
<1>1. Ordered
  BY OrderedFact DEF WInv
<1>2. Ordered'
  BY OrderedNext DEF InOrdered, Moves
<1>3. ASSUME NEW v \in Threads \ {t} PROVE ThreadInv(v)'
  <2>1. ControlInv(v)' /\ DescInv(v)' /\ HelpInv(v)' /\ PhaseInv(v)' /\ PutInv(v)'
    BY <1>1, <1>2, OtherControl, OtherDesc, OtherHelp, OtherPhase, OtherPut
  <2>2. EndPutInv(v)' /\ LookInv(v)' /\ GetInv(v)' /\ EndGetInv(v)'
    BY <1>1, <1>2, OtherEndPut, OtherLook, OtherGet, OtherEndGet
  <2> QED BY <2>1, <2>2 DEF ThreadInv
<1> QED BY <1>1, <1>2, <1>3
-----------------------------------------------------------------------------
\* A step of t that changes nothing but its locals.

LEMMA Quieted ==
  ASSUME WTypeOK, NEW t \in Threads, NEW r \in WLocals, W!Set(t, r), NEW H, W!Observe(t, H),
         th[t].op # "none", r.op = th[t].op
  PROVE  /\ th' \in [Threads -> WLocals] /\ th'[t] = r /\ Others(t)
         /\ done' = done /\ out' = out /\ older' = older /\ late' = late /\ start' = start
         /\ sight' \in [Threads -> BOOLEAN]
         /\ \A u \in Threads : th'[u].op = th[u].op
         /\ \A u \in Threads : th[u].op = "get" /\ sight[u] => sight'[u]
         /\ H \cap done = {} => \A u \in Threads : th[u].op = "get" => sight'[u]
<1>1. th' \in [Threads -> WLocals] /\ th'[t] = r /\ Others(t)
  BY DEF W!Set, WTypeOK, Others
<1>2. \A u \in Threads : th'[u].op = th[u].op
  BY <1>1 DEF Others
<1>3. done' = done /\ out' = out /\ older' = older /\ late' = late /\ start' = start
  BY <1>1 DEF W!Observe
<1>4. sight' = [u \in Threads |-> th'[u].op = "get" /\ (sight[u] \/ done' \cap H = {})]
  BY DEF W!Observe
<1> QED BY <1>1, <1>2, <1>3, <1>4

\* What is defined from the list only.
LEMMA SameList ==
  ASSUME version' = version, UNCHANGED W!list
  PROVE  /\ Succ' = Succ /\ Linked' = Linked /\ Chain' = Chain /\ Claimant' = Claimant
         /\ \A x, y : (Before(x, y)' <=> Before(x, y)) /\ (UpTo(x, y)' <=> UpTo(x, y))
         /\ \A x : (WasTail(x)' <=> WasTail(x)) /\ (Claimable(x)' <=> Claimable(x))
         /\ \A h : WasHead(h)' <=> WasHead(h)
         /\ \A d, u : UpToNow(d, u)' <=> UpToNow(d, u)
         /\ \A r : Pending(r)' <=> Pending(r)
<1>1. /\ head' = head /\ tail' = tail /\ next' = next /\ enq_tid' = enq_tid /\ deq_tid' = deq_tid
      /\ state' = state
  BY DEF W!list
<1>2. Succ' = Succ
  BY <1>1 DEF Succ, W!Nodes
<1>3. Linked' = Linked /\ Chain' = Chain /\ Claimant' = Claimant
  BY <1>1, <1>2 DEF Linked, Chain, Claimant
<1>4. \A x, y : (Before(x, y)' <=> Before(x, y)) /\ (UpTo(x, y)' <=> UpTo(x, y))
  BY <1>2 DEF UpTo, Before
<1>5. \A x : (WasTail(x)' <=> WasTail(x)) /\ (Claimable(x)' <=> Claimable(x))
  BY <1>1, <1>2, <1>3 DEF WasTail, Claimable, UpTo, Before, W!Head, W!kTidNotSet
<1>6. \A h : WasHead(h)' <=> WasHead(h)
  BY <1>1, <1>2, <1>3 DEF WasHead, HeadNewer, Before, W!kTidNotSet
<1>7. \A d, u : UpToNow(d, u)' <=> UpToNow(d, u)
  BY <1>1, <1>2 DEF UpToNow, Newer, Before
<1>8. \A r : Pending(r)' <=> Pending(r)
  BY <1>1 DEF Pending
<1> QED BY <1>2, <1>3, <1>4, <1>5, <1>6, <1>7, <1>8

LEMMA LocalMoves ==
  ASSUME WInv, NEW t \in Threads, NEW r \in WLocals, W!Set(t, r), version' = version, UNCHANGED W!list,
         NEW H, W!Observe(t, H), th[t].op # "none", r.op = th[t].op,
         Helping(r) => \/ Helping(th[t]) /\ r.i = th[t].i /\ r.phase = th[t].phase
                       \/ state[WaitfreeNum[r.i]].pending \/ WaitfreeNum[r.i] = t
  PROVE  Moves(t)
<1>1. WTypeOK
  BY DEF WInv
<1>2. /\ th' \in [Threads -> WLocals] /\ th'[t] = r /\ Others(t)
      /\ done' = done /\ out' = out /\ older' = older /\ late' = late /\ start' = start
      /\ sight' \in [Threads -> BOOLEAN]
      /\ \A u \in Threads : th'[u].op = th[u].op
      /\ \A u \in Threads : th[u].op = "get" /\ sight[u] => sight'[u]
  BY <1>1, Quieted
<1>3. /\ head' = head /\ tail' = tail /\ next' = next /\ enq_tid' = enq_tid /\ deq_tid' = deq_tid
      /\ state' = state
  BY DEF W!list
<1>4. WTypeOK'
  BY <1>1, <1>2, <1>3 DEF WTypeOK, W!Nodes
<1>5. /\ Succ' = Succ /\ Linked' = Linked /\ Chain' = Chain
      /\ \A x : Claimable(x)' <=> Claimable(x)
  BY SameList
<1>6. ListMoves
  BY <1>3, <1>5 DEF ListMoves, Before
<1>7. HeadMoves /\ TailMoves /\ NeverClaimable /\ DescMoves(t)
  BY <1>3, <1>5 DEF HeadMoves, TailMoves, NeverClaimable, DescMoves
<1>8. CallMoves(t)
  <2>1. ASSUME NEW v \in Threads \ {t}, th[v].op = "put", ~th[v].slow, th[v].pc # "return"
        PROVE  th[v].item \notin Linked' /\ enq_tid'[th[v].item] = W!kTidNotSet
    BY <1>3, <1>5, <2>1 DEF WInv, ThreadInv, DescInv, DescAt
  <2> QED BY <1>2, <2>1 DEF CallMoves
<1> QED BY <1>2, <1>4, <1>6, <1>7, <1>8 DEF Moves

\* With the locals r, t may be where it is.
LEMMA LocalThread ==
  ASSUME WInv, NEW t \in Threads, NEW r \in WLocals, Moves(t), UNCHANGED W!list, th'[t] = r, ThreadAt(t, r),
         r.op # "none", r.op = th[t].op
  PROVE  ThreadInv(t)'
<1>1. /\ head' = head /\ tail' = tail /\ next' = next /\ enq_tid' = enq_tid /\ deq_tid' = deq_tid
      /\ state' = state /\ version' = version
  BY DEF W!list, Moves
<1>2. /\ Succ' = Succ /\ Linked' = Linked /\ Chain' = Chain /\ Claimant' = Claimant
      /\ \A x, y : (Before(x, y)' <=> Before(x, y)) /\ (UpTo(x, y)' <=> UpTo(x, y))
      /\ \A x : (WasTail(x)' <=> WasTail(x)) /\ (Claimable(x)' <=> Claimable(x))
      /\ \A h : WasHead(h)' <=> WasHead(h)
      /\ \A d, u : UpToNow(d, u)' <=> UpToNow(d, u)
      /\ Pending(r)' <=> Pending(r)
  BY <1>1, SameList
<1>3. \A u \in Threads : th[u].op = "get" /\ sight[u] => sight'[u]
  BY DEF Moves, CallMoves, Others
<1>4. /\ r.pc \in GetPcs /\ Pending(r) /\ sight[WaitfreeNum[r.i]] => sight'[WaitfreeNum[r.i]]
      /\ r.pc \in FastGetPcs /\ sight[t] => sight'[t]
  <2>1. WaitfreeNum[r.i] \in Threads
    BY NumType DEF WLocals
  <2>2. ASSUME r.pc \in GetPcs, Pending(r) PROVE th[WaitfreeNum[r.i]].op = "get"
    <3>1. Helping(r) /\ ~HelpsPut(r)
      BY <2>2 DEF Helping, HelpsPut, PutPcs, GetPcs, EndPutPcs, EndGetPcs, EmptyPcs, TakePcs, ThreadAt, ControlAt
    <3> QED BY <2>1, <2>2, <3>1, PendingOp DEF ThreadAt, HelpAt, Pending
  <2> QED BY <1>3, <2>1, <2>2 DEF ThreadAt, ControlAt
<1>5. ControlAt(t, r)'
  BY <1>1 DEF ThreadAt, ControlAt, Helping, W!Idle
<1>6. DescAt(t, r)'
  BY <1>1, <1>2, <1>3 DEF ThreadAt, DescAt, W!kTidNotSet
<1>7. HelpAt(t, r)'
  BY <1>1, <1>2 DEF ThreadAt, HelpAt
<1>8. PhaseAt(t, r)'
  <2> SUFFICES ASSUME version = "ppopp11", r.pc \in {"max", "publish"}, NEW j \in DOMAIN WaitfreeNum,
                      r.pc = "publish" \/ j < r.i
               PROVE  /\ WaitfreeNum[j] = t => state[t].phase <= r.phase
                      /\ Helping(th'[WaitfreeNum[j]]) /\ WaitfreeNum[th'[WaitfreeNum[j]].i] = t => th'[WaitfreeNum[j]].phase <= r.phase
    BY <1>1 DEF PhaseAt
  <2>1. ~Helping(r)
    BY DEF ThreadAt, ControlAt, Helping, PutPcs, GetPcs, EndPutPcs, EndGetPcs, EmptyPcs, TakePcs
  <2>2. WaitfreeNum[j] = t \/ th'[WaitfreeNum[j]] = th[WaitfreeNum[j]]
    BY NumType DEF Moves, Others
  <2> QED BY <1>1, <2>1, <2>2 DEF ThreadAt, PhaseAt
<1>9. LinkAt(t, r)'
  BY <1>1, <1>2 DEF ThreadAt, LinkAt
<1>10. EndPutAt(t, r)'
  BY <1>1, <1>2 DEF ThreadAt, EndPutAt
<1>11. LookAt(t, r)'
  BY <1>1, <1>2, <1>3, <1>4 DEF ThreadAt, LookAt, GetPcs, FastGetPcs
<1>12. GetAt(t, r)'
  BY <1>1, <1>2, <1>3, <1>4 DEF ThreadAt, GetAt, GetPcs, EmptyPcs, TakePcs
<1>13. EndGetAt(t, r)'
  BY <1>1, <1>2 DEF ThreadAt, EndGetAt
<1> QED BY <1>5, <1>6, <1>7, <1>8, <1>9, <1>10, <1>11, <1>12, <1>13
        DEF ThreadInv, ControlInv, DescInv, HelpInv, PhaseInv, PutInv, EndPutInv, LookInv, GetInv, EndGetInv

\* Where items are, and their order, as long as the list and the hands stay as they are.
LEMMA LocalPlaces ==
  ASSUME WInv, NEW t \in Threads, NEW r \in WLocals, W!Set(t, r), version' = version, UNCHANGED W!list,
         W!Observe(t, W!Held), th[t].op # "none", r.op = th[t].op, r.item = th[t].item, r.slow = th[t].slow
  PROVE  ListInv' /\ ClaimInv' /\ PlacesInv' /\ OrderInv'
<1>1. /\ head' = head /\ tail' = tail /\ next' = next /\ enq_tid' = enq_tid /\ deq_tid' = deq_tid
      /\ state' = state
  BY DEF W!list
<1>2. /\ Succ' = Succ /\ Linked' = Linked /\ Chain' = Chain /\ Claimant' = Claimant
      /\ \A x, y : (Before(x, y)' <=> Before(x, y)) /\ (UpTo(x, y)' <=> UpTo(x, y))
  BY <1>1, SameList
<1>3. W!Held = After(Succ, head.node)
  BY WHeldIs DEF WInv, ListInv
<1>4. /\ th' \in [Threads -> WLocals] /\ th'[t] = r /\ Others(t)
      /\ done' = done /\ out' = out /\ older' = older /\ late' = late /\ start' = start
      /\ After(Succ, head.node) \cap done = {} => \A u \in Threads : th[u].op = "get" => sight'[u]
  BY <1>3, Quieted DEF WInv
<1>5. \A u \in Threads : th'[u].op = th[u].op /\ th'[u].item = th[u].item /\ th'[u].slow = th[u].slow
  BY <1>4 DEF Others
<1>6. \A u \in Threads : W!InHand(u)' = W!InHand(u) /\ Behind(u)' = Behind(u)
  BY <1>1, <1>5 DEF W!InHand, Behind
<1>7. W!Hands' = W!Hands
  BY <1>6 DEF W!Hands
<1>8. W!Begun' = W!Begun
  BY <1>4, <1>5 DEF W!Begun
<1>9. ListInv'
  BY <1>1, <1>2 DEF WInv, ListInv, Acyclic, W!Nodes
<1>10. ClaimInv'
  <2>1. Claimant # W!kTidNotSet => Claimant \in Threads
    BY DEF WInv, WTypeOK, Claimant, W!kTidNotSet, ThreadsOrNone
  <2> QED BY <1>1, <1>2, <1>5, <2>1 DEF WInv, ClaimInv, W!Nodes, W!kTidNotSet
<1>11. PlacesInv'
  BY <1>1, <1>2, <1>4, <1>5, <1>6, <1>7, <1>8 DEF WInv, PlacesInv
<1>12. OrderInv'
  BY <1>2, <1>4 DEF WInv, OrderInv
<1> QED BY <1>9, <1>10, <1>11, <1>12

LEMMA StepKept ==
  ASSUME WInv, NEW t \in Threads, Moves(t), ListInv', ClaimInv', ThreadInv(t)', PlacesInv', OrderInv'
  PROVE  WInv'
<1>1. \A v \in Threads \ {t} : ThreadInv(v)'
  BY WOthersKept
<1> QED BY <1>1 DEF WInv, Moves

LEMMA LocalStep ==
  ASSUME WInv, NEW t \in Threads, NEW r \in WLocals, W!Set(t, r), version' = version, UNCHANGED W!list,
         W!Observe(t, W!Held), th[t].op # "none", r.op = th[t].op, r.item = th[t].item, r.slow = th[t].slow,
         Helping(r) => \/ Helping(th[t]) /\ r.i = th[t].i /\ r.phase = th[t].phase
                       \/ state[WaitfreeNum[r.i]].pending \/ WaitfreeNum[r.i] = t,
         ThreadAt(t, r)
  PROVE  WInv'
<1>1. Moves(t)
  BY LocalMoves
<1>2. th'[t] = r
  BY Quieted DEF WInv
<1>3. ThreadInv(t)'
  BY <1>1, <1>2, LocalThread
<1> QED BY <1>1, <1>3, LocalPlaces, StepKept
-----------------------------------------------------------------------------
\* The locals of a thread, when it lets go of the list.

LEMMA ToFact ==
  ASSUME NEW r \in WLocals, NEW label \in WPcs, NEW q, q = W!To(r, label)
  PROVE  /\ q \in WLocals /\ q.pc = label
         /\ q.op = r.op /\ q.item = r.item /\ q.end = r.end /\ q.slow = r.slow /\ q.trials = r.trials
         /\ q.i = r.i /\ q.phase = r.phase /\ q.back = r.back /\ q.then = r.then
<1> DEFINE h == W!Head(Null, Null)
           d == W!NoDescriptor
<1>1. h \in Heads /\ d \in Descriptors /\ Null \in NodesOrNone /\ Null \in ThreadsOrNone
  BY DEF Heads, NodesOrNone, ThreadsOrNone, W!Head, W!NoDescriptor, W!Descriptor, Descriptors, W!kNoPhase
<1>2. q = [[r EXCEPT !.head = h, !.tail = Null, !.next = Null, !.cur = d, !.tid = Null] EXCEPT !.pc = label]
  BY DEF W!To, W!Forget
<1> HIDE DEF h, d
<1>3. /\ q.pc = label
      /\ q.op = r.op /\ q.item = r.item /\ q.end = r.end /\ q.slow = r.slow /\ q.trials = r.trials
      /\ q.i = r.i /\ q.phase = r.phase /\ q.back = r.back /\ q.then = r.then
  BY <1>2 DEF WLocals
<1>4. q \in WLocals
  BY <1>1, <1>2 DEF WLocals
<1> QED BY <1>3, <1>4
-----------------------------------------------------------------------------
\* Where t goes on.

\* Most of what is stated of a thread is about what it holds of the list.
LEMMA Afresh ==
  ASSUME NEW t, NEW r,
         r.pc \in {"E_pending", "E_tail", "D_pending", "D_head", "FE_tail", "FD_head", "help", "fast",
                   "Q_tail", "R_head", "return", "max", "publish", "check"},
         r.pc = "FD_head" \/ r.then # "result"
  PROVE  LinkAt(t, r) /\ EndPutAt(t, r) /\ LookAt(t, r) /\ GetAt(t, r) /\ EndGetAt(t, r)
BY DEF LinkAt, EndPutAt, LookAt, GetAt, EndGetAt, EndPutPcs, EmptyPcs, TakePcs, EndGetPcs

Same(r, s) == /\ r.op = s.op /\ r.item = s.item /\ r.slow = s.slow
              /\ r.i = s.i /\ r.phase = s.phase /\ r.back = s.back

\* The locals after a read.
Alike(r, s) == Same(r, s) /\ r.then = s.then /\ r.trials = s.trials

WithPc(s, l) == [s EXCEPT !.pc = l]
WithTail(s, l, x) == [s EXCEPT !.pc = l, !.tail = x]
WithNext(s, l, x) == [s EXCEPT !.pc = l, !.next = x]
WithHead(s, l, h) == [s EXCEPT !.pc = l, !.head = h]
WithCur(s, l, d) == [s EXCEPT !.pc = l, !.cur = d]
WithTid(s, l, u) == [s EXCEPT !.pc = l, !.tid = u]
WithThen(s, l) == [s EXCEPT !.then = l]

LEMMA PcFact ==
  ASSUME NEW s \in WLocals, NEW l \in WPcs, NEW r, r = WithPc(s, l)
  PROVE  /\ r \in WLocals /\ Alike(r, s) /\ r.pc = l /\ r.head = s.head /\ r.tail = s.tail
         /\ r.next = s.next /\ r.cur = s.cur /\ r.tid = s.tid
BY DEF WithPc, WLocals, Alike, Same

LEMMA TailFact ==
  ASSUME NEW s \in WLocals, NEW l \in WPcs, NEW x \in NodesOrNone, NEW r,
         r = WithTail(s, l, x)
  PROVE  /\ r \in WLocals /\ Alike(r, s) /\ r.pc = l /\ r.head = s.head /\ r.tail = x
         /\ r.next = s.next /\ r.cur = s.cur /\ r.tid = s.tid
BY DEF WithTail, WLocals, Alike, Same

LEMMA NextFact ==
  ASSUME NEW s \in WLocals, NEW l \in WPcs, NEW x \in NodesOrNone, NEW r,
         r = WithNext(s, l, x)
  PROVE  /\ r \in WLocals /\ Alike(r, s) /\ r.pc = l /\ r.head = s.head /\ r.tail = s.tail
         /\ r.next = x /\ r.cur = s.cur /\ r.tid = s.tid
BY DEF WithNext, WLocals, Alike, Same

LEMMA HeadFact ==
  ASSUME NEW s \in WLocals, NEW l \in WPcs, NEW h \in Heads, NEW r,
         r = WithHead(s, l, h)
  PROVE  /\ r \in WLocals /\ Alike(r, s) /\ r.pc = l /\ r.head = h /\ r.tail = s.tail
         /\ r.next = s.next /\ r.cur = s.cur /\ r.tid = s.tid
BY DEF WithHead, WLocals, Alike, Same

LEMMA CurFact ==
  ASSUME NEW s \in WLocals, NEW l \in WPcs, NEW d \in Descriptors, NEW r,
         r = WithCur(s, l, d)
  PROVE  /\ r \in WLocals /\ Alike(r, s) /\ r.pc = l /\ r.head = s.head /\ r.tail = s.tail
         /\ r.next = s.next /\ r.cur = d /\ r.tid = s.tid
BY DEF WithCur, WLocals, Alike, Same

LEMMA TidFact ==
  ASSUME NEW s \in WLocals, NEW l \in WPcs, NEW u \in ThreadsOrNone, NEW r,
         r = WithTid(s, l, u)
  PROVE  /\ r \in WLocals /\ Alike(r, s) /\ r.pc = l /\ r.head = s.head /\ r.tail = s.tail
         /\ r.next = s.next /\ r.cur = s.cur /\ r.tid = u
BY DEF WithTid, WLocals, Alike, Same

LEMMA ThenFact ==
  ASSUME NEW s \in WLocals, NEW l \in {"idle", "E_pending", "D_pending", "helped", "return", "result", "fast"},
         NEW r, r = WithThen(s, l)
  PROVE  /\ r \in WLocals /\ Same(r, s) /\ r.pc = s.pc /\ r.trials = s.trials /\ r.head = s.head
         /\ r.tail = s.tail /\ r.next = s.next /\ r.cur = s.cur /\ r.tid = s.tid /\ r.then = l
BY DEF WithThen, WLocals, Same

LEMMA WWithin ==
  ASSUME WInv, NEW t \in Threads, NEW s, s = th[t], NEW r \in WLocals, W!Local(t, r), Same(r, s),
         s.pc \notin {"idle", "return", "max", "publish", "help"},
         r.pc \notin {"idle", "return", "max", "publish", "help"},
         Finishing(r) <=> Finishing(s), Helping(r) => Helping(s) /\ (HelpsPut(r) <=> HelpsPut(s)),
         r.then = "helped" =>
           s.then = "helped" /\ (r.tail = tail \/ (s.pc # "FE_tail" /\ r.tail = s.tail)),
         ControlAt(t, r), LinkAt(t, r), EndPutAt(t, r), LookAt(t, r), GetAt(t, r), EndGetAt(t, r)
  PROVE  WInv'
<1>1. ControlAt(t, s) /\ DescAt(t, s) /\ HelpAt(t, s) /\ s \in WLocals
  BY DEF WInv, WTypeOK, ThreadInv, ControlInv, DescInv, HelpInv
<1>2. DescAt(t, r)
  BY <1>1 DEF DescAt, Same
<1>3. HelpAt(t, r)
  BY <1>1 DEF HelpAt, Same, Helping, Pending
<1>4. PhaseAt(t, r)
  BY DEF PhaseAt
<1>5. s.op # "none"
  BY <1>1 DEF ControlAt
<1>6. W!Set(t, r) /\ version' = version /\ UNCHANGED W!list /\ W!Observe(t, W!Held)
  BY DEF W!Local, W!shared
<1>7. ThreadAt(t, r)
  BY <1>2, <1>3, <1>4 DEF ThreadAt
<1> QED BY <1>5, <1>6, <1>7, LocalStep DEF Same

CallAt(t, s) == /\ WTypeOK /\ t \in Threads /\ s \in WLocals /\ s.op # "none" /\ s.pc # "return"
                /\ ControlAt(t, s) /\ DescAt(t, s) /\ HelpAt(t, s)
\* t goes on with c, in the same call.
GoesOn(t, s, c) == /\ c \in WLocals /\ c.op = s.op /\ c.item = s.item /\ c.slow = s.slow
                   /\ Helping(c) => Helping(s) /\ c.i = s.i /\ c.phase = s.phase
                   /\ ThreadAt(t, c)

LEMMA FinishFits ==
  ASSUME NEW t, NEW s, CallAt(t, s), s.slow = TRUE, ~state[t].pending, NEW r \in WLocals,
         r.op = s.op, r.item = s.item, r.slow = s.slow, NEW c, c = W!Finish(r)
  PROVE  GoesOn(t, s, c)
<1>1. 0 \in DOMAIN WaitfreeNum
  BY StrictQueuesAssumption
<1>2. /\ c \in WLocals /\ c.op = s.op /\ c.item = s.item /\ c.slow = s.slow /\ c.phase = W!kNoPhase
      /\ c.pc = IF s.op = "put" THEN "FE_tail" ELSE "FD_head"
      /\ c.then = IF s.op = "put" THEN "return" ELSE "result"
  <2> DEFINE label == IF r.op = "put" THEN "FE_tail" ELSE "FD_head"
             q == W!To(r, label)
  <2> PICK then : then = IF r.op = "put" THEN "return" ELSE "result"
    OBVIOUS
  <2>1. label \in WPcs /\ then \in {"return", "result"}
    BY DEF WPcs, EndPutPcs, EndGetPcs
  <2>2. c = [q EXCEPT !.phase = W!kNoPhase, !.i = 0, !.back = "idle", !.then = then]
    BY DEF W!Finish
  <2>3. q \in WLocals /\ q.pc = label /\ q.op = r.op /\ q.item = r.item /\ q.slow = r.slow
    BY <2>1, ToFact
  <2> HIDE DEF q, label
  <2>4. c \in WLocals
    BY <1>1, <2>1, <2>2, <2>3 DEF WLocals
  <2>5. /\ c.op = q.op /\ c.item = q.item /\ c.slow = q.slow /\ c.phase = W!kNoPhase
        /\ c.pc = q.pc /\ c.then = then
    BY <2>2, <2>3 DEF WLocals
  <2> QED BY <2>3, <2>4, <2>5 DEF label
<1>3. s.op \in {"put", "get"} /\ ControlAt(t, s) /\ DescAt(t, s) /\ s.slow /\ s.pc # "return"
  BY DEF CallAt, WLocals
<1>4. ~Helping(c) /\ Finishing(c)
  BY <1>2, <1>3 DEF Helping, Finishing, PutPcs, GetPcs, EmptyPcs, TakePcs
<1>5. ControlAt(t, c)
  BY <1>2, <1>3, <1>4 DEF ControlAt, EndPutPcs, EndGetPcs, FastPcs, FastPutPcs, FastGetPcs
<1>6. DescAt(t, c)
  BY <1>2, <1>3, <1>4 DEF DescAt
<1>7. HelpAt(t, c) /\ PhaseAt(t, c)
  BY <1>2, <1>4 DEF HelpAt, PhaseAt
<1>8. LinkAt(t, c) /\ EndPutAt(t, c) /\ LookAt(t, c) /\ GetAt(t, c) /\ EndGetAt(t, c)
  BY <1>2, Afresh
<1> QED BY <1>2, <1>4, <1>5, <1>6, <1>7, <1>8 DEF GoesOn, ThreadAt

LEMMA WCardinality == W!Cardinality(DOMAIN WaitfreeNum) = Cardinality(DOMAIN WaitfreeNum)
BY DEF W!Cardinality, Cardinality

LEMMA NumCount ==
  ASSUME NEW i \in DOMAIN WaitfreeNum
  PROVE  /\ i \in Nat /\ \A j \in DOMAIN WaitfreeNum : j \in Nat
         /\ i + 1 = Cardinality(DOMAIN WaitfreeNum) => \A j \in DOMAIN WaitfreeNum : j <= i
         /\ i + 1 # Cardinality(DOMAIN WaitfreeNum) => i + 1 \in DOMAIN WaitfreeNum
<1>1. Cardinality(DOMAIN WaitfreeNum) \in Nat /\ DOMAIN WaitfreeNum = 0 .. Cardinality(DOMAIN WaitfreeNum) - 1
  BY StrictQueuesAssumption, FS_CardinalityType
<1> QED BY <1>1

LEMMA NextHelpFits ==
  ASSUME NEW t, NEW s, CallAt(t, s), s.slow = TRUE, version = "ppopp11", ~Finishing(s), NEW r \in WLocals,
         r.op = s.op, r.item = s.item, r.slow = s.slow, r.i = s.i, r.phase = s.phase, r.then = "idle",
         \A j \in DOMAIN WaitfreeNum : WaitfreeNum[j] = t /\ j <= s.i => ~state[t].pending,
         NEW c, c = W!NextHelp(r)
  PROVE  GoesOn(t, s, c)
<1>1. /\ s.op \in {"put", "get"} /\ ControlAt(t, s) /\ DescAt(t, s) /\ s.slow /\ s.pc # "return" /\ s.op # "none"
      /\ s.i \in DOMAIN WaitfreeNum
  BY DEF CallAt, WLocals
<1>2. CASE s.i + 1 = Cardinality(DOMAIN WaitfreeNum)
  <2>1. ~state[t].pending
    BY <1>1, <1>2, NumCount DEF ControlAt
  <2>2. c = W!Finish(r)
    BY <1>2, WCardinality DEF W!NextHelp
  <2> QED BY <2>1, <2>2, FinishFits
<1>3. CASE s.i + 1 # Cardinality(DOMAIN WaitfreeNum)
  <2>1. s.i + 1 \in DOMAIN WaitfreeNum
    BY <1>1, <1>3, NumCount
  <2>2. /\ c \in WLocals /\ c.op = s.op /\ c.item = s.item /\ c.slow = s.slow /\ c.phase = s.phase
        /\ c.pc = "help" /\ c.then = "idle" /\ c.i = s.i + 1
    <3> DEFINE q == W!To(r, "help")
    <3>1. c = [q EXCEPT !.i = q.i + 1]
      BY <1>3, WCardinality DEF W!NextHelp
    <3>2. /\ q \in WLocals /\ q.pc = "help" /\ q.op = r.op /\ q.item = r.item /\ q.slow = r.slow
          /\ q.i = r.i /\ q.phase = r.phase /\ q.then = r.then
      BY ToFact DEF WPcs
    <3> HIDE DEF q
    <3> QED BY <2>1, <3>1, <3>2 DEF WLocals
  <2>3. ~Helping(c) /\ ~Finishing(c)
    BY <2>2 DEF Helping, Finishing, PutPcs, GetPcs, EmptyPcs, TakePcs
  <2>4. ControlAt(t, c)
    BY <1>1, <2>2, <2>3 DEF ControlAt, EndPutPcs, EndGetPcs, FastPcs, FastPutPcs, FastGetPcs
  <2>5. DescAt(t, c)
    BY <1>1, <2>2, <2>3 DEF DescAt
  <2>6. HelpAt(t, c)
    <3>1. \A j \in DOMAIN WaitfreeNum : j < s.i + 1 => j <= s.i
      BY <1>1, NumCount
    <3> QED BY <2>2, <2>3, <3>1 DEF HelpAt
  <2>7. PhaseAt(t, c) /\ LinkAt(t, c) /\ EndPutAt(t, c) /\ LookAt(t, c) /\ GetAt(t, c) /\ EndGetAt(t, c)
    BY <2>2, Afresh DEF PhaseAt
  <2> QED BY <2>2, <2>3, <2>4, <2>5, <2>6, <2>7 DEF GoesOn, ThreadAt
<1> QED BY <1>2, <1>3

LEMMA HelpedFits ==
  ASSUME NEW t, NEW s, CallAt(t, s), Helping(s), WaitfreeNum[s.i] = t => ~state[t].pending,
         NEW r \in WLocals, Same(r, s), r.then = "idle", NEW c, c = W!Helped(r)
  PROVE  GoesOn(t, s, c)
<1>1. /\ ControlAt(t, s) /\ HelpAt(t, s) /\ s.slow /\ s.pc # "return" /\ s.op # "none"
      /\ s.i \in DOMAIN WaitfreeNum
  BY DEF CallAt, WLocals, ControlAt
<1>2. ~Finishing(s)
  BY <1>1 DEF ControlAt, Helping, Finishing, PutPcs, GetPcs, EmptyPcs, TakePcs, EndPutPcs, EndGetPcs
<1>3. IF version = "ppopp11" THEN r.back = "help" ELSE r.back = "finish" /\ WaitfreeNum[s.i] = t
  BY <1>1 DEF ControlAt, Same
<1>4. CASE version = "ppopp11"
  <2> DEFINE q == [r EXCEPT !.back = "idle"]
  <2>1. /\ q \in WLocals /\ q.op = s.op /\ q.item = s.item /\ q.slow = s.slow /\ q.i = s.i
        /\ q.phase = s.phase /\ q.then = "idle"
    BY DEF WLocals, Same
  <2>2. c = W!NextHelp(q)
    BY <1>3, <1>4 DEF W!Helped
  <2>3. \A j \in DOMAIN WaitfreeNum : WaitfreeNum[j] = t /\ j <= s.i => ~state[t].pending
    <3>1. \A j \in DOMAIN WaitfreeNum : j <= s.i => j < s.i \/ j = s.i
      BY <1>1, NumCount
    <3> QED BY <1>1, <3>1 DEF HelpAt
  <2> HIDE DEF q
  <2>4. s.slow = TRUE
    BY <1>1 DEF CallAt, WLocals
  <2> QED BY <1>1, <1>2, <1>4, <2>1, <2>2, <2>3, <2>4, NextHelpFits
<1>5. CASE version # "ppopp11"
  <2>1. c = W!Finish(r)
    BY <1>3, <1>5 DEF W!Helped
  <2>2. s.slow = TRUE
    BY <1>1 DEF CallAt, WLocals
  <2> QED BY <1>1, <1>3, <1>5, <2>1, <2>2, FinishFits DEF Same
<1> QED BY <1>4, <1>5

\* After the end of an operation, for which then says how t came to it.
EndsWell(t, s) == /\ CallAt(t, s) /\ s.pc \in EndPutPcs \cup EndGetPcs
                  /\ s.then = "helped" /\ WaitfreeNum[s.i] = t => ~state[t].pending
                  /\ s.then = "result" /\ state[t].node # Null => head.node # state[t].node

LEMMA ContinueFits ==
  ASSUME NEW CONSTANT t, NEW CONSTANT s, NEW CONSTANT r \in WLocals, Same(r, s), r.then = s.then,
         NEW CONSTANT c, c = W!Continue(r)
  PROVE  EndsWell(t, s) => GoesOn(t, s, c)
<1> SUFFICES ASSUME EndsWell(t, s) PROVE GoesOn(t, s, c)
  OBVIOUS
<1>1. CallAt(t, s)
  BY DEF EndsWell
<1>2. ControlAt(t, s) /\ HelpAt(t, s) /\ DescAt(t, s) /\ s.pc # "return" /\ s.op # "none" /\ s \in WLocals
  BY <1>1 DEF CallAt
<1>3. s.then \in {"E_pending", "D_pending", "helped", "return", "result", "fast"}
  BY <1>2 DEF ControlAt, EndsWell
<1>4. CASE s.then = "helped"
  <2> DEFINE q == [r EXCEPT !.then = "idle"]
  <2>1. q \in WLocals /\ Same(q, s) /\ q.then = "idle"
    BY DEF WLocals, Same
  <2>2. c = W!Helped(q)
    BY <1>4 DEF W!Continue
  <2>3. Helping(s)
    BY <1>4 DEF Helping
  <2>4. WaitfreeNum[s.i] = t => ~state[t].pending
    BY <1>4 DEF EndsWell
  <2> HIDE DEF q
  <2> QED BY <1>1, <2>1, <2>2, <2>3, <2>4, HelpedFits
<1>5. CASE s.then # "helped"
  <2> DEFINE q == W!To(r, r.then)
  <2>1. r.then \in WPcs
    BY <1>3, <1>5 DEF WPcs, PutPcs, GetPcs, FastPcs
  <2>2. /\ q \in WLocals /\ q.pc = r.then /\ q.op = r.op /\ q.item = r.item /\ q.slow = r.slow
        /\ q.i = r.i /\ q.phase = r.phase /\ q.back = r.back /\ q.then = r.then
    BY <2>1, ToFact
  <2>3. c = [q EXCEPT !.then = "idle"]
    BY <1>5 DEF W!Continue
  <2> HIDE DEF q
  <2>4. c \in WLocals /\ c.pc = s.then /\ Same(c, s) /\ c.then = "idle"
    BY <2>2, <2>3 DEF WLocals, Same
  <2>5. ControlAt(t, c) /\ (Helping(c) => Helping(s) /\ (HelpsPut(c) <=> HelpsPut(s)))
    <3>1. s.pc \notin PutPcs \cup GetPcs
      BY DEF EndsWell, EndPutPcs, EndGetPcs, PutPcs, GetPcs, EmptyPcs, TakePcs
    <3>2. Helping(c) => c.pc \in {"E_pending", "D_pending"}
      BY <1>3, <1>5, <2>4 DEF Helping, PutPcs, GetPcs, EmptyPcs, TakePcs
    <3>3. Helping(c) => Helping(s) /\ (HelpsPut(c) <=> HelpsPut(s))
      BY <2>4, <3>1, <3>2 DEF Helping, HelpsPut, PutPcs, GetPcs
    <3>4. c.pc \notin {"idle", "max", "publish", "help", "FD_tid"} \cup EndPutPcs \cup EndGetPcs \cup FastPutPcs \cup FastGetPcs
          /\ (c.pc \in FastPcs => c.pc = "fast")
      BY <1>3, <1>5, <2>4 DEF EndPutPcs, EndGetPcs, FastPutPcs, FastGetPcs, FastPcs
    <3> QED BY <1>2, <1>3, <2>4, <3>3, <3>4 DEF ControlAt, Same
  <2>6. DescAt(t, c)
    <3>1. Finishing(c) <=> Finishing(s)
      <4>1. s.pc # "result"
        BY DEF EndsWell, EndPutPcs, EndGetPcs
      <4>2. s.then = "return" => s.slow
        BY <1>2 DEF ControlAt
      <4> QED BY <1>2, <1>3, <2>4, <4>1, <4>2 DEF Finishing, Same
    <3>2. c.pc = "return" => s.op = "put" /\ s.slow /\ Finishing(s)
      BY <1>2, <2>4 DEF ControlAt, Finishing
    <3> QED BY <1>2, <2>4, <3>1, <3>2 DEF DescAt, Same
  <2>7. HelpAt(t, c)
    BY <1>2, <1>3, <1>5, <2>4, <2>5 DEF HelpAt, Same, Pending
  <2>8. CASE s.then # "result"
    <3>1. LinkAt(t, c) /\ EndPutAt(t, c) /\ LookAt(t, c) /\ GetAt(t, c) /\ EndGetAt(t, c)
      BY <1>3, <1>5, <2>4, <2>8, Afresh
    <3>2. PhaseAt(t, c)
      BY <1>3, <2>4 DEF PhaseAt
    <3> QED BY <2>4, <2>5, <2>6, <2>7, <3>1, <3>2 DEF GoesOn, ThreadAt, Same
  <2>9. CASE s.then = "result"
    <3>1. LinkAt(t, c) /\ EndPutAt(t, c) /\ LookAt(t, c) /\ GetAt(t, c) /\ PhaseAt(t, c)
      BY <2>4, <2>9 DEF LinkAt, EndPutAt, LookAt, GetAt, EndPutPcs, EmptyPcs, TakePcs, PhaseAt
    <3>2. EndGetAt(t, c)
      BY <2>4, <2>9 DEF EndGetAt, EndsWell, EndGetPcs
    <3> QED BY <2>4, <2>5, <2>6, <2>7, <3>1, <3>2 DEF GoesOn, ThreadAt, Same
  <2> QED BY <2>8, <2>9
<1> QED BY <1>4, <1>5

LEMMA ContinueFitsNext ==
  ASSUME NEW CONSTANT t, NEW CONSTANT s, NEW CONSTANT r \in WLocals, Same(r, s), r.then = s.then,
         NEW CONSTANT c, c = W!Continue(r)
  PROVE  EndsWell(t, s)' => GoesOn(t, s, c)'
<1>1. EndsWell(t, s) => GoesOn(t, s, c)
  BY ContinueFits
<1> QED BY <1>1, PTL
-----------------------------------------------------------------------------
\* Steps from one line of a function to the next.

LEMMA Here ==
  ASSUME WInv, NEW t \in Threads, NEW s, s = th[t]
  PROVE  /\ WTypeOK /\ ListInv /\ ClaimInv /\ PlacesInv /\ Ordered
         /\ s \in WLocals /\ ThreadAt(t, s)
<1>1. WTypeOK /\ ListInv /\ ClaimInv /\ PlacesInv /\ ThreadInv(t)
  BY DEF WInv
<1>2. Ordered
  BY <1>1, OrderedFact
<1>3. s \in WLocals
  BY <1>1 DEF WTypeOK
<1>4. ThreadAt(t, s)
  BY <1>1 DEF ThreadAt, ThreadInv, ControlInv, DescInv, HelpInv, PhaseInv, PutInv, EndPutInv, LookInv,
       GetInv, EndGetInv
<1> QED BY <1>1, <1>2, <1>3, <1>4

Stays(r, s) == /\ Same(r, s) /\ r.then = s.then
               /\ \/ s.pc \in PutPcs /\ r.pc \in PutPcs
                  \/ s.pc \in EndPutPcs /\ r.pc \in EndPutPcs
                  \/ s.pc \in GetPcs /\ r.pc \in GetPcs
                  \/ s.pc \in EndGetPcs /\ r.pc \in EndGetPcs
                  \/ s.pc \in FastPutPcs /\ r.pc \in FastPutPcs
                  \/ s.pc \in FastGetPcs /\ r.pc \in FastGetPcs

LEMMA StaysFact ==
  ASSUME NEW t, NEW s, NEW r, ControlAt(t, s), Stays(r, s), r.pc = "FD_tid" => version = "ppopp11"
  PROVE  /\ ControlAt(t, r) /\ (Finishing(r) <=> Finishing(s))
         /\ (Helping(r) <=> Helping(s)) /\ (HelpsPut(r) <=> HelpsPut(s))
         /\ s.pc \notin {"idle", "return", "max", "publish", "help", "result"}
         /\ r.pc \notin {"idle", "return", "max", "publish", "help", "result"}
<1>1. /\ s.pc \notin {"idle", "return", "max", "publish", "help", "result"}
      /\ r.pc \notin {"idle", "return", "max", "publish", "help", "result"}
  BY DEF Stays, PutPcs, EndPutPcs, GetPcs, EmptyPcs, TakePcs, EndGetPcs, FastPutPcs, FastGetPcs
<1>2. /\ r.pc \in PutPcs <=> s.pc \in PutPcs
      /\ r.pc \in GetPcs <=> s.pc \in GetPcs
      /\ r.pc \in EndPutPcs <=> s.pc \in EndPutPcs
      /\ r.pc \in EndGetPcs <=> s.pc \in EndGetPcs
      /\ r.pc \in FastPutPcs <=> s.pc \in FastPutPcs
      /\ r.pc \in FastGetPcs <=> s.pc \in FastGetPcs
      /\ r.pc \in FastPcs <=> s.pc \in FastPcs
  BY DEF Stays, PutPcs, EndPutPcs, GetPcs, EmptyPcs, TakePcs, EndGetPcs, FastPutPcs, FastGetPcs, FastPcs
<1>3. (Finishing(r) <=> Finishing(s)) /\ (Helping(r) <=> Helping(s)) /\ (HelpsPut(r) <=> HelpsPut(s))
  BY <1>1, <1>2 DEF Finishing, Helping, HelpsPut, Stays
<1>4. ControlAt(t, r)
  BY <1>1, <1>2, <1>3 DEF ControlAt, Stays, Same
<1> QED BY <1>1, <1>3, <1>4

LEMMA Stay ==
  ASSUME WInv, NEW t \in Threads, NEW s, s = th[t], NEW r \in WLocals, W!Local(t, r), Stays(r, s),
         r.pc = "FD_tid" => version = "ppopp11",
         r.then = "helped" => r.tail = tail \/ (s.pc # "FE_tail" /\ r.tail = s.tail),
         r.pc \in PutPcs \cup FastPutPcs => LinkAt(t, r),
         r.pc \in EndPutPcs => EndPutAt(t, r),
         r.pc \in GetPcs \cup FastGetPcs => LookAt(t, r) /\ GetAt(t, r),
         r.pc \in EndGetPcs => EndGetAt(t, r)
  PROVE  WInv'
<1>1. ControlAt(t, s)
  BY Here DEF ThreadAt
<1>2. /\ ControlAt(t, r) /\ (Finishing(r) <=> Finishing(s))
      /\ (Helping(r) <=> Helping(s)) /\ (HelpsPut(r) <=> HelpsPut(s))
      /\ s.pc \notin {"idle", "return", "max", "publish", "help", "result"}
      /\ r.pc \notin {"idle", "return", "max", "publish", "help", "result"}
  BY <1>1, StaysFact
<1>3. r.pc \notin PutPcs \cup FastPutPcs => LinkAt(t, r)
  BY DEF LinkAt, PutPcs, FastPutPcs
<1>4. r.pc \notin EndPutPcs => EndPutAt(t, r)
  BY DEF EndPutAt, EndPutPcs
<1>5. r.pc \notin GetPcs \cup FastGetPcs => LookAt(t, r) /\ GetAt(t, r)
  BY DEF LookAt, GetAt, GetPcs, FastGetPcs, EmptyPcs, TakePcs
<1>6. r.pc \notin EndGetPcs => EndGetAt(t, r)
  <2>1. r.pc \notin EndGetPcs => r.then # "result"
    BY <1>2 DEF ControlAt
  <2> QED BY <1>2, <2>1 DEF EndGetAt, EndGetPcs
<1> QED BY <1>2, <1>3, <1>4, <1>5, <1>6, WWithin DEF Stays

\* Of the Stay lemmas, one for each function.
LEMMA PcsApart ==
  /\ \A l \in PutPcs : l \notin EndPutPcs \cup GetPcs \cup EndGetPcs \cup FastPutPcs \cup FastGetPcs
  /\ \A l \in EndPutPcs : l \notin PutPcs \cup GetPcs \cup EndGetPcs \cup FastPutPcs \cup FastGetPcs
  /\ \A l \in GetPcs : l \notin PutPcs \cup EndPutPcs \cup EndGetPcs \cup FastPutPcs \cup FastGetPcs
  /\ \A l \in EndGetPcs : l \notin PutPcs \cup EndPutPcs \cup GetPcs \cup FastPutPcs \cup FastGetPcs
  /\ \A l \in FastPutPcs : l \notin PutPcs \cup EndPutPcs \cup GetPcs \cup EndGetPcs \cup FastGetPcs
  /\ \A l \in FastGetPcs : l \notin PutPcs \cup EndPutPcs \cup GetPcs \cup EndGetPcs \cup FastPutPcs
  /\ "FD_tid" \in EndGetPcs
BY DEF PutPcs, EndPutPcs, GetPcs, EmptyPcs, TakePcs, EndGetPcs, FastPutPcs, FastGetPcs

LEMMA StayPut ==
  ASSUME WInv, NEW t \in Threads, NEW s, s = th[t], NEW r \in WLocals, W!Local(t, r), Same(r, s),
         r.then = s.then, s.pc \in PutPcs, r.pc \in PutPcs, LinkAt(t, r)
  PROVE  WInv'
<1>1. ControlAt(t, s) /\ Stays(r, s)
  BY Here DEF ThreadAt, Stays
<1> QED BY <1>1, PcsApart, Stay DEF ControlAt

LEMMA StayEndPut ==
  ASSUME WInv, NEW t \in Threads, NEW s, s = th[t], NEW r \in WLocals, W!Local(t, r), Same(r, s),
         r.then = s.then, s.pc \in EndPutPcs, r.pc \in EndPutPcs, EndPutAt(t, r),
         r.then = "helped" => r.tail = tail \/ (s.pc # "FE_tail" /\ r.tail = s.tail)
  PROVE  WInv'
<1>1. ControlAt(t, s) /\ Stays(r, s)
  BY Here DEF ThreadAt, Stays
<1> QED BY <1>1, PcsApart, Stay

LEMMA StayGet ==
  ASSUME WInv, NEW t \in Threads, NEW s, s = th[t], NEW r \in WLocals, W!Local(t, r), Same(r, s),
         r.then = s.then, s.pc \in GetPcs, r.pc \in GetPcs, LookAt(t, r), GetAt(t, r)
  PROVE  WInv'
<1>1. ControlAt(t, s) /\ Stays(r, s)
  BY Here DEF ThreadAt, Stays
<1> QED BY <1>1, PcsApart, Stay DEF ControlAt

LEMMA StayEndGet ==
  ASSUME WInv, NEW t \in Threads, NEW s, s = th[t], NEW r \in WLocals, W!Local(t, r), Same(r, s),
         r.then = s.then, s.pc \in EndGetPcs, r.pc \in EndGetPcs, EndGetAt(t, r),
         r.pc = "FD_tid" => version = "ppopp11"
  PROVE  WInv'
<1>1. ControlAt(t, s) /\ Stays(r, s)
  BY Here DEF ThreadAt, Stays
<1> QED BY <1>1, PcsApart, Stay DEF ControlAt

LEMMA StayFastPut ==
  ASSUME WInv, NEW t \in Threads, NEW s, s = th[t], NEW r \in WLocals, W!Local(t, r), Same(r, s),
         r.then = s.then, s.pc \in FastPutPcs, r.pc \in FastPutPcs, LinkAt(t, r)
  PROVE  WInv'
<1>1. ControlAt(t, s) /\ Stays(r, s)
  BY Here DEF ThreadAt, Stays
<1> QED BY <1>1, PcsApart, Stay DEF ControlAt

LEMMA StayFastGet ==
  ASSUME WInv, NEW t \in Threads, NEW s, s = th[t], NEW r \in WLocals, W!Local(t, r), Same(r, s),
         r.then = s.then, s.pc \in FastGetPcs, r.pc \in FastGetPcs, LookAt(t, r), GetAt(t, r)
  PROVE  WInv'
<1>1. ControlAt(t, s) /\ Stays(r, s)
  BY Here DEF ThreadAt, Stays
<1> QED BY <1>1, PcsApart, Stay DEF ControlAt

\* Calls of another function, and new trials.
LEMMA Restart ==
  ASSUME WInv, NEW t \in Threads, NEW s, s = th[t], NEW r \in WLocals, W!Local(t, r), Same(r, s),
         s.pc \notin {"idle", "return", "max", "publish", "help"},
         r.pc \in {"E_pending", "E_tail", "D_pending", "D_head", "FE_tail", "FD_head", "fast", "Q_tail", "R_head"},
         r.pc = "FD_head" \/ r.then # "result", r.then # "helped",
         Finishing(r) <=> Finishing(s), Helping(r) => Helping(s) /\ (HelpsPut(r) <=> HelpsPut(s)),
         ControlAt(t, r)
  PROVE  WInv'
<1>1. LinkAt(t, r) /\ EndPutAt(t, r) /\ LookAt(t, r) /\ GetAt(t, r) /\ EndGetAt(t, r)
  BY Afresh
<1> QED BY <1>1, WWithin

LEMMA GoneOn ==
  ASSUME WInv, NEW t \in Threads, NEW s, s = th[t], NEW r, W!Local(t, r), GoesOn(t, s, r), s.op # "none"
  PROVE  WInv'
<1>1. W!Set(t, r) /\ version' = version /\ UNCHANGED W!list /\ W!Observe(t, W!Held)
  BY DEF W!Local, W!shared
<1> QED BY <1>1, LocalStep DEF GoesOn
-----------------------------------------------------------------------------
\* Helping to enqueue.

LEMMA PutPendingKept == ASSUME WInv, NEW t \in Threads, W!PutPending(t) PROVE WInv'
<1> PICK s : s = th[t]
  OBVIOUS
<1>1. s.pc = "E_pending" /\ s \in WLocals /\ ThreadAt(t, s) /\ WTypeOK
  BY Here DEF W!PutPending, W!Read, W!At
<1>2. CASE W!IsStillPending(t)
  <2> PICK r : r = W!To(s, "E_tail")
    OBVIOUS
  <2>1. r \in WLocals /\ Stays(r, s) /\ r.pc = "E_tail" /\ r.then = s.then
    BY <1>1, ToFact DEF Stays, Same, WPcs, PutPcs
  <2>2. W!Local(t, r)
    BY <1>2 DEF W!PutPending, W!Read
  <2>4. LinkAt(t, r)
    <3>1. r.pc = "E_tail"
      BY <2>1
    <3> QED BY ONLY <3>1 DEF LinkAt
  <2>5. Same(r, s) /\ r.then = s.then /\ s.pc \in PutPcs /\ r.pc \in PutPcs
    BY <1>1, <2>1 DEF Stays, PutPcs
  <2>6. r \in WLocals
    BY <2>1
  <2>7. s = th[t]
    OBVIOUS
  <2> QED BY <2>2, <2>4, <2>5, <2>6, <2>7, StayPut
<1>3. CASE ~W!IsStillPending(t)
  <2> PICK r : r = W!Helped(s)
    OBVIOUS
  <2>1. W!Local(t, r)
    BY <1>3 DEF W!PutPending, W!Read
  <2>2. Helping(s) /\ ControlAt(t, s) /\ DescAt(t, s) /\ HelpAt(t, s)
    BY <1>1 DEF ThreadAt, Helping, PutPcs
  <2>3. s.then = "idle" /\ s.slow /\ s.op # "none" /\ ~Finishing(s)
    BY <1>1, <2>2 DEF ControlAt, EndPutPcs, EndGetPcs, Finishing
  <2>4. CallAt(t, s)
    BY <1>1, <2>2, <2>3 DEF CallAt
  <2>5. WaitfreeNum[s.i] = t => ~state[t].pending
    <3>1. state[t].phase \in Int /\ s.phase \in Int
      BY <1>1 DEF WTypeOK, WLocals, Descriptors, W!kNoPhase
    <3> QED BY <1>3, <2>2, <2>3, <3>1 DEF W!IsStillPending, DescAt
  <2>6. GoesOn(t, s, r)
    BY <1>1, <2>2, <2>3, <2>4, <2>5, HelpedFits DEF Same
  <2> QED BY <2>1, <2>3, <2>6, GoneOn
<1> QED BY <1>2, <1>3

LEMMA PutTailKept == ASSUME WInv, NEW t \in Threads, W!PutTail(t) PROVE WInv'
<1> PICK s : s = th[t]
  OBVIOUS
<1> PICK r : r = WithTail(s, "E_next", tail)
  OBVIOUS
<1>1. s.pc = "E_tail" /\ s \in WLocals /\ WTypeOK /\ ListInv /\ W!Local(t, r)
  BY Here DEF W!PutTail, W!Read, W!At, WithTail
<1>2. r \in WLocals /\ Alike(r, s) /\ r.pc = "E_next" /\ r.tail = tail
  <2>1. tail \in NodesOrNone /\ "E_next" \in WPcs
    BY <1>1 DEF WTypeOK, NodesOrNone, WPcs, PutPcs
  <2> QED BY <1>1, <2>1, TailFact
<1>3. LinkAt(t, r)
  BY <1>1, <1>2 DEF LinkAt, WasTail, UpTo, ListInv
<1> QED BY <1>1, <1>2, <1>3, StayPut DEF Alike, PutPcs

LEMMA PutNextKept == ASSUME WInv, NEW t \in Threads, W!PutNext(t) PROVE WInv'
<1> PICK s : s = th[t]
  OBVIOUS
<1> PICK r : r = WithNext(s, "E_same", next[s.tail])
  OBVIOUS
<1>1. s.pc = "E_next" /\ s \in WLocals /\ WTypeOK /\ Ordered /\ LinkAt(t, s) /\ W!Local(t, r)
  BY Here DEF W!PutNext, W!Read, W!At, ThreadAt, WithNext
<1>2. WasTail(s.tail) /\ s.tail \in W!Nodes
  BY <1>1 DEF LinkAt, WasTail, Ordered
<1>3. r \in WLocals /\ Alike(r, s) /\ r.pc = "E_same" /\ r.tail = s.tail /\ r.next = next[r.tail]
  <2>1. next[s.tail] \in NodesOrNone /\ "E_same" \in WPcs
    BY <1>1, <1>2 DEF WTypeOK, NodesOrNone, W!Nodes, WPcs, PutPcs
  <2> QED BY <1>1, <2>1, NextFact
<1>4. LinkAt(t, r)
  BY <1>2, <1>3 DEF LinkAt
<1> QED BY <1>1, <1>3, <1>4, StayPut DEF Alike, PutPcs

LEMMA PutSameKept == ASSUME WInv, NEW t \in Threads, W!PutSame(t) PROVE WInv'
<1> PICK s : s = th[t]
  OBVIOUS
<1>1. s.pc = "E_same" /\ s \in WLocals /\ LinkAt(t, s) /\ ControlAt(t, s) /\ s.then = "idle"
  BY Here DEF W!PutSame, W!Read, W!At, ThreadAt, ControlAt, EndPutPcs, EndGetPcs
<1>2. CASE tail # s.tail
  <2> PICK r : r = W!To(s, "E_pending")
    OBVIOUS
  <2>1. r \in WLocals /\ Same(r, s) /\ r.pc = "E_pending" /\ r.then = "idle"
    <3>1. "E_pending" \in WPcs
      BY DEF WPcs, PutPcs
    <3> QED BY <1>1, <3>1, ToFact DEF Same
  <2>2. W!Local(t, r)
    BY <1>2 DEF W!PutSame, W!Read
  <2> QED BY <1>1, <2>1, <2>2, StayPut DEF Stays, LinkAt, PutPcs
<1>3. CASE tail = s.tail /\ s.next = Null
  <2> PICK r : r = WithPc(s, "E_again")
    OBVIOUS
  <2>1. r \in WLocals /\ Alike(r, s) /\ r.pc = "E_again" /\ r.tail = s.tail
    BY <1>1, PcFact DEF WPcs, PutPcs
  <2>2. W!Local(t, r)
    BY <1>3 DEF W!PutSame, W!Read, WithPc
  <2> QED BY <1>1, <2>1, <2>2, StayPut DEF Alike, LinkAt, PutPcs
<1>4. CASE tail = s.tail /\ s.next # Null
  <2> PICK q : q = W!To(s, "FE_tail")
    OBVIOUS
  <2> PICK r : r = WithThen(q, "E_pending")
    OBVIOUS
  <2>1. q \in WLocals /\ Same(q, s) /\ q.pc = "FE_tail"
    BY <1>1, ToFact DEF Same, WPcs, EndPutPcs
  <2>2. r \in WLocals /\ Same(r, s) /\ r.pc = "FE_tail" /\ r.then = "E_pending"
    BY <2>1, ThenFact DEF Same
  <2>3. W!Local(t, r)
    BY <1>4 DEF W!PutSame, W!Read, WithThen
  <2>4. /\ Finishing(r) <=> Finishing(s)
        /\ Helping(r) /\ Helping(s) /\ HelpsPut(r) /\ HelpsPut(s)
    BY <1>1, <2>2 DEF Finishing, Helping, HelpsPut, PutPcs
  <2>5. ControlAt(t, r)
    BY <1>1, <2>2, <2>4 DEF ControlAt, Same, PutPcs, EndPutPcs, GetPcs, EmptyPcs, TakePcs, EndGetPcs, FastPutPcs, FastGetPcs, FastPcs
  <2> QED BY <1>1, <2>2, <2>3, <2>4, <2>5, Restart
<1> QED BY <1>2, <1>3, <1>4

LEMMA PutAgainKept == ASSUME WInv, NEW t \in Threads, W!PutAgain(t) PROVE WInv'
<1> PICK s : s = th[t]
  OBVIOUS
<1>1. /\ s.pc = "E_again" /\ s \in WLocals /\ ThreadAt(t, s) /\ s.then = "idle" /\ Ordered /\ ListInv
      /\ WTypeOK
  BY Here DEF W!PutAgain, W!Read, W!At, ThreadAt, ControlAt, EndPutPcs, EndGetPcs
<1>2. CASE ~W!IsStillPending(t)
  <2> PICK r : r = W!To(s, "E_pending")
    OBVIOUS
  <2>1. r \in WLocals /\ Same(r, s) /\ r.pc = "E_pending" /\ r.then = "idle"
    BY <1>1, ToFact DEF Same, WPcs, PutPcs
  <2>2. W!Local(t, r)
    BY <1>2 DEF W!PutAgain, W!Read
  <2> QED BY <1>1, <2>1, <2>2, StayPut DEF Stays, LinkAt, PutPcs
<1>3. CASE W!IsStillPending(t)
  <2> PICK r : r = WithPc(s, "E_node")
    OBVIOUS
  <2>1. r \in WLocals /\ Alike(r, s) /\ r.pc = "E_node" /\ r.tail = s.tail
    BY <1>1, PcFact DEF WPcs, PutPcs
  <2>2. W!Local(t, r)
    BY <1>3 DEF W!PutAgain, W!Read, WithPc
  <2> DEFINE u == WaitfreeNum[s.i]
  <2>3. Pending(s) /\ u \in Threads
    BY <1>1, <1>3, NumType DEF W!IsStillPending, Pending, WLocals
  <2>4. state[u].type = "put" /\ state[u].pending
    BY <1>1, <2>3 DEF ThreadAt, HelpAt, Helping, HelpsPut, PutPcs, Pending
  <2>5. next[s.tail] = Null => state[u].node \notin Linked
    <3> SUFFICES ASSUME next[s.tail] = Null, state[u].node \in Linked PROVE FALSE
      OBVIOUS
    <3>1. state[u].node = next[tail]
      BY <2>3, <2>4 DEF WInv, ThreadInv, DescInv, DescAt
    <3>2. WasTail(s.tail)
      BY <1>1 DEF ThreadAt, LinkAt
    <3>3. s.tail = tail
      BY <1>1, <3>2 DEF WasTail, UpTo, Ordered, WTypeOK
    <3>4. Null \notin Linked
      BY <1>1, SuccFact DEF Ordered, Chain
    <3> QED BY <3>1, <3>3, <3>4
  <2>6. WasTail(r.tail) /\ Pending(r) /\ WaitfreeNum[r.i] = u
    BY <1>1, <2>1, <2>3 DEF ThreadAt, LinkAt, Pending, Alike, Same
  <2>7. LinkAt(t, r)
    BY <2>1, <2>5, <2>6 DEF LinkAt
  <2> QED BY <1>1, <2>1, <2>2, <2>7, StayPut DEF Alike, PutPcs
<1> QED BY <1>2, <1>3

LEMMA PutNodeKept == ASSUME WInv, NEW t \in Threads, W!PutNode(t) PROVE WInv'
<1> PICK s : s = th[t]
  OBVIOUS
<1> PICK r : r = WithNext(s, "E_link", state[WaitfreeNum[s.i]].node)
  OBVIOUS
<1>1. s.pc = "E_node" /\ s \in WLocals /\ WTypeOK /\ LinkAt(t, s) /\ W!Local(t, r) /\ WaitfreeNum[s.i] \in Threads
  BY Here, NumType DEF W!PutNode, W!Read, W!At, ThreadAt, WLocals, WithNext
<1>2. state[WaitfreeNum[s.i]].node \in NodesOrNone
  BY <1>1 DEF WTypeOK, Descriptors
<1>3. /\ r \in WLocals /\ Alike(r, s) /\ r.pc = "E_link" /\ r.tail = s.tail
      /\ r.next = state[WaitfreeNum[s.i]].node
  <2>1. "E_link" \in WPcs
    BY DEF WPcs, PutPcs
  <2> QED BY <1>1, <1>2, <2>1, NextFact
<1>4. LinkAt(t, r)
  BY <1>1, <1>3 DEF LinkAt, Alike, Same, Pending
<1> QED BY <1>1, <1>3, <1>4, StayPut DEF Alike, PutPcs
-----------------------------------------------------------------------------
\* Ending an enqueue.

LEMMA Continued ==
  ASSUME WInv, NEW t \in Threads, NEW s, s = th[t], s.pc \in EndPutPcs \cup EndGetPcs,
         NEW r \in WLocals, Same(r, s), r.then = s.then, W!Local(t, W!Continue(r)),
         s.then = "helped" /\ WaitfreeNum[s.i] = t => ~state[t].pending,
         s.then = "result" /\ state[t].node # Null => head.node # state[t].node
  PROVE  WInv'
<1>1. WTypeOK /\ s \in WLocals /\ ThreadAt(t, s)
  BY Here
<1>2. s.op # "none" /\ s.pc # "return"
  BY <1>1 DEF ThreadAt, ControlAt, EndPutPcs, EndGetPcs
<1>3. EndsWell(t, s)
  BY <1>1, <1>2 DEF EndsWell, CallAt, ThreadAt
<1> PICK c : c = W!Continue(r)
  OBVIOUS
<1>4. GoesOn(t, s, c)
  BY <1>3, ContinueFits
<1> QED BY <1>2, <1>4, GoneOn

\* The node of one's own enqueue is the one behind the tail, until it is marked.
LEMMA StillMine ==
  ASSUME WInv, NEW t \in Threads, NEW s, s = th[t], s.pc \in EndPutPcs \ {"FE_tail"},
         s.then = "helped", WaitfreeNum[s.i] = t, state[t].pending
  PROVE  /\ s.tail = tail /\ next[tail] # Null /\ state[t].node = next[tail] /\ enq_tid[next[tail]] = t
         /\ state[t].type = "put"
<1>1. WTypeOK /\ s \in WLocals /\ ThreadAt(t, s)
  BY Here
<1>2. s.slow /\ Helping(s) /\ HelpsPut(s) /\ ~Finishing(s)
  BY <1>1 DEF ThreadAt, ControlAt, DescAt, Helping, HelpsPut
<1>3. state[t].phase = s.phase /\ state[t].phase \in Int
  BY <1>1, <1>2 DEF ThreadAt, DescAt, WTypeOK, Descriptors, W!kNoPhase
<1>4. state[t].type = "put"
  BY <1>1, <1>2, <1>3 DEF ThreadAt, HelpAt, Pending
<1>5. s.item \in Linked /\ s.tail = tail
  BY <1>1 DEF ThreadAt, HelpAt
<1>6. s.op = "put" /\ state[t].node = s.item /\ s.item \in Items
  BY <1>1, <1>2, <1>4 DEF ThreadAt, DescAt, ControlAt
<1>7. s.item # Null
  BY <1>6, CallHistoryAssumption
<1> QED BY <1>1, <1>4, <1>5, <1>6, <1>7 DEF ThreadAt, DescAt

LEMMA EndTailKept == ASSUME WInv, NEW t \in Threads, W!EndTail(t) PROVE WInv'
<1> PICK s : s = th[t]
  OBVIOUS
<1> PICK r : r = WithTail(s, "FE_next", tail)
  OBVIOUS
<1>1. s.pc = "FE_tail" /\ s \in WLocals /\ WTypeOK /\ ListInv /\ W!Local(t, r)
  BY Here DEF W!EndTail, W!Read, W!At, WithTail
<1>2. r \in WLocals /\ Alike(r, s) /\ r.pc = "FE_next" /\ r.tail = tail
  <2>1. tail \in NodesOrNone /\ "FE_next" \in WPcs
    BY <1>1 DEF WTypeOK, NodesOrNone, WPcs, EndPutPcs
  <2> QED BY <1>1, <2>1, TailFact
<1>3. EndPutAt(t, r)
  BY <1>1, <1>2 DEF EndPutAt, WasTail, UpTo, ListInv, EndPutPcs
<1> QED BY <1>1, <1>2, <1>3, StayEndPut DEF Alike, EndPutPcs

LEMMA EndNextKept == ASSUME WInv, NEW t \in Threads, W!EndNext(t) PROVE WInv'
<1> PICK s : s = th[t]
  OBVIOUS
<1> PICK x : x = next[s.tail]
  OBVIOUS
<1>1. /\ s.pc = "FE_next" /\ s \in WLocals /\ WTypeOK /\ Ordered /\ EndPutAt(t, s) /\ ControlAt(t, s)
  BY Here DEF W!EndNext, W!Read, W!At, ThreadAt
<1>2. WasTail(s.tail) /\ s.tail \in W!Nodes /\ x \in NodesOrNone
  BY <1>1 DEF EndPutAt, WasTail, Ordered, WTypeOK, NodesOrNone, EndPutPcs, W!Nodes
<1>3. "FE_next" \in WPcs /\ "FE_swing" \in WPcs /\ "FE_state" \in WPcs
  BY DEF WPcs, EndPutPcs
<1>4. CASE x = Null
  <2> PICK r : r = WithNext(s, "FE_next", x)
    OBVIOUS
  <2>1. r = [s EXCEPT !.next = x]
    BY <1>1 DEF WithNext, WLocals
  <2>2. r \in WLocals /\ Alike(r, s)
    BY <1>1, <1>2, <1>3, NextFact
  <2>3. W!Local(t, W!Continue(r))
    BY <1>4, <2>1 DEF W!EndNext, W!Read
  <2>4. s.then = "helped" /\ WaitfreeNum[s.i] = t => ~state[t].pending
    BY <1>1, <1>4, StillMine DEF EndPutPcs
  <2>5. s.then # "result"
    BY <1>1 DEF ControlAt, EndPutPcs
  <2> QED BY <1>1, <2>2, <2>3, <2>4, <2>5, Continued DEF Alike, EndPutPcs
<1>5. CASE x # Null /\ enq_tid[x] = W!kTidNotSet
  <2> PICK r : r = WithNext(s, "FE_swing", x)
    OBVIOUS
  <2>1. r = [[s EXCEPT !.next = x] EXCEPT !.pc = "FE_swing"]
    BY <1>1 DEF WithNext, WLocals
  <2>2. r \in WLocals /\ Alike(r, s) /\ r.pc = "FE_swing" /\ r.tail = s.tail /\ r.next = x
    BY <1>1, <1>2, <1>3, NextFact
  <2>3. W!Local(t, r)
    BY <1>5, <2>1 DEF W!EndNext, W!Read
  <2>4. \A v \in Threads : state[v].pending /\ state[v].type = "put" => state[v].node # x
    BY <1>5, StrictQueuesAssumption DEF WInv, ThreadInv, DescInv, DescAt, W!kTidNotSet
  <2>5. EndPutAt(t, r)
    BY <1>2, <1>5, <2>2, <2>4 DEF EndPutAt
  <2> QED BY <1>1, <2>2, <2>3, <2>5, StayEndPut DEF Alike, EndPutPcs
<1>6. CASE x # Null /\ enq_tid[x] # W!kTidNotSet
  <2> PICK q : q = WithNext(s, "FE_next", x)
    OBVIOUS
  <2> PICK r : r = WithTid(q, "FE_state", enq_tid[x])
    OBVIOUS
  <2>1. r = [[s EXCEPT !.next = x] EXCEPT !.pc = "FE_state", !.tid = enq_tid[x]]
    <3>1. q = [s EXCEPT !.next = x]
      BY <1>1 DEF WithNext, WLocals
    <3> QED BY <3>1 DEF WithTid
  <2>2. q \in WLocals /\ Alike(q, s) /\ q.tail = s.tail /\ q.next = x
    BY <1>1, <1>2, <1>3, NextFact
  <2>3. enq_tid[x] \in Threads /\ enq_tid[x] \in ThreadsOrNone
    BY <1>1, <1>2, <1>6 DEF WTypeOK, NodesOrNone, ThreadsOrNone, W!kTidNotSet
  <2>4. r \in WLocals /\ Alike(r, q) /\ r.pc = "FE_state" /\ r.tail = q.tail /\ r.next = x /\ r.tid = enq_tid[x]
    BY <1>3, <2>2, <2>3, TidFact
  <2>5. W!Local(t, r)
    BY <1>6, <2>1 DEF W!EndNext, W!Read
  <2>6. EndPutAt(t, r)
    BY <1>2, <1>6, <2>2, <2>3, <2>4 DEF EndPutAt
  <2>7. Same(r, s) /\ r.then = s.then
    BY <2>2, <2>4 DEF Alike, Same
  <2> QED BY <1>1, <2>2, <2>4, <2>5, <2>6, <2>7, StayEndPut DEF EndPutPcs
<1> QED BY <1>4, <1>5, <1>6

LEMMA EndStateKept == ASSUME WInv, NEW t \in Threads, W!EndState(t) PROVE WInv'
<1> PICK s : s = th[t]
  OBVIOUS
<1> PICK d : d = state[s.tid]
  OBVIOUS
<1> PICK r : r = WithCur(s, "FE_same", d)
  OBVIOUS
<1>1. s.pc = "FE_state" /\ s \in WLocals /\ WTypeOK /\ Ordered /\ EndPutAt(t, s) /\ W!Local(t, r)
  BY Here DEF W!EndState, W!Read, W!At, ThreadAt, WithCur
<1>2. s.tid \in Threads
  BY <1>1 DEF EndPutAt, EndPutPcs
<1>3. /\ r \in WLocals /\ Alike(r, s) /\ r.pc = "FE_same" /\ r.tail = s.tail /\ r.next = s.next
      /\ r.cur = d /\ r.tid = s.tid
  <2>1. d \in Descriptors /\ "FE_same" \in WPcs
    BY <1>1, <1>2 DEF WTypeOK, WPcs, EndPutPcs
  <2> QED BY <1>1, <2>1, CurFact
<1>4. d.type = "get" /\ d.node # Null => WasTail(d.node)
  BY <1>2 DEF WInv, ThreadInv, DescInv, DescAt, WasTail, UpTo
<1>5. UpToNow(d, s.tid)
  BY DEF UpToNow
<1>6. EndPutAt(t, r)
  BY <1>1, <1>3, <1>4, <1>5 DEF EndPutAt, EndPutPcs
<1> QED BY <1>1, <1>3, <1>6, StayEndPut DEF Alike, Same, EndPutPcs

LEMMA EndSameKept == ASSUME WInv, NEW t \in Threads, W!EndSame(t) PROVE WInv'
<1> PICK s : s = th[t]
  OBVIOUS
<1>1. s.pc = "FE_same" /\ s \in WLocals /\ WTypeOK /\ Ordered /\ EndPutAt(t, s) /\ ControlAt(t, s)
  BY Here DEF W!EndSame, W!Read, W!At, ThreadAt
<1>2. CASE tail = s.tail
  <2> PICK r : r = WithPc(s, "FE_node")
    OBVIOUS
  <2>1. W!Local(t, r)
    BY <1>2 DEF W!EndSame, W!Read, WithPc
  <2>2. /\ r \in WLocals /\ Alike(r, s) /\ r.pc = "FE_node" /\ r.tail = s.tail /\ r.next = s.next
        /\ r.cur = s.cur /\ r.tid = s.tid
    <3>1. "FE_node" \in WPcs
      BY DEF WPcs, EndPutPcs
    <3> QED BY <1>1, <3>1, PcFact
  <2>3. s.next = next[tail] /\ s.next # Null /\ tail \in W!Nodes
    BY <1>1, <1>2 DEF EndPutAt, EndPutPcs, WTypeOK
  <2>4. s.cur.type = "get" => s.cur.node # s.next
    <3> SUFFICES ASSUME s.cur.type = "get", s.cur.node = s.next PROVE FALSE
      OBVIOUS
    <3>1. WasTail(s.next)
      BY <1>1, <2>3 DEF EndPutAt
    <3>2. s.next \in W!Nodes /\ Before(tail, s.next)
      BY <1>1, <2>3 DEF Ordered
    <3> QED BY <1>1, <2>3, <3>1, <3>2 DEF WasTail, UpTo, Ordered
  <2>5. EndPutAt(t, r)
    BY <1>1, <2>2, <2>4 DEF EndPutAt, EndPutPcs
  <2> QED BY <1>1, <2>1, <2>2, <2>5, StayEndPut DEF Alike, Same, EndPutPcs
<1>3. CASE tail # s.tail
  <2>1. W!Local(t, W!Continue(s))
    BY <1>3 DEF W!EndSame, W!Read
  <2>2. s.then = "helped" /\ WaitfreeNum[s.i] = t => ~state[t].pending
    BY <1>1, <1>3, StillMine DEF EndPutPcs
  <2>3. s.then # "result"
    BY <1>1 DEF ControlAt, EndPutPcs
  <2> QED BY <1>1, <2>1, <2>2, <2>3, Continued DEF Same, EndPutPcs
<1> QED BY <1>2, <1>3

LEMMA EndNodeKept == ASSUME WInv, NEW t \in Threads, W!EndNode(t) PROVE WInv'
<1> PICK s : s = th[t]
  OBVIOUS
<1>1. s.pc = "FE_node" /\ s \in WLocals /\ EndPutAt(t, s) /\ ControlAt(t, s)
  BY Here DEF W!EndNode, W!Read, W!At, ThreadAt
<1>2. CASE W!SameNode(t)
  <2> PICK r : r = WithPc(s, "FE_done")
    OBVIOUS
  <2>1. W!Local(t, r)
    BY <1>2 DEF W!EndNode, W!Read, WithPc
  <2>2. /\ r \in WLocals /\ Alike(r, s) /\ r.pc = "FE_done" /\ r.tail = s.tail /\ r.next = s.next
        /\ r.cur = s.cur /\ r.tid = s.tid
    <3>1. "FE_done" \in WPcs
      BY DEF WPcs, EndPutPcs
    <3> QED BY <1>1, <3>1, PcFact
  <2>3. EndPutAt(t, r)
    BY <1>1, <1>2, <2>2 DEF EndPutAt, EndPutPcs, W!SameNode
  <2> QED BY <1>1, <2>1, <2>2, <2>3, StayEndPut DEF Alike, Same, EndPutPcs
<1>3. CASE ~W!SameNode(t)
  <2>1. W!Local(t, W!Continue(s))
    BY <1>3 DEF W!EndNode, W!Read
  <2>2. s.next = next[s.tail] /\ enq_tid[s.next] = s.tid
    BY <1>1 DEF EndPutAt, EndPutPcs
  <2>3. s.then = "helped" /\ WaitfreeNum[s.i] = t => ~state[t].pending
    BY <1>1, <1>3, <2>2, StillMine DEF EndPutPcs, W!SameNode
  <2>4. s.then # "result"
    BY <1>1 DEF ControlAt, EndPutPcs
  <2> QED BY <1>1, <2>1, <2>3, <2>4, Continued DEF Same, EndPutPcs
<1> QED BY <1>2, <1>3
-----------------------------------------------------------------------------
\* Helping to dequeue.

LEMMA GoneHelped ==
  ASSUME WInv, NEW t \in Threads, NEW s, s = th[t], s.pc \in PutPcs \cup GetPcs, ~W!IsStillPending(t),
         W!Local(t, W!Helped(s))
  PROVE  WInv'
<1>1. s \in WLocals /\ ThreadAt(t, s) /\ WTypeOK
  BY Here
<1> PICK r : r = W!Helped(s)
  OBVIOUS
<1>2. Helping(s) /\ ControlAt(t, s) /\ DescAt(t, s) /\ HelpAt(t, s)
  BY <1>1 DEF ThreadAt, Helping
<1>3. s.then = "idle" /\ s.slow /\ s.op # "none" /\ ~Finishing(s) /\ s.pc # "return"
  BY <1>1, <1>2 DEF ControlAt, PutPcs, EndPutPcs, GetPcs, EmptyPcs, TakePcs, EndGetPcs, FastPutPcs, FastGetPcs, FastPcs, Finishing
<1>4. CallAt(t, s)
  BY <1>1, <1>2, <1>3 DEF CallAt
<1>5. WaitfreeNum[s.i] = t => ~state[t].pending
  <2>1. state[t].phase \in Int /\ s.phase \in Int
    BY <1>1 DEF WTypeOK, WLocals, Descriptors, W!kNoPhase
  <2> QED BY <1>2, <1>3, <2>1 DEF W!IsStillPending, DescAt
<1>6. GoesOn(t, s, r)
  BY <1>1, <1>2, <1>3, <1>4, <1>5, HelpedFits DEF Same
<1> QED BY <1>3, <1>6, GoneOn

\* What is dequeued from lies before the head, and what was not claimed is pending.
LEMMA HelpsGet ==
  ASSUME WInv, NEW t \in Threads, NEW s, s = th[t], s.pc \in GetPcs
  PROVE  /\ s.then = "idle" /\ WaitfreeNum[s.i] \in Threads /\ Helping(s) /\ ~HelpsPut(s) /\ ~Finishing(s)
         /\ Pending(s) => state[WaitfreeNum[s.i]].type = "get" /\ th[WaitfreeNum[s.i]].op = "get"
<1>1. s \in WLocals /\ ThreadAt(t, s)
  BY Here
<1>2. s.then = "idle" /\ WaitfreeNum[s.i] \in Threads
  BY <1>1, NumType DEF WLocals, ThreadAt, ControlAt, PutPcs, EndPutPcs, GetPcs, EmptyPcs, TakePcs, EndGetPcs, FastPutPcs, FastGetPcs, FastPcs
<1>3. Helping(s) /\ ~HelpsPut(s) /\ ~Finishing(s)
  BY <1>2 DEF Helping, HelpsPut, Finishing, PutPcs, EndPutPcs, GetPcs, EmptyPcs, TakePcs, EndGetPcs, FastPutPcs, FastGetPcs, FastPcs
<1>4. Pending(s) => state[WaitfreeNum[s.i]].type = "get" /\ th[WaitfreeNum[s.i]].op = "get"
  BY <1>1, <1>2, <1>3, PendingOp DEF ThreadAt, HelpAt, Pending
<1> QED BY <1>2, <1>3, <1>4

LEMMA GetRetry ==
  ASSUME WInv, NEW t \in Threads, NEW s, s = th[t], s.pc \in GetPcs, W!Local(t, W!To(s, "D_pending"))
  PROVE  WInv'
<1>1. s \in WLocals /\ s.then = "idle"
  BY Here, HelpsGet
<1> PICK r : r = W!To(s, "D_pending")
  OBVIOUS
<1>2. "D_pending" \in WPcs
  BY DEF WPcs, GetPcs
<1>3. r \in WLocals /\ Same(r, s) /\ r.pc = "D_pending" /\ r.then = "idle"
  BY <1>1, <1>2, ToFact DEF Same
<1>4. LookAt(t, r) /\ GetAt(t, r)
  BY <1>3, Afresh
<1> QED BY <1>1, <1>3, <1>4, Stay DEF Stays, PutPcs, EndPutPcs, GetPcs, EmptyPcs, TakePcs, EndGetPcs, FastPutPcs, FastGetPcs, FastPcs

LEMMA GetPendingKept == ASSUME WInv, NEW t \in Threads, W!GetPending(t) PROVE WInv'
<1> PICK s : s = th[t]
  OBVIOUS
<1>1. s.pc = "D_pending" /\ s.pc \in GetPcs /\ s \in WLocals
  BY Here DEF W!GetPending, W!Read, W!At, GetPcs
<1>2. CASE W!IsStillPending(t)
  <2> PICK r : r = W!To(s, "D_head")
    OBVIOUS
  <2>1. "D_head" \in WPcs
    BY DEF WPcs, GetPcs
  <2>2. r \in WLocals /\ Same(r, s) /\ r.pc = "D_head" /\ r.then = s.then
    BY <1>1, <2>1, ToFact DEF Same
  <2>3. W!Local(t, r)
    BY <1>2 DEF W!GetPending, W!Read
  <2>4. s.then = "idle"
    BY <1>1, HelpsGet
  <2>5. LookAt(t, r) /\ GetAt(t, r)
    BY <2>2, <2>4, Afresh
  <2> QED BY <1>1, <2>2, <2>3, <2>4, <2>5, StayGet DEF Stays, GetPcs, EmptyPcs, TakePcs
<1>3. CASE ~W!IsStillPending(t)
  <2>1. W!Local(t, W!Helped(s))
    BY <1>3 DEF W!GetPending, W!Read
  <2> QED BY <1>1, <1>3, <2>1, GoneHelped
<1> QED BY <1>2, <1>3

LEMMA GetHeadKept == ASSUME WInv, NEW t \in Threads, W!GetHead(t) PROVE WInv'
<1> PICK s : s = th[t]
  OBVIOUS
<1> PICK r : r = WithHead(s, "D_tail", head)
  OBVIOUS
<1>1. s.pc = "D_head" /\ s \in WLocals /\ WTypeOK /\ ListInv /\ W!Local(t, r)
  BY Here DEF W!GetHead, W!Read, W!At, WithHead
<1>2. r \in WLocals /\ Alike(r, s) /\ r.pc = "D_tail" /\ r.head = head
  <2>1. head \in Heads /\ "D_tail" \in WPcs
    BY <1>1 DEF WTypeOK, Heads, NodesOrNone, WPcs, GetPcs
  <2> QED BY <1>1, <2>1, HeadFact
<1>3. WasHead(head)
  BY <1>1 DEF WasHead, ListInv
<1>4. LookAt(t, r) /\ GetAt(t, r)
  BY <1>2, <1>3 DEF LookAt, GetAt, EmptyPcs, TakePcs
<1>5. s.then = "idle"
  BY <1>1, HelpsGet DEF GetPcs
<1> QED BY <1>1, <1>2, <1>4, <1>5, StayGet DEF Alike, GetPcs, EmptyPcs, TakePcs

\* What was read of the head is not behind the tail.
LEMMA HeadToTail ==
  ASSUME WInv, NEW h, WasHead(h)
  PROVE  UpTo(h.node, tail) /\ h.node \in Chain /\ h.node \in W!Nodes
<1>1. WTypeOK /\ ListInv /\ Ordered
  BY OrderedFact DEF WInv
<1>2. UpTo(head.node, tail) /\ head.node \in W!Nodes /\ tail \in W!Nodes
  BY <1>1 DEF ListInv, WTypeOK
<1>3. h.node \in Chain /\ h.node \in W!Nodes /\ (h.node = head.node \/ Before(h.node, head.node))
  BY <1>1 DEF WasHead, HeadNewer, Ordered
<1> QED BY <1>1, <1>2, <1>3 DEF UpTo, Ordered

LEMMA GetTailKept == ASSUME WInv, NEW t \in Threads, W!GetTail(t) PROVE WInv'
<1> PICK s : s = th[t]
  OBVIOUS
<1> PICK r : r = WithTail(s, "D_next", tail)
  OBVIOUS
<1>1. s.pc = "D_tail" /\ s \in WLocals /\ WTypeOK /\ ListInv /\ LookAt(t, s) /\ W!Local(t, r)
  BY Here DEF W!GetTail, W!Read, W!At, WithTail, ThreadAt
<1>2. r \in WLocals /\ Alike(r, s) /\ r.pc = "D_next" /\ r.tail = tail /\ r.head = s.head
  <2>1. tail \in NodesOrNone /\ "D_next" \in WPcs
    BY <1>1 DEF WTypeOK, NodesOrNone, WPcs, GetPcs
  <2> QED BY <1>1, <2>1, TailFact
<1>3. WasHead(s.head) /\ WasTail(tail) /\ UpTo(s.head.node, tail)
  <2>1. WasHead(s.head)
    BY <1>1 DEF LookAt
  <2> QED BY <1>1, <2>1, HeadToTail DEF WasTail, ListInv, UpTo
<1>4. LookAt(t, r) /\ GetAt(t, r)
  BY <1>2, <1>3 DEF LookAt, GetAt, EmptyPcs, TakePcs
<1>5. s.then = "idle"
  BY <1>1, HelpsGet DEF GetPcs
<1> QED BY <1>1, <1>2, <1>4, <1>5, StayGet DEF Alike, GetPcs, EmptyPcs, TakePcs

\* With nothing behind the head, the queue is empty.
LEMMA EmptySeen ==
  ASSUME WInv, next[head.node] = Null
  PROVE  \A u \in Threads : th[u].op = "get" => sight[u]
<1>1. After(Succ, head.node) = {}
  BY SuccFact, AfterNone DEF WInv, WTypeOK
<1> QED BY <1>1 DEF WInv, PlacesInv

LEMMA GetNextKept == ASSUME WInv, NEW t \in Threads, W!GetNext(t) PROVE WInv'
<1> PICK s : s = th[t]
  OBVIOUS
<1> PICK x : x = next[s.head.node]
  OBVIOUS
<1> PICK r : r = WithNext(s, "D_same", x)
  OBVIOUS
<1>1. s.pc = "D_next" /\ s \in WLocals /\ WTypeOK /\ Ordered /\ LookAt(t, s) /\ W!Local(t, r)
  BY Here DEF W!GetNext, W!Read, W!At, WithNext, ThreadAt
<1>2. WasHead(s.head) /\ WasTail(s.tail) /\ UpTo(s.head.node, s.tail)
  BY <1>1 DEF LookAt
<1>3. s.head.node \in W!Nodes /\ s.tail \in W!Nodes
  BY <1>1, <1>2 DEF WasHead, WasTail, Ordered
<1>4. /\ r \in WLocals /\ Alike(r, s) /\ r.pc = "D_same" /\ r.tail = s.tail /\ r.head = s.head /\ r.next = x
  <2>1. x \in NodesOrNone /\ "D_same" \in WPcs
    BY <1>1, <1>3 DEF WTypeOK, NodesOrNone, W!Nodes, WPcs, GetPcs
  <2> QED BY <1>1, <2>1, NextFact
<1>5. x = Null => s.head.node = s.tail
  BY <1>1, <1>2, <1>3 DEF UpTo, Ordered
<1>6. s.then = "idle" /\ (Pending(s) => th[WaitfreeNum[s.i]].op = "get") /\ WaitfreeNum[s.i] \in Threads
  BY <1>1, HelpsGet DEF GetPcs
<1>7. x = Null /\ head = s.head /\ Pending(r) => sight[WaitfreeNum[r.i]]
  BY <1>4, <1>6, EmptySeen DEF Alike, Same, Pending
<1>8. LookAt(t, r)
  BY <1>2, <1>4, <1>5, <1>7 DEF LookAt, EmptyPcs, TakePcs
<1>9. GetAt(t, r)
  BY <1>4 DEF GetAt, EmptyPcs, TakePcs
<1> QED BY <1>1, <1>4, <1>6, <1>8, <1>9, StayGet DEF Alike, GetPcs, EmptyPcs, TakePcs

LEMMA GetSameKept == ASSUME WInv, NEW t \in Threads, W!GetSame(t) PROVE WInv'
<1> PICK s : s = th[t]
  OBVIOUS
<1>1. /\ s.pc = "D_same" /\ s.pc \in GetPcs /\ s \in WLocals /\ WTypeOK /\ Ordered /\ LookAt(t, s)
      /\ ControlAt(t, s)
  BY Here DEF W!GetSame, W!Read, W!At, ThreadAt, GetPcs
<1>2. s.then = "idle" /\ Helping(s) /\ ~HelpsPut(s) /\ ~Finishing(s)
  BY <1>1, HelpsGet
<1>3. WasHead(s.head) /\ WasTail(s.tail) /\ UpTo(s.head.node, s.tail)
  BY <1>1 DEF LookAt
<1>4. s.head.node \in W!Nodes /\ s.tail \in W!Nodes /\ tail \in W!Nodes /\ Null \notin W!Nodes
  BY <1>1, <1>3, SuccFact DEF WasHead, WasTail, Ordered, WTypeOK
<1>5. CASE head # s.head
  <2>1. W!Local(t, W!To(s, "D_pending"))
    BY <1>5 DEF W!GetSame, W!Read
  <2> QED BY <1>1, <2>1, GetRetry
<1>6. CASE head = s.head /\ s.head.node # s.tail
  <2> PICK q : q = WithTail(s, "D_state", Null)
    OBVIOUS
  <2> PICK r : r = WithNext(q, "D_state", Null)
    OBVIOUS
  <2>1. r = [s EXCEPT !.pc = "D_state", !.tail = Null, !.next = Null]
    BY <1>1 DEF WithNext, WithTail, WLocals
  <2>2. W!Local(t, r)
    BY <1>6, <2>1 DEF W!GetSame, W!Read
  <2>3. r \in WLocals /\ Alike(r, s) /\ r.pc = "D_state" /\ r.tail = Null /\ r.head = s.head
    <3>1. Null \in NodesOrNone /\ "D_state" \in WPcs
      BY DEF NodesOrNone, WPcs, GetPcs
    <3>2. q \in WLocals /\ Alike(q, s) /\ q.pc = "D_state" /\ q.tail = Null /\ q.head = s.head
      BY <1>1, <3>1, TailFact
    <3>3. r \in WLocals /\ Alike(r, q) /\ r.pc = "D_state" /\ r.tail = q.tail /\ r.head = q.head
      BY <3>1, <3>2, NextFact
    <3> QED BY <3>2, <3>3 DEF Alike, Same
  <2>4. Before(s.head.node, tail)
    BY <1>1, <1>3, <1>4, <1>6 DEF UpTo, WasTail, Ordered
  <2>5. LookAt(t, r)
    BY <1>3, <2>3 DEF LookAt
  <2>6. GetAt(t, r)
    BY <2>3, <2>4 DEF GetAt, EmptyPcs, TakePcs
  <2> QED BY <1>1, <1>2, <2>2, <2>3, <2>5, <2>6, StayGet DEF Alike, GetPcs, EmptyPcs, TakePcs
<1>7. CASE head = s.head /\ s.head.node = s.tail /\ s.next = Null
  <2> PICK r : r = WithPc(s, "D_state")
    OBVIOUS
  <2>1. W!Local(t, r)
    BY <1>7 DEF W!GetSame, W!Read, WithPc
  <2>2. r \in WLocals /\ Alike(r, s) /\ r.pc = "D_state" /\ r.tail = s.tail /\ r.head = s.head
    <3>1. "D_state" \in WPcs
      BY DEF WPcs, GetPcs
    <3> QED BY <1>1, <3>1, PcFact
  <2>3. Pending(r) => sight[WaitfreeNum[r.i]]
    BY <1>1, <1>7, <2>2 DEF LookAt, Alike, Same, Pending
  <2>4. LookAt(t, r)
    BY <1>3, <2>2 DEF LookAt
  <2>5. GetAt(t, r)
    BY <1>4, <1>7, <2>2, <2>3 DEF GetAt, EmptyPcs, TakePcs
  <2> QED BY <1>1, <1>2, <2>1, <2>2, <2>4, <2>5, StayGet DEF Alike, GetPcs, EmptyPcs, TakePcs
<1>8. CASE head = s.head /\ s.head.node = s.tail /\ s.next # Null
  <2> PICK q : q = W!To(s, "FE_tail")
    OBVIOUS
  <2> PICK r : r = WithThen(q, "D_pending")
    OBVIOUS
  <2>1. "FE_tail" \in WPcs
    BY DEF WPcs, EndPutPcs
  <2>2. q \in WLocals /\ Same(q, s) /\ q.pc = "FE_tail"
    BY <1>1, <2>1, ToFact DEF Same
  <2>3. r \in WLocals /\ Same(r, s) /\ r.pc = "FE_tail" /\ r.then = "D_pending"
    BY <2>2, ThenFact DEF Same
  <2>4. W!Local(t, r)
    BY <1>8 DEF W!GetSame, W!Read, WithThen, W!HelpPut
  <2>5. ~Finishing(r) /\ Helping(r) /\ ~HelpsPut(r)
    BY <2>3 DEF Finishing, Helping, HelpsPut, PutPcs
  <2>6. ControlAt(t, r)
    BY <1>1, <1>2, <2>3, <2>5 DEF ControlAt, Same, PutPcs, EndPutPcs, GetPcs, EmptyPcs, TakePcs, EndGetPcs, FastPutPcs, FastGetPcs, FastPcs
  <2> QED BY <1>1, <1>2, <2>3, <2>4, <2>5, <2>6, Restart
<1> QED BY <1>5, <1>6, <1>7, <1>8

LEMMA GetStateKept == ASSUME WInv, NEW t \in Threads, W!GetState(t) PROVE WInv'
<1> PICK s : s = th[t]
  OBVIOUS
<1> PICK u : u = WaitfreeNum[s.i]
  OBVIOUS
<1> PICK d : d = state[u]
  OBVIOUS
<1> PICK l : l = IF s.tail = Null THEN "D_again" ELSE "D_still"
  OBVIOUS
<1> PICK r : r = WithCur(s, l, d)
  OBVIOUS
<1>1. s.pc = "D_state" /\ s.pc \in GetPcs /\ s \in WLocals /\ WTypeOK /\ LookAt(t, s) /\ GetAt(t, s)
  BY Here DEF W!GetState, W!Read, W!At, ThreadAt, GetPcs
<1>2. s.then = "idle" /\ u \in Threads
  BY <1>1, HelpsGet
<1>3. W!Local(t, r)
  <2>1. r = [s EXCEPT !.cur = d, !.pc = l]
    BY <1>1 DEF WithCur, WLocals
  <2> QED BY <2>1 DEF W!GetState, W!Read
<1>4. l \in WPcs /\ l \in GetPcs /\ l \in {"D_again", "D_still"}
  BY DEF WPcs, GetPcs, EmptyPcs
<1>5. /\ r \in WLocals /\ Alike(r, s) /\ r.pc = l /\ r.tail = s.tail /\ r.head = s.head /\ r.cur = d
      /\ WaitfreeNum[r.i] = u
  <2>1. d \in Descriptors
    BY <1>1, <1>2 DEF WTypeOK
  <2>2. r \in WLocals /\ Alike(r, s) /\ r.pc = l /\ r.tail = s.tail /\ r.head = s.head /\ r.cur = d
    BY <1>1, <1>4, <2>1, CurFact
  <2> QED BY <2>2 DEF Alike, Same
<1>6. UpToNow(d, u) /\ d.phase = state[u].phase
  BY DEF UpToNow
<1>7. d.type = "get" /\ d.node # Null => d.node \in Chain /\ UpTo(d.node, head.node) /\ Before(d.node, tail)
  BY <1>2 DEF WInv, ThreadInv, DescInv, DescAt
<1>8. LookAt(t, r)
  BY <1>1, <1>4, <1>5 DEF LookAt, EmptyPcs
<1>9. (Pending(r) <=> Pending(s))
  BY <1>5 DEF Pending, Alike, Same
<1>10. GetAt(t, r)
  <2>1. /\ IF s.tail # Null THEN s.tail = s.head.node /\ (Pending(s) => sight[u]) ELSE Before(s.head.node, tail)
        /\ l = IF s.tail = Null THEN "D_again" ELSE "D_still"
        /\ d = state[u]
    BY <1>1 DEF GetAt
  <2>2. CASE s.tail = Null
    BY <1>5, <1>6, <1>7, <2>1, <2>2 DEF GetAt, EmptyPcs, TakePcs
  <2>3. CASE s.tail # Null
    BY <1>5, <1>6, <1>7, <1>9, <2>1, <2>3 DEF GetAt, EmptyPcs, TakePcs
  <2> QED BY <2>2, <2>3
<1> QED BY <1>1, <1>2, <1>3, <1>4, <1>5, <1>8, <1>10, StayGet DEF Alike, GetPcs, EmptyPcs, TakePcs

LEMMA EmptyStillKept == ASSUME WInv, NEW t \in Threads, W!EmptyStill(t) PROVE WInv'
<1> PICK s : s = th[t]
  OBVIOUS
<1>1. s.pc = "D_still" /\ s.pc \in GetPcs /\ s \in WLocals /\ LookAt(t, s) /\ GetAt(t, s)
  BY Here DEF W!EmptyStill, W!Read, W!At, ThreadAt, GetPcs, EmptyPcs
<1>2. s.then = "idle"
  BY <1>1, HelpsGet
<1>3. CASE tail = s.tail
  <2> PICK r : r = WithPc(s, "D_again")
    OBVIOUS
  <2>1. W!Local(t, r)
    BY <1>3 DEF W!EmptyStill, W!Read, WithPc
  <2>2. /\ r \in WLocals /\ Alike(r, s) /\ r.pc = "D_again" /\ r.tail = s.tail /\ r.head = s.head
        /\ r.cur = s.cur /\ r.i = s.i
    <3>1. "D_again" \in WPcs
      BY DEF WPcs, GetPcs
    <3>2. r \in WLocals /\ Alike(r, s) /\ r.pc = "D_again" /\ r.tail = s.tail /\ r.head = s.head /\ r.cur = s.cur
      BY <1>1, <3>1, PcFact
    <3> QED BY <3>2 DEF Alike, Same
  <2>3. LookAt(t, r)
    BY <1>1, <2>2 DEF LookAt, EmptyPcs
  <2>4. (Pending(r) <=> Pending(s)) /\ r.phase = s.phase
    BY <2>2 DEF Pending, Alike, Same
  <2>5. GetAt(t, r)
    BY <1>1, <1>3, <2>2, <2>4 DEF GetAt, EmptyPcs, TakePcs
  <2> QED BY <1>1, <1>2, <2>1, <2>2, <2>3, <2>5, StayGet DEF Alike, GetPcs, EmptyPcs, TakePcs
<1>4. CASE tail # s.tail
  <2>1. W!Local(t, W!To(s, "D_pending"))
    BY <1>4 DEF W!EmptyStill, W!Read
  <2> QED BY <1>1, <2>1, GetRetry
<1> QED BY <1>3, <1>4

LEMMA GetAgainKept == ASSUME WInv, NEW t \in Threads, W!GetAgain(t) PROVE WInv'
<1> PICK s : s = th[t]
  OBVIOUS
<1> PICK u : u = WaitfreeNum[s.i]
  OBVIOUS
<1>1. s.pc = "D_again" /\ s.pc \in GetPcs /\ s \in WLocals /\ WTypeOK /\ LookAt(t, s) /\ GetAt(t, s)
  BY Here DEF W!GetAgain, W!Read, W!At, ThreadAt, GetPcs
<1>2. s.then = "idle" /\ u \in Threads /\ (Pending(s) => state[u].type = "get")
  BY <1>1, HelpsGet
<1>3. CASE ~W!IsStillPending(t)
  <2>1. CASE s.tail = Null
    <3>1. W!Local(t, W!Helped(s))
      BY <1>3, <2>1 DEF W!GetAgain, W!Read
    <3> QED BY <1>1, <1>3, <3>1, GoneHelped
  <2>2. CASE s.tail # Null
    <3>1. W!Local(t, W!To(s, "D_pending"))
      BY <1>3, <2>2 DEF W!GetAgain, W!Read
    <3> QED BY <1>1, <3>1, GetRetry
  <2> QED BY <2>1, <2>2
<1>4. CASE W!IsStillPending(t)
  <2> PICK l : l = IF s.tail = Null THEN "D_mark" ELSE "D_empty"
    OBVIOUS
  <2> PICK r : r = WithPc(s, l)
    OBVIOUS
  <2>1. W!Local(t, r)
    <3>1. r = [s EXCEPT !.pc = l]
      BY DEF WithPc
    <3> QED BY <1>4, <3>1 DEF W!GetAgain, W!Read
  <2>2. l \in WPcs /\ l \in GetPcs /\ l \in {"D_mark", "D_empty"}
    BY DEF WPcs, GetPcs, EmptyPcs, TakePcs
  <2>3. /\ r \in WLocals /\ Alike(r, s) /\ r.pc = l /\ r.tail = s.tail /\ r.head = s.head /\ r.cur = s.cur
        /\ r.i = s.i /\ r.phase = s.phase
    <3>1. r \in WLocals /\ Alike(r, s) /\ r.pc = l /\ r.tail = s.tail /\ r.head = s.head /\ r.cur = s.cur
      BY <1>1, <2>2, PcFact
    <3> QED BY <3>1 DEF Alike, Same
  <2>4. LookAt(t, r)
    BY <1>1, <2>2, <2>3 DEF LookAt, EmptyPcs, TakePcs
  <2>5. state[u].pending /\ state[u].phase <= s.phase /\ state[u].type = "get"
    BY <1>2, <1>4 DEF W!IsStillPending, Pending
  <2>6. state[u].phase = s.cur.phase
    <3>1. state[u].phase \in Int /\ s.phase \in Int
      BY <1>1, <1>2 DEF WTypeOK, WLocals, Descriptors, W!kNoPhase
    <3>2. state[u].phase = s.cur.phase \/ state[u].phase > s.phase
      BY <1>1 DEF GetAt
    <3> QED BY <2>5, <3>1, <3>2
  <2>7. UpToNow(s.cur, u)
    BY <1>1 DEF GetAt
  <2>8. s.cur.pending /\ s.cur.type = "get" /\ s.cur.phase <= s.phase
    <3>1. state[u].phase \in Int
      BY <1>1, <1>2 DEF WTypeOK, Descriptors, W!kNoPhase
    <3> QED BY <2>5, <2>6, <2>7, <3>1 DEF UpToNow, Newer
  <2>9. (Pending(r) <=> Pending(s)) /\ r.phase = s.phase
    BY <2>3 DEF Pending
  <2>10. GetAt(t, r)
    BY <1>1, <2>2, <2>3, <2>8, <2>9 DEF GetAt, EmptyPcs, TakePcs
  <2> QED BY <1>1, <1>2, <2>1, <2>2, <2>3, <2>4, <2>10, StayGet DEF Alike, GetPcs, EmptyPcs, TakePcs
<1> QED BY <1>3, <1>4

LEMMA GetMarkKept == ASSUME WInv, NEW t \in Threads, W!GetMark(t) PROVE WInv'
<1> PICK s : s = th[t]
  OBVIOUS
<1> PICK u : u = WaitfreeNum[s.i]
  OBVIOUS
<1>1. /\ s.pc = "D_mark" /\ s.pc \in GetPcs /\ s \in WLocals /\ WTypeOK /\ Ordered /\ ClaimInv
      /\ LookAt(t, s) /\ GetAt(t, s)
  BY Here DEF W!GetMark, W!Read, W!At, ThreadAt, GetPcs, TakePcs
<1>2. s.then = "idle" /\ u \in Threads
  BY <1>1, HelpsGet
<1>3. /\ WasHead(s.head) /\ s.head.node \in W!Nodes /\ s.head.node \in Chain /\ head.node \in W!Nodes /\ Null \notin W!Nodes
  BY <1>1, SuccFact DEF LookAt, TakePcs, WasHead, Ordered, WTypeOK
<1>4. /\ s.tail = Null /\ Before(s.head.node, tail)
      /\ UpToNow(s.cur, u) /\ (state[u].phase = s.cur.phase \/ state[u].phase > s.phase)
      /\ s.cur.type = "get" /\ s.cur.pending /\ s.cur.phase <= s.phase
      /\ s.cur.node # Null => /\ s.cur.node \in Chain /\ UpTo(s.cur.node, head.node) /\ Before(s.cur.node, tail)
                              /\ Claimable(s.cur.node) => s.cur = state[u]
  BY <1>1 DEF GetAt, TakePcs, EmptyPcs
<1>5. CASE head = s.head /\ s.cur.node # head.node
  <2> PICK r : r = WithPc(s, "D_cas")
    OBVIOUS
  <2>1. W!Local(t, r)
    <3>1. r = [s EXCEPT !.pc = "D_cas"]
      BY DEF WithPc
    <3> QED BY <1>5, <3>1 DEF W!GetMark, W!Read
  <2>2. /\ r \in WLocals /\ Alike(r, s) /\ r.pc = "D_cas" /\ r.tail = s.tail /\ r.head = s.head /\ r.cur = s.cur
        /\ r.i = s.i /\ r.phase = s.phase
    <3>1. "D_cas" \in WPcs
      BY DEF WPcs, GetPcs, TakePcs
    <3>2. r \in WLocals /\ Alike(r, s) /\ r.pc = "D_cas" /\ r.tail = s.tail /\ r.head = s.head /\ r.cur = s.cur
      BY <1>1, <3>1, PcFact
    <3> QED BY <3>2 DEF Alike, Same
  <2>3. LookAt(t, r)
    BY <1>3, <2>2 DEF LookAt
  <2>4. s.cur.node # Null => Before(s.cur.node, s.head.node)
    BY <1>4, <1>5 DEF UpTo
  <2>5. GetAt(t, r)
    BY <1>4, <2>2, <2>4 DEF GetAt, EmptyPcs
  <2> QED BY <1>1, <1>2, <2>1, <2>2, <2>3, <2>5, StayGet DEF Alike, GetPcs, EmptyPcs, TakePcs
<1>6. CASE ~(head = s.head /\ s.cur.node # head.node)
  <2> PICK r : r = WithPc(s, "D_claim")
    OBVIOUS
  <2>1. W!Local(t, r)
    <3>1. r = [s EXCEPT !.pc = "D_claim"]
      BY DEF WithPc
    <3> QED BY <1>6, <3>1 DEF W!GetMark, W!Read
  <2>2. /\ r \in WLocals /\ Alike(r, s) /\ r.pc = "D_claim" /\ r.tail = s.tail /\ r.head = s.head /\ r.cur = s.cur
        /\ r.i = s.i /\ r.phase = s.phase
    <3>1. "D_claim" \in WPcs
      BY DEF WPcs, GetPcs, TakePcs
    <3>2. r \in WLocals /\ Alike(r, s) /\ r.pc = "D_claim" /\ r.tail = s.tail /\ r.head = s.head /\ r.cur = s.cur
      BY <1>1, <3>1, PcFact
    <3> QED BY <3>2 DEF Alike, Same
  <2>3. LookAt(t, r)
    BY <1>3, <2>2 DEF LookAt
  <2>4. Claimable(s.head.node) => head = s.head
    <3> SUFFICES ASSUME Claimable(s.head.node), head # s.head PROVE FALSE
      OBVIOUS
    <3>1. Before(s.head.node, head.node) \/ (s.head.node = head.node /\ s.head.tid = W!kTidNotSet /\ head.tid # W!kTidNotSet)
      BY <1>3 DEF WasHead, HeadNewer
    <3>2. CASE version = "ppopp11"
      BY <1>1, <1>3, <3>1, <3>2 DEF ClaimInv, Claimable
    <3>3. CASE version # "ppopp11"
      BY <1>1, <1>3, <3>1, <3>3 DEF Claimable, W!Head, Ordered
    <3> QED BY <3>2, <3>3
  <2>5. Claimable(s.head.node) => s.cur = state[u] /\ s.cur.node = s.head.node
    BY <1>3, <1>4, <1>6, <2>4
  <2>6. GetAt(t, r)
    BY <1>4, <2>2, <2>5 DEF GetAt, EmptyPcs, TakePcs
  <2> QED BY <1>1, <1>2, <2>1, <2>2, <2>3, <2>6, StayGet DEF Alike, GetPcs, EmptyPcs, TakePcs
<1> QED BY <1>5, <1>6
-----------------------------------------------------------------------------
\* Ending a dequeue.

\* A descriptor that is done names what was dequeued from.
LEMMA DoneGet ==
  ASSUME WInv, NEW t \in Threads, NEW s, s = th[t], s.then = "result", state[t].node # Null
  PROVE  /\ UpTo(state[t].node, head.node) /\ next[state[t].node] # Null /\ state[t].node \in W!Nodes
         /\ version = "ppopp11" => deq_tid[state[t].node] = t
         /\ version # "ppopp11" /\ head.node = state[t].node => head.tid = t
<1>1. WTypeOK /\ s \in WLocals /\ ThreadAt(t, s) /\ Ordered
  BY Here
<1>2. s.slow /\ s.op = "get" /\ Finishing(s)
  BY <1>1 DEF ThreadAt, ControlAt, Finishing
<1>3. ~state[t].pending /\ state[t].type = "get"
  BY <1>1, <1>2 DEF ThreadAt, DescAt
<1>4. state[t].node \in Chain /\ UpTo(state[t].node, head.node) /\ Before(state[t].node, tail)
  BY <1>1, <1>3 DEF ThreadAt, DescAt
<1>5. tail \in W!Nodes
  BY <1>1 DEF WTypeOK
<1> QED BY <1>1, <1>2, <1>3, <1>4, <1>5 DEF ThreadAt, DescAt, Ordered

LEMMA HeadOfMine ==
  ASSUME WInv, NEW t \in Threads, NEW s, s = th[t], s.pc \in EndGetPcs \ {"FD_head"}, s.then = "result",
         state[t].node # Null, head.node = state[t].node
  PROVE  /\ s.head = head
         /\ version = "ppopp11" => deq_tid[head.node] = t
         /\ version # "ppopp11" => head.tid = t
<1>1. WTypeOK /\ s \in WLocals /\ ThreadAt(t, s) /\ Ordered /\ ClaimInv
  BY Here
<1>2. WasHead(s.head) /\ UpTo(state[t].node, s.head.node)
  BY <1>1 DEF ThreadAt, EndGetAt
<1>3. s.head.node \in W!Nodes /\ head.node \in W!Nodes
  BY <1>1, <1>2 DEF WasHead, Ordered, WTypeOK
<1>4. s.head.node = head.node
  BY <1>1, <1>2, <1>3 DEF WasHead, HeadNewer, UpTo, Ordered
<1>5. s.head = head \/ (s.head.tid = W!kTidNotSet /\ head.tid # W!kTidNotSet)
  BY <1>1, <1>2, <1>3, <1>4 DEF WasHead, HeadNewer, Ordered
<1>6. version # "ppopp11" => s.head.tid = t
  <2>1. version \in {"ppopp11", "ppopp12"}
    BY <1>1, StrictQueuesAssumption DEF WTypeOK
  <2> QED BY <1>1, <1>4, <2>1 DEF ThreadAt, EndGetAt
<1>7. s.head = head
  BY <1>1, <1>5, <1>6, StrictQueuesAssumption DEF ClaimInv, W!kTidNotSet
<1> QED BY <1>7, DoneGet

LEMMA EndHeadKept == ASSUME WInv, NEW t \in Threads, W!EndHead(t) PROVE WInv'
<1> PICK s : s = th[t]
  OBVIOUS
<1> PICK r : r = WithHead(s, "FD_next", head)
  OBVIOUS
<1>1. s.pc = "FD_head" /\ s \in WLocals /\ WTypeOK /\ ListInv /\ ControlAt(t, s) /\ W!Local(t, r)
  BY Here DEF W!EndHead, W!Read, W!At, WithHead, ThreadAt
<1>2. r \in WLocals /\ Alike(r, s) /\ r.pc = "FD_next" /\ r.head = head
  <2>1. head \in Heads /\ "FD_next" \in WPcs
    BY <1>1 DEF WTypeOK, Heads, NodesOrNone, WPcs, EndGetPcs
  <2> QED BY <1>1, <2>1, HeadFact
<1>3. WasHead(head)
  BY <1>1 DEF WasHead, ListInv
<1>4. s.then = "result" /\ state[t].node # Null =>
        /\ UpTo(state[t].node, head.node)
        /\ head.node = state[t].node /\ version = "ppopp12" => head.tid = t
  BY DoneGet
<1>5. EndGetAt(t, r)
  BY <1>2, <1>3, <1>4 DEF EndGetAt, Alike
<1>6. s.then # "helped"
  BY <1>1 DEF ControlAt, EndGetPcs
<1> QED BY <1>1, <1>2, <1>5, <1>6, StayEndGet DEF Alike, EndGetPcs

LEMMA EndHeadNextKept == ASSUME WInv, NEW t \in Threads, W!EndHeadNext(t) PROVE WInv'
<1> PICK s : s = th[t]
  OBVIOUS
<1> PICK x : x = next[s.head.node]
  OBVIOUS
<1>1. s.pc = "FD_next" /\ s \in WLocals /\ WTypeOK /\ Ordered /\ EndGetAt(t, s) /\ ControlAt(t, s)
  BY Here DEF W!EndHeadNext, W!Read, W!At, ThreadAt
<1>2. WasHead(s.head) /\ s.head.node \in W!Nodes /\ x \in NodesOrNone /\ s.then # "helped"
  BY <1>1 DEF EndGetAt, WasHead, Ordered, WTypeOK, NodesOrNone, EndGetPcs, W!Nodes, ControlAt
<1>3. "FD_next" \in WPcs /\ "FD_tid" \in WPcs /\ "FD_state" \in WPcs
  BY DEF WPcs, EndGetPcs
<1> PICK q : q = WithNext(s, "FD_next", x)
  OBVIOUS
<1>4. q = [s EXCEPT !.next = x]
  BY <1>1 DEF WithNext, WLocals
<1>5. q \in WLocals /\ Alike(q, s) /\ q.pc = "FD_next" /\ q.head = s.head /\ q.next = x
  BY <1>1, <1>2, <1>3, NextFact
<1>6. W!Local(t, IF version = "ppopp11" THEN [q EXCEPT !.pc = "FD_tid"] ELSE W!EndGet(q, q.head.tid))
  BY <1>4 DEF W!EndHeadNext, W!Read
<1>7. /\ s.then = "result" /\ state[t].node # Null /\ s.head.node = state[t].node => x # Null
      /\ s.then = "result" /\ state[t].node # Null =>
           /\ UpTo(state[t].node, s.head.node)
           /\ s.head.node = state[t].node /\ version = "ppopp12" => s.head.tid = t
  BY <1>1, DoneGet DEF EndGetAt, EndGetPcs
<1>8. CASE version = "ppopp11"
  <2> PICK r : r = WithPc(q, "FD_tid")
    OBVIOUS
  <2>1. W!Local(t, r)
    BY <1>6, <1>8 DEF WithPc
  <2>2. r \in WLocals /\ Alike(r, q) /\ r.pc = "FD_tid" /\ r.head = q.head /\ r.next = q.next
    BY <1>3, <1>5, PcFact
  <2>3. EndGetAt(t, r)
    BY <1>2, <1>5, <1>7, <2>2 DEF EndGetAt, Alike
  <2>4. Same(r, s) /\ r.then = s.then
    BY <1>5, <2>2 DEF Alike, Same
  <2> QED BY <1>1, <1>2, <1>5, <1>8, <2>1, <2>2, <2>3, <2>4, StayEndGet DEF EndGetPcs
<1>9. CASE version # "ppopp11" /\ s.head.tid = W!kTidNotSet
  <2>1. W!Local(t, W!Continue(q))
    BY <1>5, <1>6, <1>9 DEF W!EndGet
  <2>2. s.then = "result" /\ state[t].node # Null => head.node # state[t].node
    BY <1>1, <1>9, HeadOfMine, StrictQueuesAssumption DEF EndGetPcs, W!kTidNotSet
  <2> QED BY <1>1, <1>2, <1>5, <2>1, <2>2, Continued DEF Alike, EndGetPcs
<1>10. CASE version # "ppopp11" /\ s.head.tid # W!kTidNotSet
  <2> PICK r : r = WithTid(q, "FD_state", s.head.tid)
    OBVIOUS
  <2>1. W!Local(t, r)
    BY <1>5, <1>6, <1>10 DEF WithTid, W!EndGet
  <2>2. s.head.tid \in Threads /\ s.head.tid \in ThreadsOrNone
    BY <1>1, <1>10 DEF WLocals, Heads, ThreadsOrNone, W!kTidNotSet
  <2>3. /\ r \in WLocals /\ Alike(r, q) /\ r.pc = "FD_state" /\ r.head = q.head /\ r.next = q.next
        /\ r.tid = s.head.tid
    BY <1>3, <1>5, <2>2, TidFact
  <2>4. EndGetAt(t, r)
    BY <1>2, <1>5, <1>7, <1>10, <2>2, <2>3 DEF EndGetAt, Alike
  <2>5. Same(r, s) /\ r.then = s.then
    BY <1>5, <2>3 DEF Alike, Same
  <2> QED BY <1>1, <2>1, <2>3, <2>4, <2>5, StayEndGet DEF EndGetPcs
<1> QED BY <1>8, <1>9, <1>10

LEMMA EndTidKept == ASSUME WInv, NEW t \in Threads, W!EndTid(t) PROVE WInv'
<1> PICK s : s = th[t]
  OBVIOUS
<1> PICK u : u = deq_tid[s.head.node]
  OBVIOUS
<1>1. s.pc = "FD_tid" /\ s \in WLocals /\ WTypeOK /\ Ordered /\ EndGetAt(t, s) /\ ControlAt(t, s)
  BY Here DEF W!EndTid, W!Read, W!At, ThreadAt
<1>2. /\ WasHead(s.head) /\ s.head.node \in W!Nodes /\ u \in ThreadsOrNone /\ s.then # "helped"
      /\ version = "ppopp11"
  BY <1>1 DEF EndGetAt, WasHead, Ordered, WTypeOK, EndGetPcs, ControlAt
<1>3. W!Local(t, W!EndGet(s, u))
  BY DEF W!EndTid, W!Read
<1>4. CASE u = W!kTidNotSet
  <2>1. W!Local(t, W!Continue(s))
    BY <1>3, <1>4 DEF W!EndGet
  <2>2. s.then = "result" /\ state[t].node # Null => head.node # state[t].node
    <3> SUFFICES ASSUME s.then = "result", state[t].node # Null, head.node = state[t].node PROVE FALSE
      OBVIOUS
    <3>1. s.head = head /\ deq_tid[head.node] = t
      BY <1>1, <1>2, HeadOfMine DEF EndGetPcs
    <3> QED BY <1>4, <3>1, StrictQueuesAssumption DEF W!kTidNotSet
  <2> QED BY <1>1, <1>2, <2>1, <2>2, Continued DEF Same, EndGetPcs
<1>5. CASE u # W!kTidNotSet
  <2> PICK r : r = WithTid(s, "FD_state", u)
    OBVIOUS
  <2>1. W!Local(t, r)
    BY <1>3, <1>5 DEF WithTid, W!EndGet
  <2>2. "FD_state" \in WPcs /\ u \in Threads
    BY <1>2, <1>5 DEF WPcs, EndGetPcs, ThreadsOrNone, W!kTidNotSet
  <2>3. /\ r \in WLocals /\ Alike(r, s) /\ r.pc = "FD_state" /\ r.head = s.head /\ r.next = s.next
        /\ r.tid = u
    BY <1>1, <1>2, <2>2, TidFact
  <2>4. EndGetAt(t, r)
    BY <1>1, <1>2, <2>2, <2>3 DEF EndGetAt, Alike, EndGetPcs
  <2> QED BY <1>1, <1>2, <2>1, <2>3, <2>4, StayEndGet DEF Alike, Same, EndGetPcs
<1> QED BY <1>4, <1>5

LEMMA EndGetStateKept == ASSUME WInv, NEW t \in Threads, W!EndGetState(t) PROVE WInv'
<1> PICK s : s = th[t]
  OBVIOUS
<1> PICK u : u = s.tid
  OBVIOUS
<1> PICK d : d = state[u]
  OBVIOUS
<1> PICK r : r = WithCur(s, "FD_same", d)
  OBVIOUS
<1>1. /\ s.pc = "FD_state" /\ s \in WLocals /\ WTypeOK /\ ClaimInv /\ EndGetAt(t, s) /\ ControlAt(t, s)
      /\ W!Local(t, r)
  BY Here DEF W!EndGetState, W!Read, W!At, ThreadAt, WithCur
<1>2. /\ u \in Threads /\ (IF version = "ppopp11" THEN deq_tid[s.head.node] = u ELSE s.head.tid = u)
      /\ s.then # "helped"
  BY <1>1 DEF EndGetAt, ControlAt, EndGetPcs
<1>3. /\ r \in WLocals /\ Alike(r, s) /\ r.pc = "FD_same" /\ r.head = s.head /\ r.next = s.next
      /\ r.cur = d /\ r.tid = u
  <2>1. d \in Descriptors /\ "FD_same" \in WPcs
    BY <1>1, <1>2 DEF WTypeOK, WPcs, EndGetPcs
  <2> QED BY <1>1, <2>1, CurFact
<1>4. head = s.head => d.type = "get" /\ d.node = head.node
  BY <1>1, <1>2, StrictQueuesAssumption DEF ClaimInv, Claimant, W!kTidNotSet
<1>5. UpToNow(d, u)
  BY DEF UpToNow
<1>6. EndGetAt(t, r)
  BY <1>1, <1>2, <1>3, <1>4, <1>5 DEF EndGetAt, EndGetPcs, Alike
<1> QED BY <1>1, <1>2, <1>3, <1>6, StayEndGet DEF Alike, Same, EndGetPcs

LEMMA EndHeadSameKept == ASSUME WInv, NEW t \in Threads, W!EndHeadSame(t) PROVE WInv'
<1> PICK s : s = th[t]
  OBVIOUS
<1>1. s.pc = "FD_same" /\ s \in WLocals /\ EndGetAt(t, s) /\ ControlAt(t, s)
  BY Here DEF W!EndHeadSame, W!Read, W!At, ThreadAt
<1>2. s.then # "helped"
  BY <1>1 DEF ControlAt, EndGetPcs
<1>3. CASE W!SameHead(t)
  <2> PICK r : r = WithPc(s, "FD_done")
    OBVIOUS
  <2>1. W!Local(t, r)
    BY <1>3 DEF W!EndHeadSame, W!Read, WithPc
  <2>2. /\ r \in WLocals /\ Alike(r, s) /\ r.pc = "FD_done" /\ r.head = s.head /\ r.next = s.next
        /\ r.cur = s.cur /\ r.tid = s.tid
    <3>1. "FD_done" \in WPcs
      BY DEF WPcs, EndGetPcs
    <3> QED BY <1>1, <3>1, PcFact
  <2>3. head = s.head /\ s.next # Null
    BY <1>3 DEF W!SameHead
  <2>4. EndGetAt(t, r)
    BY <1>1, <2>2, <2>3 DEF EndGetAt, EndGetPcs, Alike
  <2> QED BY <1>1, <1>2, <2>1, <2>2, <2>4, StayEndGet DEF Alike, Same, EndGetPcs
<1>4. CASE ~W!SameHead(t)
  <2>1. W!Local(t, W!Continue(s))
    BY <1>4 DEF W!EndHeadSame, W!Read
  <2>2. s.then = "result" /\ state[t].node # Null => head.node # state[t].node
    <3> SUFFICES ASSUME s.then = "result", state[t].node # Null, head.node = state[t].node PROVE FALSE
      OBVIOUS
    <3>1. s.head = head
      BY <1>1, HeadOfMine DEF EndGetPcs
    <3>2. s.next # Null
      BY <1>1, <3>1 DEF EndGetAt, EndGetPcs
    <3> QED BY <1>4, <3>1, <3>2 DEF W!SameHead
  <2> QED BY <1>1, <1>2, <2>1, <2>2, Continued DEF Same, EndGetPcs
<1> QED BY <1>3, <1>4
-----------------------------------------------------------------------------
\* Trials without a descriptor.

LEMMA OnFastPath ==
  ASSUME WInv, NEW t \in Threads, NEW s, s = th[t], s.pc \in FastPcs
  PROVE  /\ s \in WLocals /\ ThreadAt(t, s) /\ ControlAt(t, s) /\ s.then = "idle" /\ ~s.slow /\ s.op # "none"
         /\ version = "ppopp12" /\ ~Helping(s) /\ ~HelpsPut(s) /\ ~Finishing(s)
<1>1. s \in WLocals /\ ThreadAt(t, s) /\ ControlAt(t, s)
  BY Here DEF ThreadAt
<1> QED BY <1>1 DEF ControlAt, Helping, HelpsPut, Finishing, PutPcs, EndPutPcs, GetPcs, EmptyPcs, TakePcs, EndGetPcs, FastPutPcs, FastGetPcs, FastPcs

LEMMA FastRetry ==
  ASSUME WInv, NEW t \in Threads, NEW s, s = th[t], s.pc \in FastPutPcs \cup FastGetPcs,
         W!Local(t, W!To(s, "fast"))
  PROVE  WInv'
<1>1. /\ s \in WLocals /\ ControlAt(t, s) /\ s.then = "idle" /\ ~s.slow /\ s.op # "none"
      /\ version = "ppopp12" /\ ~Helping(s) /\ ~HelpsPut(s) /\ ~Finishing(s)
  BY OnFastPath DEF FastPcs
<1> PICK r : r = W!To(s, "fast")
  OBVIOUS
<1>2. "fast" \in WPcs
  BY DEF WPcs, FastPcs
<1>3. r \in WLocals /\ Same(r, s) /\ r.pc = "fast" /\ r.then = "idle"
  BY <1>1, <1>2, ToFact DEF Same
<1>4. ~Helping(r) /\ ~Finishing(r)
  BY <1>1, <1>3 DEF Helping, Finishing, PutPcs, EndPutPcs, GetPcs, EmptyPcs, TakePcs, EndGetPcs, FastPutPcs, FastGetPcs, FastPcs, Same
<1>5. ControlAt(t, r)
  BY <1>1, <1>3, <1>4 DEF ControlAt, Same, PutPcs, EndPutPcs, GetPcs, EmptyPcs, TakePcs, EndGetPcs, FastPutPcs, FastGetPcs, FastPcs
<1>6. s.pc \notin {"idle", "return", "max", "publish", "help"}
  BY DEF PutPcs, EndPutPcs, GetPcs, EmptyPcs, TakePcs, EndGetPcs, FastPutPcs, FastGetPcs, FastPcs
<1> QED BY <1>1, <1>3, <1>4, <1>5, <1>6, Restart

LEMMA FastBeginKept == ASSUME WInv, NEW t \in Threads, W!FastBegin(t) PROVE WInv'
<1> PICK s : s = th[t]
  OBVIOUS
<1>0. s.pc = "fast" /\ s.pc \in FastPcs
  BY DEF W!FastBegin, W!Read, W!At, FastPcs
<1>1. /\ s \in WLocals /\ ThreadAt(t, s) /\ ControlAt(t, s) /\ s.then = "idle" /\ ~s.slow /\ s.op # "none"
      /\ version = "ppopp12" /\ ~Helping(s) /\ ~HelpsPut(s) /\ ~Finishing(s)
  BY <1>0, OnFastPath
<1>2. CASE s.trials = MaxRetries
  <2> PICK r : r = WithPc(s, "publish")
    OBVIOUS
  <2>1. "publish" \in WPcs
    BY DEF WPcs
  <2>2. r \in WLocals /\ Alike(r, s) /\ r.pc = "publish"
    BY <1>1, <2>1, PcFact
  <2>3. W!Local(t, r)
    BY <1>2 DEF W!FastBegin, W!Read, WithPc
  <2>4. ~Helping(r) /\ ~Finishing(r)
    BY <1>1, <2>2 DEF Helping, Finishing, PutPcs, EndPutPcs, GetPcs, EmptyPcs, TakePcs, EndGetPcs, FastPutPcs, FastGetPcs, FastPcs, Alike, Same
  <2>5. ControlAt(t, r)
    BY <1>0, <1>1, <2>2, <2>4 DEF ControlAt, Alike, Same, PutPcs, EndPutPcs, GetPcs, EmptyPcs, TakePcs, EndGetPcs, FastPutPcs, FastGetPcs, FastPcs
  <2>6. DescAt(t, r)
    BY <1>0, <1>1, <2>2, <2>4 DEF ThreadAt, DescAt, Alike, Same
  <2>7. HelpAt(t, r) /\ PhaseAt(t, r)
    BY <1>1, <2>2, <2>4 DEF HelpAt, PhaseAt, Alike
  <2>8. LinkAt(t, r) /\ EndPutAt(t, r) /\ LookAt(t, r) /\ GetAt(t, r) /\ EndGetAt(t, r)
    BY <1>1, <2>2, Afresh DEF Alike
  <2>9. ThreadAt(t, r)
    BY <2>5, <2>6, <2>7, <2>8 DEF ThreadAt
  <2>10. W!Set(t, r) /\ version' = version /\ UNCHANGED W!list /\ W!Observe(t, W!Held)
    BY <2>3 DEF W!Local, W!shared
  <2> QED BY <1>1, <2>2, <2>4, <2>9, <2>10, LocalStep DEF Alike, Same
<1>3. CASE s.trials # MaxRetries
  <2> PICK l : l = IF s.op = "put" THEN "Q_tail" ELSE "R_head"
    OBVIOUS
  <2> PICK r : r = [s EXCEPT !.pc = l, !.trials = s.trials + 1]
    OBVIOUS
  <2>1. l \in WPcs /\ l \in {"Q_tail", "R_head"} /\ s.trials + 1 \in Nat
    BY <1>1 DEF WPcs, FastPcs, FastPutPcs, FastGetPcs, WLocals
  <2>2. W!Local(t, r)
    BY <1>3 DEF W!FastBegin, W!Read
  <2>3. r \in WLocals /\ Same(r, s) /\ r.pc = l /\ r.then = s.then
    BY <1>1, <2>1 DEF WLocals, Same
  <2>4. ~Helping(r) /\ ~Finishing(r)
    BY <1>1, <2>1, <2>3 DEF Helping, Finishing, PutPcs, EndPutPcs, GetPcs, EmptyPcs, TakePcs, EndGetPcs, FastPutPcs, FastGetPcs, FastPcs, Same
  <2>5. ControlAt(t, r)
    <3>1. s.op \in {"put", "get"}
      BY <1>1 DEF WLocals
    <3>2. CASE s.op = "put"
      <4>1. l = "Q_tail"
        BY <3>2
      <4> QED BY <1>0, <1>1, <2>3, <2>4, <3>2, <4>1 DEF ControlAt, Same, PutPcs, EndPutPcs, GetPcs, EmptyPcs, TakePcs, EndGetPcs, FastPutPcs, FastGetPcs, FastPcs
    <3>3. CASE s.op = "get"
      <4>1. l = "R_head"
        BY <3>3
      <4> QED BY <1>0, <1>1, <2>3, <2>4, <3>3, <4>1 DEF ControlAt, Same, PutPcs, EndPutPcs, GetPcs, EmptyPcs, TakePcs, EndGetPcs, FastPutPcs, FastGetPcs, FastPcs
    <3> QED BY <3>1, <3>2, <3>3
  <2> QED BY <1>0, <1>1, <2>1, <2>2, <2>3, <2>4, <2>5, Restart
<1> QED BY <1>2, <1>3

LEMMA FastPutTailKept == ASSUME WInv, NEW t \in Threads, W!FastPutTail(t) PROVE WInv'
<1> PICK s : s = th[t]
  OBVIOUS
<1> PICK r : r = WithTail(s, "Q_next", tail)
  OBVIOUS
<1>1. s.pc = "Q_tail" /\ s \in WLocals /\ WTypeOK /\ ListInv /\ W!Local(t, r)
  BY Here DEF W!FastPutTail, W!Read, W!At, WithTail
<1>2. r \in WLocals /\ Alike(r, s) /\ r.pc = "Q_next" /\ r.tail = tail
  <2>1. tail \in NodesOrNone /\ "Q_next" \in WPcs
    BY <1>1 DEF WTypeOK, NodesOrNone, WPcs, FastPcs, FastPutPcs
  <2> QED BY <1>1, <2>1, TailFact
<1>3. LinkAt(t, r)
  BY <1>1, <1>2 DEF LinkAt, WasTail, UpTo, ListInv
<1> QED BY <1>1, <1>2, <1>3, StayFastPut DEF Alike, FastPutPcs

LEMMA FastPutNextKept == ASSUME WInv, NEW t \in Threads, W!FastPutNext(t) PROVE WInv'
<1> PICK s : s = th[t]
  OBVIOUS
<1> PICK r : r = WithNext(s, "Q_same", next[s.tail])
  OBVIOUS
<1>1. s.pc = "Q_next" /\ s \in WLocals /\ WTypeOK /\ Ordered /\ LinkAt(t, s) /\ W!Local(t, r)
  BY Here DEF W!FastPutNext, W!Read, W!At, ThreadAt, WithNext
<1>2. WasTail(s.tail) /\ s.tail \in W!Nodes
  BY <1>1 DEF LinkAt, WasTail, Ordered
<1>3. r \in WLocals /\ Alike(r, s) /\ r.pc = "Q_same" /\ r.tail = s.tail /\ r.next = next[r.tail]
  <2>1. next[s.tail] \in NodesOrNone /\ "Q_same" \in WPcs
    BY <1>1, <1>2 DEF WTypeOK, NodesOrNone, W!Nodes, WPcs, FastPcs, FastPutPcs
  <2> QED BY <1>1, <2>1, NextFact
<1>4. LinkAt(t, r)
  BY <1>2, <1>3 DEF LinkAt
<1> QED BY <1>1, <1>3, <1>4, StayFastPut DEF Alike, FastPutPcs

\* The tail is behind: of an operation of another.
LEMMA FixTailKept ==
  ASSUME WInv, NEW t \in Threads, NEW s, s = th[t], s.pc \in {"Q_same", "R_same"},
         WasTail(s.tail), s.next = next[s.tail], s.next # Null, W!Local(t, W!FixTail(s))
  PROVE  WInv'
<1>1. /\ s \in WLocals /\ ControlAt(t, s) /\ s.then = "idle" /\ ~s.slow /\ s.op # "none"
      /\ version = "ppopp12" /\ ~Helping(s) /\ ~HelpsPut(s) /\ ~Finishing(s)
  BY OnFastPath DEF PutPcs, EndPutPcs, GetPcs, EmptyPcs, TakePcs, EndGetPcs, FastPutPcs, FastGetPcs, FastPcs
<1> PICK l : l = IF enq_tid[s.next] = W!kTidNotSet THEN "FE_swing" ELSE "FE_tail"
  OBVIOUS
<1> PICK q : q = WithPc(s, l)
  OBVIOUS
<1> PICK r : r = WithThen(q, "fast")
  OBVIOUS
<1>2. l \in WPcs /\ l \in {"FE_swing", "FE_tail"}
  BY DEF WPcs, EndPutPcs
<1>3. q \in WLocals /\ Alike(q, s) /\ q.pc = l /\ q.tail = s.tail /\ q.next = s.next
  BY <1>1, <1>2, PcFact
<1>4. r \in WLocals /\ Same(r, s) /\ r.pc = l /\ r.tail = s.tail /\ r.next = s.next /\ r.then = "fast"
  BY <1>3, ThenFact DEF Same, Alike
<1>5. W!Local(t, r)
  <2>1. r = [s EXCEPT !.pc = l, !.then = "fast"]
    BY <1>1 DEF WithPc, WithThen, WLocals
  <2> QED BY <2>1 DEF W!FixTail
<1>6. ~Helping(r) /\ ~Finishing(r)
  BY <1>1, <1>2, <1>4 DEF Helping, Finishing, PutPcs, EndPutPcs, GetPcs, EmptyPcs, TakePcs, EndGetPcs, FastPutPcs, FastGetPcs, FastPcs
<1>7. ControlAt(t, r)
  BY <1>1, <1>2, <1>4, <1>6 DEF ControlAt, Same, PutPcs, EndPutPcs, GetPcs, EmptyPcs, TakePcs, EndGetPcs, FastPutPcs, FastGetPcs, FastPcs
<1>8. CASE l = "FE_tail"
  BY <1>1, <1>4, <1>5, <1>6, <1>7, <1>8, Restart
<1>9. CASE l = "FE_swing"
  <2>1. enq_tid[s.next] = W!kTidNotSet
    BY <1>9
  <2>2. \A v \in Threads : state[v].pending /\ state[v].type = "put" => state[v].node # s.next
    BY <2>1, StrictQueuesAssumption DEF WInv, ThreadInv, DescInv, DescAt, W!kTidNotSet
  <2>3. EndPutAt(t, r)
    BY <1>4, <1>9, <2>2 DEF EndPutAt
  <2>4. LinkAt(t, r) /\ LookAt(t, r) /\ GetAt(t, r) /\ EndGetAt(t, r)
    BY <1>4, <1>9 DEF LinkAt, LookAt, GetAt, EndGetAt, EmptyPcs, TakePcs, EndGetPcs
  <2> QED BY <1>1, <1>4, <1>5, <1>6, <1>7, <1>9, <2>3, <2>4, WWithin
<1> QED BY <1>2, <1>8, <1>9

LEMMA FastPutSameKept == ASSUME WInv, NEW t \in Threads, W!FastPutSame(t) PROVE WInv'
<1> PICK s : s = th[t]
  OBVIOUS
<1>1. s.pc = "Q_same" /\ s \in WLocals /\ LinkAt(t, s) /\ s.then = "idle"
  BY Here, OnFastPath DEF W!FastPutSame, W!Read, W!At, ThreadAt, FastPcs, FastPutPcs
<1>2. CASE tail # s.tail
  <2>1. W!Local(t, W!To(s, "fast"))
    BY <1>2 DEF W!FastPutSame, W!Read
  <2> QED BY <1>1, <2>1, FastRetry DEF FastPutPcs
<1>3. CASE tail = s.tail /\ s.next = Null
  <2> PICK r : r = WithPc(s, "Q_link")
    OBVIOUS
  <2>1. r \in WLocals /\ Alike(r, s) /\ r.pc = "Q_link" /\ r.tail = s.tail
    <3>1. "Q_link" \in WPcs
      BY DEF WPcs, FastPcs, FastPutPcs
    <3> QED BY <1>1, <3>1, PcFact
  <2>2. W!Local(t, r)
    BY <1>3 DEF W!FastPutSame, W!Read, WithPc
  <2>3. LinkAt(t, r)
    BY <1>1, <2>1 DEF LinkAt
  <2> QED BY <1>1, <2>1, <2>2, <2>3, StayFastPut DEF Alike, FastPutPcs
<1>4. CASE tail = s.tail /\ s.next # Null
  <2>1. W!Local(t, W!FixTail(s))
    BY <1>4 DEF W!FastPutSame, W!Read
  <2>2. WasTail(s.tail) /\ s.next = next[s.tail]
    BY <1>1, <1>4 DEF LinkAt
  <2> QED BY <1>1, <1>4, <2>1, <2>2, FixTailKept
<1> QED BY <1>2, <1>3, <1>4

LEMMA FastGetHeadKept == ASSUME WInv, NEW t \in Threads, W!FastGetHead(t) PROVE WInv'
<1> PICK s : s = th[t]
  OBVIOUS
<1> PICK r : r = WithHead(s, "R_tail", head)
  OBVIOUS
<1>1. s.pc = "R_head" /\ s \in WLocals /\ WTypeOK /\ ListInv /\ W!Local(t, r)
  BY Here DEF W!FastGetHead, W!Read, W!At, WithHead
<1>2. r \in WLocals /\ Alike(r, s) /\ r.pc = "R_tail" /\ r.head = head
  <2>1. head \in Heads /\ "R_tail" \in WPcs
    BY <1>1 DEF WTypeOK, Heads, NodesOrNone, WPcs, FastPcs, FastGetPcs
  <2> QED BY <1>1, <2>1, HeadFact
<1>3. WasHead(head)
  BY <1>1 DEF WasHead, ListInv
<1>4. LookAt(t, r) /\ GetAt(t, r)
  BY <1>2, <1>3 DEF LookAt, GetAt, EmptyPcs, TakePcs
<1>5. s.then = "idle"
  BY <1>1, OnFastPath DEF FastPcs, FastGetPcs
<1> QED BY <1>1, <1>2, <1>4, <1>5, StayFastGet DEF Alike, FastGetPcs

LEMMA FastGetTailKept == ASSUME WInv, NEW t \in Threads, W!FastGetTail(t) PROVE WInv'
<1> PICK s : s = th[t]
  OBVIOUS
<1> PICK r : r = WithTail(s, "R_next", tail)
  OBVIOUS
<1>1. s.pc = "R_tail" /\ s \in WLocals /\ WTypeOK /\ ListInv /\ LookAt(t, s) /\ W!Local(t, r)
  BY Here DEF W!FastGetTail, W!Read, W!At, WithTail, ThreadAt
<1>2. r \in WLocals /\ Alike(r, s) /\ r.pc = "R_next" /\ r.tail = tail /\ r.head = s.head
  <2>1. tail \in NodesOrNone /\ "R_next" \in WPcs
    BY <1>1 DEF WTypeOK, NodesOrNone, WPcs, FastPcs, FastGetPcs
  <2> QED BY <1>1, <2>1, TailFact
<1>3. WasHead(s.head) /\ WasTail(tail) /\ UpTo(s.head.node, tail)
  <2>1. WasHead(s.head)
    BY <1>1 DEF LookAt
  <2> QED BY <1>1, <2>1, HeadToTail DEF WasTail, ListInv, UpTo
<1>4. LookAt(t, r) /\ GetAt(t, r)
  BY <1>2, <1>3 DEF LookAt, GetAt, EmptyPcs, TakePcs
<1>5. s.then = "idle"
  BY <1>1, OnFastPath DEF FastPcs, FastGetPcs
<1> QED BY <1>1, <1>2, <1>4, <1>5, StayFastGet DEF Alike, FastGetPcs

LEMMA FastGetNextKept == ASSUME WInv, NEW t \in Threads, W!FastGetNext(t) PROVE WInv'
<1> PICK s : s = th[t]
  OBVIOUS
<1> PICK x : x = next[s.head.node]
  OBVIOUS
<1> PICK r : r = WithNext(s, "R_same", x)
  OBVIOUS
<1>1. /\ s.pc = "R_next" /\ s \in WLocals /\ WTypeOK /\ Ordered /\ LookAt(t, s) /\ ControlAt(t, s)
      /\ W!Local(t, r)
  BY Here DEF W!FastGetNext, W!Read, W!At, WithNext, ThreadAt
<1>2. WasHead(s.head) /\ WasTail(s.tail) /\ UpTo(s.head.node, s.tail)
  BY <1>1 DEF LookAt
<1>3. s.head.node \in W!Nodes /\ s.tail \in W!Nodes
  BY <1>1, <1>2 DEF WasHead, WasTail, Ordered
<1>4. /\ r \in WLocals /\ Alike(r, s) /\ r.pc = "R_same" /\ r.tail = s.tail /\ r.head = s.head /\ r.next = x
  <2>1. x \in NodesOrNone /\ "R_same" \in WPcs
    BY <1>1, <1>3 DEF WTypeOK, NodesOrNone, W!Nodes, WPcs, FastPcs, FastGetPcs
  <2> QED BY <1>1, <2>1, NextFact
<1>5. x = Null => s.head.node = s.tail
  BY <1>1, <1>2, <1>3 DEF UpTo, Ordered
<1>6. s.then = "idle" /\ th[t].op = "get"
  BY <1>1, OnFastPath DEF FastPcs, FastGetPcs, ControlAt
<1>7. x = Null /\ head = s.head => sight[t]
  BY <1>6, EmptySeen
<1>8. LookAt(t, r)
  BY <1>2, <1>4, <1>5, <1>7 DEF LookAt, EmptyPcs, TakePcs
<1>9. GetAt(t, r)
  BY <1>4 DEF GetAt, EmptyPcs, TakePcs
<1> QED BY <1>1, <1>4, <1>6, <1>8, <1>9, StayFastGet DEF Alike, FastGetPcs

LEMMA FastGetSameKept == ASSUME WInv, NEW t \in Threads, W!FastGetSame(t) PROVE WInv'
<1> PICK s : s = th[t]
  OBVIOUS
<1>1. s.pc = "R_same" /\ WTypeOK /\ Ordered /\ LookAt(t, s)
  BY Here DEF W!FastGetSame, W!Read, W!At, ThreadAt
<1>2. /\ s \in WLocals /\ ThreadAt(t, s) /\ ControlAt(t, s) /\ s.then = "idle" /\ ~s.slow /\ s.op # "none"
      /\ version = "ppopp12" /\ ~Helping(s) /\ ~HelpsPut(s) /\ ~Finishing(s)
  BY <1>1, OnFastPath DEF FastPcs, FastGetPcs
<1>3. /\ WasHead(s.head) /\ WasTail(s.tail) /\ UpTo(s.head.node, s.tail)
      /\ s.next # Null => s.next = next[s.head.node]
      /\ s.next = Null => s.head.node = s.tail
      /\ s.next = Null /\ head = s.head => sight[t]
  BY <1>1 DEF LookAt
<1>4. s.head.node \in W!Nodes /\ s.tail \in W!Nodes /\ tail \in W!Nodes
  BY <1>1, <1>3 DEF WasHead, WasTail, Ordered, WTypeOK
<1>5. CASE head # s.head
  <2>1. W!Local(t, W!To(s, "fast"))
    BY <1>5 DEF W!FastGetSame, W!Read
  <2> QED BY <1>1, <2>1, FastRetry DEF FastGetPcs
<1>6. CASE head = s.head /\ s.head.node # s.tail
  <2> PICK r : r = WithTail(s, "R_tid", Null)
    OBVIOUS
  <2>1. W!Local(t, r)
    BY <1>6 DEF W!FastGetSame, W!Read, WithTail
  <2>2. r \in WLocals /\ Alike(r, s) /\ r.pc = "R_tid" /\ r.head = s.head /\ r.next = s.next
    <3>1. Null \in NodesOrNone /\ "R_tid" \in WPcs
      BY DEF NodesOrNone, WPcs, FastPcs, FastGetPcs
    <3> QED BY <1>2, <3>1, TailFact
  <2>3. Before(s.head.node, tail)
    BY <1>1, <1>3, <1>4, <1>6 DEF UpTo, WasTail, Ordered
  <2>4. LookAt(t, r)
    BY <1>3, <1>6, <2>2, <2>3 DEF LookAt
  <2>5. GetAt(t, r)
    BY <2>2 DEF GetAt, EmptyPcs, TakePcs
  <2> QED BY <1>1, <1>2, <2>1, <2>2, <2>4, <2>5, StayFastGet DEF Alike, FastGetPcs
<1>7. CASE head = s.head /\ s.head.node = s.tail /\ s.next = Null
  <2> PICK r : r = W!To(s, "return")
    OBVIOUS
  <2>1. W!Set(t, r) /\ version' = version /\ UNCHANGED W!list /\ W!Observe(t, W!Held)
    BY <1>7 DEF W!FastGetSame, W!Read, W!Local, W!shared
  <2>2. r \in WLocals /\ Same(r, s) /\ r.pc = "return" /\ r.then = "idle"
    <3>1. "return" \in WPcs
      BY DEF WPcs
    <3> QED BY <1>2, <3>1, ToFact DEF Same
  <2>3. ~Helping(r) /\ ~Finishing(r)
    BY <1>2, <2>2 DEF Helping, Finishing, PutPcs, EndPutPcs, GetPcs, EmptyPcs, TakePcs, EndGetPcs, FastPutPcs, FastGetPcs, FastPcs, Same
  <2>4. ControlAt(t, r) /\ s.op = "get"
    BY <1>1, <1>2, <2>2, <2>3 DEF ControlAt, Same, PutPcs, EndPutPcs, GetPcs, EmptyPcs, TakePcs, EndGetPcs, FastPutPcs, FastGetPcs, FastPcs
  <2>5. DescAt(t, r)
    BY <1>1, <1>2, <1>3, <1>7, <2>2, <2>3, <2>4 DEF ThreadAt, DescAt, Same
  <2>6. HelpAt(t, r) /\ PhaseAt(t, r)
    BY <2>2, <2>3 DEF HelpAt, PhaseAt
  <2>7. LinkAt(t, r) /\ EndPutAt(t, r) /\ LookAt(t, r) /\ GetAt(t, r) /\ EndGetAt(t, r)
    BY <2>2, Afresh
  <2>8. ThreadAt(t, r)
    BY <2>4, <2>5, <2>6, <2>7 DEF ThreadAt
  <2> QED BY <1>2, <2>1, <2>2, <2>3, <2>8, LocalStep DEF Same
<1>8. CASE head = s.head /\ s.head.node = s.tail /\ s.next # Null
  <2>1. W!Local(t, W!FixTail(s))
    BY <1>8 DEF W!FastGetSame, W!Read
  <2> QED BY <1>1, <1>3, <1>8, <2>1, FixTailKept
<1> QED BY <1>5, <1>6, <1>7, <1>8

LEMMA FastGetTidKept == ASSUME WInv, NEW t \in Threads, W!FastGetTid(t) PROVE WInv'
<1> PICK s : s = th[t]
  OBVIOUS
<1>1. s.pc = "R_tid" /\ LookAt(t, s)
  BY Here DEF W!FastGetTid, W!Read, W!At, ThreadAt
<1>2. /\ s \in WLocals /\ ControlAt(t, s) /\ s.then = "idle" /\ ~s.slow /\ s.op # "none"
      /\ version = "ppopp12" /\ ~Helping(s) /\ ~HelpsPut(s) /\ ~Finishing(s)
  BY <1>1, OnFastPath DEF FastPcs, FastGetPcs
<1>3. CASE head.tid = W!kTidNotSet
  <2> PICK r : r = WithPc(s, "R_take")
    OBVIOUS
  <2>1. r \in WLocals /\ Alike(r, s) /\ r.pc = "R_take" /\ r.head = s.head /\ r.next = s.next
    <3>1. "R_take" \in WPcs
      BY DEF WPcs, FastPcs, FastGetPcs
    <3> QED BY <1>2, <3>1, PcFact
  <2>2. W!Local(t, r)
    BY <1>3 DEF W!FastGetTid, W!Read, WithPc
  <2>3. LookAt(t, r)
    BY <1>1, <1>3, <2>1 DEF LookAt
  <2>4. GetAt(t, r)
    BY <2>1 DEF GetAt, EmptyPcs, TakePcs
  <2> QED BY <1>1, <1>2, <2>1, <2>2, <2>3, <2>4, StayFastGet DEF Alike, FastGetPcs
<1>4. CASE head.tid # W!kTidNotSet
  <2> PICK q : q = W!To(s, "FD_head")
    OBVIOUS
  <2> PICK r : r = WithThen(q, "fast")
    OBVIOUS
  <2>1. "FD_head" \in WPcs
    BY DEF WPcs, EndGetPcs
  <2>2. q \in WLocals /\ Same(q, s) /\ q.pc = "FD_head"
    BY <1>2, <2>1, ToFact DEF Same
  <2>3. r \in WLocals /\ Same(r, s) /\ r.pc = "FD_head" /\ r.then = "fast"
    BY <2>2, ThenFact DEF Same
  <2>4. W!Local(t, r)
    BY <1>4 DEF W!FastGetTid, W!Read, WithThen
  <2>5. ~Finishing(r) /\ ~Helping(r)
    BY <2>3 DEF Finishing, Helping, PutPcs, EndPutPcs, GetPcs, EmptyPcs, TakePcs, EndGetPcs, FastPutPcs, FastGetPcs, FastPcs
  <2>6. ControlAt(t, r)
    BY <1>1, <1>2, <2>3, <2>5 DEF ControlAt, Same, PutPcs, EndPutPcs, GetPcs, EmptyPcs, TakePcs, EndGetPcs, FastPutPcs, FastGetPcs, FastPcs
  <2> QED BY <1>1, <1>2, <2>3, <2>4, <2>5, <2>6, Restart
<1> QED BY <1>3, <1>4
-----------------------------------------------------------------------------
\* The phase of an operation, and whom to help.

LEMMA SlowLocal ==
  ASSUME WInv, NEW t \in Threads, NEW s, s = th[t], s.pc \in {"max", "publish", "help", "check"}
  PROVE  /\ WTypeOK /\ s \in WLocals /\ ThreadAt(t, s) /\ ControlAt(t, s) /\ DescAt(t, s) /\ s.then = "idle"
         /\ s.op # "none" /\ ~Helping(s) /\ ~Finishing(s) /\ (s.slow = TRUE <=> s.pc = "help")
<1>1. WTypeOK /\ s \in WLocals /\ ThreadAt(t, s) /\ ControlAt(t, s) /\ DescAt(t, s)
  BY Here DEF ThreadAt
<1>2. s.slow \in BOOLEAN
  BY <1>1 DEF WLocals
<1> QED BY <1>1, <1>2 DEF ControlAt, Helping, Finishing, PutPcs, EndPutPcs, GetPcs, EmptyPcs, TakePcs, EndGetPcs, FastPutPcs, FastGetPcs, FastPcs

LEMMA HelpKept == ASSUME WInv, NEW t \in Threads, W!Help(t) PROVE WInv'
<1> PICK s : s = th[t]
  OBVIOUS
<1> PICK u : u = WaitfreeNum[s.i]
  OBVIOUS
<1> PICK d : d = state[u]
  OBVIOUS
<1>0. s.pc = "help" /\ W!Read(t, "help", IF d.pending /\ d.phase <= s.phase THEN W!HelpWith(s, d.type, "help") ELSE W!NextHelp(s))
  BY DEF W!Help, W!Read, W!At
<1>1. /\ WTypeOK /\ s \in WLocals /\ ThreadAt(t, s) /\ ControlAt(t, s) /\ DescAt(t, s) /\ s.then = "idle"
      /\ s.op # "none" /\ ~Helping(s) /\ ~Finishing(s) /\ s.slow = TRUE
  BY <1>0, SlowLocal
<1>2. version = "ppopp11" /\ HelpAt(t, s) /\ s.i \in DOMAIN WaitfreeNum /\ u \in Threads
  BY <1>0, <1>1, NumType DEF ControlAt, ThreadAt, WLocals
<1>3. CASE d.pending /\ d.phase <= s.phase
  <2> PICK l : l = IF d.type = "put" THEN "E_pending" ELSE "D_pending"
    OBVIOUS
  <2> PICK r : r = [s EXCEPT !.pc = l, !.back = "help"]
    OBVIOUS
  <2>1. W!Local(t, r)
    BY <1>0, <1>3 DEF W!Read, W!HelpWith
  <2>2. l \in WPcs /\ l \in {"E_pending", "D_pending"} /\ d.type \in {"put", "get"}
    BY <1>1, <1>2 DEF WPcs, PutPcs, GetPcs, WTypeOK, Descriptors
  <2>3. /\ r \in WLocals /\ r.pc = l /\ r.op = s.op /\ r.item = s.item /\ r.slow = s.slow /\ r.i = s.i
        /\ r.phase = s.phase /\ r.then = s.then /\ r.back = "help"
    BY <1>1, <2>2 DEF WLocals
  <2>4. Helping(r) /\ ~Finishing(r) /\ (HelpsPut(r) <=> l = "E_pending")
    BY <1>1, <2>2, <2>3 DEF Helping, HelpsPut, Finishing, PutPcs, EndPutPcs, GetPcs, EmptyPcs, TakePcs, EndGetPcs, FastPutPcs, FastGetPcs, FastPcs
  <2>5. ControlAt(t, r)
    BY <1>0, <1>1, <1>2, <2>2, <2>3, <2>4 DEF ControlAt, PutPcs, EndPutPcs, GetPcs, EmptyPcs, TakePcs, EndGetPcs, FastPutPcs, FastGetPcs, FastPcs
  <2>6. DescAt(t, r)
    BY <1>0, <1>1, <2>2, <2>3, <2>4 DEF DescAt
  <2>7. HelpAt(t, r)
    <3>1. Helping(r) /\ Pending(r) => state[u].type = IF HelpsPut(r) THEN "put" ELSE "get"
      BY <2>2, <2>4
    <3> QED BY <1>0, <1>1, <1>2, <2>3, <3>1 DEF HelpAt
  <2>8. PhaseAt(t, r) /\ LinkAt(t, r) /\ EndPutAt(t, r) /\ LookAt(t, r) /\ GetAt(t, r) /\ EndGetAt(t, r)
    <3>1. r.pc \in {"E_pending", "D_pending"} /\ r.then = "idle"
      BY <1>1, <2>2, <2>3
    <3>2. r.pc \in {"E_pending", "E_tail", "D_pending", "D_head", "FE_tail", "FD_head", "help", "fast",
                   "Q_tail", "R_head", "return", "max", "publish", "check"}
      BY <3>1
    <3>3. LinkAt(t, r) /\ EndPutAt(t, r) /\ LookAt(t, r) /\ GetAt(t, r) /\ EndGetAt(t, r)
      BY ONLY <3>1, <3>2, Afresh
    <3> QED BY <3>1, <3>3 DEF PhaseAt
  <2>9. ThreadAt(t, r)
    BY <2>5, <2>6, <2>7, <2>8 DEF ThreadAt
  <2>10. W!Set(t, r) /\ version' = version /\ UNCHANGED W!list /\ W!Observe(t, W!Held)
    BY <2>1 DEF W!Local, W!shared
  <2> QED BY <1>1, <1>3, <2>3, <2>9, <2>10, LocalStep
<1>4. CASE ~(d.pending /\ d.phase <= s.phase)
  <2> PICK c : c = W!NextHelp(s)
    OBVIOUS
  <2>1. W!Local(t, c)
    BY <1>0, <1>4 DEF W!Read
  <2>2. CallAt(t, s)
    BY <1>0, <1>1, <1>2 DEF CallAt
  <2>3. \A j \in DOMAIN WaitfreeNum : WaitfreeNum[j] = t /\ j <= s.i => ~state[t].pending
    <3>1. \A j \in DOMAIN WaitfreeNum : j <= s.i => j < s.i \/ j = s.i
      BY <1>2, NumCount
    <3>2. \A j \in DOMAIN WaitfreeNum : WaitfreeNum[j] = t /\ j < s.i => ~state[t].pending
      BY <1>0, <1>2 DEF HelpAt
    <3>3. u = t => ~state[t].pending
      <4>1. state[t].phase = s.phase /\ s.phase \in Int
        BY <1>1 DEF DescAt, WLocals, W!kNoPhase
      <4> QED BY <1>4, <4>1
    <3> QED BY <3>1, <3>2, <3>3
  <2>4. GoesOn(t, s, c)
    BY <1>1, <1>2, <2>2, <2>3, NextHelpFits
  <2> QED BY <1>1, <2>1, <2>4, GoneOn
<1> QED BY <1>3, <1>4

LEMMA MaxPhaseKept == ASSUME WInv, NEW t \in Threads, W!MaxPhase(t) PROVE WInv'
<1> PICK s : s = th[t]
  OBVIOUS
<1> PICK u : u = WaitfreeNum[s.i]
  OBVIOUS
<1> PICK p : p = IF state[u].phase > s.phase THEN state[u].phase ELSE s.phase
  OBVIOUS
<1> PICK l : l = IF s.i + 1 = Cardinality(DOMAIN WaitfreeNum) THEN "publish" ELSE "max"
  OBVIOUS
<1> PICK i : i = IF s.i + 1 = Cardinality(DOMAIN WaitfreeNum) THEN 0 ELSE s.i + 1
  OBVIOUS
<1> PICK r : r = [s EXCEPT !.pc = l, !.phase = p, !.i = i]
  OBVIOUS
<1>0. s.pc = "max"
  BY DEF W!MaxPhase, W!Read, W!At
<1>1. /\ WTypeOK /\ s \in WLocals /\ ThreadAt(t, s) /\ ControlAt(t, s) /\ DescAt(t, s) /\ s.then = "idle"
      /\ s.op # "none" /\ ~Helping(s) /\ ~Finishing(s) /\ ~s.slow
  BY <1>0, SlowLocal DEF WLocals
<1>2. s.i \in DOMAIN WaitfreeNum /\ u \in Threads /\ version = "ppopp11" /\ PhaseAt(t, s)
  BY <1>0, <1>1, NumType DEF ControlAt, ThreadAt, WLocals
<1>3. s.phase \in Int /\ state[u].phase \in Int /\ p \in Nat \cup {W!kNoPhase} /\ p \in Int /\ s.phase <= p /\ state[u].phase <= p
  BY <1>1, <1>2 DEF WLocals, WTypeOK, Descriptors, W!kNoPhase
<1>4. i \in DOMAIN WaitfreeNum /\ l \in {"publish", "max"} /\ l \in WPcs
  BY <1>2, NumCount, StrictQueuesAssumption DEF WPcs
<1>5. W!Local(t, r)
  <2>1. s.i + 1 = Cardinality(DOMAIN WaitfreeNum) => r = [[s EXCEPT !.phase = p] EXCEPT !.pc = "publish", !.i = 0]
    BY <1>1 DEF WLocals
  <2>2. s.i + 1 # Cardinality(DOMAIN WaitfreeNum) => r = [[s EXCEPT !.phase = p] EXCEPT !.i = s.i + 1]
    <3> SUFFICES ASSUME s.i + 1 # Cardinality(DOMAIN WaitfreeNum)
                 PROVE  r = [[s EXCEPT !.phase = p] EXCEPT !.i = s.i + 1]
      OBVIOUS
    <3>1. l = s.pc /\ i = s.i + 1
      BY <1>0
    <3>2. s \in WLocals
      BY <1>1
    <3> QED BY ONLY <3>1, <3>2, r = [s EXCEPT !.pc = l, !.phase = p, !.i = i] DEF WLocals
  <2> PICK q : q = [s EXCEPT !.phase = p]
    OBVIOUS
  <2>3. q.i = s.i
    BY <1>1 DEF WLocals
  <2>4. [q EXCEPT !.i = q.i + 1] = [q EXCEPT !.i = s.i + 1]
    BY <2>3
  <2>5. W!Local(t, IF q.i + 1 = Cardinality(DOMAIN WaitfreeNum) THEN [q EXCEPT !.pc = "publish", !.i = 0]
                 ELSE [q EXCEPT !.i = q.i + 1])
    BY WCardinality DEF W!MaxPhase, W!Read
  <2> QED BY <2>1, <2>2, <2>3, <2>4, <2>5
<1>6. /\ r \in WLocals /\ r.pc = l /\ r.op = s.op /\ r.item = s.item /\ r.slow = s.slow /\ r.i = i
      /\ r.phase = p /\ r.then = s.then
  <2>1. p \in Nat \cup {W!kNoPhase} /\ i \in DOMAIN WaitfreeNum /\ l \in WPcs
    BY <1>3, <1>4
  <2>2. s \in WLocals
    BY <1>1
  <2>3. r \in WLocals
    BY ONLY <2>1, <2>2, r = [s EXCEPT !.pc = l, !.phase = p, !.i = i] DEF WLocals
  <2>4. /\ r.pc = l /\ r.op = s.op /\ r.item = s.item /\ r.slow = s.slow /\ r.i = i
        /\ r.phase = p /\ r.then = s.then
    BY ONLY <2>2, r = [s EXCEPT !.pc = l, !.phase = p, !.i = i] DEF WLocals
  <2> QED BY <2>3, <2>4
<1>7. ~Helping(r) /\ ~Finishing(r)
  BY <1>1, <1>4, <1>6 DEF Helping, Finishing, PutPcs, EndPutPcs, GetPcs, EmptyPcs, TakePcs, EndGetPcs, FastPutPcs, FastGetPcs, FastPcs
<1>8. ControlAt(t, r)
  BY <1>0, <1>1, <1>2, <1>4, <1>6, <1>7 DEF ControlAt, PutPcs, EndPutPcs, GetPcs, EmptyPcs, TakePcs, EndGetPcs, FastPutPcs, FastGetPcs, FastPcs
<1>9. DescAt(t, r)
  BY <1>0, <1>1, <1>4, <1>6, <1>7 DEF DescAt
<1>10. PhaseAt(t, r)
  <2> SUFFICES ASSUME NEW j \in DOMAIN WaitfreeNum, l = "publish" \/ j < i
               PROVE  /\ WaitfreeNum[j] = t => state[t].phase <= p
                      /\ Helping(th[WaitfreeNum[j]]) /\ WaitfreeNum[th[WaitfreeNum[j]].i] = t => th[WaitfreeNum[j]].phase <= p
    BY <1>6 DEF PhaseAt
  <2> PICK v : v = WaitfreeNum[j]
    OBVIOUS
  <2>1. v \in Threads
    BY NumType
  <2>2. j < s.i \/ j = s.i
    BY <1>2, <1>4, NumCount
  <2>3. th[v].phase \in Int /\ state[t].phase \in Int
    BY <1>1, <2>1 DEF WLocals, WTypeOK, Descriptors, W!kNoPhase
  <2>4. CASE j < s.i
    <3>1. /\ v = t => state[t].phase <= s.phase
          /\ Helping(th[v]) /\ WaitfreeNum[th[v].i] = t => th[v].phase <= s.phase
      BY <1>0, <1>2, <2>4 DEF PhaseAt
    <3> QED BY <1>3, <2>3, <3>1
  <2>5. CASE j = s.i
    <3>1. v = u
      BY <2>5
    <3>2. Helping(th[v]) => state[v].phase = th[v].phase
      <4>1. ControlAt(v, th[v]) /\ DescAt(v, th[v])
        BY <2>1 DEF WInv, ThreadInv, ControlInv, DescInv
      <4> SUFFICES ASSUME Helping(th[v]) PROVE state[v].phase = th[v].phase
        OBVIOUS
      <4>2. th[v].slow /\ ~Finishing(th[v])
        BY <4>1 DEF ControlAt, Helping, Finishing, PutPcs, EndPutPcs, GetPcs, EmptyPcs, TakePcs, EndGetPcs, FastPutPcs, FastGetPcs, FastPcs
      <4> QED BY <4>1, <4>2 DEF DescAt
    <3> QED BY <1>3, <3>1, <3>2
  <2> QED BY <2>2, <2>4, <2>5
<1>11. HelpAt(t, r)
  BY <1>1, <1>4, <1>6, <1>7 DEF HelpAt
<1>12. LinkAt(t, r) /\ EndPutAt(t, r) /\ LookAt(t, r) /\ GetAt(t, r) /\ EndGetAt(t, r)
  <2>1. r.pc \in {"publish", "max"} /\ r.then = "idle"
    BY <1>1, <1>4, <1>6
  <2>2. r.pc \in {"E_pending", "E_tail", "D_pending", "D_head", "FE_tail", "FD_head", "help", "fast",
                   "Q_tail", "R_head", "return", "max", "publish", "check"}
    BY <2>1
  <2> QED BY ONLY <2>1, <2>2, Afresh
<1>13. ThreadAt(t, r)
  BY <1>8, <1>9, <1>10, <1>11, <1>12 DEF ThreadAt
<1>14. W!Set(t, r) /\ version' = version /\ UNCHANGED W!list /\ W!Observe(t, W!Held)
  BY <1>5 DEF W!Local, W!shared
<1> QED BY <1>1, <1>6, <1>7, <1>13, <1>14, LocalStep

LEMMA CheckKept == ASSUME WInv, NEW t \in Threads, W!Check(t) PROVE WInv'
<1> PICK s : s = th[t]
  OBVIOUS
<1> PICK r : r = WithPc(s, "fast")
  OBVIOUS
<1>0. s.pc = "check"
  BY DEF W!Check, W!At
<1>1. /\ WTypeOK /\ s \in WLocals /\ ThreadAt(t, s) /\ ControlAt(t, s) /\ DescAt(t, s) /\ s.then = "idle"
      /\ s.op # "none" /\ ~Helping(s) /\ ~Finishing(s) /\ ~s.slow
  BY <1>0, SlowLocal DEF WLocals
<1>2. \A u \in Threads : ~(state[u].pending /\ state[u].phase = W!kNoPhase)
  BY DEF WInv, ThreadInv, DescInv, DescAt
<1>3. WaitfreeNum[0] \in Threads
  BY NumType, StrictQueuesAssumption
<1>4. W!Set(t, r) /\ version' = version /\ UNCHANGED W!list /\ W!Observe(t, W!Held)
  BY <1>2, <1>3 DEF W!Check, WithPc
<1>5. "fast" \in WPcs
  BY DEF WPcs, FastPcs
<1>6. r \in WLocals /\ Alike(r, s) /\ r.pc = "fast"
  BY <1>1, <1>5, PcFact
<1>7. ~Helping(r) /\ ~Finishing(r)
  BY <1>1, <1>6 DEF Helping, Finishing, PutPcs, EndPutPcs, GetPcs, EmptyPcs, TakePcs, EndGetPcs, FastPutPcs, FastGetPcs, FastPcs, Alike, Same
<1>8. ControlAt(t, r)
  BY <1>0, <1>1, <1>6, <1>7 DEF ControlAt, PutPcs, EndPutPcs, GetPcs, EmptyPcs, TakePcs, EndGetPcs, FastPutPcs, FastGetPcs, FastPcs, Alike, Same
<1>9. DescAt(t, r)
  BY <1>0, <1>1, <1>6, <1>7 DEF DescAt, Alike, Same
<1>10. HelpAt(t, r) /\ PhaseAt(t, r)
  BY <1>1, <1>6, <1>7 DEF HelpAt, PhaseAt, Alike, Same
<1>11. LinkAt(t, r) /\ EndPutAt(t, r) /\ LookAt(t, r) /\ GetAt(t, r) /\ EndGetAt(t, r)
  BY <1>1, <1>6, Afresh DEF Alike
<1>12. ThreadAt(t, r)
  BY <1>8, <1>9, <1>10, <1>11 DEF ThreadAt
<1> QED BY <1>1, <1>4, <1>6, <1>7, <1>12, LocalStep DEF Alike, Same
-----------------------------------------------------------------------------
\* A descriptor changes.

\* What is defined from the nodes only.
LEMMA SameNodes ==
  ASSUME version' = version, head' = head, tail' = tail, next' = next, deq_tid' = deq_tid
  PROVE  /\ Succ' = Succ /\ Linked' = Linked /\ Chain' = Chain /\ Claimant' = Claimant
         /\ \A x, y : (Before(x, y)' <=> Before(x, y)) /\ (UpTo(x, y)' <=> UpTo(x, y))
         /\ \A x : (WasTail(x)' <=> WasTail(x)) /\ (Claimable(x)' <=> Claimable(x))
         /\ \A h : WasHead(h)' <=> WasHead(h)
<1>2. Succ' = Succ
  BY DEF Succ, W!Nodes
<1>3. Linked' = Linked /\ Chain' = Chain /\ Claimant' = Claimant
  BY <1>2 DEF Linked, Chain, Claimant
<1>4. \A x, y : (Before(x, y)' <=> Before(x, y)) /\ (UpTo(x, y)' <=> UpTo(x, y))
  BY <1>2 DEF UpTo, Before
<1>5. \A x : (WasTail(x)' <=> WasTail(x)) /\ (Claimable(x)' <=> Claimable(x))
  BY <1>2, <1>3 DEF WasTail, Claimable, UpTo, Before, W!Head, W!kTidNotSet
<1>6. \A h : WasHead(h)' <=> WasHead(h)
  BY <1>2, <1>3 DEF WasHead, HeadNewer, Before, W!kTidNotSet
<1> QED BY <1>2, <1>3, <1>4, <1>5, <1>6

Changed(t, u) == PutDone(u) \/ GetDone(u) \/ FoundEmpty(u) \/ Marked(u)

LEMMA ChangedMoves ==
  ASSUME WInv, NEW t \in Threads, NEW s, s = th[t], NEW r \in WLocals, W!Set(t, r), W!Observe(t, W!Held),
         version' = version, head' = head, tail' = tail, next' = next, enq_tid' = enq_tid, deq_tid' = deq_tid,
         NEW u \in Threads, NEW e \in Descriptors, state' = [state EXCEPT ![u] = e], Changed(t, u),
         s.op # "none", r.op = s.op, Helping(r) => Helping(s) /\ r.i = s.i /\ r.phase = s.phase
  PROVE  Moves(t)
<1>1. WTypeOK
  BY DEF WInv
<1>2. /\ th' \in [Threads -> WLocals] /\ th'[t] = r /\ Others(t)
      /\ done' = done /\ out' = out /\ older' = older /\ late' = late /\ start' = start
      /\ sight' \in [Threads -> BOOLEAN]
      /\ \A v \in Threads : th'[v].op = th[v].op
      /\ \A v \in Threads : th[v].op = "get" /\ sight[v] => sight'[v]
  BY <1>1, Quieted
<1>3. state' \in [Threads -> Descriptors]
  BY <1>1 DEF WTypeOK
<1>4. WTypeOK'
  BY <1>1, <1>2, <1>3 DEF WTypeOK, W!Nodes
<1>5. /\ Succ' = Succ /\ Linked' = Linked /\ Chain' = Chain
      /\ \A x : Claimable(x)' <=> Claimable(x)
  BY SameNodes
<1>6. ListMoves
  BY <1>5 DEF ListMoves, Before
<1>7. HeadMoves /\ TailMoves /\ NeverClaimable
  BY <1>5 DEF HeadMoves, TailMoves, NeverClaimable
<1>8. DescMoves(t)
  <2>1. \A v \in Threads \ {u} : state'[v] = state[v]
    BY <1>1 DEF WTypeOK
  <2> QED BY <2>1 DEF DescMoves, Changed
<1>9. CallMoves(t)
  <2>1. ASSUME NEW v \in Threads \ {t}, th[v].op = "put", ~th[v].slow, th[v].pc # "return"
        PROVE  th[v].item \notin Linked' /\ enq_tid'[th[v].item] = W!kTidNotSet
    BY <1>5, <2>1 DEF WInv, ThreadInv, DescInv, DescAt
  <2> QED BY <1>2, <2>1 DEF CallMoves
<1> QED BY <1>2, <1>4, <1>6, <1>7, <1>8, <1>9 DEF Moves

\* A dequeue that is done has the item behind the head, which nobody else has.
LEMMA BehindHead ==
  ASSUME WInv, NEW u \in Threads, GetDone(u), state[u].node = head.node
  PROVE  /\ next[head.node] \in After(Succ, head.node)
         /\ \A v \in Threads \ {u} : Behind(v) \cap {next[head.node]} = {}
<1>1. WTypeOK /\ Ordered
  BY Here DEF WInv
<1>2. Before(head.node, tail) /\ head.node \in W!Nodes /\ tail \in W!Nodes
  <2>1. DescAt(u, th[u]) /\ state[u].type = "get"
    BY DEF WInv, ThreadInv, DescInv, GetDone
  <2>2. head.node \in W!Nodes /\ tail \in W!Nodes /\ head.node # Null
    BY <1>1, SuccFact DEF WTypeOK
  <2> QED BY <2>1, <2>2 DEF DescAt
<1>3. next[head.node] # Null /\ next[head.node] \in W!Nodes /\ Before(head.node, next[head.node])
  BY <1>1, <1>2 DEF Ordered
<1>4. ASSUME NEW v \in Threads \ {u}, Behind(v) # {} PROVE next[state[v].node] # next[head.node]
  <2>1. th[v].op = "get" /\ th[v].slow /\ ~state[v].pending /\ state[v].node # Null
    BY <1>4 DEF Behind
  <2>2. DescAt(v, th[v])
    BY DEF WInv, ThreadInv, DescInv
  <2>3. state[v].node \in Chain /\ UpTo(state[v].node, head.node)
    BY <2>1, <2>2 DEF DescAt
  <2>4. state[v].node # head.node
    BY <2>1, <2>2 DEF DescAt, GetDone, Claimant
  <2>5. state[v].node \in W!Nodes /\ Before(state[v].node, head.node)
    BY <1>1, <2>3, <2>4 DEF Ordered, UpTo
  <2>6. UpTo(next[state[v].node], head.node)
    BY <1>1, <1>2, <2>5 DEF Ordered
  <2> QED BY <1>1, <1>2, <1>3, <2>6 DEF UpTo, Ordered
<1> QED BY <1>3, <1>4 DEF Before, Behind

LEMMA ChangedPlaces ==
  ASSUME WInv, NEW t \in Threads, NEW s, s = th[t], NEW r \in WLocals, W!Set(t, r), W!Observe(t, W!Held),
         version' = version, head' = head, tail' = tail, next' = next, enq_tid' = enq_tid, deq_tid' = deq_tid,
         NEW u \in Threads, NEW e \in Descriptors, state' = [state EXCEPT ![u] = e], Changed(t, u),
         s.op # "none", r.op = s.op, r.item = s.item, r.slow = s.slow
  PROVE  ListInv' /\ ClaimInv' /\ PlacesInv' /\ OrderInv'
<1>1. /\ Succ' = Succ /\ Linked' = Linked /\ Chain' = Chain /\ Claimant' = Claimant
      /\ \A x, y : (Before(x, y)' <=> Before(x, y)) /\ (UpTo(x, y)' <=> UpTo(x, y))
  BY SameNodes
<1>2. W!Held = After(Succ, head.node)
  BY WHeldIs DEF WInv, ListInv
<1>3. /\ th' \in [Threads -> WLocals] /\ th'[t] = r /\ Others(t)
      /\ done' = done /\ out' = out /\ older' = older /\ late' = late /\ start' = start
      /\ After(Succ, head.node) \cap done = {} => \A v \in Threads : th[v].op = "get" => sight'[v]
  BY <1>2, Quieted DEF WInv
<1>4. \A v \in Threads : th'[v].op = th[v].op /\ th'[v].item = th[v].item /\ th'[v].slow = th[v].slow
  BY <1>3 DEF Others
<1>5. \A v \in Threads : W!InHand(v)' = W!InHand(v)
  BY <1>4 DEF W!InHand
<1>6. W!Hands' = W!Hands
  BY <1>5 DEF W!Hands
<1>7. W!Begun' = W!Begun
  BY <1>3, <1>4 DEF W!Begun
<1>8. state'[u] = e /\ \A v \in Threads \ {u} : state'[v] = state[v]
  BY DEF WInv, WTypeOK
<1>9. ListInv'
  BY <1>1 DEF WInv, ListInv, Acyclic, W!Nodes
<1>10. ClaimInv'
  <2>1. Claimant # W!kTidNotSet => Claimant \in Threads
    BY DEF WInv, WTypeOK, Claimant, W!kTidNotSet, ThreadsOrNone
  <2>2. Claimant = u => state[u].type = "get" /\ state[u].node = head.node
    BY StrictQueuesAssumption DEF WInv, ClaimInv, W!kTidNotSet
  <2>3. Claimant = u => e.type = "get" /\ e.node = head.node
    <3>1. state[u] \in Descriptors
      BY DEF WInv, WTypeOK
    <3> QED BY <1>8, <2>2, <3>1 DEF Changed, PutDone, GetDone, FoundEmpty, Marked, Descriptors
  <2> QED BY <1>1, <1>4, <1>8, <2>1, <2>3 DEF WInv, ClaimInv, W!Nodes, W!kTidNotSet
<1>11. \A v \in Threads \ {u} : Behind(v)' = Behind(v)
  BY <1>4, <1>8 DEF Behind
<1>12. Behind(u) = {} /\ (Behind(u)' # {} => GetDone(u) /\ state[u].node = head.node /\ Behind(u)' = {next[head.node]})
  <2>1. state[u].pending /\ state[u] \in Descriptors
    BY DEF WInv, WTypeOK, Changed, PutDone, GetDone, FoundEmpty, Marked
  <2>2. Behind(u) = {}
    BY <2>1 DEF Behind
  <2>3. th[u].op = state[u].type
    BY <2>1, PendingOp
  <2>4. CASE PutDone(u)
    <3>1. th'[u].op # "get"
      BY <1>4, <2>3, <2>4 DEF PutDone
    <3> QED BY <2>2, <3>1 DEF Behind
  <2>5. CASE GetDone(u)
    <3>1. state[u].node = head.node
      BY <2>5, StrictQueuesAssumption DEF WInv, ClaimInv, GetDone, W!kTidNotSet
    <3>2. e.node = state[u].node
      BY <1>8, <2>1, <2>5 DEF GetDone, Descriptors
    <3> QED BY <1>8, <2>2, <2>5, <3>1, <3>2 DEF Behind
  <2>6. CASE FoundEmpty(u)
    <3>1. e.node = Null
      BY <1>8, <2>6 DEF FoundEmpty, W!Descriptor
    <3> QED BY <1>8, <2>2, <3>1 DEF Behind
  <2>7. CASE Marked(u)
    <3>1. e.pending
      BY <1>8, <2>7 DEF Marked, W!Descriptor
    <3> QED BY <1>8, <2>2, <3>1 DEF Behind
  <2> QED BY <2>4, <2>5, <2>6, <2>7 DEF Changed
<1>13. /\ \A v \in Threads : Behind(v) \subseteq Behind(v)'
       /\ \A v \in Threads : Behind(v)' \cap (W!Hands \cup out) = {}
       /\ \A v, w \in Threads : v # w => Behind(v)' \cap Behind(w)' = {}
  <2>1. /\ After(Succ, head.node) \cap (W!Hands \cup out) = {}
        /\ \A v \in Threads : Behind(v) \cap (W!Hands \cup out) = {}
        /\ \A v, w \in Threads : v # w => Behind(v) \cap Behind(w) = {}
    BY DEF WInv, PlacesInv
  <2>2. CASE Behind(u)' = {}
    <3>1. \A v \in Threads : Behind(v)' = Behind(v)
      BY <1>11, <1>12, <2>2
    <3> QED BY <2>1, <3>1
  <2>3. CASE Behind(u)' # {}
    <3>1. /\ Behind(u)' = {next[head.node]} /\ next[head.node] \in After(Succ, head.node)
          /\ \A v \in Threads \ {u} : Behind(v) \cap {next[head.node]} = {}
      BY <1>12, <2>3, BehindHead
    <3> QED BY <1>11, <1>12, <2>1, <3>1
  <2> QED BY <2>2, <2>3
<1>14. PlacesInv'
  <2>1. done \subseteq Linked /\ Linked \subseteq W!Begun
    BY DEF WInv, PlacesInv
  <2>2. \A x \in Linked \ After(Succ, head.node) : x \in W!Hands \cup out \/ \E v \in Threads : x \in Behind(v)'
    BY <1>13 DEF WInv, PlacesInv
  <2>3. /\ W!Hands \cup out \subseteq Linked /\ After(Succ, head.node) \cap (W!Hands \cup out) = {} /\ W!Hands \cap out = {}
        /\ \A v, w \in Threads : v # w => W!InHand(v) \cap W!InHand(w) = {}
    BY DEF WInv, PlacesInv
  <2>4. /\ \A v, w \in Threads : v # w /\ th'[v].op = "put" /\ th'[w].op = "put" => th'[v].item # th'[w].item
        /\ \A v \in Threads : th'[v].op = "put" => th'[v].item \notin done
    BY <1>4 DEF WInv, PlacesInv
  <2>5. After(Succ, head.node) \cap done = {} => \A v \in Threads : th'[v].op = "get" => sight'[v]
    BY <1>3, <1>4
  <2>6. \A x \in Items : enq_tid[x] # W!kTidNotSet => x \in W!Begun
    BY DEF WInv, PlacesInv
  <2> QED BY <1>1, <1>3, <1>5, <1>6, <1>7, <1>13, <2>1, <2>2, <2>3, <2>4, <2>5, <2>6 DEF PlacesInv, W!kTidNotSet
<1>15. OrderInv'
  BY <1>1, <1>3 DEF WInv, OrderInv
<1> QED BY <1>9, <1>10, <1>14, <1>15

LEMMA LinkedBehind ==
  ASSUME WTypeOK, NEW y \in Linked
  PROVE  \E x \in W!Nodes : next[x] = y
<1> DEFINE C == {z \in W!Nodes : \E x \in W!Nodes : next[x] = z}
<1>1. Succ \in [W!Nodes -> SUBSET W!Nodes] /\ W!Sentinel \in W!Nodes
  BY SuccFact
<1>2. \A x \in W!Nodes : Succ[x] \subseteq C
  BY <1>1 DEF Succ
<1>3. C \subseteq W!Nodes /\ Closed(Succ, C) /\ Succ[W!Sentinel] \subseteq C
  BY <1>1, <1>2 DEF Closed
<1>4. Linked \subseteq C
  <2> HIDE DEF C
  <2> QED BY <1>1, <1>3, AfterClosed DEF Linked
<1> QED BY <1>4

\* What is marked as done has been carried out.
LEMMA MovesMark ==
  ASSUME WInv, NEW t \in Threads, Moves(t)
  PROVE  W!MarksCarriedOut
<1> SUFFICES ASSUME NEW u \in Threads, state[u].pending, ~state'[u].pending PROVE W!CarriedOut(u)'
  BY DEF W!MarksCarriedOut
<1> PICK d : d = state[u]
  OBVIOUS
<1> PICK e : e = state'[u]
  OBVIOUS
<1>1. /\ WTypeOK /\ ClaimInv /\ version' = version /\ ListMoves /\ DescMoves(t) /\ CallMoves(t) /\ WTypeOK'
      /\ d \in Descriptors /\ e \in Descriptors
  BY DEF WInv, Moves, WTypeOK
<1>2. PutDone(u) \/ GetDone(u) \/ FoundEmpty(u)
  <2>1. ~Published(t, u)
    BY DEF Published
  <2>2. ~Marked(u)
    BY DEF Marked, W!Descriptor
  <2> QED BY <1>1, <2>1, <2>2 DEF DescMoves
<1>3. CASE PutDone(u)
  <2>1. e.type = "put" /\ e.node = d.node /\ d.node \in Linked
    <3>1. e = [d EXCEPT !.pending = FALSE] /\ d.type = "put" /\ d.node \in Linked
      BY <1>3 DEF PutDone
    <3> QED BY <1>1, <3>1 DEF Descriptors
  <2>2. PICK x \in W!Nodes : next[x] = d.node
    BY <1>1, <2>1, LinkedBehind
  <2>3. next'[x] = e.node
    <3>1. d.node # Null
      BY <2>1, SuccFact, AfterClosed, <1>1 DEF Linked
    <3> QED BY <1>1, <2>1, <2>2, <3>1 DEF ListMoves
  <2>4. \E z \in W!Nodes : next'[z] = e.node
    BY <2>3
  <2> QED BY <2>1, <2>4 DEF W!CarriedOut, W!Nodes
<1>4. CASE GetDone(u)
  <2>1. /\ e = [d EXCEPT !.pending = FALSE] /\ d.type = "get" /\ Claimant = u /\ head' = head /\ deq_tid' = deq_tid
    BY <1>4 DEF GetDone
  <2>2. e.type = "get" /\ e.node = d.node
    BY <1>1, <2>1 DEF Descriptors
  <2>3. d.node = head.node /\ d.node # Null
    BY <1>1, <2>1, SuccFact, StrictQueuesAssumption DEF ClaimInv, W!kTidNotSet, WTypeOK
  <2> QED BY <1>1, <2>1, <2>2, <2>3 DEF W!CarriedOut, Claimant
<1>5. CASE FoundEmpty(u)
  <2>1. e.type = "get" /\ e.node = Null /\ sight[u] /\ d.type = "get"
    BY <1>5 DEF FoundEmpty, W!Descriptor
  <2>2. th[u].op = "get" /\ th'[u].op = "get"
    BY <1>1, <2>1, PendingOp DEF CallMoves
  <2>3. sight'[u]
    BY <1>1, <2>1, <2>2 DEF CallMoves
  <2> QED BY <2>1, <2>3 DEF W!CarriedOut
<1> QED BY <1>2, <1>3, <1>4, <1>5

LEMMA ChangedStays ==
  ASSUME WInv, NEW t \in Threads, NEW s, s = th[t], NEW r \in WLocals, W!Set(t, r), W!Observe(t, W!Held),
         version' = version, head' = head, tail' = tail, next' = next, enq_tid' = enq_tid, deq_tid' = deq_tid,
         NEW u \in Threads, NEW e \in Descriptors, state' = [state EXCEPT ![u] = e], Changed(t, u),
         Stays(r, s), r.pc # "FD_tid", r.then = "helped" => s.pc # "FE_tail" /\ r.tail = s.tail,
         r.pc \in PutPcs \cup FastPutPcs => LinkAt(t, r)',
         r.pc \in EndPutPcs => EndPutAt(t, r)',
         r.pc \in GetPcs \cup FastGetPcs => LookAt(t, r)' /\ GetAt(t, r)',
         r.pc \in EndGetPcs => EndGetAt(t, r)'
  PROVE  WInv' /\ W!MarksCarriedOut
<1>1. WTypeOK /\ s \in WLocals /\ ThreadAt(t, s) /\ ControlAt(t, s) /\ DescAt(t, s) /\ HelpAt(t, s) /\ ClaimInv
  BY Here DEF ThreadAt
<1>2. /\ ControlAt(t, r) /\ (Finishing(r) <=> Finishing(s))
      /\ (Helping(r) <=> Helping(s)) /\ (HelpsPut(r) <=> HelpsPut(s))
      /\ s.pc \notin {"idle", "return", "max", "publish", "help", "result"}
      /\ r.pc \notin {"idle", "return", "max", "publish", "help", "result"}
  BY <1>1, StaysFact
<1>3. s.op # "none" /\ Same(r, s) /\ r.then = s.then
  BY <1>1, <1>2 DEF ControlAt, Stays
<1>4. Moves(t)
  BY <1>2, <1>3, ChangedMoves DEF Same
<1>5. ListInv' /\ ClaimInv' /\ PlacesInv' /\ OrderInv'
  BY <1>3, ChangedPlaces DEF Same
<1>6. th'[t] = r /\ \A v \in Threads : th[v].op = "get" /\ sight[v] => sight'[v]
  BY <1>1, <1>3, Quieted DEF Same
<1>7. /\ Succ' = Succ /\ Linked' = Linked /\ Chain' = Chain /\ Claimant' = Claimant
      /\ \A x, y : (Before(x, y)' <=> Before(x, y)) /\ (UpTo(x, y)' <=> UpTo(x, y))
  BY SameNodes
<1>8. state'[u] = e /\ (\A v \in Threads \ {u} : state'[v] = state[v]) /\ state[u] \in Descriptors
  BY <1>1 DEF WTypeOK
<1>9. /\ state[u].pending /\ e.phase = state[u].phase /\ e.type = state[u].type
      /\ e.type = "put" => e.node = state[u].node
  <2>1. PutDone(u) => e = [state[u] EXCEPT !.pending = FALSE] /\ state[u].pending
    BY <1>8 DEF PutDone
  <2>2. GetDone(u) => e = [state[u] EXCEPT !.pending = FALSE] /\ state[u].pending
    BY <1>8 DEF GetDone
  <2>3. FoundEmpty(u) => e.phase = state[u].phase /\ e.type = "get" /\ state[u].pending /\ state[u].type = "get"
    BY <1>8 DEF FoundEmpty, W!Descriptor
  <2>4. Marked(u) => e.phase = state[u].phase /\ e.type = "get" /\ state[u].pending /\ state[u].type = "get"
    BY <1>8 DEF Marked, W!Descriptor
  <2>5. LET d == [state[u] EXCEPT !.pending = FALSE]
        IN  d.phase = state[u].phase /\ d.type = state[u].type /\ d.node = state[u].node
    BY <1>8 DEF Descriptors
  <2> QED BY <2>1, <2>2, <2>3, <2>4, <2>5 DEF Changed
<1>10. ControlAt(t, r)'
  BY <1>2 DEF ControlAt, Helping, W!Idle
<1>11. DescAt(t, r)'
  <2>1. CASE u # t
    BY <1>1, <1>2, <1>3, <1>6, <1>7, <1>8, <2>1 DEF DescAt, W!kTidNotSet, Same
  <2>2. CASE u = t
    <3>1. s.slow /\ ~Finishing(s) /\ s.op = state[t].type /\ s.pc # "return"
      BY <1>2, <1>9, <2>2, PendingOp
    <3>2. e.phase # W!kNoPhase /\ e.type = s.op /\ e.phase = s.phase
      BY <1>1, <1>9, <2>2, <3>1 DEF DescAt
    <3>3. CASE PutDone(t)
      <4>1. e.type = "put" /\ ~e.pending /\ e.node = state[t].node /\ e.node \in Linked
        BY <1>8, <1>9, <2>2, <3>3 DEF PutDone, Descriptors
      <4> QED BY <1>1, <1>2, <1>3, <1>6, <1>7, <1>8, <2>2, <3>1, <3>2, <4>1 DEF DescAt, Same
    <3>4. CASE GetDone(t)
      <4>1. e.type = "get" /\ ~e.pending /\ e.node = state[t].node /\ Claimant = t
        BY <1>8, <1>9, <2>2, <3>4 DEF GetDone, Descriptors
      <4>2. e.node = head.node
        BY <1>1, <4>1, StrictQueuesAssumption DEF ClaimInv, W!kTidNotSet
      <4>3. e.node # Null
        BY <1>1, <4>2, SuccFact DEF WTypeOK
      <4> QED BY <1>1, <1>2, <1>3, <1>6, <1>7, <1>8, <2>2, <3>1, <3>2, <4>1, <4>2, <4>3
              DEF DescAt, Same, Claimant
    <3>5. CASE FoundEmpty(t)
      <4>1. e.type = "get" /\ ~e.pending /\ e.node = Null /\ sight[t]
        BY <1>8, <2>2, <3>5 DEF FoundEmpty, W!Descriptor
      <4>2. sight'[t]
        BY <1>6, <3>1, <3>2, <4>1
      <4> QED BY <1>2, <1>3, <1>6, <1>7, <1>8, <2>2, <3>1, <3>2, <4>1, <4>2 DEF DescAt, Same
    <3>6. CASE Marked(t)
      <4>1. /\ e.type = "get" /\ e.pending
            /\ e.node \in Chain /\ UpTo(e.node, head.node) /\ Before(e.node, tail)
        BY <1>8, <2>2, <3>6 DEF Marked, W!Descriptor
      <4> QED BY <1>2, <1>3, <1>6, <1>7, <1>8, <2>2, <3>1, <3>2, <4>1 DEF DescAt, Same
    <3> QED BY <2>2, <3>3, <3>4, <3>5, <3>6 DEF Changed
  <2> QED BY <2>1, <2>2
<1>12. HelpAt(t, r)'
  <2>1. \A v \in Threads : /\ state'[v].phase = state[v].phase /\ state'[v].type = state[v].type
                           /\ state'[v].pending => state[v].pending
    BY <1>8, <1>9
  <2>2. s.i \in DOMAIN WaitfreeNum /\ WaitfreeNum[s.i] \in Threads
    BY <1>1, NumType DEF WLocals
  <2> QED BY <1>1, <1>2, <1>3, <1>7, <2>1, <2>2 DEF HelpAt, Same, Pending
<1>13. PhaseAt(t, r)'
  BY <1>2 DEF PhaseAt
<1>14. r.pc \notin PutPcs \cup FastPutPcs => LinkAt(t, r)'
  BY DEF LinkAt, PutPcs, FastPutPcs
<1>15. r.pc \notin EndPutPcs => EndPutAt(t, r)'
  BY DEF EndPutAt, EndPutPcs
<1>16. r.pc \notin GetPcs \cup FastGetPcs => LookAt(t, r)' /\ GetAt(t, r)'
  BY DEF LookAt, GetAt, GetPcs, FastGetPcs, EmptyPcs, TakePcs
<1>17. r.pc \notin EndGetPcs => EndGetAt(t, r)'
  <2>1. r.pc \notin EndGetPcs => r.then # "result"
    BY <1>2 DEF ControlAt
  <2> QED BY <1>2, <2>1 DEF EndGetAt, EndGetPcs
<1>18. ThreadInv(t)'
  BY <1>6, <1>10, <1>11, <1>12, <1>13, <1>14, <1>15, <1>16, <1>17
     DEF ThreadInv, ControlInv, DescInv, HelpInv, PhaseInv, PutInv, EndPutInv, LookInv, GetInv, EndGetInv
<1> QED BY <1>4, <1>5, <1>18, StepKept, MovesMark
-----------------------------------------------------------------------------
\* The CASes of a descriptor.

Undone(d) == [d EXCEPT !.pending = FALSE]

LEMMA UndoneFact ==
  ASSUME NEW d \in Descriptors, NEW e, e = Undone(d)
  PROVE  /\ e \in Descriptors /\ e.pending = FALSE /\ e.phase = d.phase /\ e.type = d.type /\ e.node = d.node
         /\ ~d.pending => e = d
BY DEF Undone, Descriptors

LEMMA NodesSame ==
  ASSUME WInv, UNCHANGED <<version, head, tail, next, enq_tid, deq_tid, next_check, gets>>
  PROVE  /\ version' = version /\ head' = head /\ tail' = tail /\ next' = next /\ enq_tid' = enq_tid
         /\ deq_tid' = deq_tid
         /\ state' = state => UNCHANGED W!shared
BY DEF W!shared, W!list

LEMMA EndDoneKept == ASSUME WInv, NEW t \in Threads, W!EndDone(t) PROVE WInv' /\ W!MarksCarriedOut
<1> PICK s : s = th[t]
  OBVIOUS
<1> PICK u : u = s.tid
  OBVIOUS
<1> PICK e : e = Undone(s.cur)
  OBVIOUS
<1> PICK r : r = WithPc(s, "FE_swing")
  OBVIOUS
<1>1. /\ s.pc = "FE_done" /\ WTypeOK /\ s \in WLocals /\ Ordered /\ EndPutAt(t, s) /\ ControlAt(t, s)
      /\ W!Set(t, r) /\ W!Observe(t, W!Held) /\ UNCHANGED <<version, head, tail, next, enq_tid, deq_tid, next_check, gets>>
      /\ state' = IF state[u] = s.cur THEN [state EXCEPT ![u] = e] ELSE state
  BY Here DEF W!EndDone, W!MarkDone, W!At, ThreadAt, W!Goto, WithPc, W!CasState, Undone
<1>2. /\ version' = version /\ head' = head /\ tail' = tail /\ next' = next /\ enq_tid' = enq_tid
      /\ deq_tid' = deq_tid /\ (state' = state => UNCHANGED W!shared)
  BY <1>1, NodesSame
<1>3. "FE_swing" \in WPcs
  BY DEF WPcs, EndPutPcs
<1>4. /\ r \in WLocals /\ Alike(r, s) /\ r.pc = "FE_swing" /\ r.tail = s.tail /\ r.next = s.next
      /\ r.cur = s.cur /\ r.tid = s.tid
  BY <1>1, <1>3, PcFact
<1>5. /\ u \in Threads /\ enq_tid[s.next] = u /\ WasTail(s.tail) /\ s.next = next[s.tail] /\ s.next # Null
      /\ state[u].pending /\ state[u].type = "put" /\ state[u].node = s.next => s.cur = state[u]
      /\ s.cur.type = "get" => s.cur.node # s.next
      /\ s.cur = state[u] => s.cur.node = s.next
  BY <1>1 DEF EndPutAt, EndPutPcs
<1>6. \A v \in Threads \ {u} : state[v].pending /\ state[v].type = "put" => state[v].node # s.next
  <2> SUFFICES ASSUME NEW v \in Threads \ {u}, state[v].type = "put", state[v].node = s.next PROVE FALSE
    OBVIOUS
  <2>1. DescAt(v, th[v])
    BY DEF WInv, ThreadInv, DescInv
  <2> QED BY <1>5, <2>1 DEF DescAt
<1>7. s.cur \in Descriptors
  BY <1>1 DEF WLocals
<1>8. e \in Descriptors /\ e.pending = FALSE /\ (~s.cur.pending => e = s.cur)
  BY <1>7, UndoneFact
<1>9. Stays(r, s)
  BY <1>1, <1>4 DEF Stays, Alike, EndPutPcs
<1>10. CASE state[u] = s.cur /\ s.cur.pending
  <2>1. s.cur.type = "put" /\ s.cur.node = s.next
    BY <1>5, <1>7, <1>10 DEF Descriptors
  <2>2. s.next \in Linked
    <3>1. s.tail \in Chain /\ s.tail \in W!Nodes
      BY <1>1, <1>5 DEF WasTail, Ordered
    <3> QED BY <1>1, <1>5, <3>1 DEF Ordered
  <2>3. state' = [state EXCEPT ![u] = e]
    BY <1>1, <1>10
  <2>4. state'[u] = e /\ \A v \in Threads \ {u} : state'[v] = state[v]
    BY <1>1, <1>5, <2>3 DEF WTypeOK
  <2>5. PutDone(u)
    BY <1>10, <2>1, <2>2, <2>4 DEF PutDone, Undone
  <2>6. \A v \in Threads : state'[v].pending /\ state'[v].type = "put" => state'[v].node # s.next
    BY <1>6, <1>8, <2>4
  <2>7. WasTail(s.tail)'
    BY <1>2, <1>5, SameNodes
  <2>8. EndPutAt(t, r)'
    BY <1>2, <1>4, <1>5, <2>6, <2>7 DEF EndPutAt
  <2> QED BY <1>1, <1>2, <1>4, <1>5, <1>8, <1>9, <2>3, <2>5, <2>8, ChangedStays
          DEF Changed, PutPcs, EndPutPcs, GetPcs, EmptyPcs, TakePcs, EndGetPcs, FastPutPcs, FastGetPcs
<1>11. CASE ~(state[u] = s.cur /\ s.cur.pending)
  <2>1. state' = state
    BY <1>1, <1>8, <1>11 DEF WTypeOK
  <2>2. W!Local(t, r)
    BY <1>1, <1>2, <2>1 DEF W!Local
  <2>3. \A v \in Threads : state[v].pending /\ state[v].type = "put" => state[v].node # s.next
    BY <1>5, <1>6, <1>11
  <2>4. EndPutAt(t, r)
    BY <1>4, <1>5, <2>3 DEF EndPutAt
  <2>5. WInv'
    BY <1>1, <1>4, <1>9, <2>2, <2>4, Stay
       DEF PutPcs, EndPutPcs, GetPcs, EmptyPcs, TakePcs, EndGetPcs, FastPutPcs, FastGetPcs
  <2> QED BY <2>1, <2>5 DEF W!MarksCarriedOut
<1> QED BY <1>10, <1>11

\* A descriptor that names a node before the head's, which a late thread finds unchanged.
LEMMA NotClaimed ==
  ASSUME WInv, NEW u \in Threads, state[u].node # Null =>
           state[u].node \in Chain /\ Before(state[u].node, head.node)
  PROVE  Claimant # u /\ Unclaimable(state[u])
<1>1. WTypeOK /\ Ordered /\ ClaimInv /\ head.node \in W!Nodes /\ head.node # Null
  BY Here, SuccFact DEF WInv, WTypeOK
<1>2. u # W!kTidNotSet
  BY StrictQueuesAssumption DEF W!kTidNotSet
<1>3. Claimant # u
  <2> SUFFICES ASSUME Claimant = u PROVE FALSE
    OBVIOUS
  <2>1. state[u].node = head.node
    BY <1>1, <1>2 DEF ClaimInv
  <2> QED BY <1>1, <2>1 DEF Ordered
<1>4. Unclaimable(state[u])
  <2> SUFFICES ASSUME state[u].node # Null, Claimable(state[u].node) PROVE FALSE
    BY DEF Unclaimable
  <2>1. CASE version = "ppopp11"
    BY <1>1, <2>1 DEF ClaimInv, Claimable
  <2>2. CASE version # "ppopp11"
    <3>1. head.node = state[u].node
      BY <2>2 DEF Claimable, W!Head
    <3> QED BY <1>1, <3>1 DEF Ordered
  <2> QED BY <2>1, <2>2
<1> QED BY <1>3, <1>4

LEMMA GetEmptyKept == ASSUME WInv, NEW t \in Threads, W!GetEmpty(t) PROVE WInv' /\ W!MarksCarriedOut
<1> PICK s : s = th[t]
  OBVIOUS
<1> PICK u : u = WaitfreeNum[s.i]
  OBVIOUS
<1> PICK e : e = W!Descriptor(s.cur.phase, FALSE, "get", Null)
  OBVIOUS
<1> PICK r : r = W!To(s, "D_pending")
  OBVIOUS
<1>1. /\ s.pc = "D_empty" /\ WTypeOK /\ s \in WLocals /\ Ordered /\ GetAt(t, s) /\ LookAt(t, s) /\ ControlAt(t, s)
      /\ W!Set(t, r) /\ W!Observe(t, W!Held) /\ UNCHANGED <<version, head, tail, next, enq_tid, deq_tid, next_check, gets>>
      /\ state' = IF state[u] = s.cur THEN [state EXCEPT ![u] = e] ELSE state
  BY Here DEF W!GetEmpty, W!At, ThreadAt, W!CasState
<1>2. /\ version' = version /\ head' = head /\ tail' = tail /\ next' = next /\ enq_tid' = enq_tid
      /\ deq_tid' = deq_tid /\ (state' = state => UNCHANGED W!shared)
  BY <1>1, NodesSame
<1>3. "D_pending" \in WPcs
  BY DEF WPcs, GetPcs
<1>4. r \in WLocals /\ Same(r, s) /\ r.pc = "D_pending" /\ r.then = s.then
  BY <1>1, <1>3, ToFact DEF Same
<1>5. u \in Threads /\ s.cur \in Descriptors /\ s.then = "idle"
  BY <1>1, NumType DEF WLocals, ControlAt, EndPutPcs, EndGetPcs
<1>6. Stays(r, s)
  BY <1>1, <1>4 DEF Stays, GetPcs, EmptyPcs
<1>7. CASE state[u] = s.cur
  <2>1. /\ s.tail = s.head.node /\ s.tail # Null /\ (Pending(s) => sight[u])
        /\ s.cur.type = "get" /\ s.cur.node # Null => s.cur.node \in Chain /\ Before(s.cur.node, s.head.node)
        /\ s.cur.pending /\ s.cur.type = "get" /\ s.cur.phase <= s.phase
    BY <1>1 DEF GetAt, EmptyPcs
  <2>2. sight[u]
    BY <1>7, <2>1 DEF Pending
  <2>3. WasHead(s.head)
    BY <1>1 DEF LookAt, EmptyPcs
  <2>4. s.cur.node # Null => s.cur.node \in Chain /\ Before(s.cur.node, head.node)
    <3>1. s.head.node \in W!Nodes /\ head.node \in W!Nodes
      BY <1>1, <2>3 DEF WasHead, Ordered, WTypeOK
    <3> QED BY <1>1, <2>1, <2>3, <3>1 DEF WasHead, HeadNewer, Ordered
  <2>5. Claimant # u /\ Unclaimable(state[u])
    BY <1>5, <1>7, <2>4, NotClaimed
  <2>6. e \in Descriptors
    BY <1>5 DEF W!Descriptor, Descriptors, NodesOrNone
  <2>7. state' = [state EXCEPT ![u] = e] /\ state'[u] = e
    BY <1>1, <1>5, <1>7 DEF WTypeOK
  <2>8. FoundEmpty(u)
    BY <1>7, <2>1, <2>2, <2>5, <2>7 DEF FoundEmpty
  <2>9. LookAt(t, r)' /\ GetAt(t, r)'
    BY <1>4 DEF LookAt, GetAt, EmptyPcs, TakePcs
  <2> QED BY <1>1, <1>2, <1>4, <1>5, <1>6, <2>6, <2>7, <2>8, <2>9, ChangedStays
          DEF Changed, PutPcs, EndPutPcs, GetPcs, EmptyPcs, TakePcs, EndGetPcs, FastPutPcs, FastGetPcs
<1>8. CASE state[u] # s.cur
  <2>1. state' = state
    BY <1>1, <1>8
  <2>2. W!Local(t, r)
    BY <1>1, <1>2, <2>1 DEF W!Local
  <2>3. LookAt(t, r) /\ GetAt(t, r)
    BY <1>4 DEF LookAt, GetAt, EmptyPcs, TakePcs
  <2>4. WInv'
    BY <1>1, <1>4, <1>5, <1>6, <2>2, <2>3, Stay
       DEF PutPcs, EndPutPcs, GetPcs, EmptyPcs, TakePcs, EndGetPcs, FastPutPcs, FastGetPcs
  <2> QED BY <2>1, <2>4 DEF W!MarksCarriedOut
<1> QED BY <1>7, <1>8

LEMMA GetCasKept == ASSUME WInv, NEW t \in Threads, W!GetCas(t) PROVE WInv' /\ W!MarksCarriedOut
<1> PICK s : s = th[t]
  OBVIOUS
<1> PICK u : u = WaitfreeNum[s.i]
  OBVIOUS
<1> PICK e : e = W!Descriptor(s.cur.phase, TRUE, "get", s.head.node)
  OBVIOUS
<1>1. /\ s.pc = "D_cas" /\ WTypeOK /\ s \in WLocals /\ Ordered /\ GetAt(t, s) /\ LookAt(t, s) /\ ControlAt(t, s)
      /\ W!Observe(t, W!Held) /\ UNCHANGED <<version, head, tail, next, enq_tid, deq_tid, next_check, gets>>
      /\ state' = IF state[u] = s.cur THEN [state EXCEPT ![u] = e] ELSE state
  BY Here DEF W!GetCas, W!At, ThreadAt, W!CasState
<1>2. /\ version' = version /\ head' = head /\ tail' = tail /\ next' = next /\ enq_tid' = enq_tid
      /\ deq_tid' = deq_tid /\ (state' = state => UNCHANGED W!shared)
  BY <1>1, NodesSame
<1>3. u \in Threads /\ s.cur \in Descriptors /\ s.then = "idle"
  BY <1>1, NumType DEF WLocals, ControlAt, EndPutPcs, EndGetPcs
<1>4. CASE state[u] = s.cur
  <2> PICK r : r = WithPc(s, "D_claim")
    OBVIOUS
  <2>1. "D_claim" \in WPcs
    BY DEF WPcs, GetPcs, TakePcs
  <2>2. r \in WLocals /\ Alike(r, s) /\ r.pc = "D_claim" /\ r.head = s.head /\ r.tail = s.tail
    BY <1>1, <2>1, PcFact
  <2>3. W!Set(t, r)
    BY <1>4 DEF W!GetCas, WithPc
  <2>4. /\ s.tail = Null /\ Before(s.head.node, tail)
        /\ s.cur.node # Null => s.cur.node \in Chain /\ Before(s.cur.node, s.head.node)
        /\ s.cur.pending /\ s.cur.type = "get"
    BY <1>1 DEF GetAt, TakePcs
  <2>5. WasHead(s.head) /\ s.head.node \in Chain /\ s.head.node \in W!Nodes /\ UpTo(s.head.node, head.node)
    BY <1>1 DEF LookAt, TakePcs, WasHead, HeadNewer, UpTo, Ordered
  <2>6. s.cur.node # Null => s.cur.node \in Chain /\ Before(s.cur.node, head.node)
    <3>1. head.node \in W!Nodes
      BY <1>1 DEF WTypeOK
    <3> QED BY <1>1, <2>4, <2>5, <3>1 DEF UpTo, Ordered
  <2>7. Claimant # u /\ Unclaimable(state[u])
    BY <1>3, <1>4, <2>6, NotClaimed
  <2>8. e \in Descriptors /\ e.node = s.head.node /\ e.pending /\ e.type = "get"
    BY <1>3, <2>5 DEF W!Descriptor, Descriptors, NodesOrNone
  <2>9. state' = [state EXCEPT ![u] = e] /\ state'[u] = e
    BY <1>1, <1>3, <1>4 DEF WTypeOK
  <2>10. Marked(u)
    BY <1>4, <2>4, <2>5, <2>7, <2>8, <2>9 DEF Marked
  <2>11. WasHead(s.head)' /\ Before(s.head.node, tail)'
    BY <1>2, <2>4, <2>5, SameNodes
  <2>12. LookAt(t, r)'
    BY <2>2, <2>11 DEF LookAt
  <2>13. GetAt(t, r)'
    BY <2>2, <2>4, <2>8, <2>9, <2>11 DEF GetAt, EmptyPcs, TakePcs, Alike, Same
  <2>14. Stays(r, s)
    BY <1>1, <2>2 DEF Stays, GetPcs, TakePcs, Alike
  <2>15. /\ r.then # "helped" /\ r.pc # "FD_tid"
         /\ r.pc \notin PutPcs \cup FastPutPcs \cup EndPutPcs \cup EndGetPcs
    BY <1>3, <2>2 DEF Alike, PutPcs, EndPutPcs, EndGetPcs, FastPutPcs
  <2>16. Changed(t, u)
    BY <2>10 DEF Changed
  <2> QED BY <1>1, <1>2, <1>3, <2>2, <2>3, <2>8, <2>9, <2>12, <2>13, <2>14, <2>15, <2>16, ChangedStays
<1>5. CASE state[u] # s.cur
  <2> PICK r : r = W!To(s, "D_pending")
    OBVIOUS
  <2>1. "D_pending" \in WPcs
    BY DEF WPcs, GetPcs
  <2>2. r \in WLocals /\ Same(r, s) /\ r.pc = "D_pending" /\ r.then = s.then
    BY <1>1, <2>1, ToFact DEF Same
  <2>3. W!Set(t, r)
    BY <1>5 DEF W!GetCas
  <2>4. state' = state
    BY <1>1, <1>5
  <2>5. W!Local(t, r)
    BY <1>1, <1>2, <2>3, <2>4 DEF W!Local
  <2>6. LookAt(t, r) /\ GetAt(t, r)
    BY <2>2 DEF LookAt, GetAt, EmptyPcs, TakePcs
  <2>7. Stays(r, s)
    BY <1>1, <2>2 DEF Stays, GetPcs, TakePcs
  <2>8. WInv'
    BY <1>1, <1>3, <2>2, <2>5, <2>6, <2>7, Stay
       DEF PutPcs, EndPutPcs, GetPcs, EmptyPcs, TakePcs, EndGetPcs, FastPutPcs, FastGetPcs
  <2> QED BY <2>4, <2>8 DEF W!MarksCarriedOut
<1> QED BY <1>4, <1>5

LEMMA EndGetDoneKept == ASSUME WInv, NEW t \in Threads, W!EndGetDone(t) PROVE WInv' /\ W!MarksCarriedOut
<1> PICK s : s = th[t]
  OBVIOUS
<1> PICK u : u = s.tid
  OBVIOUS
<1> PICK e : e = Undone(s.cur)
  OBVIOUS
<1> PICK r : r = WithPc(s, "FD_swing")
  OBVIOUS
<1>1. /\ s.pc = "FD_done" /\ WTypeOK /\ s \in WLocals /\ Ordered /\ EndGetAt(t, s) /\ ControlAt(t, s)
      /\ W!Set(t, r) /\ W!Observe(t, W!Held) /\ UNCHANGED <<version, head, tail, next, enq_tid, deq_tid, next_check, gets>>
      /\ state' = IF state[u] = s.cur THEN [state EXCEPT ![u] = e] ELSE state
  BY Here DEF W!EndGetDone, W!MarkDone, W!At, ThreadAt, W!Goto, WithPc, W!CasState, Undone
<1>2. /\ version' = version /\ head' = head /\ tail' = tail /\ next' = next /\ enq_tid' = enq_tid
      /\ deq_tid' = deq_tid /\ (state' = state => UNCHANGED W!shared)
  BY <1>1, NodesSame
<1>3. "FD_swing" \in WPcs
  BY DEF WPcs, EndGetPcs
<1>4. /\ r \in WLocals /\ Alike(r, s) /\ r.pc = "FD_swing" /\ r.head = s.head /\ r.next = s.next
      /\ r.cur = s.cur /\ r.tid = s.tid
  BY <1>1, <1>3, PcFact
<1>5. /\ u \in Threads /\ IF version = "ppopp11" THEN deq_tid[s.head.node] = u ELSE s.head.tid = u
      /\ head = s.head => /\ s.cur.type = "get" /\ s.cur.node = head.node
                          /\ state[u].pending => s.cur = state[u]
      /\ s.next # Null /\ s.next = next[s.head.node]
      /\ s.cur = state[u] /\ s.cur.pending => head = s.head
      /\ WasHead(s.head)
  BY <1>1 DEF EndGetAt, EndGetPcs
<1>6. s.cur \in Descriptors /\ s.then # "helped"
  BY <1>1 DEF WLocals, ControlAt, EndGetPcs
<1>7. e \in Descriptors /\ e.pending = FALSE /\ e.node = s.cur.node /\ (~s.cur.pending => e = s.cur)
  BY <1>6, UndoneFact
<1>8. Stays(r, s)
  BY <1>1, <1>4 DEF Stays, Alike, EndGetPcs
<1>9. CASE state[u] = s.cur /\ s.cur.pending
  <2>1. head = s.head /\ s.cur.type = "get" /\ Claimant = u
    BY <1>5, <1>9 DEF Claimant
  <2>2. state' = [state EXCEPT ![u] = e]
    BY <1>1, <1>9
  <2>3. state'[u] = e /\ \A v \in Threads \ {u} : state'[v] = state[v]
    BY <1>1, <1>5, <2>2 DEF WTypeOK
  <2>4. GetDone(u)
    BY <1>2, <1>9, <2>1, <2>3 DEF GetDone, Undone
  <2>5. state'[t].node = state[t].node
    BY <1>7, <1>9, <2>3
  <2>6. WasHead(s.head)' /\ \A x, y : UpTo(x, y)' <=> UpTo(x, y)
    BY <1>2, <1>5, SameNodes
  <2>7. EndGetAt(t, r)'
    BY <1>1, <1>2, <1>4, <1>5, <1>7, <2>3, <2>5, <2>6 DEF EndGetAt, EndGetPcs, Alike, Same
  <2> QED BY <1>1, <1>2, <1>4, <1>5, <1>6, <1>7, <1>8, <2>2, <2>4, <2>7, ChangedStays
          DEF Changed, Alike, PutPcs, EndPutPcs, GetPcs, EmptyPcs, TakePcs, EndGetPcs, FastPutPcs, FastGetPcs
<1>10. CASE ~(state[u] = s.cur /\ s.cur.pending)
  <2>1. state' = state
    BY <1>1, <1>7, <1>10 DEF WTypeOK
  <2>2. W!Local(t, r)
    BY <1>1, <1>2, <2>1 DEF W!Local
  <2>3. head = s.head => ~state[u].pending
    BY <1>5, <1>10
  <2>4. EndGetAt(t, r)
    BY <1>1, <1>4, <1>5, <2>3 DEF EndGetAt, EndGetPcs, Alike, Same
  <2>5. WInv'
    BY <1>1, <1>4, <1>6, <1>8, <2>2, <2>4, Stay
       DEF Alike, PutPcs, EndPutPcs, GetPcs, EmptyPcs, TakePcs, EndGetPcs, FastPutPcs, FastGetPcs
  <2> QED BY <2>1, <2>5 DEF W!MarksCarriedOut
<1> QED BY <1>9, <1>10
-----------------------------------------------------------------------------
\* The tail moves.

LEMMA PlacesKept ==
  ASSUME WInv, NEW t \in Threads, NEW s, s = th[t], NEW r \in WLocals, W!Set(t, r), version' = version,
         next' = next, state' = state, enq_tid' = enq_tid, WTypeOK', W!Observe(t, W!Held'),
         s.op # "none", r.op = s.op, r.item = s.item, r.slow = s.slow,
         After(Succ, head'.node) \subseteq After(Succ, head.node),
         \A x \in After(Succ, head.node) \ After(Succ, head'.node) : \E v \in Threads : x \in Behind(v)
  PROVE  PlacesInv' /\ OrderInv'
<1>1. Succ' = Succ
  BY DEF Succ, W!Nodes
<1>2. Linked' = Linked /\ \A x, y : Before(x, y)' <=> Before(x, y)
  BY <1>1 DEF Linked, Before
<1>3. Acyclic(Succ') /\ W!Held' = After(Succ', head'.node)
  <2>1. Acyclic(Succ')
    BY <1>1 DEF WInv, ListInv
  <2>2. InList'
    BY <2>1 DEF InList
  <2> QED BY <2>1, <2>2, WHeldIsNext DEF WHeldIsRest
<1>4. /\ th' \in [Threads -> WLocals] /\ th'[t] = r /\ Others(t)
      /\ done' = done /\ out' = out /\ older' = older /\ late' = late /\ start' = start
      /\ W!Held' \cap done = {} => \A u \in Threads : th[u].op = "get" => sight'[u]
  BY Quieted DEF WInv
<1>5. \A u \in Threads : th'[u].op = th[u].op /\ th'[u].item = th[u].item /\ th'[u].slow = th[u].slow
  BY <1>4 DEF Others
<1>6. \A u \in Threads : W!InHand(u)' = W!InHand(u) /\ Behind(u)' = Behind(u)
  BY <1>5 DEF W!InHand, Behind
<1>7. W!Hands' = W!Hands
  BY <1>6 DEF W!Hands
<1>8. W!Begun' = W!Begun
  BY <1>4, <1>5 DEF W!Begun
<1>9. PlacesInv'
  <2> DEFINE held == After(Succ, head.node)
             heldNext == After(Succ', head'.node)
  <2>1. heldNext \subseteq held /\ \A x \in held \ heldNext : \E v \in Threads : x \in Behind(v)
    BY <1>1
  <2>2. /\ done \subseteq Linked /\ Linked \subseteq W!Begun
        /\ \A x \in Linked \ held : x \in W!Hands \cup out \/ \E u \in Threads : x \in Behind(u)
        /\ W!Hands \cup out \subseteq Linked /\ held \cap (W!Hands \cup out) = {} /\ W!Hands \cap out = {}
        /\ \A u \in Threads : Behind(u) \cap (W!Hands \cup out) = {}
        /\ \A v, u \in Threads : v # u => W!InHand(v) \cap W!InHand(u) = {} /\ Behind(v) \cap Behind(u) = {}
        /\ \A v, u \in Threads : v # u /\ th[v].op = "put" /\ th[u].op = "put" => th[v].item # th[u].item
        /\ \A v \in Threads : th[v].op = "put" => th[v].item \notin done
    BY DEF WInv, PlacesInv
  <2>3. heldNext \cap done = {} => \A v \in Threads : th'[v].op = "get" => sight'[v]
    BY <1>3, <1>4, <1>5
  <2> HIDE DEF held
  <2>4. \A x \in Linked \ heldNext : x \in W!Hands \cup out \/ \E u \in Threads : x \in Behind(u)
    BY <2>1, <2>2
  <2>5. heldNext \cap (W!Hands \cup out) = {}
    BY <2>1, <2>2
  <2>6. \A x \in Items : enq_tid[x] # W!kTidNotSet => x \in W!Begun
    BY DEF WInv, PlacesInv
  <2> QED BY <1>2, <1>4, <1>5, <1>6, <1>7, <1>8, <2>2, <2>3, <2>4, <2>5, <2>6 DEF PlacesInv, W!kTidNotSet
<1>10. OrderInv'
  BY <1>2, <1>4 DEF WInv, OrderInv
<1> QED BY <1>9, <1>10

\* The descriptors and the calls, in a step that moves the tail or the head, or claims it.
LEMMA QuietMoves ==
  ASSUME WInv, NEW t \in Threads, NEW s, s = th[t], NEW r \in WLocals, W!Set(t, r), version' = version,
         next' = next, state' = state, enq_tid' = enq_tid, NEW H, W!Observe(t, H),
         s.op # "none", r.op = s.op, Helping(r) => Helping(s) /\ r.i = s.i /\ r.phase = s.phase,
         head' \in [node : W!Nodes, tid : ThreadsOrNone], tail' \in W!Nodes, deq_tid' \in [W!Nodes -> ThreadsOrNone]
  PROVE  /\ WTypeOK' /\ Others(t) /\ DescMoves(t) /\ CallMoves(t) /\ th'[t] = r
         /\ \A u \in Threads : th[u].op = "get" /\ sight[u] => sight'[u]
         /\ Succ' = Succ /\ Linked' = Linked /\ Chain' = Chain
         /\ \A x, y : (Before(x, y)' <=> Before(x, y)) /\ (UpTo(x, y)' <=> UpTo(x, y))
<1>1. WTypeOK
  BY DEF WInv
<1>2. /\ th' \in [Threads -> WLocals] /\ th'[t] = r /\ Others(t)
      /\ done' = done /\ out' = out /\ older' = older /\ late' = late /\ start' = start
      /\ sight' \in [Threads -> BOOLEAN]
      /\ \A u \in Threads : th'[u].op = th[u].op
      /\ \A u \in Threads : th[u].op = "get" /\ sight[u] => sight'[u]
  BY <1>1, Quieted
<1>3. WTypeOK'
  BY <1>1, <1>2 DEF WTypeOK, W!Nodes
<1>4. Succ' = Succ
  BY DEF Succ, W!Nodes
<1>5. Linked' = Linked /\ Chain' = Chain
  BY <1>4 DEF Linked, Chain
<1>6. \A x, y : (Before(x, y)' <=> Before(x, y)) /\ (UpTo(x, y)' <=> UpTo(x, y))
  BY <1>4 DEF UpTo, Before
<1>7. DescMoves(t)
  BY DEF DescMoves
<1>8. CallMoves(t)
  <2>1. ASSUME NEW v \in Threads \ {t}, th[v].op = "put", ~th[v].slow, th[v].pc # "return"
        PROVE  th[v].item \notin Linked' /\ enq_tid'[th[v].item] = W!kTidNotSet
    BY <1>5, <2>1 DEF WInv, ThreadInv, DescInv, DescAt
  <2> QED BY <1>2, <2>1 DEF CallMoves
<1> QED BY <1>2, <1>3, <1>4, <1>5, <1>6, <1>7, <1>8

LEMMA HeldSame == next' = next /\ head' = head => W!Held' = W!Held
BY DEF W!Held, W!Nodes

\* What it takes to end, in the next state.
LEMMA Ended ==
  ASSUME WInv, NEW t \in Threads, NEW s, s = th[t], s.pc \in EndPutPcs \cup EndGetPcs,
         NEW c, c = W!Continue(s), th'[t] = c, version' = version, WTypeOK', DescAt(t, s)', HelpAt(t, s)',
         s.then = "helped" /\ WaitfreeNum[s.i] = t => ~state'[t].pending,
         s.then = "result" /\ state'[t].node # Null => head'.node # state'[t].node
  PROVE  ThreadInv(t)'
<1>1. s \in WLocals /\ ControlAt(t, s)
  BY Here DEF ThreadAt
<1>2. s.op # "none" /\ s.pc # "return"
  BY <1>1 DEF ControlAt, EndPutPcs, EndGetPcs
<1>3. ControlAt(t, s)'
  BY <1>1 DEF ControlAt, Helping, W!Idle
<1>4. CallAt(t, s)'
  BY <1>1, <1>2, <1>3 DEF CallAt
<1>5. EndsWell(t, s)'
  BY <1>4 DEF EndsWell
<1>6. Same(s, s)
  BY DEF Same
<1>7. GoesOn(t, s, c)'
  BY <1>1, <1>5, <1>6, ContinueFitsNext
<1> QED BY <1>7 DEF GoesOn, ThreadAt, ThreadInv, ControlInv, DescInv, HelpInv, PhaseInv, PutInv, EndPutInv,
                    LookInv, GetInv, EndGetInv

\* Where Continue leads does not depend on the state.
LEMMA ContinueFact ==
  ASSUME WInv, NEW t \in Threads, NEW s, s = th[t], s.pc \in EndPutPcs \cup EndGetPcs,
         NEW c, c = W!Continue(s)
  PROVE  /\ c \in WLocals /\ c.op = s.op /\ c.item = s.item /\ c.slow = s.slow
         /\ Helping(c) => Helping(s) /\ c.i = s.i /\ c.phase = s.phase
<1>1. s \in WLocals /\ ControlAt(t, s)
  BY Here DEF ThreadAt
<1>2. s.then \in {"E_pending", "D_pending", "helped", "return", "result", "fast"}
  BY <1>1 DEF ControlAt
<1>4. CASE s.then # "helped"
  <2> PICK q : q = W!To(s, s.then)
    OBVIOUS
  <2>1. s.then \in WPcs
    BY <1>2, <1>4 DEF WPcs, PutPcs, GetPcs, FastPcs
  <2>2. q \in WLocals /\ q.pc = s.then /\ Same(q, s)
    BY <1>1, <2>1, ToFact DEF Same
  <2>3. c = WithThen(q, "idle")
    BY <1>4 DEF W!Continue, WithThen
  <2>4. c \in WLocals /\ Same(c, q) /\ c.pc = q.pc /\ c.then = "idle"
    BY <2>2, <2>3, ThenFact
  <2>5. Helping(c) => Helping(s)
    BY <1>2, <1>4, <2>2, <2>4 DEF Helping, PutPcs, GetPcs, EmptyPcs, TakePcs
  <2> QED BY <2>2, <2>4, <2>5 DEF Same
<1>5. CASE s.then = "helped"
  <2> PICK q : q = WithThen(s, "idle")
    OBVIOUS
  <2>1. q \in WLocals /\ Same(q, s) /\ q.then = "idle"
    BY <1>1, ThenFact
  <2>2. c = W!Helped(q) /\ Helping(s)
    BY <1>5 DEF W!Continue, WithThen, Helping
  <2>3. q.back = IF version = "ppopp11" THEN "help" ELSE "finish"
    BY <1>1, <2>1, <2>2 DEF ControlAt, Same
  <2>4. ASSUME NEW p \in WLocals, p.op = s.op, p.item = s.item, p.slow = s.slow, NEW d, d = W!Finish(p)
        PROVE  d \in WLocals /\ d.op = s.op /\ d.item = s.item /\ d.slow = s.slow /\ ~Helping(d)
    <3> PICK label : label = IF p.op = "put" THEN "FE_tail" ELSE "FD_head"
      OBVIOUS
    <3> PICK w : w = W!To(p, label)
      OBVIOUS
    <3> PICK then : then = IF p.op = "put" THEN "return" ELSE "result"
      OBVIOUS
    <3>1. label \in WPcs /\ label \in {"FE_tail", "FD_head"} /\ then \in {"return", "result"} /\ 0 \in DOMAIN WaitfreeNum
      BY StrictQueuesAssumption DEF WPcs, EndPutPcs, EndGetPcs
    <3>2. w \in WLocals /\ w.pc = label /\ w.op = s.op /\ w.item = s.item /\ w.slow = s.slow
      BY <2>4, <3>1, ToFact
    <3>3. d = [w EXCEPT !.phase = W!kNoPhase, !.i = 0, !.back = "idle", !.then = then]
      BY <2>4 DEF W!Finish
    <3>4. d \in WLocals
      BY ONLY <3>1, <3>2, <3>3 DEF WLocals
    <3>5. d.op = w.op /\ d.item = w.item /\ d.slow = w.slow /\ d.pc = label /\ d.then = then
      BY ONLY <3>2, <3>3 DEF WLocals
    <3>6. ~Helping(d)
      BY <3>1, <3>5 DEF Helping, PutPcs, GetPcs, EmptyPcs, TakePcs
    <3> QED BY <3>2, <3>4, <3>5, <3>6
  <2>5. CASE version # "ppopp11"
    <3>1. c = W!Finish(q)
      BY <2>2, <2>3, <2>5 DEF W!Helped
    <3> QED BY <2>1, <2>4, <3>1 DEF Same
  <2>6. CASE version = "ppopp11"
    <3> PICK p : p = [q EXCEPT !.back = "idle"]
      OBVIOUS
    <3>1. p \in WLocals /\ p.op = s.op /\ p.item = s.item /\ p.slow = s.slow /\ p.i = s.i /\ p.then = "idle"
      BY <2>1 DEF WLocals, Same
    <3>2. c = W!NextHelp(p)
      BY <2>2, <2>3, <2>6 DEF W!Helped
    <3>3. CASE p.i + 1 = Cardinality(DOMAIN WaitfreeNum)
      <4>1. c = W!Finish(p)
        BY <3>2, <3>3, WCardinality DEF W!NextHelp
      <4> QED BY <2>4, <3>1, <4>1
    <3>4. CASE p.i + 1 # Cardinality(DOMAIN WaitfreeNum)
      <4> PICK w : w = W!To(p, "help")
        OBVIOUS
      <4>0. "help" \in WPcs
        BY DEF WPcs
      <4>1. w \in WLocals /\ w.pc = "help" /\ w.op = s.op /\ w.item = s.item /\ w.slow = s.slow
            /\ w.i = s.i /\ w.then = "idle"
        BY ONLY <3>1, <4>0, w = W!To(p, "help"), ToFact
      <4>2. c = [w EXCEPT !.i = w.i + 1]
        BY <3>2, <3>4, WCardinality DEF W!NextHelp
      <4>3. w.i + 1 \in DOMAIN WaitfreeNum
        BY <1>1, <3>1, <3>4, <4>1, NumCount DEF WLocals
      <4>4. c \in WLocals /\ c.pc = "help" /\ c.op = s.op /\ c.item = s.item /\ c.slow = s.slow /\ c.then = "idle"
        BY <4>1, <4>2, <4>3 DEF WLocals
      <4>5. ~Helping(c)
        BY <4>4 DEF Helping, PutPcs, GetPcs, EmptyPcs, TakePcs
      <4> QED BY <4>4, <4>5
    <3> QED BY <3>3, <3>4
  <2> QED BY <2>5, <2>6
<1> QED BY <1>4, <1>5

LEMMA EndSwingKept == ASSUME WInv, NEW t \in Threads, W!EndSwing(t) PROVE WInv'
<1> PICK s : s = th[t]
  OBVIOUS
<1> PICK c : c = W!Continue(s)
  OBVIOUS
<1>1. /\ s.pc = "FE_swing" /\ WTypeOK /\ ListInv /\ ClaimInv /\ Ordered /\ s \in WLocals /\ EndPutAt(t, s)
      /\ ControlAt(t, s) /\ DescAt(t, s) /\ HelpAt(t, s)
      /\ W!Set(t, c) /\ W!Observe(t, W!Held) /\ tail' = IF tail = s.tail THEN s.next ELSE tail
      /\ version' = version /\ head' = head /\ next' = next /\ enq_tid' = enq_tid /\ deq_tid' = deq_tid
      /\ state' = state /\ next_check' = next_check /\ gets' = gets
  BY Here DEF W!EndSwing, W!At, ThreadAt, W!SameTail
<1>2. s.pc \in EndPutPcs /\ s.pc # "FE_tail" /\ s.then # "result" /\ s.op # "none"
  BY <1>1 DEF ControlAt, EndPutPcs
<1>3. /\ s.next = next[s.tail] /\ s.next # Null
      /\ \A v \in Threads : state[v].pending /\ state[v].type = "put" => state[v].node # s.next
  BY <1>1 DEF EndPutAt, EndPutPcs
<1>4. CASE tail # s.tail
  <2>1. W!Local(t, c)
    BY <1>1, <1>4 DEF W!Local, W!shared, W!list
  <2>2. s.then = "helped" /\ WaitfreeNum[s.i] = t => ~state[t].pending
    BY <1>2, <1>4, StillMine
  <2>3. Same(s, s)
    BY DEF Same
  <2> QED BY <1>1, <1>2, <2>1, <2>2, <2>3, Continued
<1>5. CASE tail = s.tail
  <2>1. /\ tail' = next[tail] /\ next[tail] # Null /\ tail \in W!Nodes /\ next[tail] \in W!Nodes
        /\ Before(tail, next[tail]) /\ next[tail] \in Chain
    <3>1. tail' = next[tail] /\ next[tail] # Null /\ tail \in W!Nodes /\ tail \in Chain
      BY <1>1, <1>3, <1>5 DEF ListInv, WTypeOK
    <3>2. next[tail] \in W!Nodes /\ Before(tail, next[tail])
      BY <1>1, <3>1 DEF Ordered
    <3>3. next[tail] \in Linked
      BY <1>1, <3>1, <3>2 DEF Ordered
    <3> QED BY <3>1, <3>2, <3>3 DEF Chain
  <2>2. \A v \in Threads : ~(state[v].pending /\ state[v].type = "put" /\ state[v].node \in Linked)
    <3> SUFFICES ASSUME NEW v \in Threads, state[v].pending, state[v].type = "put", state[v].node \in Linked
                 PROVE FALSE
      OBVIOUS
    <3>1. state[v].node = next[tail]
      BY DEF WInv, ThreadInv, DescInv, DescAt
    <3> QED BY <1>3, <1>5, <3>1
  <2>3. /\ c \in WLocals /\ c.op = s.op /\ c.item = s.item /\ c.slow = s.slow
        /\ Helping(c) => Helping(s) /\ c.i = s.i /\ c.phase = s.phase
    BY <1>2, ContinueFact
  <2>4. /\ head' \in [node : W!Nodes, tid : ThreadsOrNone] /\ tail' \in W!Nodes
        /\ deq_tid' \in [W!Nodes -> ThreadsOrNone]
    BY <1>1, <2>1 DEF WTypeOK
  <2>5. /\ WTypeOK' /\ Others(t) /\ DescMoves(t) /\ CallMoves(t) /\ th'[t] = c
        /\ \A u \in Threads : th[u].op = "get" /\ sight[u] => sight'[u]
        /\ Succ' = Succ /\ Linked' = Linked /\ Chain' = Chain
        /\ \A x, y : (Before(x, y)' <=> Before(x, y)) /\ (UpTo(x, y)' <=> UpTo(x, y))
    BY <1>1, <1>2, <2>3, <2>4, QuietMoves
  <2>6. ListMoves
    BY <1>1, <2>5 DEF ListMoves, Before
  <2>7. HeadMoves /\ TailMoves
    BY <1>1, <2>1, <2>2 DEF HeadMoves, TailMoves
  <2>8. NeverClaimable /\ Claimant' = Claimant
    BY <1>1 DEF NeverClaimable, Claimable, Claimant, W!Head, W!kTidNotSet
  <2>9. Moves(t)
    BY <1>1, <2>5, <2>6, <2>7, <2>8 DEF Moves
  <2>10. ListInv'
    <3>1. UpTo(head.node, next[tail]) /\ next[next[tail]] = Null
      <4>1. head.node \in W!Nodes /\ UpTo(head.node, tail)
        BY <1>1 DEF ListInv, WTypeOK
      <4> QED BY <1>1, <2>1, <4>1 DEF ListInv, UpTo, Ordered
    <3> QED BY <1>1, <2>1, <2>5, <3>1 DEF ListInv
  <2>11. W!Observe(t, W!Held')
    BY <1>1, HeldSame
  <2>12. PlacesInv' /\ OrderInv'
    BY <1>1, <1>2, <2>3, <2>5, <2>11, PlacesKept
  <2>13. ClaimInv'
    <3>1. Claimant # W!kTidNotSet => Claimant \in Threads
      BY <1>1 DEF WTypeOK, Claimant, W!kTidNotSet, ThreadsOrNone
    <3>2. \A v \in Threads : th'[v].op = th[v].op /\ th'[v].item = th[v].item /\ th'[v].slow = th[v].slow
      BY <2>3, <2>5 DEF Others
    <3> QED BY <1>1, <2>5, <2>8, <3>1, <3>2 DEF ClaimInv, W!Nodes, W!kTidNotSet
  <2>14. DescAt(t, s)'
    <3>1. \A x \in W!Nodes : Before(x, tail) => Before(x, next[tail])
      BY <1>1, <2>1 DEF Ordered
    <3>2. state[t].node \in NodesOrNone
      BY <1>1 DEF WTypeOK, Descriptors
    <3>3. state[t].type = "get" /\ state[t].node # Null => Before(state[t].node, tail')
      BY <1>1, <2>1, <3>1, <3>2 DEF DescAt, NodesOrNone
    <3> QED BY <1>1, <2>2, <2>5, <3>3 DEF DescAt, W!kTidNotSet
  <2>15. s.then = "helped" /\ WaitfreeNum[s.i] = t => ~state[t].pending
    <3> SUFFICES ASSUME s.then = "helped", WaitfreeNum[s.i] = t, state[t].pending PROVE FALSE
      OBVIOUS
    <3>1. state[t].node = next[tail] /\ state[t].type = "put"
      BY <1>2, StillMine
    <3> QED BY <1>3, <1>5, <3>1
  <2>16. HelpAt(t, s)'
    BY <1>1, <2>5, <2>15 DEF HelpAt, Pending
  <2>17. ThreadInv(t)'
    BY <1>1, <1>2, <2>5, <2>14, <2>15, <2>16, Ended
  <2> QED BY <2>9, <2>10, <2>12, <2>13, <2>17, StepKept
<1> QED BY <1>4, <1>5
-----------------------------------------------------------------------------
\* The head moves.

LEMMA HeadOn ==
  ASSUME WInv, version' = version, next' = next, tail' = tail, deq_tid' = deq_tid,
         head' = W!Head(next[head.node], W!kTidNotSet), Before(head.node, tail),
         version = "ppopp11" => Claimant # W!kTidNotSet, Claimant # W!kTidNotSet => ~state[Claimant].pending
  PROVE  /\ ListInv' /\ ClaimInv' /\ HeadMoves /\ NeverClaimable
         /\ head' \in [node : W!Nodes, tid : ThreadsOrNone] /\ head'.node = next[head.node]
         /\ Before(head.node, head'.node) /\ next[head.node] \in Items
         /\ After(Succ, head'.node) = After(Succ, head.node) \ {next[head.node]}
         /\ next[head.node] \in After(Succ, head.node)
<1>1. /\ WTypeOK /\ Ordered /\ ListInv /\ ClaimInv /\ head.node \in W!Nodes /\ tail \in W!Nodes
      /\ version \in {"ppopp11", "ppopp12"}
  <2>1. WTypeOK /\ ListInv /\ ClaimInv
    BY DEF WInv
  <2> QED BY <2>1, OrderedFact, StrictQueuesAssumption DEF WTypeOK
<1> PICK h : h = head.node
  OBVIOUS
<1> PICK x : x = next[h]
  OBVIOUS
<1>2. h \in W!Nodes /\ h \in Chain /\ x # Null /\ x \in Items /\ x \in W!Nodes /\ Before(h, x) /\ UpTo(x, tail)
      /\ Succ[h] = {x} /\ x \in Linked
  <2>1. h \in W!Nodes /\ h \in Chain
    BY <1>1 DEF ListInv
  <2>2. x # Null /\ UpTo(x, tail)
    BY <1>1, <2>1 DEF Ordered
  <2>3. x \in Items /\ x \in W!Nodes /\ Before(h, x) /\ Succ[h] = {x}
    BY <1>1, <2>1, <2>2, SuccFact DEF Ordered
  <2> QED BY <1>1, <2>1, <2>2, <2>3 DEF Ordered
<1>3. head' = W!Head(x, W!kTidNotSet) /\ head'.node = x /\ head'.tid = W!kTidNotSet
  BY DEF W!Head
<1>4. head' \in [node : W!Nodes, tid : ThreadsOrNone]
  BY <1>2, <1>3 DEF W!Head, ThreadsOrNone, W!kTidNotSet
<1>5. Succ' = Succ
  BY DEF Succ, W!Nodes
<1>6. /\ Linked' = Linked /\ Chain' = Chain
      /\ \A z, y : (Before(z, y)' <=> Before(z, y)) /\ (UpTo(z, y)' <=> UpTo(z, y))
  BY <1>5 DEF Linked, Chain, Before, UpTo
<1>7. ListInv'
  <2>1. x \in Chain /\ Acyclic(Succ) /\ Linked \subseteq Items
    BY <1>1, <1>2 DEF ListInv, Chain
  <2> QED BY <1>1, <1>2, <1>3, <1>5, <1>6, <2>1 DEF ListInv, W!Nodes
<1>8. After(Succ, x) = After(Succ, h) \ {x} /\ x \in After(Succ, h)
  BY <1>1, <1>2, SuccFact, AfterOne DEF ListInv
<1>9. ~UpTo(x, h)
  BY <1>1, <1>2 DEF UpTo, Ordered
<1>10. version = "ppopp11" => deq_tid[x] = W!kTidNotSet
  BY <1>1, <1>2, <1>9 DEF ClaimInv
<1>11. Claimant' = W!kTidNotSet
  BY <1>3, <1>10 DEF Claimant
<1>12. ClaimInv'
  <2> SUFFICES ASSUME version = "ppopp11"
               PROVE  /\ \A z \in W!Nodes : deq_tid[z] # W!kTidNotSet => z \in Chain /\ UpTo(z, x)
                      /\ \A z \in Chain : Before(z, x) => deq_tid[z] # W!kTidNotSet
    BY <1>3, <1>6, <1>11 DEF ClaimInv, W!Nodes
  <2>1. ASSUME NEW z \in W!Nodes, deq_tid[z] # W!kTidNotSet PROVE z \in Chain /\ UpTo(z, x)
    <3>1. z \in Chain /\ UpTo(z, h)
      BY <1>1, <2>1 DEF ClaimInv
    <3> QED BY <1>1, <1>2, <3>1 DEF UpTo, Ordered
  <2>2. ASSUME NEW z \in Chain, Before(z, x) PROVE deq_tid[z] # W!kTidNotSet
    <3>1. z \in W!Nodes
      BY <1>1 DEF Ordered
    <3>2. z = h \/ Before(z, h) \/ Before(h, z)
      BY <1>1, <1>2 DEF Ordered
    <3>3. ~Before(h, z)
      BY <1>1, <1>2, <2>2, <3>1 DEF UpTo, Ordered
    <3>4. deq_tid[h] # W!kTidNotSet
      BY DEF Claimant
    <3> QED BY <1>1, <3>2, <3>3, <3>4 DEF ClaimInv
  <2> QED BY <2>1, <2>2
<1>13. HeadMoves
  BY <1>2, <1>3 DEF HeadMoves
<1>14. NeverClaimable
  <2> SUFFICES ASSUME NEW z \in W!Nodes, UpTo(z, h), Claimable(z)' PROVE Claimable(z)
    BY DEF NeverClaimable
  <2>1. CASE version = "ppopp11"
    BY <2>1 DEF Claimable, W!kTidNotSet
  <2>2. CASE version # "ppopp11"
    <3>1. z = x
      BY <1>3, <2>2 DEF Claimable, W!Head
    <3> QED BY <1>9, <3>1
  <2> QED BY <2>1, <2>2
<1> QED BY <1>2, <1>3, <1>4, <1>7, <1>8, <1>12, <1>13, <1>14

\* What was dequeued is not in the queue.
LEMMA BehindIsGone ==
  ASSUME WInv, NEW v \in Threads, Claimant # v \/ state[v].node # head.node
  PROVE  Behind(v) \cap After(Succ, head.node) = {}
<1> SUFFICES ASSUME Behind(v) # {}, next[state[v].node] \in After(Succ, head.node) PROVE FALSE
  BY DEF Behind
<1>1. WTypeOK /\ Ordered /\ head.node \in W!Nodes
  BY Here DEF WInv, WTypeOK
<1>2. th[v].op = "get" /\ th[v].slow /\ ~state[v].pending /\ state[v].node # Null
  BY DEF Behind
<1>3. DescAt(v, th[v])
  BY DEF WInv, ThreadInv, DescInv
<1>4. state[v].node \in Chain /\ UpTo(state[v].node, head.node)
  BY <1>2, <1>3 DEF DescAt
<1>5. state[v].node # head.node
  BY <1>2, <1>3 DEF DescAt, Claimant
<1>6. state[v].node \in W!Nodes /\ Before(state[v].node, head.node)
  BY <1>1, <1>4, <1>5 DEF Ordered, UpTo
<1>7. UpTo(next[state[v].node], head.node) /\ next[state[v].node] \in W!Nodes
  BY <1>1, <1>6 DEF Ordered
<1>8. Before(head.node, next[state[v].node])
  BY DEF Before
<1> QED BY <1>1, <1>7, <1>8 DEF UpTo, Ordered

\* A descriptor, while only the head moves on.
LEMMA DescBehindHead ==
  ASSUME WInv, NEW t \in Threads, NEW s, DescAt(t, s), version' = version, tail' = tail, next' = next,
         enq_tid' = enq_tid, deq_tid' = deq_tid, state' = state, Before(head.node, head'.node), head'.node \in W!Nodes,
         s.op = "get" /\ sight[t] => sight'[t]
  PROVE  DescAt(t, s)'
<1>1. WTypeOK /\ Ordered /\ head.node \in W!Nodes
  BY Here DEF WInv, WTypeOK
<1>2. Succ' = Succ
  BY DEF Succ, W!Nodes
<1>3. /\ Linked' = Linked /\ Chain' = Chain
      /\ \A z, y : (Before(z, y)' <=> Before(z, y)) /\ (UpTo(z, y)' <=> UpTo(z, y))
  BY <1>2 DEF Linked, Chain, Before, UpTo
<1>4. \A x \in Chain : UpTo(x, head.node) => UpTo(x, head'.node) /\ x # head'.node
  BY <1>1 DEF UpTo, Ordered
<1> QED BY <1>3, <1>4 DEF DescAt, W!kTidNotSet

LEMMA EndHeadSwingKept == ASSUME WInv, NEW t \in Threads, W!EndHeadSwing(t) PROVE WInv'
<1> PICK s : s = th[t]
  OBVIOUS
<1> PICK c : c = W!Continue(s)
  OBVIOUS
<1>1. /\ s.pc = "FD_swing" /\ WTypeOK /\ ListInv /\ ClaimInv /\ Ordered /\ s \in WLocals /\ EndGetAt(t, s)
      /\ ControlAt(t, s) /\ DescAt(t, s) /\ HelpAt(t, s)
      /\ W!Set(t, c) /\ W!Observe(t, W!Held')
      /\ head' = IF head = s.head THEN W!Head(s.next, W!kTidNotSet) ELSE head
      /\ version' = version /\ tail' = tail /\ next' = next /\ enq_tid' = enq_tid /\ deq_tid' = deq_tid
      /\ state' = state /\ next_check' = next_check /\ gets' = gets
  BY Here DEF W!EndHeadSwing, W!At, ThreadAt
<1>2. s.pc \in EndGetPcs /\ s.pc # "FD_head" /\ s.then # "helped" /\ s.op # "none"
  BY <1>1 DEF ControlAt, EndGetPcs
<1>3. CASE head # s.head
  <2>1. head' = head
    BY <1>1, <1>3
  <2>2. W!Observe(t, W!Held)
    BY <1>1, <2>1, HeldSame
  <2>3. W!Local(t, c)
    BY <1>1, <2>1, <2>2 DEF W!Local, W!shared, W!list
  <2>4. s.then = "result" /\ state[t].node # Null => head.node # state[t].node
    BY <1>2, <1>3, HeadOfMine
  <2>5. Same(s, s)
    BY DEF Same
  <2> QED BY <1>1, <1>2, <2>3, <2>4, <2>5, Continued
<1>4. CASE head = s.head
  <2> PICK u : u = s.tid
    OBVIOUS
  <2>1. /\ u \in Threads /\ Claimant = u /\ ~state[u].pending
        /\ s.next = next[head.node] /\ head' = W!Head(next[head.node], W!kTidNotSet)
    BY <1>1, <1>4 DEF EndGetAt, EndGetPcs, Claimant
  <2>2. u # W!kTidNotSet
    BY <2>1, StrictQueuesAssumption DEF W!kTidNotSet
  <2>3. /\ state[u].type = "get" /\ state[u].node = head.node /\ head.node # Null
        /\ th[u].slow /\ th[u].op = "get" /\ th[u].item = Null
    BY <1>1, <2>1, <2>2, SuccFact DEF ClaimInv, WTypeOK
  <2>4. Before(head.node, tail)
    BY <2>1, <2>3 DEF WInv, ThreadInv, DescInv, DescAt
  <2>5. /\ ListInv' /\ ClaimInv' /\ HeadMoves /\ NeverClaimable
        /\ head' \in [node : W!Nodes, tid : ThreadsOrNone] /\ head'.node = next[head.node]
        /\ Before(head.node, head'.node)
        /\ After(Succ, head'.node) = After(Succ, head.node) \ {next[head.node]}
    BY <1>1, <2>1, <2>2, <2>4, HeadOn
  <2>6. /\ c \in WLocals /\ c.op = s.op /\ c.item = s.item /\ c.slow = s.slow
        /\ Helping(c) => Helping(s) /\ c.i = s.i /\ c.phase = s.phase
    BY <1>2, ContinueFact
  <2>7. tail' \in W!Nodes /\ deq_tid' \in [W!Nodes -> ThreadsOrNone]
    BY <1>1 DEF WTypeOK
  <2>8. /\ WTypeOK' /\ Others(t) /\ DescMoves(t) /\ CallMoves(t) /\ th'[t] = c
        /\ \A v \in Threads : th[v].op = "get" /\ sight[v] => sight'[v]
        /\ Succ' = Succ /\ Linked' = Linked /\ Chain' = Chain
        /\ \A x, y : (Before(x, y)' <=> Before(x, y)) /\ (UpTo(x, y)' <=> UpTo(x, y))
    BY <1>1, <1>2, <2>5, <2>6, <2>7, QuietMoves
  <2>9. ListMoves /\ TailMoves
    BY <1>1, <2>8 DEF ListMoves, Before, TailMoves
  <2>10. Moves(t)
    BY <1>1, <2>5, <2>8, <2>9 DEF Moves
  <2>11. next[head.node] \in Behind(u)
    BY <2>1, <2>3 DEF Behind
  <2>12. PlacesInv' /\ OrderInv'
    BY <1>1, <1>2, <2>1, <2>5, <2>6, <2>8, <2>11, PlacesKept
  <2>13. DescAt(t, s)'
    <3>1. head'.node \in W!Nodes
      BY <2>5
    <3> QED BY <1>1, <2>5, <2>8, <3>1, DescBehindHead
  <2>14. HelpAt(t, s)'
    BY <1>1, <1>2, <2>8 DEF HelpAt, Pending
  <2>15. s.then = "result" /\ state[t].node # Null => head'.node # state[t].node
    <3> SUFFICES ASSUME s.then = "result", state[t].node # Null, head'.node = state[t].node PROVE FALSE
      OBVIOUS
    <3>1. UpTo(state[t].node, head.node) /\ state[t].node \in W!Nodes
      BY DoneGet
    <3>2. head.node \in W!Nodes
      BY <1>1 DEF WTypeOK
    <3> QED BY <1>1, <2>5, <3>1, <3>2 DEF UpTo, Ordered
  <2>16. ThreadInv(t)'
    BY <1>1, <1>2, <2>8, <2>13, <2>14, <2>15, Ended
  <2> QED BY <2>5, <2>10, <2>12, <2>16, StepKept
<1> QED BY <1>3, <1>4

\* The first item goes to t.
LEMMA TakenPlaces ==
  ASSUME WInv, NEW t \in Threads, NEW x \in Items, x = next[head.node], th' \in [Threads -> WLocals],
         Others(t), th[t].op = "get", th[t].item = Null, ~th[t].slow,
         th'[t].op = "get", th'[t].item = x, th'[t].slow = FALSE,
         version' = version, next' = next, state' = state, enq_tid' = enq_tid, Acyclic(Succ), WTypeOK',
         x \in After(Succ, head.node), After(Succ, head'.node) = After(Succ, head.node) \ {x},
         done' = done, out' = out, older' = older, late' = late, start' = start,
         \A v \in Threads : Claimant # v,
         W!Held' \cap done = {} => \A v \in Threads : th[v].op = "get" => sight'[v]
  PROVE  PlacesInv' /\ OrderInv'
<1>1. Succ' = Succ
  BY DEF Succ, W!Nodes
<1>2. Linked' = Linked /\ \A z, y : Before(z, y)' <=> Before(z, y)
  BY <1>1 DEF Linked, Before
<1>3. W!Held' = After(Succ', head'.node)
  <2>1. InList'
    BY <1>1 DEF InList
  <2> QED BY <2>1, WHeldIsNext DEF WHeldIsRest
<1>4. x # Null
  BY CallHistoryAssumption
<1>5. W!InHand(t) = {} /\ W!InHand(t)' = {x} /\ \A v \in Threads \ {t} : W!InHand(v)' = W!InHand(v)
  BY <1>4 DEF W!InHand, Others
<1>6. W!Hands' = W!Hands \cup {x}
  BY <1>5 DEF W!Hands
<1>7. \A v \in Threads : Behind(v)' = Behind(v)
  BY DEF Behind, Others
<1>8. W!Begun' = W!Begun
  <2>1. \A v \in Threads : th'[v].op = "put" <=> th[v].op = "put"
    BY DEF Others
  <2>2. \A v \in Threads : th[v].op = "put" => th'[v].item = th[v].item
    BY DEF Others
  <2> QED BY <2>1, <2>2 DEF W!Begun
<1>9. \A v \in Threads : x \notin Behind(v)
  BY BehindIsGone
<1>10. PlacesInv'
  <2> DEFINE held == After(Succ, head.node)
             heldNext == After(Succ', head'.node)
  <2>1. heldNext = held \ {x} /\ x \in held
    BY <1>1
  <2>2. /\ done \subseteq Linked /\ Linked \subseteq W!Begun
        /\ \A y \in Linked \ held : y \in W!Hands \cup out \/ \E u \in Threads : y \in Behind(u)
        /\ W!Hands \cup out \subseteq Linked /\ held \cap (W!Hands \cup out) = {} /\ W!Hands \cap out = {}
        /\ \A u \in Threads : Behind(u) \cap (W!Hands \cup out) = {}
        /\ \A v, u \in Threads : v # u => W!InHand(v) \cap W!InHand(u) = {} /\ Behind(v) \cap Behind(u) = {}
        /\ \A v, u \in Threads : v # u /\ th[v].op = "put" /\ th[u].op = "put" => th[v].item # th[u].item
        /\ \A v \in Threads : th[v].op = "put" => th[v].item \notin done
    BY DEF WInv, PlacesInv
  <2>3. x \in Linked
    <3>1. x \in W!Nodes /\ WTypeOK /\ Ordered /\ ListInv /\ head.node \in Chain /\ Before(head.node, x)
      BY Here DEF WInv, ListInv, W!Nodes, Before
    <3> QED BY <3>1 DEF Ordered
  <2>4. heldNext \cap done = {} => \A v \in Threads : th'[v].op = "get" => sight'[v]
    BY <1>3 DEF Others
  <2>5. \A v, u \in Threads : v # u => W!InHand(v)' \cap W!InHand(u)' = {}
    <3>1. \A v \in Threads : W!InHand(v) \subseteq W!Hands
      BY DEF W!Hands
    <3> HIDE DEF held
    <3>2. \A v \in Threads : x \notin W!InHand(v)
      BY <2>1, <2>2, <3>1
    <3> QED BY <1>5, <2>2, <3>2
  <2>6. /\ \A v, u \in Threads : v # u /\ th'[v].op = "put" /\ th'[u].op = "put" => th'[v].item # th'[u].item
        /\ \A v \in Threads : th'[v].op = "put" => th'[v].item \notin done
    BY <2>2 DEF Others
  <2> HIDE DEF held
  <2>7. \A y \in Linked \ heldNext : y \in W!Hands' \cup out \/ \E u \in Threads : y \in Behind(u)
    BY <1>6, <2>1, <2>2
  <2>8. /\ heldNext \cap (W!Hands' \cup out) = {} /\ W!Hands' \cap out = {} /\ W!Hands' \cup out \subseteq Linked
        /\ \A u \in Threads : Behind(u) \cap (W!Hands' \cup out) = {}
    BY <1>6, <1>9, <2>1, <2>2, <2>3
  <2>9. \A y \in Items : enq_tid[y] # W!kTidNotSet => y \in W!Begun
    BY DEF WInv, PlacesInv
  <2> QED BY <1>2, <1>7, <1>8, <2>2, <2>4, <2>5, <2>6, <2>7, <2>8, <2>9 DEF PlacesInv, W!kTidNotSet
<1>11. OrderInv'
  BY <1>2 DEF WInv, OrderInv
<1> QED BY <1>10, <1>11

LEMMA FastGetTakeKept == ASSUME WInv, NEW t \in Threads, W!FastGetTake(t) PROVE WInv'
<1> PICK s : s = th[t]
  OBVIOUS
<1>1. /\ s.pc = "R_take" /\ WTypeOK /\ ListInv /\ ClaimInv /\ Ordered /\ LookAt(t, s) /\ W!Observe(t, W!Held')
      /\ version' = version /\ tail' = tail /\ next' = next /\ enq_tid' = enq_tid /\ deq_tid' = deq_tid
      /\ state' = state /\ next_check' = next_check /\ gets' = gets
  BY Here DEF W!FastGetTake, W!At, ThreadAt
<1>2. /\ s \in WLocals /\ ThreadAt(t, s) /\ ControlAt(t, s) /\ DescAt(t, s) /\ s.then = "idle" /\ ~s.slow /\ s.op # "none"
      /\ version = "ppopp12" /\ ~Helping(s) /\ ~HelpsPut(s) /\ ~Finishing(s)
  BY <1>1, OnFastPath DEF FastPcs, FastGetPcs, ThreadAt
<1>3. s.op = "get" /\ s.item = Null
  BY <1>1, <1>2 DEF ControlAt, FastGetPcs
<1>4. CASE head # s.head
  <2>1. head' = head /\ W!Set(t, W!To(s, "fast"))
    BY <1>4 DEF W!FastGetTake
  <2>2. W!Observe(t, W!Held)
    BY <1>1, <2>1, HeldSame
  <2>3. W!Local(t, W!To(s, "fast"))
    BY <1>1, <2>1, <2>2 DEF W!Local, W!shared, W!list
  <2> QED BY <1>1, <2>3, FastRetry DEF FastGetPcs
<1>5. CASE head = s.head
  <2> PICK x : x = s.next
    OBVIOUS
  <2> PICK q : q = W!To(s, "return")
    OBVIOUS
  <2> PICK r : r = [q EXCEPT !.item = x]
    OBVIOUS
  <2>1. head' = W!Head(x, W!kTidNotSet) /\ W!Set(t, r)
    BY <1>5 DEF W!FastGetTake
  <2>2. x = next[head.node] /\ Before(head.node, tail) /\ head.tid = W!kTidNotSet
    BY <1>1, <1>5 DEF LookAt
  <2>3. Claimant = W!kTidNotSet
    BY <1>2, <2>2 DEF Claimant
  <2>4. /\ ListInv' /\ ClaimInv' /\ HeadMoves /\ NeverClaimable
        /\ head' \in [node : W!Nodes, tid : ThreadsOrNone] /\ head'.node = next[head.node]
        /\ Before(head.node, head'.node) /\ x \in Items
        /\ After(Succ, head'.node) = After(Succ, head.node) \ {x}
        /\ x \in After(Succ, head.node)
    BY <1>1, <1>2, <2>1, <2>2, <2>3, HeadOn
  <2>5. "return" \in WPcs
    BY DEF WPcs
  <2>6. q \in WLocals /\ Same(q, s) /\ q.pc = "return" /\ q.then = "idle"
    BY <1>2, <2>5, ToFact DEF Same
  <2>7. /\ r \in WLocals /\ r.op = s.op /\ r.slow = s.slow /\ r.pc = "return" /\ r.then = "idle" /\ r.item = x
        /\ r.slow = FALSE
    BY <1>2, <2>4, <2>6 DEF WLocals, Same
  <2>8. ~Helping(r) /\ ~Finishing(r)
    BY <2>7 DEF Helping, Finishing, PutPcs, EndPutPcs, GetPcs, EmptyPcs, TakePcs, EndGetPcs, FastPutPcs, FastGetPcs, FastPcs
  <2>9. tail' \in W!Nodes /\ deq_tid' \in [W!Nodes -> ThreadsOrNone]
    BY <1>1 DEF WTypeOK
  <2>10. /\ WTypeOK' /\ Others(t) /\ DescMoves(t) /\ CallMoves(t) /\ th'[t] = r
         /\ \A v \in Threads : th[v].op = "get" /\ sight[v] => sight'[v]
         /\ Succ' = Succ /\ Linked' = Linked /\ Chain' = Chain
         /\ \A z, y : (Before(z, y)' <=> Before(z, y)) /\ (UpTo(z, y)' <=> UpTo(z, y))
    BY ONLY WInv, t \in Threads, s = th[t], <1>1, <1>2, <2>1, <2>4, <2>7, <2>8, <2>9, QuietMoves
  <2>11. ListMoves /\ TailMoves
    BY <1>1, <2>10 DEF ListMoves, Before, TailMoves
  <2>12. Moves(t)
    BY <1>1, <2>4, <2>10, <2>11 DEF Moves
  <2>13. /\ th' \in [Threads -> WLocals] /\ done' = done /\ out' = out /\ older' = older /\ late' = late /\ start' = start
         /\ W!Held' \cap done = {} => \A v \in Threads : th[v].op = "get" => sight'[v]
    BY ONLY t \in Threads, s = th[t], <1>1, <1>2, <2>1, <2>7, Quieted
  <2>14. PlacesInv' /\ OrderInv'
    <3>1. \A v \in Threads : Claimant # v
      BY <2>3, StrictQueuesAssumption DEF W!kTidNotSet
    <3>2. Acyclic(Succ)
      BY <1>1 DEF ListInv
    <3> QED BY <1>1, <1>2, <1>3, <2>2, <2>4, <2>7, <2>10, <2>13, <3>1, <3>2, TakenPlaces
  <2>15. DescAt(t, r)'
    <3>1. head'.node \in W!Nodes
      BY <2>4
    <3>2. DescAt(t, s)'
      BY <1>1, <1>2, <2>4, <2>10, <3>1, DescBehindHead
    <3>3. x # Null
      BY <2>4, CallHistoryAssumption
    <3> QED BY <1>2, <1>3, <2>7, <2>8, <3>2, <3>3 DEF DescAt
  <2>16. ControlAt(t, r)'
    BY <1>1, <1>2, <1>3, <2>7, <2>8 DEF ControlAt, Helping, PutPcs, EndPutPcs, GetPcs, EmptyPcs, TakePcs, EndGetPcs, FastPutPcs, FastGetPcs, FastPcs
  <2>17. HelpAt(t, r)' /\ PhaseAt(t, r)'
    BY <2>7, <2>8 DEF HelpAt, PhaseAt, Helping
  <2>18. LinkAt(t, r)' /\ EndPutAt(t, r)' /\ LookAt(t, r)' /\ GetAt(t, r)' /\ EndGetAt(t, r)'
    BY <2>7 DEF LinkAt, EndPutAt, LookAt, GetAt, EndGetAt, EndPutPcs, EmptyPcs, TakePcs, EndGetPcs
  <2>19. ThreadInv(t)'
    BY <2>10, <2>15, <2>16, <2>17, <2>18 DEF ThreadInv, ControlInv, DescInv, HelpInv, PhaseInv, PutInv, EndPutInv,
                    LookInv, GetInv, EndGetInv
  <2> QED BY <2>4, <2>12, <2>14, <2>19, StepKept
<1> QED BY <1>4, <1>5
-----------------------------------------------------------------------------
\* A node is linked.

LEMMA Grown ==
  ASSUME WTypeOK, ListInv, Ordered, NEW y \in Items, y \notin Linked, next[tail] = Null,
         head' = head, tail' = tail, next' = [next EXCEPT ![tail] = y]
  PROVE  /\ next' \in [W!Nodes -> Items \cup {Null}] /\ y # Null /\ y \notin Chain
         /\ next'[tail] = y /\ \A z \in W!Nodes \ {tail} : next'[z] = next[z]
         /\ Linked' = Linked \cup {y} /\ Chain' = Chain \cup {y}
         /\ \A z \in W!Nodes : After(Succ', z) = IF UpTo(z, tail) THEN After(Succ, z) \cup {y} ELSE After(Succ, z)
         /\ After(Succ', head.node) = After(Succ, head.node) \cup {y} /\ After(Succ', y) = {}
         /\ \A z \in Chain : next'[z] # Null
         /\ ListInv'
<1>1. /\ Acyclic(Succ) /\ Linked \subseteq Items /\ tail \in W!Nodes /\ tail \in Chain /\ head.node \in W!Nodes
      /\ head.node \in Chain /\ UpTo(head.node, tail) /\ next \in [W!Nodes -> Items \cup {Null}]
      /\ \A z \in W!Nodes \ Chain : next[z] = Null
  BY DEF WTypeOK, ListInv
<1>2. /\ Succ \in [W!Nodes -> SUBSET W!Nodes] /\ W!Sentinel \in W!Nodes /\ Null \notin W!Nodes /\ y \in W!Nodes
      /\ \A z \in W!Nodes : next[z] = Null => Succ[z] = {}
  BY SuccFact
<1>3. y # Null /\ y # W!Sentinel /\ y \notin Chain
  BY <1>2, StrictQueuesAssumption DEF Chain
<1>4. next[y] = Null /\ y # tail
  BY <1>1, <1>2, <1>3
<1>5. next'[tail] = y /\ (\A z \in W!Nodes \ {tail} : next'[z] = next[z]) /\ next' \in [W!Nodes -> Items \cup {Null}]
  BY <1>1
<1>6. Succ' = [z \in W!Nodes |-> IF next'[z] = Null THEN {} ELSE {next'[z]}]
  BY DEF Succ, W!Nodes
<1>7. /\ Succ' \in [W!Nodes -> SUBSET W!Nodes] /\ Succ'[tail] = {y} /\ \A z \in W!Nodes \ {tail} : Succ'[z] = Succ[z]
  <2>1. \A z \in W!Nodes : next'[z] # Null => next'[z] \in W!Nodes
    BY <1>2, <1>5, SuccFact
  <2>2. Succ' \in [W!Nodes -> SUBSET W!Nodes]
    BY <1>6, <2>1
  <2>3. \A z \in W!Nodes \ {tail} : Succ'[z] = Succ[z]
    BY <1>5, <1>6 DEF Succ
  <2> QED BY <1>1, <1>3, <1>5, <1>6, <2>2, <2>3
<1>8. Succ[tail] = {} /\ Succ[y] = {}
  BY <1>1, <1>2, <1>4
<1>9. /\ Acyclic(Succ')
      /\ \A z \in W!Nodes : After(Succ', z) = IF z = tail \/ tail \in After(Succ, z)
                                            THEN After(Succ, z) \cup {y} ELSE After(Succ, z)
  <2> PICK c : c = Succ'
    OBVIOUS
  <2>1. c \in [W!Nodes -> SUBSET W!Nodes] /\ c[tail] = {y} /\ \A z \in W!Nodes \ {tail} : c[z] = Succ[z]
    BY <1>7
  <2>2. /\ Acyclic(c)
        /\ \A z \in W!Nodes : After(c, z) = IF z = tail \/ tail \in After(Succ, z)
                                          THEN After(Succ, z) \cup {y} ELSE After(Succ, z)
    BY <1>1, <1>2, <1>4, <1>8, <2>1, ChainGrows
  <2>3. (Acyclic(c) <=> Acyclic(Succ')) /\ \A z \in W!Nodes : After(c, z) = After(Succ', z)
    BY DEF Acyclic, After, Closed
  <2> QED BY <2>2, <2>3
<1>10. \A z \in W!Nodes : After(Succ', z) = IF UpTo(z, tail) THEN After(Succ, z) \cup {y} ELSE After(Succ, z)
  BY <1>9 DEF UpTo, Before
<1>11. UpTo(W!Sentinel, tail)
  BY <1>1 DEF Ordered, Chain, UpTo
<1>12. Linked' = Linked \cup {y}
  <2>1. After(Succ', W!Sentinel) = After(Succ, W!Sentinel) \cup {y}
    BY <1>2, <1>10, <1>11
  <2> QED BY <2>1 DEF Linked
<1>13. Chain' = Chain \cup {y}
  BY <1>12 DEF Chain
<1>14. After(Succ', head.node) = After(Succ, head.node) \cup {y}
  BY <1>1, <1>10
<1>15. After(Succ', y) = {}
  <2>1. After(Succ, y) = {}
    BY <1>2, <1>8, AfterNone
  <2> QED BY <1>2, <1>4, <1>10, <2>1 DEF UpTo, Before
<1>16. \A z \in Chain : next'[z] # Null
  <2> SUFFICES ASSUME NEW z \in Chain, z # tail PROVE next[z] # Null
    BY <1>3, <1>5 DEF Ordered
  <2>1. z \in W!Nodes /\ (Before(z, tail) \/ Before(tail, z))
    BY <1>1 DEF Ordered
  <2>2. Before(z, tail)
    BY <1>1, <2>1 DEF Ordered
  <2> QED BY <1>1, <2>1, <2>2 DEF Ordered
<1>17. ListInv'
  <2>1. \A z, x \in W!Nodes : Before(z, x) => Before(z, x)'
    BY <1>10 DEF Before
  <2>2. UpTo(head.node, tail)'
    BY <1>1, <2>1 DEF UpTo
  <2>3. \A z \in W!Nodes \ Chain' : next'[z] = Null
    BY <1>1, <1>5, <1>13
  <2>4. next'[next'[tail']] = Null
    BY <1>2, <1>4, <1>5
  <2>5. Linked' \subseteq Items
    BY <1>1, <1>12
  <2>6. W!Nodes' = W!Nodes
    BY DEF W!Nodes
  <2> QED BY <1>1, <1>9, <1>13, <2>2, <2>3, <2>4, <2>5, <2>6 DEF ListInv
<1> QED BY <1>3, <1>5, <1>10, <1>12, <1>13, <1>14, <1>15, <1>16, <1>17

\* The node y of w's enqueue, which is t's or was published, gets linked.
Links(t, w, y) ==
  /\ version' = version /\ head' = head /\ tail' = tail /\ enq_tid' = enq_tid /\ deq_tid' = deq_tid
  /\ state' = state /\ next[tail] = Null /\ next' = [next EXCEPT ![tail] = y] /\ y \notin Linked
  /\ th[w].op = "put" /\ th[w].item = y /\ (w = t \/ th[w].slow)

LEMMA LinkMoves ==
  ASSUME WInv, NEW t \in Threads, NEW s, s = th[t], NEW r \in WLocals, W!Set(t, r), W!Observe(t, W!Held'),
         NEW w \in Threads, NEW y \in Items, Links(t, w, y),
         s.op # "none", r.op = s.op, r.item = s.item, r.slow = s.slow,
         Helping(r) => Helping(s) /\ r.i = s.i /\ r.phase = s.phase
  PROVE  /\ Moves(t) /\ ListInv' /\ ClaimInv' /\ th'[t] = r
         /\ \A u \in Threads : th[u].op = "get" /\ sight[u] => sight'[u]
<1>1. WTypeOK /\ ListInv /\ ClaimInv /\ Ordered /\ PlacesInv
  BY Here
<1>2. /\ version' = version /\ head' = head /\ tail' = tail /\ enq_tid' = enq_tid /\ deq_tid' = deq_tid
      /\ state' = state /\ next[tail] = Null /\ next' = [next EXCEPT ![tail] = y] /\ y \notin Linked
      /\ th[w].op = "put" /\ th[w].item = y /\ (w = t \/ th[w].slow)
  BY DEF Links
<1>3. /\ next' \in [W!Nodes -> Items \cup {Null}] /\ y # Null /\ y \notin Chain
      /\ next'[tail] = y /\ \A z \in W!Nodes \ {tail} : next'[z] = next[z]
      /\ Linked' = Linked \cup {y} /\ Chain' = Chain \cup {y}
      /\ \A z \in W!Nodes : After(Succ', z) = IF UpTo(z, tail) THEN After(Succ, z) \cup {y} ELSE After(Succ, z)
      /\ After(Succ', y) = {}
      /\ \A z \in Chain : next'[z] # Null
      /\ ListInv'
  BY <1>1, <1>2, Grown
<1>4. /\ th' \in [Threads -> WLocals] /\ th'[t] = r /\ Others(t)
      /\ done' = done /\ out' = out /\ older' = older /\ late' = late /\ start' = start
      /\ sight' \in [Threads -> BOOLEAN]
      /\ \A u \in Threads : th'[u].op = th[u].op
      /\ \A u \in Threads : th[u].op = "get" /\ sight[u] => sight'[u]
  BY ONLY <1>1, t \in Threads, r \in WLocals, W!Set(t, r), W!Observe(t, W!Held'), s = th[t], s.op # "none", r.op = s.op, Quieted
<1>5. WTypeOK'
  BY <1>1, <1>2, <1>3, <1>4 DEF WTypeOK, W!Nodes
<1>6. \A z \in W!Nodes : After(Succ, z) \subseteq After(Succ', z)
  BY <1>3
<1>7. ListMoves
  <2>1. \A z \in W!Nodes : next[z] # Null => next'[z] = next[z]
    BY <1>2, <1>3
  <2> QED BY <1>2, <1>3, <1>6, <2>1 DEF ListMoves, Before
<1>8. HeadMoves /\ TailMoves /\ DescMoves(t)
  BY <1>2 DEF HeadMoves, TailMoves, DescMoves
<1>9. NeverClaimable /\ Claimant' = Claimant
  BY <1>2 DEF NeverClaimable, Claimable, Claimant, W!Head, W!kTidNotSet
<1>10. CallMoves(t)
  <2>1. ASSUME NEW v \in Threads \ {t}, th[v].op = "put", ~th[v].slow, th[v].pc # "return"
        PROVE  th[v].item \notin Linked' /\ enq_tid'[th[v].item] = W!kTidNotSet
    <3>1. th[v].item \notin Linked /\ enq_tid[th[v].item] = W!kTidNotSet
      BY <2>1 DEF WInv, ThreadInv, DescInv, DescAt
    <3>2. th[v].item # y
      <4>1. v # w
        BY <1>2, <2>1
      <4> QED BY <1>1, <1>2, <2>1, <4>1 DEF PlacesInv
    <3> QED BY <1>2, <1>3, <3>1, <3>2
  <2> QED BY <1>2, <1>4, <2>1 DEF CallMoves
<1>11. Moves(t)
  BY <1>2, <1>4, <1>5, <1>7, <1>8, <1>9, <1>10 DEF Moves
<1>12. ClaimInv'
  <2>1. Claimant # W!kTidNotSet => Claimant \in Threads
    BY <1>1 DEF WTypeOK, Claimant, W!kTidNotSet, ThreadsOrNone
  <2>2. \A v \in Threads : th'[v].op = th[v].op /\ th'[v].item = th[v].item /\ th'[v].slow = th[v].slow
    BY <1>4 DEF Others
  <2>3. Claimant # W!kTidNotSet =>
          /\ state[Claimant].type = "get" /\ state[Claimant].node = head.node
          /\ th'[Claimant].slow /\ th'[Claimant].op = "get" /\ th'[Claimant].item = Null
    BY <1>1, <2>1, <2>2 DEF ClaimInv, W!kTidNotSet
  <2>4. ASSUME version = "ppopp11"
        PROVE  /\ \A z \in W!Nodes : deq_tid[z] # W!kTidNotSet => z \in Chain' /\ UpTo(z, head.node)'
               /\ \A z \in Chain' : head.node \in After(Succ', z) => deq_tid[z] # W!kTidNotSet
    <3>1. \A z \in W!Nodes : deq_tid[z] # W!kTidNotSet => z \in Chain' /\ UpTo(z, head.node)'
      BY <1>1, <1>2, <1>3, <1>6, <2>4 DEF ClaimInv, UpTo, Before
    <3>2. ASSUME NEW z \in Chain', head.node \in After(Succ', z) PROVE deq_tid[z] # W!kTidNotSet
      <4>1. z \in Chain /\ z \in W!Nodes
        BY <1>1, <1>3, <3>2 DEF Ordered
      <4>2. head.node \in Chain
        BY <1>1 DEF ListInv
      <4>3. Before(z, head.node)
        BY <1>3, <3>2, <4>1, <4>2 DEF Before
      <4> QED BY <1>1, <2>4, <4>1, <4>3 DEF ClaimInv
    <3> QED BY <3>1, <3>2
  <2>5. version = "ppopp11" => head.tid = W!kTidNotSet
    BY <1>1 DEF ClaimInv
  <2>6. W!Nodes' = W!Nodes
    BY DEF W!Nodes
  <2> QED BY <1>2, <1>9, <2>3, <2>4, <2>5, <2>6 DEF ClaimInv, Before, W!kTidNotSet
<1> QED BY <1>3, <1>4, <1>11, <1>12

LEMMA LinkPlaces ==
  ASSUME WInv, NEW t \in Threads, NEW s, s = th[t], NEW r \in WLocals, W!Set(t, r), W!Observe(t, W!Held'),
         NEW w \in Threads, NEW y \in Items, Links(t, w, y), WTypeOK', ListInv',
         s.op # "none", r.op = s.op, r.item = s.item, r.slow = s.slow
  PROVE  PlacesInv' /\ OrderInv'
<1>1. WTypeOK /\ ListInv /\ Ordered /\ PlacesInv /\ OrderInv
  BY Here DEF WInv
<1>2. /\ version' = version /\ head' = head /\ tail' = tail /\ enq_tid' = enq_tid /\ deq_tid' = deq_tid
      /\ state' = state /\ next[tail] = Null /\ next' = [next EXCEPT ![tail] = y] /\ y \notin Linked
      /\ th[w].op = "put" /\ th[w].item = y
  BY DEF Links
<1>3. /\ y \notin Chain /\ \A z \in W!Nodes \ {tail} : next'[z] = next[z]
      /\ Linked' = Linked \cup {y}
      /\ \A z \in W!Nodes : After(Succ', z) = IF UpTo(z, tail) THEN After(Succ, z) \cup {y} ELSE After(Succ, z)
      /\ After(Succ', head.node) = After(Succ, head.node) \cup {y}
  BY <1>1, <1>2, Grown
<1>4. W!Held' = After(Succ', head'.node)
  <2>1. Acyclic(Succ')
    BY DEF ListInv
  <2>2. InList'
    BY <2>1 DEF InList
  <2> QED BY <2>1, <2>2, WHeldIsNext DEF WHeldIsRest
<1>5. /\ th' \in [Threads -> WLocals] /\ th'[t] = r /\ Others(t)
      /\ done' = done /\ out' = out /\ older' = older /\ late' = late /\ start' = start
      /\ W!Held' \cap done = {} => \A u \in Threads : th[u].op = "get" => sight'[u]
  BY ONLY <1>1, t \in Threads, r \in WLocals, W!Set(t, r), W!Observe(t, W!Held'), s = th[t], s.op # "none", r.op = s.op, Quieted
<1>6. \A u \in Threads : th'[u].op = th[u].op /\ th'[u].item = th[u].item /\ th'[u].slow = th[u].slow
  BY <1>5 DEF Others
<1>7. \A u \in Threads : W!InHand(u)' = W!InHand(u)
  BY <1>6 DEF W!InHand
<1>8. W!Hands' = W!Hands
  BY <1>7 DEF W!Hands
<1>9. W!Begun' = W!Begun
  BY <1>5, <1>6 DEF W!Begun
<1>10. ASSUME NEW u \in Threads PROVE Behind(u)' = Behind(u)
  <2>1. ASSUME th[u].op = "get", th[u].slow, ~state[u].pending, state[u].node # Null
        PROVE  next'[state[u].node] = next[state[u].node]
    <3>1. DescAt(u, th[u])
      BY DEF WInv, ThreadInv, DescInv
    <3>2. state[u].node \in W!Nodes /\ Before(state[u].node, tail) /\ tail \in W!Nodes
      BY <1>1, <2>1, <3>1 DEF DescAt, Ordered, WTypeOK
    <3>3. state[u].node # tail
      BY <1>1, <3>2 DEF Ordered
    <3> QED BY <1>3, <3>2, <3>3
  <2> QED BY <1>2, <1>6, <2>1 DEF Behind
<1>11. y \in W!Begun
  BY <1>2 DEF W!Begun
<1>12. PlacesInv'
  <2> DEFINE held == After(Succ, head.node)
             heldNext == After(Succ', head'.node)
  <2>1. heldNext = held \cup {y}
    BY <1>2, <1>3
  <2>2. /\ done \subseteq Linked /\ Linked \subseteq W!Begun
        /\ \A x \in Linked \ held : x \in W!Hands \cup out \/ \E u \in Threads : x \in Behind(u)
        /\ W!Hands \cup out \subseteq Linked /\ held \cap (W!Hands \cup out) = {} /\ W!Hands \cap out = {}
        /\ \A u \in Threads : Behind(u) \cap (W!Hands \cup out) = {}
        /\ \A v, u \in Threads : v # u => W!InHand(v) \cap W!InHand(u) = {} /\ Behind(v) \cap Behind(u) = {}
        /\ \A v, u \in Threads : v # u /\ th[v].op = "put" /\ th[u].op = "put" => th[v].item # th[u].item
        /\ \A x \in Items : enq_tid[x] # W!kTidNotSet => x \in W!Begun
        /\ \A v \in Threads : th[v].op = "put" => th[v].item \notin done
    BY <1>1 DEF PlacesInv
  <2>3. heldNext \cap done = {} => \A v \in Threads : th'[v].op = "get" => sight'[v]
    BY <1>4, <1>5, <1>6
  <2> HIDE DEF held
  <2>4. \A x \in Linked' \ heldNext : x \in W!Hands \cup out \/ \E u \in Threads : x \in Behind(u)
    BY <1>3, <2>1, <2>2
  <2>5. heldNext \cap (W!Hands \cup out) = {} /\ done \subseteq Linked' /\ Linked' \subseteq W!Begun
        /\ W!Hands \cup out \subseteq Linked'
    BY <1>2, <1>3, <1>11, <2>1, <2>2
  <2>6. /\ \A v, u \in Threads : v # u /\ th'[v].op = "put" /\ th'[u].op = "put" => th'[v].item # th'[u].item
        /\ \A v \in Threads : th'[v].op = "put" => th'[v].item \notin done
    BY <1>6, <2>2
  <2> QED BY <1>2, <1>5, <1>7, <1>8, <1>9, <1>10, <2>2, <2>3, <2>4, <2>5, <2>6 DEF PlacesInv, W!kTidNotSet
<1>13. OrderInv'
  <2>1. ASSUME NEW x \in Linked', NEW z \in older[x] PROVE x \in After(Succ', z)
    <3>1. x \in Items /\ z \in Linked
      <4>1. x \in Items
        BY <1>1, <1>3 DEF ListInv
      <4> QED BY <1>1, <4>1 DEF OrderInv, PlacesInv
    <3>2. z \in Chain /\ z \in W!Nodes
      BY <1>1, <3>1 DEF Chain, Ordered
    <3>3. CASE x = y
      <4>1. UpTo(z, tail)
        <5>1. tail \in Chain /\ tail \in W!Nodes
          BY <1>1 DEF ListInv, WTypeOK
        <5>2. z = tail \/ Before(z, tail) \/ Before(tail, z)
          BY <1>1, <3>2, <5>1 DEF Ordered
        <5> QED BY <1>1, <1>2, <3>2, <5>1, <5>2 DEF Ordered, UpTo
      <4> QED BY <1>3, <3>2, <3>3, <4>1
    <3>4. CASE x # y
      <4>1. Before(z, x)
        BY <1>1, <1>3, <3>4 DEF OrderInv
      <4> QED BY <1>3, <3>2, <4>1 DEF Before
    <3> QED BY <3>3, <3>4
  <2> QED BY <1>1, <1>5, <2>1 DEF OrderInv, Before
<1> QED BY <1>12, <1>13

LEMMA PutLinkKept == ASSUME WInv, NEW t \in Threads, W!PutLink(t) PROVE WInv'
<1> PICK s : s = th[t]
  OBVIOUS
<1> PICK u : u = WaitfreeNum[s.i]
  OBVIOUS
<1>1. /\ s.pc = "E_link" /\ WTypeOK /\ ListInv /\ Ordered /\ s \in WLocals /\ ThreadAt(t, s) /\ LinkAt(t, s)
      /\ ControlAt(t, s) /\ DescAt(t, s) /\ HelpAt(t, s) /\ W!Observe(t, W!Held')
      /\ version' = version /\ head' = head /\ tail' = tail /\ enq_tid' = enq_tid /\ deq_tid' = deq_tid
      /\ state' = state /\ next_check' = next_check /\ gets' = gets
  BY Here DEF W!PutLink, W!At, ThreadAt
<1>2. /\ s.then = "idle" /\ s.op # "none" /\ Helping(s) /\ HelpsPut(s) /\ s.slow = TRUE /\ ~Finishing(s) /\ u \in Threads
  <2>1. s.then = "idle" /\ Helping(s) /\ HelpsPut(s) /\ ~Finishing(s) /\ s.op # "none"
    BY <1>1 DEF ControlAt, Helping, HelpsPut, Finishing, PutPcs, EndPutPcs, EndGetPcs
  <2>2. s.slow = TRUE
    BY <1>1, <2>1 DEF ControlAt, WLocals
  <2> QED BY <1>1, <2>1, <2>2, NumType DEF WLocals
<1>3. CASE next[s.tail] # Null
  <2> PICK r : r = W!To(s, "E_pending")
    OBVIOUS
  <2>1. next' = next /\ W!Set(t, r)
    BY <1>3 DEF W!PutLink, W!IsLast
  <2>2. W!Observe(t, W!Held)
    BY <1>1, <2>1, HeldSame
  <2>3. W!Local(t, r)
    BY <1>1, <2>1, <2>2 DEF W!Local, W!shared, W!list
  <2>4. r \in WLocals /\ Same(r, s) /\ r.pc = "E_pending" /\ r.then = "idle"
    <3>1. "E_pending" \in WPcs
      BY DEF WPcs, PutPcs
    <3> QED BY ONLY <1>1, <1>2, <3>1, r = W!To(s, "E_pending"), ToFact DEF Same
  <2> QED BY <1>1, <1>2, <2>3, <2>4, StayPut DEF Stays, LinkAt, PutPcs
<1>4. CASE next[s.tail] = Null
  <2> PICK y : y = s.next
    OBVIOUS
  <2> PICK q : q = W!To(s, "FE_tail")
    OBVIOUS
  <2> PICK r : r = WithThen(q, "helped")
    OBVIOUS
  <2>1. next' = [next EXCEPT ![s.tail] = y] /\ W!Set(t, r)
    BY <1>4 DEF W!PutLink, W!IsLast, WithThen
  <2>2. s.tail = tail
    <3>1. s.tail \in Chain /\ UpTo(s.tail, tail)
      BY <1>1 DEF LinkAt, WasTail
    <3> QED BY <1>1, <1>4, <3>1 DEF UpTo, Ordered, WTypeOK
  <2>3. Pending(s) /\ state[u].node \notin Linked /\ y = state[u].node
    BY <1>1, <1>4 DEF LinkAt
  <2>4. state[u].pending /\ state[u].type = "put"
    BY <1>1, <1>2, <2>3 DEF HelpAt, Pending
  <2>5. th[u].slow /\ th[u].op = "put" /\ y = th[u].item /\ y \in Items
    <3>1. th[u].slow /\ th[u].op = "put"
      BY <1>2, <2>4, PendingOp
    <3>2. DescAt(u, th[u]) /\ ControlAt(u, th[u])
      BY <1>2 DEF WInv, ThreadInv, DescInv, ControlInv
    <3> QED BY <2>3, <3>1, <3>2 DEF DescAt, ControlAt
  <2>6. Links(t, u, y)
    BY <1>1, <1>4, <2>1, <2>2, <2>3, <2>5 DEF Links
  <2>7. "FE_tail" \in WPcs
    BY DEF WPcs, EndPutPcs
  <2>8. q \in WLocals /\ q.pc = "FE_tail" /\ Same(q, s)
    BY ONLY <1>1, <2>7, q = W!To(s, "FE_tail"), ToFact DEF Same
  <2>9. r \in WLocals /\ r.pc = "FE_tail" /\ Same(r, s) /\ r.then = "helped"
    BY ONLY <2>8, r = WithThen(q, "helped"), ThenFact DEF Same
  <2>10. Helping(r) /\ HelpsPut(r) /\ ~Finishing(r)
    BY <2>9 DEF Helping, HelpsPut, Finishing
  <2>11. /\ r.op = s.op /\ r.item = s.item /\ r.slow = s.slow /\ r.i = s.i /\ r.phase = s.phase /\ r.back = s.back
    BY <2>9 DEF Same
  <2>12. /\ Moves(t) /\ ListInv' /\ ClaimInv' /\ th'[t] = r
         /\ \A v \in Threads : th[v].op = "get" /\ sight[v] => sight'[v]
    BY ONLY WInv, t \in Threads, s = th[t], <1>1, <1>2, <2>1, <2>5, <2>6, <2>9, <2>11, LinkMoves
  <2>13. PlacesInv' /\ OrderInv'
    <3>1. WTypeOK'
      BY <2>12 DEF Moves
    <3> QED BY ONLY WInv, t \in Threads, s = th[t], <1>1, <1>2, <2>1, <2>5, <2>6, <2>9, <2>11, <2>12, <3>1, LinkPlaces
  <2>14. /\ next'[tail] = y /\ Linked' = Linked \cup {y} /\ Chain' = Chain \cup {y}
         /\ \A x, z \in W!Nodes : (Before(x, z) => Before(x, z)') /\ (UpTo(x, z) => UpTo(x, z)')
         /\ head.node \in W!Nodes /\ tail \in W!Nodes /\ Chain \subseteq W!Nodes /\ Null \notin Linked
    <3>1. next' = [next EXCEPT ![tail] = y] /\ next[tail] = Null /\ y \notin Linked
      BY <2>6 DEF Links
    <3>2. /\ next'[tail] = y /\ Linked' = Linked \cup {y} /\ Chain' = Chain \cup {y}
          /\ \A z \in W!Nodes : After(Succ, z) \subseteq After(Succ', z)
      BY <1>1, <2>5, <3>1, Grown
    <3>3. head.node \in W!Nodes /\ tail \in W!Nodes /\ Chain \subseteq W!Nodes /\ Null \notin Linked
      BY <1>1, SuccFact DEF WTypeOK, Ordered, Chain
    <3> QED BY <3>2, <3>3 DEF UpTo, Before
  <2>15. ControlAt(t, r)'
    BY <1>1, <1>2, <2>9, <2>10, <2>11 DEF ControlAt, PutPcs, EndPutPcs, GetPcs, EmptyPcs, TakePcs, EndGetPcs, FastPutPcs, FastGetPcs, FastPcs, Helping
  <2>16. DescAt(t, r)'
    <3>1. state[t].pending /\ state[t].type = "put" /\ state[t].node \in Linked' => state[t].node = next'[tail]
      <4>1. state[t].pending /\ state[t].type = "put" => state[t].node \notin Linked
        BY <1>1, <1>4, <2>2, <2>14 DEF DescAt
      <4> QED BY <2>14, <4>1
    <3>2. /\ state[t].type = "get" /\ state[t].node # Null =>
               state[t].node \in Chain' /\ UpTo(state[t].node, head.node)' /\ Before(state[t].node, tail)'
      BY <1>1, <2>14 DEF DescAt
    <3>3. state[t].pending => r.slow /\ state[t].phase # W!kNoPhase /\ ~Finishing(r)
      BY <1>1, <1>2, <2>10, <2>11 DEF DescAt
    <3> QED BY <1>1, <1>2, <2>9, <2>10, <2>11, <2>12, <2>14, <3>1, <3>2, <3>3 DEF DescAt
  <2>17. HelpAt(t, r)'
    <3>1. (Pending(r)' => Pending(s)) /\ WaitfreeNum[r.i] = u
      BY <1>1, <2>11 DEF Pending
    <3>2. \A j \in DOMAIN WaitfreeNum : WaitfreeNum[j] = t /\ j < r.i => ~state[t].pending
      BY <1>1, <1>2, <2>11 DEF HelpAt
    <3>3. u = t /\ state[t].pending => r.item \in Linked'
      BY <2>5, <2>11, <2>14
    <3> QED BY <1>1, <2>4, <2>9, <2>10, <3>1, <3>2, <3>3 DEF HelpAt
  <2>18. PhaseAt(t, r)' /\ LinkAt(t, r)' /\ EndPutAt(t, r)' /\ LookAt(t, r)' /\ GetAt(t, r)' /\ EndGetAt(t, r)'
    BY <2>9 DEF PhaseAt, LinkAt, EndPutAt, LookAt, GetAt, EndGetAt, EndPutPcs, EmptyPcs, TakePcs, EndGetPcs
  <2>19. ThreadInv(t)'
    BY <2>12, <2>15, <2>16, <2>17, <2>18 DEF ThreadInv, ControlInv, DescInv, HelpInv, PhaseInv, PutInv, EndPutInv,
                    LookInv, GetInv, EndGetInv
  <2> QED BY <2>12, <2>13, <2>19, StepKept
<1> QED BY <1>3, <1>4

LEMMA FastPutLinkKept == ASSUME WInv, NEW t \in Threads, W!FastPutLink(t) PROVE WInv'
<1> PICK s : s = th[t]
  OBVIOUS
<1>1. /\ s.pc = "Q_link" /\ WTypeOK /\ ListInv /\ Ordered /\ s \in WLocals /\ LinkAt(t, s)
      /\ ControlAt(t, s) /\ DescAt(t, s) /\ HelpAt(t, s) /\ W!Observe(t, W!Held')
      /\ version' = version /\ head' = head /\ tail' = tail /\ enq_tid' = enq_tid /\ deq_tid' = deq_tid
      /\ state' = state /\ next_check' = next_check /\ gets' = gets
  BY Here DEF W!FastPutLink, W!At, ThreadAt
<1>2. /\ s.then = "idle" /\ s.slow = FALSE /\ s.op # "none" /\ version = "ppopp12" /\ ~Helping(s) /\ ~Finishing(s)
      /\ s.op = "put" /\ s.item \in Items
  <2>1. s.then = "idle" /\ ~s.slow /\ s.op # "none" /\ version = "ppopp12" /\ ~Helping(s) /\ ~Finishing(s)
    BY <1>1, OnFastPath DEF FastPcs, FastPutPcs
  <2>2. s.op = "put" /\ s.item \in Items
    BY <1>1 DEF ControlAt, FastPutPcs
  <2> QED BY <1>1, <2>1, <2>2 DEF WLocals
<1>3. CASE next[s.tail] # Null
  <2>1. next' = next /\ W!Set(t, W!To(s, "fast"))
    BY <1>3 DEF W!FastPutLink, W!IsLast
  <2>2. W!Observe(t, W!Held)
    BY <1>1, <2>1, HeldSame
  <2>3. W!Local(t, W!To(s, "fast"))
    BY <1>1, <2>1, <2>2 DEF W!Local, W!shared, W!list
  <2> QED BY <1>1, <2>3, FastRetry DEF FastPutPcs
<1>4. CASE next[s.tail] = Null
  <2> PICK y : y = s.item
    OBVIOUS
  <2> PICK r : r = W!To(s, "return")
    OBVIOUS
  <2>1. next' = [next EXCEPT ![s.tail] = y] /\ W!Set(t, r)
    BY <1>4 DEF W!FastPutLink, W!IsLast
  <2>2. s.tail = tail
    <3>1. s.tail \in Chain /\ UpTo(s.tail, tail)
      BY <1>1 DEF LinkAt, WasTail
    <3> QED BY <1>1, <1>4, <3>1 DEF UpTo, Ordered, WTypeOK
  <2>3. y \notin Linked /\ y \in Items
    BY <1>1, <1>2 DEF DescAt
  <2>4. Links(t, t, y)
    BY <1>1, <1>2, <1>4, <2>1, <2>2, <2>3 DEF Links
  <2>5. "return" \in WPcs
    BY DEF WPcs
  <2>6. r \in WLocals /\ r.pc = "return" /\ r.op = s.op /\ r.item = s.item /\ r.slow = s.slow /\ r.then = "idle"
    BY ONLY <1>1, <1>2, <2>5, r = W!To(s, "return"), ToFact
  <2>7. ~Helping(r) /\ ~Finishing(r)
    BY <1>2, <2>6 DEF Helping, Finishing, PutPcs, EndPutPcs, GetPcs, EmptyPcs, TakePcs, EndGetPcs, FastPutPcs, FastGetPcs, FastPcs
  <2>8. /\ Moves(t) /\ ListInv' /\ ClaimInv' /\ th'[t] = r
        /\ \A v \in Threads : th[v].op = "get" /\ sight[v] => sight'[v]
    BY ONLY WInv, t \in Threads, s = th[t], <1>1, <1>2, <2>1, <2>3, <2>4, <2>6, <2>7, LinkMoves
  <2>9. PlacesInv' /\ OrderInv'
    <3>1. WTypeOK'
      BY <2>8 DEF Moves
    <3> QED BY ONLY WInv, t \in Threads, s = th[t], <1>1, <1>2, <2>1, <2>3, <2>4, <2>6, <2>8, <3>1, LinkPlaces
  <2>10. /\ next'[tail] = y /\ Linked' = Linked \cup {y} /\ Chain' = Chain \cup {y}
         /\ \A x, z \in W!Nodes : (Before(x, z) => Before(x, z)') /\ (UpTo(x, z) => UpTo(x, z)')
         /\ head.node \in W!Nodes /\ tail \in W!Nodes /\ Chain \subseteq W!Nodes
    <3>1. next' = [next EXCEPT ![tail] = y] /\ next[tail] = Null /\ y \notin Linked
      BY <2>4 DEF Links
    <3>2. /\ next'[tail] = y /\ Linked' = Linked \cup {y} /\ Chain' = Chain \cup {y}
          /\ \A z \in W!Nodes : After(Succ, z) \subseteq After(Succ', z)
      <4>1. /\ next'[tail] = y /\ Linked' = Linked \cup {y} /\ Chain' = Chain \cup {y}
            /\ \A z \in W!Nodes : After(Succ', z) = IF UpTo(z, tail) THEN After(Succ, z) \cup {y}
                                                  ELSE After(Succ, z)
        BY ONLY <1>1, <2>3, <3>1, Grown
      <4> QED BY ONLY <4>1
    <3>3. head.node \in W!Nodes /\ tail \in W!Nodes /\ Chain \subseteq W!Nodes
      BY <1>1 DEF WTypeOK, Ordered
    <3> QED BY <3>2, <3>3 DEF UpTo, Before
  <2>11. ControlAt(t, r)'
    BY <1>1, <1>2, <2>6, <2>7 DEF ControlAt, PutPcs, EndPutPcs, GetPcs, EmptyPcs, TakePcs, EndGetPcs, FastPutPcs, FastGetPcs, FastPcs, Helping
  <2>12. DescAt(t, r)'
    <3>1. ~state[t].pending
      BY <1>1, <1>2 DEF DescAt
    <3>2. /\ state[t].type = "get" /\ state[t].node # Null =>
               state[t].node \in Chain' /\ UpTo(state[t].node, head.node)' /\ Before(state[t].node, tail)'
      BY <1>1, <2>10 DEF DescAt
    <3> QED BY <1>1, <1>2, <2>6, <2>7, <2>8, <2>10, <3>1, <3>2 DEF DescAt
  <2>13. HelpAt(t, r)' /\ PhaseAt(t, r)' /\ LinkAt(t, r)' /\ EndPutAt(t, r)' /\ LookAt(t, r)' /\ GetAt(t, r)' /\ EndGetAt(t, r)'
    BY <2>6, <2>7 DEF HelpAt, Helping, PhaseAt, LinkAt, EndPutAt, LookAt, GetAt, EndGetAt, EndPutPcs, EmptyPcs, TakePcs, EndGetPcs
  <2>14. ThreadInv(t)'
    BY <2>8, <2>11, <2>12, <2>13 DEF ThreadInv, ControlInv, DescInv, HelpInv, PhaseInv, PutInv, EndPutInv,
                    LookInv, GetInv, EndGetInv
  <2> QED BY <2>8, <2>9, <2>14, StepKept
<1> QED BY <1>3, <1>4

LEMMA GetClaimKept == ASSUME WInv, NEW t \in Threads, W!GetClaim(t) PROVE WInv'
<1> PICK s : s = th[t]
  OBVIOUS
<1> PICK w : w = WaitfreeNum[s.i]
  OBVIOUS
<1> PICK x : x = s.head.node
  OBVIOUS
<1> PICK q : q = W!To(s, "FD_head")
  OBVIOUS
<1> PICK r : r = WithThen(q, "D_pending")
  OBVIOUS
<1>1. /\ s.pc = "D_claim" /\ WTypeOK /\ ListInv /\ ClaimInv /\ Ordered /\ s \in WLocals
      /\ ControlAt(t, s) /\ DescAt(t, s) /\ HelpAt(t, s) /\ LookAt(t, s) /\ GetAt(t, s) /\ W!Observe(t, W!Held') /\ W!Set(t, r)
      /\ version' = version /\ tail' = tail /\ next' = next /\ enq_tid' = enq_tid
      /\ state' = state /\ next_check' = next_check /\ gets' = gets
      /\ deq_tid' = IF version = "ppopp11" /\ W!Unclaimed(t) THEN [deq_tid EXCEPT ![x] = w] ELSE deq_tid
      /\ head' = IF version = "ppopp12" /\ W!Unclaimed(t) THEN W!Head(x, w) ELSE head
  BY Here DEF W!GetClaim, W!At, ThreadAt, WithThen
<1>2. /\ s.then = "idle" /\ s.op # "none" /\ Helping(s) /\ ~HelpsPut(s) /\ ~Finishing(s) /\ w \in Threads /\ w # W!kTidNotSet
  BY <1>1, NumType, StrictQueuesAssumption
     DEF ControlAt, Helping, HelpsPut, Finishing, PutPcs, EndPutPcs, EndGetPcs, GetPcs, TakePcs, WLocals, W!kTidNotSet
<1>3. "FD_head" \in WPcs
  BY DEF WPcs, EndGetPcs
<1>4. q \in WLocals /\ q.pc = "FD_head" /\ Same(q, s)
  BY ONLY <1>1, <1>3, q = W!To(s, "FD_head"), ToFact DEF Same
<1>5. r \in WLocals /\ r.pc = "FD_head" /\ Same(r, s) /\ r.then = "D_pending"
  BY ONLY <1>4, r = WithThen(q, "D_pending"), ThenFact DEF Same
<1>6. Helping(r) /\ ~HelpsPut(r) /\ ~Finishing(r)
  BY <1>5 DEF Helping, HelpsPut, Finishing, PutPcs
<1>7. /\ r.op = s.op /\ r.item = s.item /\ r.slow = s.slow /\ r.i = s.i /\ r.phase = s.phase /\ r.back = s.back
  BY <1>5 DEF Same
<1>8. ControlAt(t, r)
  BY <1>1, <1>2, <1>5, <1>6, <1>7 DEF ControlAt, PutPcs, EndPutPcs, GetPcs, EmptyPcs, TakePcs, EndGetPcs, FastPutPcs, FastGetPcs, FastPcs
<1>9. CASE ~W!Unclaimed(t)
  <2>1. deq_tid' = deq_tid /\ head' = head
    BY <1>1, <1>9
  <2>2. W!Observe(t, W!Held)
    BY <1>1, <2>1, HeldSame
  <2>3. W!Local(t, r)
    BY <1>1, <2>1, <2>2 DEF W!Local, W!shared, W!list
  <2> QED BY <1>1, <1>2, <1>5, <1>6, <1>8, <2>3, Restart
<1>10. CASE W!Unclaimed(t)
  <2>1. /\ WasHead(s.head) /\ x \in Chain /\ x \in W!Nodes /\ (Claimable(x) => state[w].pending /\ state[w].type = "get" /\ state[w].node = x)
    BY <1>1 DEF LookAt, GetAt, TakePcs, WasHead, Ordered
  <2>2. /\ Claimable(x)
        /\ version = "ppopp11" => deq_tid[x] = W!kTidNotSet
        /\ version # "ppopp11" => head = W!Head(x, W!kTidNotSet)
    BY <1>10 DEF W!Unclaimed, Claimable
  <2>3. version \in {"ppopp11", "ppopp12"}
    BY <1>1, StrictQueuesAssumption DEF WTypeOK
  <2>4. x = head.node /\ Claimant = W!kTidNotSet
    <3>1. CASE version = "ppopp11"
      <4>1. x = head.node \/ Before(x, head.node)
        BY <2>1 DEF WasHead, HeadNewer
      <4>2. ~Before(x, head.node)
        BY <1>1, <2>1, <2>2, <3>1 DEF ClaimInv
      <4> QED BY <2>2, <3>1, <4>1, <4>2 DEF Claimant
    <3>2. CASE version # "ppopp11"
      BY <2>2, <3>2 DEF Claimant, W!Head
    <3> QED BY <3>1, <3>2
  <2>5. /\ head' \in [node : W!Nodes, tid : ThreadsOrNone] /\ head'.node = head.node
        /\ deq_tid' \in [W!Nodes -> ThreadsOrNone] /\ tail' \in W!Nodes
        /\ version = "ppopp11" => head' = head /\ deq_tid' = [deq_tid EXCEPT ![x] = w]
        /\ version # "ppopp11" => head'.tid = w /\ deq_tid' = deq_tid
    BY <1>1, <1>2, <1>10, <2>1, <2>3, <2>4 DEF WTypeOK, W!Head, ThreadsOrNone
  <2>6. Claimant' = w
    BY <1>1, <2>1, <2>4, <2>5 DEF Claimant, WTypeOK
  <2>7. state[w].pending /\ state[w].type = "get" /\ state[w].node = head.node
    BY <2>1, <2>2, <2>4
  <2>8. th[w].slow /\ th[w].op = "get" /\ th[w].item = Null
    <3>1. th[w].slow /\ th[w].op = "get" /\ ~Finishing(th[w])
      BY <1>2, <2>7, PendingOp
    <3>2. ControlAt(w, th[w])
      BY <1>2 DEF WInv, ThreadInv, ControlInv
    <3> QED BY <3>1, <3>2 DEF ControlAt, Finishing
  <2>9. /\ WTypeOK' /\ Others(t) /\ DescMoves(t) /\ CallMoves(t) /\ th'[t] = r
        /\ \A u \in Threads : th[u].op = "get" /\ sight[u] => sight'[u]
        /\ Succ' = Succ /\ Linked' = Linked /\ Chain' = Chain
        /\ \A y, z : (Before(y, z)' <=> Before(y, z)) /\ (UpTo(y, z)' <=> UpTo(y, z))
    BY ONLY WInv, t \in Threads, s = th[t], <1>1, <1>2, <1>5, <1>6, <1>7, <2>5, QuietMoves
  <2>10. \A z \in W!Nodes : deq_tid[z] # W!kTidNotSet => deq_tid'[z] = deq_tid[z]
    BY <1>1, <2>2, <2>3, <2>5 DEF WTypeOK
  <2>11. ListMoves /\ TailMoves
    BY <1>1, <2>9, <2>10 DEF ListMoves, Before, TailMoves
  <2>12. HeadMoves
    BY <1>2, <2>2, <2>3, <2>5 DEF HeadMoves, W!Head
  <2>13. NeverClaimable
    <3> SUFFICES ASSUME NEW z \in W!Nodes, UpTo(z, head.node), Claimable(z)' PROVE Claimable(z)
      BY DEF NeverClaimable
    <3>1. CASE version = "ppopp11"
      <4>1. deq_tid'[z] = W!kTidNotSet
        BY <1>1, <3>1 DEF Claimable, W!kTidNotSet
      <4> QED BY <1>1, <2>5, <3>1, <4>1, <2>10, <1>2 DEF Claimable, WTypeOK
    <3>2. CASE version # "ppopp11"
      <4>1. head' = W!Head(z, W!kTidNotSet)
        BY <1>1, <3>2 DEF Claimable, W!Head, W!kTidNotSet
      <4> QED BY <1>2, <2>5, <3>2, <4>1 DEF W!Head
    <3> QED BY <3>1, <3>2
  <2>14. Moves(t)
    BY <1>1, <2>9, <2>11, <2>12, <2>13 DEF Moves
  <2>15. ListInv'
    BY <1>1, <2>5, <2>9 DEF ListInv, W!Nodes
  <2>16. PlacesInv' /\ OrderInv'
    <3>1. After(Succ, head'.node) = After(Succ, head.node)
      BY <2>5
    <3> QED BY ONLY WInv, t \in Threads, s = th[t], <1>1, <1>2, <1>5, <1>7, <2>9, <3>1, PlacesKept
  <2>17. ClaimInv'
    <3>1. th'[w].slow /\ th'[w].op = "get" /\ th'[w].item = Null
      BY <1>2, <1>7, <2>8, <2>9 DEF Others
    <3>2. ASSUME version = "ppopp11"
          PROVE  /\ head'.tid = W!kTidNotSet
                 /\ \A z \in W!Nodes : deq_tid'[z] # W!kTidNotSet => z \in Chain /\ UpTo(z, head.node)
                 /\ \A z \in Chain : Before(z, head.node) => deq_tid'[z] # W!kTidNotSet
      <4>1. head'.tid = W!kTidNotSet
        BY <1>1, <2>5, <3>2 DEF ClaimInv
      <4>2. \A z \in W!Nodes : deq_tid'[z] # W!kTidNotSet => z \in Chain /\ UpTo(z, head.node)
        BY <1>1, <2>1, <2>4, <2>5, <3>2 DEF ClaimInv, UpTo, WTypeOK
      <4>3. \A z \in Chain : Before(z, head.node) => deq_tid'[z] # W!kTidNotSet
        BY <1>1, <2>10, <3>2 DEF ClaimInv, Ordered
      <4> QED BY <4>1, <4>2, <4>3
    <3>3. W!Nodes' = W!Nodes
      BY DEF W!Nodes
    <3>4. \A v : v = Claimant' => /\ state'[v].type = "get" /\ state'[v].node = head'.node
                                  /\ th'[v].slow /\ th'[v].op = "get" /\ th'[v].item = Null
      BY <1>1, <2>5, <2>6, <2>7, <3>1
    <3> QED BY <1>1, <2>5, <2>9, <3>2, <3>3, <3>4 DEF ClaimInv, W!kTidNotSet
  <2>18. DescAt(t, r)'
    <3>1. r.slow /\ r.op = "get" /\ ~state[t].pending /\ state[t].node # Null =>
            IF version = "ppopp11" THEN deq_tid'[state[t].node] = t ELSE (state[t].node = head'.node => head'.tid = t)
      <4> SUFFICES ASSUME r.slow, r.op = "get", ~state[t].pending, state[t].node # Null
                   PROVE IF version = "ppopp11" THEN deq_tid'[state[t].node] = t
                         ELSE (state[t].node = head'.node => head'.tid = t)
        OBVIOUS
      <4>1. /\ IF version = "ppopp11" THEN deq_tid[state[t].node] = t
               ELSE (state[t].node = head.node => head.tid = t)
            /\ state[t].node \in W!Nodes /\ t # W!kTidNotSet
        BY <1>1, <1>7, StrictQueuesAssumption DEF DescAt, Ordered, W!kTidNotSet
      <4> QED BY <2>2, <2>5, <2>10, <4>1 DEF W!Head
    <3>2. DescAt(t, s)
      BY <1>1
    <3> QED BY <1>1, <1>2, <1>5, <1>6, <1>7, <2>5, <2>9, <3>1, <3>2 DEF DescAt, W!kTidNotSet
  <2>19. HelpAt(t, r)'
    BY <1>1, <1>2, <1>5, <1>6, <1>7 DEF HelpAt, Pending
  <2>20. PhaseAt(t, r)' /\ LinkAt(t, r)' /\ EndPutAt(t, r)' /\ LookAt(t, r)' /\ GetAt(t, r)' /\ EndGetAt(t, r)'
    BY <1>5 DEF PhaseAt, LinkAt, EndPutAt, LookAt, GetAt, EndGetAt, EndPutPcs, EmptyPcs, TakePcs, EndGetPcs
  <2>21. ControlAt(t, r)'
    BY <1>1, <1>8 DEF ControlAt, Helping, W!Idle
  <2>22. ThreadInv(t)'
    BY <2>9, <2>18, <2>19, <2>20, <2>21 DEF ThreadInv, ControlInv, DescInv, HelpInv, PhaseInv, PutInv, EndPutInv,
                    LookInv, GetInv, EndGetInv
  <2> QED BY <2>14, <2>15, <2>16, <2>17, <2>22, StepKept
<1> QED BY <1>9, <1>10
-----------------------------------------------------------------------------
\* A dequeue fetches its item.

LEMMA ResultKept == ASSUME WInv, NEW t \in Threads, W!Result(t) PROVE WInv'
<1> PICK s : s = th[t]
  OBVIOUS
<1> PICK x : x = IF state[t].node = Null THEN Null ELSE next[state[t].node]
  OBVIOUS
<1> PICK q : q = W!To(s, "return")
  OBVIOUS
<1> PICK r : r = [q EXCEPT !.item = x, !.then = "idle"]
  OBVIOUS
<1>1. /\ s.pc = "result" /\ WTypeOK /\ ListInv /\ ClaimInv /\ PlacesInv /\ Ordered /\ s \in WLocals
      /\ ControlAt(t, s) /\ DescAt(t, s) /\ EndGetAt(t, s) /\ W!Local(t, r)
  BY Here DEF W!Result, W!Read, W!At, ThreadAt
<1>2. /\ W!Set(t, r) /\ version' = version /\ UNCHANGED W!list /\ W!Observe(t, W!Held)
      /\ head' = head /\ tail' = tail /\ next' = next /\ enq_tid' = enq_tid /\ deq_tid' = deq_tid /\ state' = state
  BY <1>1 DEF W!Local, W!shared, W!list
<1>3. /\ s.slow = TRUE /\ s.op = "get" /\ s.item = Null /\ Finishing(s) /\ ~state[t].pending /\ state[t].type = "get"
      /\ state[t].node # Null => head.node # state[t].node
  BY <1>1 DEF ControlAt, DescAt, Finishing, EndGetAt, WLocals
<1>4. /\ state[t].node = Null => x = Null /\ sight[t]
      /\ state[t].node # Null => x \in Items /\ x \in Linked /\ x = next[state[t].node] /\ x # Null
  <2>1. state[t].node = Null => x = Null /\ sight[t]
    BY <1>1, <1>3 DEF DescAt
  <2>2. ASSUME state[t].node # Null PROVE x \in Linked /\ x = next[state[t].node] /\ x # Null
    <3>1. state[t].node \in Chain /\ Before(state[t].node, tail) /\ x = next[state[t].node]
      BY <1>1, <1>3, <2>2 DEF DescAt
    <3>2. state[t].node \in W!Nodes /\ tail \in W!Nodes
      BY <1>1, <3>1 DEF Ordered, WTypeOK
    <3>3. x # Null /\ x \in W!Nodes /\ Before(state[t].node, x)
      BY <1>1, <3>1, <3>2 DEF Ordered
    <3> QED BY <1>1, <3>1, <3>3 DEF Ordered
  <2> QED BY <1>1, <2>1, <2>2 DEF ListInv
<1>5. q \in WLocals /\ q.pc = "return" /\ q.op = s.op /\ q.slow = s.slow
  <2>1. "return" \in WPcs
    BY DEF WPcs
  <2> QED BY ONLY <1>1, <2>1, q = W!To(s, "return"), ToFact
<1>6. r \in WLocals /\ r.pc = "return" /\ r.op = "get" /\ r.slow = TRUE /\ r.item = x /\ r.then = "idle"
  <2>1. x \in Items \cup {Null}
    BY <1>4
  <2> QED BY ONLY <1>3, <1>5, <2>1, r = [q EXCEPT !.item = x, !.then = "idle"] DEF WLocals
<1>7. ~Helping(r) /\ Finishing(r)
  BY <1>6 DEF Helping, Finishing, PutPcs, EndPutPcs, GetPcs, EmptyPcs, TakePcs, EndGetPcs, FastPutPcs, FastGetPcs, FastPcs
<1>8. Moves(t)
  BY ONLY WInv, t \in Threads, s = th[t], <1>2, <1>3, <1>6, <1>7, LocalMoves
<1>9. /\ th' \in [Threads -> WLocals] /\ th'[t] = r /\ Others(t)
      /\ done' = done /\ out' = out /\ older' = older /\ late' = late /\ start' = start
      /\ W!Held \cap done = {} => \A u \in Threads : th[u].op = "get" => sight'[u]
  BY ONLY <1>1, t \in Threads, s = th[t], <1>2, <1>3, <1>6, Quieted
<1>10. ThreadInv(t)'
  <2>1. ControlAt(t, r)
    BY <1>1, <1>3, <1>6, <1>7 DEF ControlAt, PutPcs, EndPutPcs, GetPcs, EmptyPcs, TakePcs, EndGetPcs, FastPutPcs, FastGetPcs, FastPcs
  <2>2. DescAt(t, r)
    BY <1>1, <1>3, <1>4, <1>6, <1>7 DEF DescAt
  <2>3. HelpAt(t, r) /\ PhaseAt(t, r) /\ LinkAt(t, r) /\ EndPutAt(t, r) /\ LookAt(t, r) /\ GetAt(t, r) /\ EndGetAt(t, r)
    BY <1>6, <1>7 DEF HelpAt, Helping, PhaseAt, LinkAt, EndPutAt, LookAt, GetAt, EndGetAt, EndPutPcs, EmptyPcs, TakePcs, EndGetPcs
  <2>4. ThreadAt(t, r)
    BY <2>1, <2>2, <2>3 DEF ThreadAt
  <2>5. r.op # "none" /\ r.op = th[t].op
    BY <1>3, <1>6
  <2> QED BY ONLY WInv, t \in Threads, <1>2, <1>6, <1>8, <1>9, <2>4, <2>5, LocalThread
<1>11. /\ Succ' = Succ /\ Linked' = Linked /\ Chain' = Chain /\ Claimant' = Claimant
       /\ \A y, z : (Before(y, z)' <=> Before(y, z)) /\ (UpTo(y, z)' <=> UpTo(y, z))
  BY <1>2, SameList
<1>12. ListInv'
  BY <1>1, <1>2, <1>11 DEF ListInv, Acyclic, W!Nodes
<1>13. Claimant # t
  <2>1. head.node # Null /\ t # W!kTidNotSet
    BY <1>1, SuccFact, StrictQueuesAssumption DEF WTypeOK, W!kTidNotSet
  <2> QED BY <1>1, <1>3, <2>1 DEF ClaimInv
<1>14. ClaimInv'
  <2>1. Claimant # W!kTidNotSet => Claimant \in Threads \ {t}
    BY <1>1, <1>13 DEF WTypeOK, Claimant, W!kTidNotSet, ThreadsOrNone
  <2>2. \A v \in Threads \ {t} : th'[v] = th[v]
    BY <1>9 DEF Others
  <2>3. \A v \in Threads \ {t} : v = Claimant => /\ state[v].type = "get" /\ state[v].node = head.node
                                                 /\ th'[v].slow /\ th'[v].op = "get" /\ th'[v].item = Null
    BY <1>1, <2>1, <2>2, StrictQueuesAssumption DEF ClaimInv, W!kTidNotSet
  <2> QED BY <1>1, <1>2, <1>11, <2>1, <2>3 DEF ClaimInv, W!Nodes, W!kTidNotSet
<1>15. Behind(t) = (IF x = Null THEN {} ELSE {x}) /\ Behind(t)' = {} /\ \A v \in Threads \ {t} : Behind(v)' = Behind(v)
  <2>1. Behind(t) = IF x = Null THEN {} ELSE {x}
    BY <1>3, <1>4 DEF Behind
  <2>2. Behind(t)' = {}
    BY <1>2, <1>4, <1>6, <1>9 DEF Behind
  <2> QED BY <1>2, <1>9, <2>1, <2>2 DEF Behind, Others
<1>16. W!InHand(t) = {} /\ W!InHand(t)' = (IF x = Null THEN {} ELSE {x}) /\ \A v \in Threads \ {t} : W!InHand(v)' = W!InHand(v)
  BY <1>3, <1>6, <1>9 DEF W!InHand, Others
<1>17. W!Hands' = W!Hands \cup Behind(t)
  BY <1>15, <1>16 DEF W!Hands
<1>18. W!Begun' = W!Begun
  <2>1. \A v \in Threads : th'[v].op = "put" <=> th[v].op = "put"
    BY <1>3, <1>6, <1>9 DEF Others
  <2>2. \A v \in Threads : th[v].op = "put" => th'[v].item = th[v].item
    BY <1>3, <1>9 DEF Others
  <2> QED BY <1>9, <2>1, <2>2 DEF W!Begun
<1>19. PlacesInv'
  <2> DEFINE held == After(Succ, head.node)
  <2>1. W!Held = held
    BY <1>1, WHeldIs DEF ListInv
  <2>2. /\ done \subseteq Linked /\ Linked \subseteq W!Begun
        /\ \A y \in Linked \ held : y \in W!Hands \cup out \/ \E u \in Threads : y \in Behind(u)
        /\ W!Hands \cup out \subseteq Linked /\ held \cap (W!Hands \cup out) = {} /\ W!Hands \cap out = {}
        /\ \A u \in Threads : Behind(u) \cap (W!Hands \cup out) = {}
        /\ \A v, u \in Threads : v # u => W!InHand(v) \cap W!InHand(u) = {} /\ Behind(v) \cap Behind(u) = {}
        /\ \A v, u \in Threads : v # u /\ th[v].op = "put" /\ th[u].op = "put" => th[v].item # th[u].item
        /\ \A y \in Items : enq_tid[y] # W!kTidNotSet => y \in W!Begun
        /\ \A v \in Threads : th[v].op = "put" => th[v].item \notin done
    BY <1>1 DEF PlacesInv
  <2>3. Behind(t) \cap held = {}
    BY <1>13, BehindIsGone
  <2>4. Behind(t) \subseteq Linked
    BY <1>4, <1>15
  <2>5. held \cap done = {} => \A v \in Threads : th'[v].op = "get" => sight'[v]
    BY <1>3, <1>6, <1>9, <2>1 DEF Others
  <2>6. /\ \A v, u \in Threads : v # u /\ th'[v].op = "put" /\ th'[u].op = "put" => th'[v].item # th'[u].item
        /\ \A v \in Threads : th'[v].op = "put" => th'[v].item \notin done
    <3>1. \A v \in Threads : th'[v].op = "put" => th'[v] = th[v]
      BY <1>6, <1>9 DEF Others
    <3> QED BY ONLY <2>2, <3>1
  <2> HIDE DEF held
  <2>7. \A v, u \in Threads : v # u => W!InHand(v)' \cap W!InHand(u)' = {} /\ Behind(v)' \cap Behind(u)' = {}
    <3>1. \A v \in Threads : W!InHand(v) \subseteq W!Hands
      BY DEF W!Hands
    <3>2. W!InHand(t)' = Behind(t)
      BY <1>15, <1>16
    <3> QED BY <1>15, <1>16, <2>2, <3>1, <3>2
  <2>8. /\ \A y \in Linked \ held : y \in W!Hands' \cup out \/ \E u \in Threads : y \in Behind(u)'
        /\ W!Hands' \cup out \subseteq Linked /\ held \cap (W!Hands' \cup out) = {} /\ W!Hands' \cap out = {}
    BY <1>15, <1>17, <2>2, <2>3, <2>4
  <2>9. \A u \in Threads : Behind(u)' \cap (W!Hands' \cup out) = {}
    BY <1>15, <1>17, <2>2
  <2> QED BY <1>2, <1>9, <1>11, <1>18, <2>2, <2>5, <2>6, <2>7, <2>8, <2>9 DEF PlacesInv, held, W!kTidNotSet
<1>20. OrderInv'
  BY <1>9, <1>11 DEF WInv, OrderInv
<1> QED BY <1>8, <1>10, <1>12, <1>14, <1>19, <1>20, StepKept

\* Where a call begins or returns.
LEMMA IdleFact ==
  /\ W!Idle \in WLocals /\ W!Idle.pc = "idle" /\ W!Idle.op = "none" /\ W!Idle.item = Null /\ W!Idle.slow = FALSE
  /\ W!Idle.phase = W!kNoPhase /\ W!Idle.i = 0 /\ W!Idle.then = "idle" /\ W!Idle.back = "idle"
  /\ ~Helping(W!Idle) /\ ~Finishing(W!Idle)
<1>1. /\ "idle" \in WPcs /\ 0 \in DOMAIN WaitfreeNum
      /\ W!Head(Null, Null) \in Heads /\ W!NoDescriptor \in Descriptors
  BY StrictQueuesAssumption DEF WPcs, Heads, NodesOrNone, ThreadsOrNone, Descriptors, W!NoDescriptor, W!Descriptor, W!Head
<1> HIDE DEF W!Head, W!NoDescriptor
<1>2. W!Idle \in WLocals
  BY <1>1 DEF W!Idle, WLocals, NodesOrNone, ThreadsOrNone, W!kNoPhase
<1>3. ~Helping(W!Idle) /\ ~Finishing(W!Idle)
  BY DEF W!Idle, Helping, Finishing, PutPcs, EndPutPcs, GetPcs, EmptyPcs, TakePcs, EndGetPcs
<1> QED BY <1>2, <1>3 DEF W!Idle


LEMMA ReturnFact ==
  ASSUME WInv, NEW t \in Threads, W!Return(t), NEW s, s = th[t]
  PROVE  /\ s.pc = "return" /\ s \in WLocals /\ ~state[t].pending /\ s.op \in {"put", "get"}
         /\ version' = version /\ head' = head /\ tail' = tail /\ next' = next /\ enq_tid' = enq_tid
         /\ deq_tid' = deq_tid /\ state' = state
         /\ th' \in [Threads -> WLocals] /\ th'[t] = W!Idle /\ Others(t)
         /\ done' = IF s.op = "put" THEN done \cup {s.item} ELSE done
         /\ out' = IF s.op = "get" /\ s.item # Null THEN out \cup {s.item} ELSE out
         /\ older' = older
         /\ start' = [start EXCEPT ![t] = W!NoMemo]
         /\ sight' \in [Threads -> BOOLEAN]
         /\ \A u \in Threads \ {t} : th[u].op = "get" =>
              sight'[u] <=> sight[u] \/ W!Held \cap done' = {}
         /\ late' = IF s.op = "get" /\ s.item # Null /\ W!Strict THEN late \cup (W!First(t, s.item) \cap W!Held) ELSE late
<1>1. /\ s.pc = "return" /\ s \in WLocals /\ WTypeOK /\ W!Local(t, W!Idle)
      /\ ControlAt(t, s) /\ DescAt(t, s)
  BY DEF W!Return, W!Read, W!At, WInv, WTypeOK, ThreadInv, ControlInv, DescInv
<1>2. s.op # "none" /\ (s.op = "put" => s.item \in Items)
  BY <1>1 DEF ControlAt
<1>3. s.op \in {"put", "get"} /\ ~state[t].pending
  BY <1>1, <1>2 DEF WLocals, DescAt, Finishing
<1>4. th' = [th EXCEPT ![t] = W!Idle] /\ UNCHANGED W!shared /\ W!Observe(t, W!Held)
  BY <1>1 DEF W!Local, W!Set
<1>5. th' \in [Threads -> WLocals] /\ th'[t] = W!Idle /\ Others(t)
  BY <1>1, <1>4, IdleFact DEF WTypeOK, Others
<1>6. s.item # Null \/ s.op # "put"
  BY <1>2, CallHistoryAssumption
<1>7. th[t].op # "none" /\ th'[t].op = "none"
  BY <1>2, <1>5, IdleFact
<1>8. /\ done' = IF s.op = "put" THEN done \cup {s.item} ELSE done
      /\ out' = IF s.op = "get" /\ s.item # Null THEN out \cup {s.item} ELSE out
      /\ older' = older
      /\ start' = [start EXCEPT ![t] = W!NoMemo]
      /\ late' = IF s.op = "get" /\ s.item # Null /\ W!Strict THEN late \cup (W!First(t, s.item) \cap W!Held) ELSE late
  BY <1>4, <1>6, <1>7 DEF W!Observe
<1>9. sight' = [u \in Threads |-> th'[u].op = "get" /\ (sight[u] \/ done' \cap W!Held = {})]
  BY <1>4 DEF W!Observe
<1>10. \A u \in Threads : sight'[u] \in BOOLEAN /\ (sight'[u] <=> th'[u].op = "get" /\ (sight[u] \/ done' \cap W!Held = {}))
  <2> TAKE u \in Threads
  <2>1. sight[u] \in BOOLEAN
    BY <1>1 DEF WTypeOK
  <2> QED BY <1>9, <2>1
<1>11. \A u \in Threads \ {t} : th[u].op = "get" => (sight'[u] <=> sight[u] \/ W!Held \cap done' = {})
  BY <1>5, <1>10 DEF Others
<1>12. sight' \in [Threads -> BOOLEAN]
  BY <1>9, <1>10
<1> QED BY <1>1, <1>3, <1>4, <1>5, <1>8, <1>11, <1>12 DEF W!shared, W!list

LEMMA CallMovesOn ==
  ASSUME WInv, WTypeOK', NEW t \in Threads, Others(t), version' = version, UNCHANGED W!list,
         ~Helping(th'[t]), ~state[t].pending, th'[t].op = "none" \/ th[t].op = "none",
         \A u \in Threads \ {t} : th[u].op = "get" /\ sight[u] => sight'[u]
  PROVE  Moves(t) /\ ListInv'
<1>1. /\ head' = head /\ tail' = tail /\ next' = next /\ enq_tid' = enq_tid /\ deq_tid' = deq_tid
      /\ state' = state
  BY DEF W!list
<1>2. /\ Succ' = Succ /\ Linked' = Linked /\ Chain' = Chain
      /\ \A x : Claimable(x)' <=> Claimable(x)
      /\ \A x, y : (Before(x, y)' <=> Before(x, y)) /\ (UpTo(x, y)' <=> UpTo(x, y))
  BY SameList
<1>3. ListMoves
  BY <1>1, <1>2 DEF ListMoves, Before
<1>4. HeadMoves /\ TailMoves /\ NeverClaimable /\ DescMoves(t)
  BY <1>1, <1>2 DEF HeadMoves, TailMoves, NeverClaimable, DescMoves
<1>5. CallMoves(t)
  <2>1. ASSUME NEW v \in Threads \ {t}, th[v].op = "put", ~th[v].slow, th[v].pc # "return"
        PROVE  th[v].item \notin Linked' /\ enq_tid'[th[v].item] = W!kTidNotSet
    BY <1>1, <1>2, <2>1 DEF WInv, ThreadInv, DescInv, DescAt
  <2>2. \A u \in Threads : state[u].pending => th'[u].op = th[u].op
    BY DEF Others
  <2>3. \A u \in Threads : th[u].op = "get" /\ th'[u].op = "get" /\ sight[u] => sight'[u]
    OBVIOUS
  <2> QED BY <2>1, <2>2, <2>3 DEF CallMoves
<1>6. ListInv'
  BY <1>1, <1>2 DEF WInv, ListInv, Acyclic, W!Nodes
<1> QED BY <1>3, <1>4, <1>5, <1>6 DEF Moves

LEMMA CallThread ==
  ASSUME WInv, NEW t \in Threads, Moves(t), UNCHANGED W!list, NEW r \in WLocals, th'[t] = r,
         ~Helping(r), ~Finishing(r), r.slow = FALSE, r.then = "idle", r.pc \in {"idle", "max", "check"},
         r.i = 0, ~state[t].pending, ControlAt(t, r),
         r.op = "put" => r.item \notin Linked /\ enq_tid[r.item] = W!kTidNotSet
  PROVE  ThreadInv(t)'
<1>1. /\ head' = head /\ tail' = tail /\ next' = next /\ enq_tid' = enq_tid /\ deq_tid' = deq_tid
      /\ state' = state /\ version' = version
  BY DEF W!list, Moves
<1>2. /\ Linked' = Linked /\ Chain' = Chain
      /\ \A x, y : (Before(x, y)' <=> Before(x, y)) /\ (UpTo(x, y)' <=> UpTo(x, y))
  BY <1>1, SameList
<1>3. ControlAt(t, r)'
  BY <1>1 DEF ControlAt, Helping, W!Idle
<1>4. DescAt(t, r)'
  <2>1. DescAt(t, th[t])
    BY DEF WInv, ThreadInv, DescInv
  <2> QED BY <1>1, <1>2, <2>1 DEF DescAt, W!kTidNotSet
<1>5. HelpAt(t, r)'
  BY DEF HelpAt
<1>6. PhaseAt(t, r)'
  <2>1. \A j \in DOMAIN WaitfreeNum : ~(j < 0)
    BY NumCount
  <2> QED BY <2>1 DEF PhaseAt
<1>7. LinkAt(t, r)' /\ EndPutAt(t, r)' /\ LookAt(t, r)' /\ GetAt(t, r)' /\ EndGetAt(t, r)'
  BY DEF LinkAt, EndPutAt, LookAt, GetAt, EndGetAt, EndPutPcs, EmptyPcs, TakePcs, EndGetPcs
<1> QED BY <1>3, <1>4, <1>5, <1>6, <1>7 DEF ThreadInv, ControlInv, DescInv, HelpInv, PhaseInv, PutInv, EndPutInv, LookInv, GetInv, EndGetInv

LEMMA CallClaim ==
  ASSUME WInv, NEW t \in Threads, Others(t), version' = version, UNCHANGED W!list, Claimant # t
  PROVE  ClaimInv'
<1>1. /\ head' = head /\ tail' = tail /\ next' = next /\ enq_tid' = enq_tid /\ deq_tid' = deq_tid
      /\ state' = state
  BY DEF W!list
<1>2. /\ Chain' = Chain /\ Claimant' = Claimant
      /\ \A x, y : (Before(x, y)' <=> Before(x, y)) /\ (UpTo(x, y)' <=> UpTo(x, y))
  BY SameList
<1>3. ClaimInv /\ WTypeOK
  BY DEF WInv
<1>4. Claimant # W!kTidNotSet => Claimant \in Threads \ {t}
  BY <1>3 DEF WTypeOK, Claimant, W!kTidNotSet, ThreadsOrNone
<1>5. \A v \in Threads \ {t} : th'[v] = th[v]
  BY DEF Others
<1>6. \A v \in Threads \ {t} : v = Claimant => /\ state[v].type = "get" /\ state[v].node = head.node
                                               /\ th'[v].slow /\ th'[v].op = "get" /\ th'[v].item = Null
  BY <1>3, <1>4, <1>5, StrictQueuesAssumption DEF ClaimInv, W!kTidNotSet
<1> QED BY <1>1, <1>2, <1>3, <1>4, <1>6 DEF ClaimInv, W!Nodes, W!kTidNotSet

LEMMA ReturnKept == ASSUME WInv, NEW t \in Threads, W!Return(t) PROVE WInv'
<1> PICK s : s = th[t]
  OBVIOUS
<1> PICK x : x = s.item
  OBVIOUS
<1>1. /\ WTypeOK /\ ListInv /\ ClaimInv /\ PlacesInv /\ OrderInv /\ Ordered /\ ControlAt(t, s) /\ DescAt(t, s)
  BY OrderedFact DEF WInv, ThreadInv, ControlInv, DescInv
<1>2. /\ s.pc = "return" /\ s \in WLocals /\ ~state[t].pending /\ s.op \in {"put", "get"}
      /\ version' = version /\ head' = head /\ tail' = tail /\ next' = next /\ enq_tid' = enq_tid
      /\ deq_tid' = deq_tid /\ state' = state
      /\ th' \in [Threads -> WLocals] /\ th'[t] = W!Idle /\ Others(t)
      /\ done' = IF s.op = "put" THEN done \cup {x} ELSE done
      /\ out' = IF s.op = "get" /\ x # Null THEN out \cup {x} ELSE out
      /\ older' = older
      /\ start' = [start EXCEPT ![t] = W!NoMemo]
      /\ sight' \in [Threads -> BOOLEAN]
      /\ \A u \in Threads \ {t} : th[u].op = "get" =>
           sight'[u] <=> sight[u] \/ W!Held \cap done' = {}
      /\ late' = IF s.op = "get" /\ x # Null /\ W!Strict THEN late \cup (W!First(t, x) \cap W!Held) ELSE late
  BY ReturnFact
<1>3. x \in Items \cup {Null} /\ (s.op = "put" => x \in Items /\ x \in Linked)
  BY <1>1, <1>2 DEF ControlAt, DescAt, WLocals
<1>4. /\ W!Idle \in WLocals /\ W!Idle.pc = "idle" /\ W!Idle.op = "none" /\ W!Idle.item = Null /\ W!Idle.slow = FALSE
      /\ W!Idle.i = 0 /\ W!Idle.then = "idle" /\ ~Helping(W!Idle) /\ ~Finishing(W!Idle)
  BY IdleFact
<1>5. \A v \in Threads \ {t} : th'[v] = th[v]
  BY <1>2 DEF Others
<1>6. WTypeOK'
  <2>1. late' \in SUBSET Items /\ done' \in SUBSET Items /\ out' \in SUBSET Items
    <3>1. W!First(t, x) \cap W!Held \subseteq Items
      <4>1. W!Held \subseteq Items
        <5>1. W!Held = After(Succ, head.node) /\ head.node \in W!Nodes /\ head.node \in Chain
          BY <1>1, WHeldIs DEF ListInv, WTypeOK
        <5>2. After(Succ, head.node) \subseteq W!Nodes
          BY <1>1, <5>1, SuccFact, AfterClosed
        <5> QED BY <1>1, <5>1, <5>2 DEF Ordered, Before, ListInv
      <4> QED BY <4>1
    <3> QED BY <1>1, <1>2, <1>3, <3>1 DEF WTypeOK
  <2>2. start' \in [Threads -> [done : SUBSET Items, late : SUBSET Items]]
    BY <1>1, <1>2 DEF WTypeOK, W!NoMemo
  <2> QED BY <1>1, <1>2, <2>1, <2>2 DEF WTypeOK, W!Nodes
<1>7. UNCHANGED W!list
  BY <1>2 DEF W!list
<1>8. Moves(t) /\ ListInv'
  <2>1. \A u \in Threads \ {t} : th[u].op = "get" /\ sight[u] => sight'[u]
    BY <1>2
  <2> QED BY <1>2, <1>4, <1>6, <1>7, <2>1, CallMovesOn
<1>9. ThreadInv(t)'
  <2>1. ControlAt(t, W!Idle)
    BY <1>4 DEF ControlAt, PutPcs, EndPutPcs, GetPcs, EmptyPcs, TakePcs, EndGetPcs, FastPutPcs, FastGetPcs, FastPcs
  <2> QED BY <1>2, <1>4, <1>7, <1>8, <2>1, CallThread
<1>10. Claimant # t
  <2>1. head.node # Null /\ t # W!kTidNotSet
    BY <1>1, SuccFact, StrictQueuesAssumption DEF WTypeOK, W!kTidNotSet
  <2> QED BY <1>1, <1>2, <2>1 DEF ClaimInv, DescAt
<1>11. ClaimInv'
  BY <1>2, <1>7, <1>10, CallClaim
<1>12. /\ Succ' = Succ /\ Linked' = Linked
       /\ \A y, z : Before(y, z)' <=> Before(y, z)
  BY <1>2, <1>7, SameList
<1>13. \A v \in Threads : Behind(v)' = Behind(v)
  <2>1. Behind(t) = {} /\ Behind(t)' = {}
    BY <1>1, <1>2, <1>4 DEF Behind, DescAt
  <2> QED BY <1>2, <1>5, <2>1 DEF Behind
<1>14. /\ W!InHand(t) = IF s.op = "get" /\ x # Null THEN {x} ELSE {}
       /\ W!InHand(t)' = {} /\ \A v \in Threads \ {t} : W!InHand(v)' = W!InHand(v)
  BY <1>2, <1>4, <1>5 DEF W!InHand
<1>15. out' = out \cup W!InHand(t)
  BY <1>2, <1>14
<1>16. \A v \in Threads : th'[v].op = "put" => v # t /\ th'[v] = th[v]
  BY <1>2, <1>4, <1>5
<1>17. W!Begun' = W!Begun
  <2> DEFINE P == {u \in Threads : th[u].op = "put"}
             Q == {u \in Threads : th'[u].op = "put"}
  <2>1. P = IF s.op = "put" THEN Q \cup {t} ELSE Q
    BY <1>2, <1>4, <1>5
  <2>2. \A u \in Q : th'[u].item = th[u].item
    BY <1>16
  <2>3. W!Begun = done \cup {th[u].item : u \in P} /\ W!Begun' = done' \cup {th'[u].item : u \in Q}
    BY DEF W!Begun
  <2>4. s.op = "put" => {th[u].item : u \in P} = {th'[u].item : u \in Q} \cup {x}
    BY <2>1, <2>2
  <2>5. s.op # "put" => {th[u].item : u \in P} = {th'[u].item : u \in Q}
    BY <2>1, <2>2
  <2> QED BY <1>2, <2>3, <2>4, <2>5
<1>18. PlacesInv'
  <2> DEFINE held == After(Succ, head.node)
  <2>1. W!Held = held
    BY <1>1, WHeldIs DEF ListInv
  <2>2. /\ done \subseteq Linked /\ Linked \subseteq W!Begun
        /\ \A y \in Linked \ held : y \in W!Hands \cup out \/ \E u \in Threads : y \in Behind(u)
        /\ W!Hands \cup out \subseteq Linked /\ held \cap (W!Hands \cup out) = {} /\ W!Hands \cap out = {}
        /\ \A u \in Threads : Behind(u) \cap (W!Hands \cup out) = {}
        /\ \A v, u \in Threads : v # u => W!InHand(v) \cap W!InHand(u) = {} /\ Behind(v) \cap Behind(u) = {}
        /\ \A v, u \in Threads : v # u /\ th[v].op = "put" /\ th[u].op = "put" => th[v].item # th[u].item
        /\ \A y \in Items : enq_tid[y] # W!kTidNotSet => y \in W!Begun
        /\ \A v \in Threads : th[v].op = "put" => th[v].item \notin done
    BY <1>1 DEF PlacesInv
  <2>3. W!Hands = W!Hands' \cup W!InHand(t) /\ W!Hands' \cap W!InHand(t) = {}
    BY <1>14, <2>2 DEF W!Hands
  <2>4. held \cap done' = {} => \A v \in Threads : th'[v].op = "get" => sight'[v]
    BY <1>2, <1>4, <1>5, <2>1
  <2>5. \A v \in Threads : th'[v].op = "put" => th'[v].item \notin done'
    BY <1>2, <1>16, <2>2
  <2>6. \A v, u \in Threads : v # u /\ th'[v].op = "put" /\ th'[u].op = "put" => th'[v].item # th'[u].item
    BY ONLY <1>16, <2>2
  <2> HIDE DEF held
  <2>7. \A v, u \in Threads : v # u => W!InHand(v)' \cap W!InHand(u)' = {} /\ Behind(v)' \cap Behind(u)' = {}
    BY <1>13, <1>14, <2>2
  <2>8. W!Hands' \cup out' = W!Hands \cup out /\ W!Hands' \cap out' = {}
    BY <1>15, <2>2, <2>3
  <2>9. done' \subseteq Linked
    BY <1>2, <1>3, <2>2
  <2>10. /\ \A y \in Linked \ held : y \in W!Hands' \cup out' \/ \E u \in Threads : y \in Behind(u)'
         /\ \A u \in Threads : Behind(u)' \cap (W!Hands' \cup out') = {}
    BY <1>13, <2>2, <2>8
  <2> QED BY <1>2, <1>12, <1>17, <2>2, <2>4, <2>5, <2>6, <2>7, <2>8, <2>9, <2>10 DEF PlacesInv, held, W!kTidNotSet
<1>19. OrderInv'
  <2>1. \A y \in Items : older'[y] \subseteq done'
    BY <1>1, <1>2 DEF OrderInv
  <2>2. \A y \in Linked' : \A z \in older'[y] : Before(z, y)'
    BY <1>1, <1>2, <1>12 DEF OrderInv
  <2>3. ASSUME Order = "fifo" PROVE late' = {} /\ \A v \in Threads : start'[v].late = {}
    <3>1. late = {} /\ \A v \in Threads : start[v].late = {}
      BY <1>1, <2>3 DEF OrderInv
    <3>2. \A v \in Threads : start'[v].late = {}
      BY <1>1, <1>2, <3>1 DEF WTypeOK, W!NoMemo
    <3>3. ASSUME s.op = "get", x # Null PROVE W!First(t, x) \cap W!Held = {}
      <4>1. x \in Linked /\ x \notin After(Succ, head.node)
        BY <1>1, <1>14, <3>3 DEF PlacesInv, W!Hands
      <4>2. W!First(t, x) = older[x] /\ W!Held = After(Succ, head.node)
        BY <1>1, <2>3, WHeldIs DEF W!First, W!Earlier, ListInv
      <4>3. ASSUME NEW y \in older[x], y \in After(Succ, head.node) PROVE FALSE
        <5>1. Before(y, x) /\ Before(head.node, y)
          BY <1>1, <4>1, <4>3 DEF OrderInv, Before
        <5>2. x \in W!Nodes /\ y \in W!Nodes /\ head.node \in W!Nodes
          <6>1. x \in Items /\ Items \subseteq W!Nodes
            BY <1>1, <1>3, <3>3, SuccFact
          <6>2. older[x] \subseteq Items
            BY <1>1, <6>1 DEF WTypeOK
          <6> QED BY <1>1, <6>1, <6>2 DEF WTypeOK
        <5>3. Before(head.node, x)
          BY <1>1, <5>1, <5>2 DEF Ordered
        <5> QED BY <4>1, <5>3 DEF Before
      <4> QED BY <4>2, <4>3
    <3> QED BY <1>2, <3>1, <3>2, <3>3
  <2> QED BY <2>1, <2>2, <2>3 DEF OrderInv
<1> QED BY <1>8, <1>9, <1>11, <1>18, <1>19, StepKept
-----------------------------------------------------------------------------
\* Where a call begins.

AtBegin(r, op, x) ==
  /\ r \in WLocals /\ r.op = op /\ r.item = x /\ r.slow = FALSE /\ r.then = "idle" /\ r.i = 0
  /\ r.pc = IF version = "ppopp11" THEN "max" ELSE "check"
  /\ ~Helping(r) /\ ~Finishing(r)

LEMMA BeginFact ==
  ASSUME NEW x \in Items \cup {Null}, NEW op, op \in {"put", "get"}, NEW t,
         version \in {"ppopp11", "ppopp12"}, NEW r, r = W!Begin(t, op, x)
  PROVE  AtBegin(r, op, x)
<1> PICK l : l = IF version = "ppopp11" THEN "max" ELSE "check"
  OBVIOUS
<1>1. l \in WPcs /\ l \in {"max", "check"}
  BY DEF WPcs, FastPcs
<1>2. r = [W!Idle EXCEPT !.op = op, !.item = x, !.pc = l]
  BY DEF W!Begin
<1>3. W!Idle \in WLocals /\ W!Idle.slow = FALSE /\ W!Idle.i = 0 /\ W!Idle.then = "idle"
  BY IdleFact
<1>4. r \in WLocals /\ r.op = op /\ r.item = x /\ r.slow = FALSE /\ r.then = "idle" /\ r.i = 0 /\ r.pc = l
  <2> HIDE DEF W!Idle
  <2> QED BY ONLY <1>1, <1>2, <1>3, x \in Items \cup {Null}, op \in {"put", "get"} DEF WLocals
<1>5. ~Helping(r) /\ ~Finishing(r)
  BY <1>1, <1>4 DEF Helping, Finishing, PutPcs, EndPutPcs, GetPcs, EmptyPcs, TakePcs, EndGetPcs, FastPutPcs, FastGetPcs, FastPcs
<1> QED BY <1>1, <1>4, <1>5 DEF AtBegin

\* Of both calls.
Called(t, op, x, r) ==
  /\ r \in WLocals /\ r.op = op /\ r.item = x /\ r.slow = FALSE
  /\ th[t] = W!Idle /\ th' \in [Threads -> WLocals] /\ th'[t] = r /\ Others(t)
  /\ done' = done /\ out' = out /\ late' = late
  /\ older' = IF op = "put" THEN [older EXCEPT ![x] = done] ELSE older
  /\ start' = IF op = "get" THEN [start EXCEPT ![t] = W!Memo] ELSE start
  /\ sight' \in [Threads -> BOOLEAN]
  /\ \A u \in Threads \ {t} : th[u].op = "get" => (sight'[u] <=> sight[u] \/ W!Held \cap done = {})
  /\ op = "get" /\ W!Held \cap done = {} => sight'[t]
  /\ Moves(t) /\ ListInv' /\ ClaimInv' /\ ThreadInv(t)'

LEMMA CallFact ==
  ASSUME WInv, NEW t \in Threads, W!At(t, "idle"), NEW op, op \in {"put", "get"}, op \in Calls[version][t],
         NEW x \in Items \cup {Null}, W!Set(t, W!Begin(t, op, x)), version' = version, UNCHANGED W!list,
         W!Observe(t, W!Held), NEW r, r = W!Begin(t, op, x),
         op = "put" => x \in Items /\ x \in W!Fresh, op = "get" => x = Null
  PROVE  Called(t, op, x, r)
<1>1. WTypeOK /\ ClaimInv /\ PlacesInv /\ ControlAt(t, th[t]) /\ DescAt(t, th[t])
  BY DEF WInv, ThreadInv, ControlInv, DescInv
<1>2. version \in {"ppopp11", "ppopp12"}
  BY <1>1, StrictQueuesAssumption DEF WTypeOK
<1>3. /\ r \in WLocals /\ r.op = op /\ r.item = x /\ r.slow = FALSE /\ r.then = "idle" /\ r.i = 0
      /\ r.pc = IF version = "ppopp11" THEN "max" ELSE "check"
      /\ ~Helping(r) /\ ~Finishing(r)
  <2>1. AtBegin(r, op, x)
    BY ONLY <1>2, op \in {"put", "get"}, x \in Items \cup {Null}, r = W!Begin(t, op, x), BeginFact
  <2> QED BY <2>1 DEF AtBegin
<1>4. th[t] = W!Idle
  BY <1>1 DEF W!At, ControlAt
<1>5. /\ W!Idle.pc = "idle" /\ W!Idle.op = "none" /\ W!Idle.item = Null /\ W!Idle.slow = FALSE
  BY IdleFact
<1>6. ~state[t].pending
  BY <1>1, <1>4, <1>5 DEF DescAt
<1>7. th' = [th EXCEPT ![t] = r] /\ W!Observe(t, W!Held)
  BY DEF W!Set
<1>8. th' \in [Threads -> WLocals] /\ th'[t] = r /\ Others(t)
  BY <1>1, <1>3, <1>7 DEF WTypeOK, Others
<1>9. th[t].op = "none" /\ th'[t].op = op /\ op # "none"
  BY <1>3, <1>4, <1>5, <1>8
<1>10. /\ done' = done /\ out' = out /\ late' = late
       /\ older' = IF op = "put" THEN [older EXCEPT ![x] = done] ELSE older
       /\ start' = IF op = "get" THEN [start EXCEPT ![t] = W!Memo] ELSE start
  <2>1. th'[t].item = x
    BY <1>3, <1>8
  <2> QED BY <1>7, <1>9, <2>1 DEF W!Observe
<1>11. sight' = [u \in Threads |-> th'[u].op = "get" /\ (sight[u] \/ done \cap W!Held = {})]
  BY <1>7, <1>10 DEF W!Observe
<1>12. \A u \in Threads : sight'[u] \in BOOLEAN /\ (sight'[u] <=> th'[u].op = "get" /\ (sight[u] \/ W!Held \cap done = {}))
  <2> TAKE u \in Threads
  <2>1. sight[u] \in BOOLEAN
    BY <1>1 DEF WTypeOK
  <2> QED BY <1>11, <2>1
<1>13. \A u \in Threads \ {t} : th[u].op = "get" => (sight'[u] <=> sight[u] \/ W!Held \cap done = {})
  BY <1>8, <1>12 DEF Others
<1>14. sight' \in [Threads -> BOOLEAN] /\ (op = "get" /\ W!Held \cap done = {} => sight'[t])
  BY <1>9, <1>11, <1>12
<1>15. WTypeOK'
  <2>1. older' \in [Items -> SUBSET Items]
    BY <1>1, <1>10 DEF WTypeOK
  <2>2. W!Memo \in [done : SUBSET Items, late : SUBSET Items]
    BY <1>1 DEF WTypeOK, W!Memo
  <2>3. start' \in [Threads -> [done : SUBSET Items, late : SUBSET Items]]
    BY <1>1, <1>10, <2>2 DEF WTypeOK
  <2>4. version' = version /\ head' = head /\ tail' = tail /\ next' = next /\ enq_tid' = enq_tid /\ deq_tid' = deq_tid /\ state' = state
    BY DEF W!list
  <2> QED BY <1>1, <1>8, <1>10, <1>14, <2>1, <2>3, <2>4 DEF WTypeOK, W!Nodes
<1>16. Moves(t) /\ ListInv'
  BY <1>3, <1>6, <1>8, <1>9, <1>13, <1>15, CallMovesOn
<1>17. ThreadInv(t)'
  <2>1. \E i \in DOMAIN WaitfreeNum : WaitfreeNum[i] = t
    BY <1>1, StrictQueuesAssumption DEF WTypeOK
  <2>2. ControlAt(t, r)
    BY <1>2, <1>3, <2>1 DEF ControlAt, PutPcs, EndPutPcs, GetPcs, EmptyPcs, TakePcs, EndGetPcs, FastPutPcs, FastGetPcs, FastPcs
  <2>3. op = "put" => x \notin Linked /\ enq_tid[x] = W!kTidNotSet
    BY <1>1 DEF PlacesInv, W!Fresh
  <2> QED BY <1>3, <1>6, <1>8, <1>16, <2>2, <2>3, CallThread
<1>18. ClaimInv'
  <2>1. Claimant # t
    <3>1. t # W!kTidNotSet
      BY StrictQueuesAssumption DEF W!kTidNotSet
    <3> QED BY <1>1, <1>4, <1>5, <3>1 DEF ClaimInv
  <2> QED BY <1>8, <2>1, CallClaim
<1> QED BY <1>3, <1>4, <1>8, <1>10, <1>13, <1>14, <1>16, <1>17, <1>18 DEF Called

LEMMA WCallKept ==
  ASSUME WInv, NEW t \in Threads, W!At(t, "idle"), NEW op, op \in {"put", "get"}, op \in Calls[version][t],
         NEW x \in Items \cup {Null}, W!Set(t, W!Begin(t, op, x)), version' = version, UNCHANGED W!list,
         W!Observe(t, W!Held), op = "put" => x \in Items /\ x \in W!Fresh, op = "get" => x = Null
  PROVE  WInv'
<1> PICK r : r = W!Begin(t, op, x)
  OBVIOUS
<1>1. WTypeOK /\ ListInv /\ PlacesInv /\ OrderInv
  BY DEF WInv
<1>2. /\ r \in WLocals /\ r.op = op /\ r.item = x /\ r.slow = FALSE
      /\ th[t] = W!Idle /\ th' \in [Threads -> WLocals] /\ th'[t] = r /\ Others(t)
      /\ done' = done /\ out' = out /\ late' = late
      /\ older' = IF op = "put" THEN [older EXCEPT ![x] = done] ELSE older
      /\ start' = IF op = "get" THEN [start EXCEPT ![t] = W!Memo] ELSE start
      /\ sight' \in [Threads -> BOOLEAN]
      /\ \A u \in Threads \ {t} : th[u].op = "get" => (sight'[u] <=> sight[u] \/ W!Held \cap done = {})
      /\ op = "get" /\ W!Held \cap done = {} => sight'[t]
      /\ Moves(t) /\ ListInv' /\ ClaimInv' /\ ThreadInv(t)'
  <2>1. Called(t, op, x, r)
    BY CallFact
  <2> QED BY <2>1 DEF Called
<1>3. W!Idle.op = "none" /\ W!Idle.item = Null
  BY IdleFact
<1>4. \A v \in Threads \ {t} : th'[v] = th[v]
  BY <1>2 DEF Others
<1>5. /\ Succ' = Succ /\ Linked' = Linked /\ \A y, z : Before(y, z)' <=> Before(y, z)
      /\ head' = head /\ next' = next /\ enq_tid' = enq_tid /\ state' = state
  BY SameList DEF W!list
<1>6. \A v \in Threads : Behind(v)' = Behind(v)
  <2>1. Behind(t) = {} /\ Behind(t)' = {}
    BY <1>2, <1>3 DEF Behind
  <2> QED BY <1>4, <1>5, <2>1 DEF Behind
<1>7. \A v \in Threads : W!InHand(v)' = W!InHand(v)
  <2>1. W!InHand(t) = {} /\ W!InHand(t)' = {}
    BY <1>2, <1>3 DEF W!InHand
  <2> QED BY <1>4, <2>1 DEF W!InHand
<1>8. W!Hands' = W!Hands
  BY <1>7 DEF W!Hands
<1>9. \A v \in Threads \ {t} : th'[v].op = "put" => th[v].op = "put" /\ th'[v].item = th[v].item /\ th[v].item \in W!Begun
  BY <1>4 DEF W!Begun
<1>10. W!Begun \subseteq W!Begun'
  <2>1. \A v \in Threads : th[v].op = "put" => th'[v] = th[v]
    BY <1>2, <1>3, <1>4
  <2>2. \A y \in W!Begun : y \in done \/ \E v \in Threads : th[v].op = "put" /\ y = th[v].item
    BY DEF W!Begun
  <2>3. \A v \in Threads : th'[v].op = "put" => th'[v].item \in W!Begun'
    BY DEF W!Begun
  <2>4. done' \subseteq W!Begun'
    BY DEF W!Begun
  <2> QED BY <1>2, <2>1, <2>2, <2>3, <2>4
<1>11. th'[t].op = "put" => th'[t].item = x /\ x \notin W!Begun /\ x \notin done /\ x \notin Linked /\ op = "put"
  <2>1. done \subseteq W!Begun /\ Linked \subseteq W!Begun
    BY <1>1 DEF PlacesInv, W!Begun
  <2> QED BY <1>2, <2>1 DEF W!Fresh
<1>12. PlacesInv'
  <2> DEFINE held == After(Succ, head.node)
  <2>1. W!Held = held
    BY <1>1, WHeldIs DEF ListInv
  <2>2. /\ done \subseteq Linked /\ Linked \subseteq W!Begun
        /\ \A y \in Linked \ held : y \in W!Hands \cup out \/ \E u \in Threads : y \in Behind(u)
        /\ W!Hands \cup out \subseteq Linked /\ held \cap (W!Hands \cup out) = {} /\ W!Hands \cap out = {}
        /\ \A u \in Threads : Behind(u) \cap (W!Hands \cup out) = {}
        /\ \A v, u \in Threads : v # u => W!InHand(v) \cap W!InHand(u) = {} /\ Behind(v) \cap Behind(u) = {}
        /\ \A v, u \in Threads : v # u /\ th[v].op = "put" /\ th[u].op = "put" => th[v].item # th[u].item
        /\ \A y \in Items : enq_tid[y] # W!kTidNotSet => y \in W!Begun
        /\ \A v \in Threads : th[v].op = "put" => th[v].item \notin done
        /\ held \cap done = {} => \A v \in Threads : th[v].op = "get" => sight[v]
    BY <1>1 DEF PlacesInv
  <2>4. held \cap done' = {} => \A v \in Threads : th'[v].op = "get" => sight'[v]
    <3>1. SUFFICES ASSUME held \cap done = {}, NEW v \in Threads, th'[v].op = "get" PROVE sight'[v]
      BY <1>2
    <3>2. CASE v = t
      BY <1>2, <2>1, <3>1, <3>2
    <3>3. CASE v # t
      BY <1>2, <1>4, <2>1, <3>1, <3>3
    <3> QED BY <3>2, <3>3
  <2>5. \A v \in Threads : th'[v].op = "put" => th'[v].item \notin done'
    <3>1. done' = done
      BY <1>2
    <3> QED BY ONLY <1>9, <1>11, <2>2, <3>1
  <2>6. \A v, u \in Threads : v # u /\ th'[v].op = "put" /\ th'[u].op = "put" => th'[v].item # th'[u].item
    BY ONLY <1>9, <1>11, <2>2
  <2> HIDE DEF held
  <2>7. \A v, u \in Threads : v # u => W!InHand(v)' \cap W!InHand(u)' = {} /\ Behind(v)' \cap Behind(u)' = {}
    BY <1>6, <1>7, <2>2
  <2>8. /\ \A y \in Linked \ held : y \in W!Hands' \cup out' \/ \E u \in Threads : y \in Behind(u)'
        /\ \A u \in Threads : Behind(u)' \cap (W!Hands' \cup out') = {}
    BY <1>2, <1>6, <1>8, <2>2
  <2>9. Linked \subseteq W!Begun' /\ \A y \in Items : enq_tid[y] # W!kTidNotSet => y \in W!Begun'
    BY <1>10, <2>2
  <2> QED BY <1>2, <1>5, <1>8, <2>2, <2>4, <2>5, <2>6, <2>7, <2>8, <2>9 DEF PlacesInv, held, W!kTidNotSet
<1>13. OrderInv'
  <2>1. \A y \in Items : older'[y] = older[y] \/ (older'[y] = done /\ y \notin Linked)
    BY <1>1, <1>2, <1>11 DEF WTypeOK
  <2>2. \A y \in Items : older'[y] \subseteq done'
    BY <1>1, <1>2, <2>1 DEF OrderInv
  <2>3. \A y \in Linked' : \A z \in older'[y] : Before(z, y)'
    BY <1>1, <1>2, <1>5, <2>1 DEF OrderInv, ListInv
  <2>4. ASSUME Order = "fifo" PROVE late' = {} /\ \A v \in Threads : start'[v].late = {}
    <3>1. late = {} /\ \A v \in Threads : start[v].late = {}
      BY <1>1, <2>4 DEF OrderInv
    <3>2. \A v \in Threads : start'[v].late = {}
      BY <1>1, <1>2, <3>1 DEF WTypeOK, W!Memo
    <3> QED BY <1>2, <3>1, <3>2
  <2> QED BY <2>2, <2>3, <2>4 DEF OrderInv
<1> QED BY <1>2, <1>12, <1>13, StepKept

LEMMA CallEnqueueKept == ASSUME WInv, NEW t \in Threads, W!CallEnqueue(t) PROVE WInv'
<1>1. PICK x \in W!Fresh : W!Set(t, W!Begin(t, "put", x))
  BY DEF W!CallEnqueue
<1>2. /\ W!At(t, "idle") /\ "put" \in Calls[version][t] /\ version' = version /\ UNCHANGED W!list /\ W!Observe(t, W!Held)
      /\ x \in Items
  BY DEF W!CallEnqueue, W!shared, W!Fresh
<1> QED BY <1>1, <1>2, WCallKept

LEMMA CallDequeueKept == ASSUME WInv, NEW t \in Threads, W!CallDequeue(t) PROVE WInv'
<1>1. /\ W!At(t, "idle") /\ "get" \in Calls[version][t] /\ version' = version /\ UNCHANGED W!list /\ W!Observe(t, W!Held)
      /\ W!Set(t, W!Begin(t, "get", Null))
  BY DEF W!CallDequeue
<1> QED BY <1>1, WCallKept
-----------------------------------------------------------------------------
\* A descriptor is published.

\* The locals of t after that.
Slowed(r, s, t, p) ==
  /\ r \in WLocals /\ r.op = s.op /\ r.item = s.item /\ r.slow = TRUE /\ r.phase = p /\ r.then = "idle"
  /\ IF version = "ppopp11" THEN r.pc = "help" /\ r.i = 0
     ELSE /\ r.pc = IF s.op = "put" THEN "E_pending" ELSE "D_pending"
          /\ r.back = "finish" /\ WaitfreeNum[r.i] = t

LEMMA PublishLocals ==
  ASSUME WInv, NEW t \in Threads, W!Publish(t), NEW s, s = th[t], NEW p \in Nat, p = W!OwnPhase(t)
  PROVE  \E r : W!Set(t, r) /\ Slowed(r, s, t, p)
<1>0. s.pc = "publish"
  BY DEF W!Publish, W!At
<1>1. /\ s \in WLocals /\ ControlAt(t, s) /\ s.then = "idle" /\ s.op # "none" /\ WTypeOK
  BY <1>0, SlowLocal
<1>2. PICK j \in DOMAIN WaitfreeNum : WaitfreeNum[j] = t
  BY <1>1 DEF ControlAt
<1> PICK i : i = IF version = "ppopp11" THEN s.i ELSE CHOOSE k \in DOMAIN WaitfreeNum : WaitfreeNum[k] = t
  OBVIOUS
<1> PICK l : l = IF version = "ppopp11" THEN "help" ELSE IF s.op = "put" THEN "E_pending" ELSE "D_pending"
  OBVIOUS
<1> PICK b : b = IF version = "ppopp11" THEN s.back ELSE "finish"
  OBVIOUS
<1> PICK q : q = [s EXCEPT !.slow = TRUE, !.phase = p, !.trials = 0]
  OBVIOUS
<1> PICK r : r = [q EXCEPT !.pc = l, !.i = i, !.back = b]
  OBVIOUS
<1>3. i \in DOMAIN WaitfreeNum /\ (version = "ppopp11" => i = s.i) /\ (version # "ppopp11" => WaitfreeNum[i] = t)
  BY <1>1, <1>2 DEF WLocals
<1>4. l \in WPcs /\ b \in {"idle", "help", "finish"}
  BY <1>1 DEF WPcs, PutPcs, GetPcs, WLocals
<1>5. q \in WLocals /\ q.op = s.op /\ q.item = s.item /\ q.slow = TRUE /\ q.phase = p /\ q.then = s.then
      /\ q.i = s.i /\ q.back = s.back
  BY ONLY <1>1, p \in Nat, q = [s EXCEPT !.slow = TRUE, !.phase = p, !.trials = 0] DEF WLocals
<1>6. r \in WLocals
  BY ONLY <1>3, <1>4, <1>5, r = [q EXCEPT !.pc = l, !.i = i, !.back = b] DEF WLocals
<1>7. r.op = q.op /\ r.item = q.item /\ r.slow = q.slow /\ r.phase = q.phase /\ r.then = q.then
      /\ r.pc = l /\ r.i = i /\ r.back = b
  BY ONLY <1>5, r = [q EXCEPT !.pc = l, !.i = i, !.back = b] DEF WLocals
<1>8. W!Set(t, IF version = "ppopp11" THEN [q EXCEPT !.pc = "help"]
             ELSE [q EXCEPT !.pc = IF q.op = "put" THEN "E_pending" ELSE "D_pending",
                            !.i = CHOOSE k \in DOMAIN WaitfreeNum : WaitfreeNum[k] = t, !.back = "finish"])
  BY DEF W!Publish
<1>9. W!Set(t, r)
  <2>1. CASE version = "ppopp11"
    <3>1. l = "help" /\ i = q.i /\ b = q.back
      BY <1>5, <2>1
    <3>2. r = [q EXCEPT !.pc = "help"]
      BY ONLY <1>5, <3>1, r = [q EXCEPT !.pc = l, !.i = i, !.back = b] DEF WLocals
    <3>3. W!Set(t, [q EXCEPT !.pc = "help"])
      BY <1>8, <2>1
    <3> QED BY ONLY <3>2, <3>3
  <2>2. CASE version # "ppopp11"
    <3>1. W!Set(t, [q EXCEPT !.pc = IF q.op = "put" THEN "E_pending" ELSE "D_pending",
                            !.i = CHOOSE k \in DOMAIN WaitfreeNum : WaitfreeNum[k] = t, !.back = "finish"])
      BY <1>8, <2>2
    <3>2. /\ (IF q.op = "put" THEN "E_pending" ELSE "D_pending") = l
          /\ (CHOOSE k \in DOMAIN WaitfreeNum : WaitfreeNum[k] = t) = i /\ "finish" = b
      BY <1>5, <2>2
    <3> QED BY ONLY <3>1, <3>2, r = [q EXCEPT !.pc = l, !.i = i, !.back = b]
  <2> QED BY <2>1, <2>2
<1>10. version = "ppopp11" => s.i = 0
  BY <1>0, <1>1 DEF ControlAt
<1>11. Slowed(r, s, t, p)
  BY <1>1, <1>3, <1>5, <1>6, <1>7, <1>10 DEF Slowed
<1> QED BY <1>9, <1>11

LEMMA PublishMoves ==
  ASSUME WInv, NEW t \in Threads, W!Publish(t), NEW s, s = th[t]
  PROVE  \E p \in Nat, e \in Descriptors : \E r :
           /\ p = W!OwnPhase(t) /\ e = W!Descriptor(p, TRUE, s.op, W!NodeOf(t))
           /\ th' = [th EXCEPT ![t] = r] /\ Slowed(r, s, t, p)
           /\ state' = [state EXCEPT ![t] = e] /\ p > state[t].phase
           /\ \A v \in Threads \ {t} : Helping(th[v]) /\ WaitfreeNum[th[v].i] = t => p > th[v].phase
<1>0. s.pc = "publish"
  BY DEF W!Publish, W!At
<1>1. /\ s \in WLocals /\ ControlAt(t, s) /\ ThreadAt(t, s) /\ s.then = "idle" /\ s.op # "none" /\ WTypeOK
  BY <1>0, SlowLocal
<1>2. PICK j \in DOMAIN WaitfreeNum : WaitfreeNum[j] = t
  BY <1>1 DEF ControlAt
<1> PICK p : p = W!OwnPhase(t)
  OBVIOUS
<1>3. state[t] \in Descriptors /\ state[t].phase \in Nat \cup {W!kNoPhase} /\ s.phase \in Nat \cup {W!kNoPhase}
  BY <1>1 DEF WTypeOK, Descriptors, WLocals
<1>4. p \in Nat
  BY <1>3 DEF W!OwnPhase, W!kNoPhase
<1>5. p > state[t].phase
  <2>1. version = "ppopp11" => state[t].phase <= s.phase
    BY <1>0, <1>1, <1>2 DEF ThreadAt, PhaseAt
  <2> QED BY <1>3, <2>1 DEF W!OwnPhase, W!kNoPhase
<1>6. ASSUME NEW v \in Threads \ {t}, Helping(th[v]), WaitfreeNum[th[v].i] = t PROVE p > th[v].phase
  <2>1. ControlAt(v, th[v]) /\ th[v] \in WLocals
    BY <1>1 DEF WInv, ThreadInv, ControlInv, WTypeOK
  <2>2. version = "ppopp11"
    BY <1>6, <2>1 DEF ControlAt
  <2>3. th[v].op # "none"
    BY <1>6, <2>1, IdleFact DEF ControlAt
  <2>4. PICK k \in DOMAIN WaitfreeNum : WaitfreeNum[k] = v
    BY <2>1, <2>3 DEF ControlAt
  <2>5. th[v].phase <= s.phase
    BY <1>0, <1>1, <1>6, <2>2, <2>4 DEF ThreadAt, PhaseAt
  <2>6. th[v].phase \in Int
    BY <2>1 DEF WLocals, W!kNoPhase
  <2>7. p = s.phase + 1
    BY <2>2 DEF W!OwnPhase
  <2> QED BY <1>3, <2>5, <2>6, <2>7 DEF W!kNoPhase
<1>7. PICK r : W!Set(t, r) /\ Slowed(r, s, t, p)
  BY ONLY WInv, t \in Threads, W!Publish(t), s = th[t], p = W!OwnPhase(t), <1>4, PublishLocals
<1> PICK e : e = W!Descriptor(p, TRUE, s.op, W!NodeOf(t))
  OBVIOUS
<1>8. e \in Descriptors
  <2>1. W!NodeOf(t) \in NodesOrNone
    BY <1>1 DEF W!NodeOf, NodesOrNone, W!Nodes, ControlAt
  <2>2. s.op \in {"put", "get"}
    BY <1>1 DEF WLocals
  <2> QED BY <1>4, <2>1, <2>2 DEF Descriptors, W!Descriptor
<1>9. state' = [state EXCEPT ![t] = e]
  BY DEF W!Publish
<1>10. th' = [th EXCEPT ![t] = r]
  BY <1>7 DEF W!Set
<1> QED BY <1>4, <1>5, <1>6, <1>7, <1>8, <1>9, <1>10

LEMMA PublishKept == ASSUME WInv, NEW t \in Threads, W!Publish(t) PROVE WInv'
<1> PICK s : s = th[t]
  OBVIOUS
<1>0. s.pc = "publish"
  BY DEF W!Publish, W!At
<1>1. /\ s \in WLocals /\ ControlAt(t, s) /\ DescAt(t, s) /\ s.then = "idle" /\ s.op # "none" /\ s.slow # TRUE
      /\ WTypeOK /\ ListInv /\ ClaimInv /\ PlacesInv /\ OrderInv
  BY <1>0, SlowLocal DEF WInv
<1>2. PICK p \in Nat, e \in Descriptors : \E r :
        /\ p = W!OwnPhase(t) /\ e = W!Descriptor(p, TRUE, s.op, W!NodeOf(t))
        /\ th' = [th EXCEPT ![t] = r] /\ Slowed(r, s, t, p)
        /\ state' = [state EXCEPT ![t] = e] /\ p > state[t].phase
        /\ \A v \in Threads \ {t} : Helping(th[v]) /\ WaitfreeNum[th[v].i] = t => p > th[v].phase
  BY PublishMoves
<1>3. PICK r :
        /\ p = W!OwnPhase(t) /\ e = W!Descriptor(p, TRUE, s.op, W!NodeOf(t))
        /\ th' = [th EXCEPT ![t] = r] /\ Slowed(r, s, t, p)
        /\ state' = [state EXCEPT ![t] = e] /\ p > state[t].phase
        /\ \A v \in Threads \ {t} : Helping(th[v]) /\ WaitfreeNum[th[v].i] = t => p > th[v].phase
  BY <1>2
<1>4. /\ version' = version /\ head' = head /\ tail' = tail /\ next' = next /\ deq_tid' = deq_tid /\ W!Observe(t, W!Held)
      /\ enq_tid' = IF s.op = "put" THEN [enq_tid EXCEPT ![s.item] = t] ELSE enq_tid
  BY DEF W!Publish
<1>5. /\ r \in WLocals /\ r.op = s.op /\ r.item = s.item /\ r.slow = TRUE /\ r.phase = p /\ r.then = "idle"
      /\ version = "ppopp11" => r.pc = "help" /\ r.i = 0
      /\ version # "ppopp11" => /\ r.pc = IF s.op = "put" THEN "E_pending" ELSE "D_pending"
                                /\ r.back = "finish" /\ WaitfreeNum[r.i] = t
  BY <1>3 DEF Slowed
<1>6. e.phase = p /\ e.pending = TRUE /\ e.type = s.op /\ e.node = IF s.op = "put" THEN s.item ELSE Null
  BY <1>3 DEF W!Descriptor, W!NodeOf
<1>7. s.op \in {"put", "get"} /\ ~state[t].pending /\ state[t].phase < p
      /\ (s.op = "put" => s.item \in Items /\ s.item \notin Linked /\ enq_tid[s.item] = W!kTidNotSet)
      /\ (s.op = "get" => s.item = Null)
  BY <1>0, <1>1, <1>3 DEF WLocals, DescAt, ControlAt, WTypeOK, Descriptors
<1>8. state'[t] = e /\ \A v \in Threads \ {t} : state'[v] = state[v]
  BY <1>1, <1>3 DEF WTypeOK
<1>9. W!Set(t, r)
  BY <1>3 DEF W!Set
<1>10. /\ th' \in [Threads -> WLocals] /\ th'[t] = r /\ Others(t)
       /\ done' = done /\ out' = out /\ older' = older /\ late' = late /\ start' = start
       /\ sight' \in [Threads -> BOOLEAN]
       /\ \A u \in Threads : th'[u].op = th[u].op
       /\ \A u \in Threads : th[u].op = "get" /\ sight[u] => sight'[u]
       /\ W!Held \cap done = {} => \A u \in Threads : th[u].op = "get" => sight'[u]
  BY ONLY t \in Threads, s = th[t], <1>1, <1>4, <1>5, <1>9, Quieted
<1>11. Items \subseteq W!Nodes /\ \A y \in W!Nodes : enq_tid'[y] = enq_tid[y] \/ (s.op = "put" /\ y = s.item /\ enq_tid'[y] = t)
  BY <1>1, <1>4, SuccFact DEF WTypeOK
<1>12. WTypeOK'
  <2>1. enq_tid' \in [W!Nodes -> ThreadsOrNone]
    BY <1>1, <1>4 DEF WTypeOK, ThreadsOrNone
  <2>2. state' \in [Threads -> Descriptors]
    BY <1>1, <1>3 DEF WTypeOK
  <2> QED BY <1>1, <1>4, <1>10, <2>1, <2>2 DEF WTypeOK, W!Nodes
<1>13. /\ Succ' = Succ /\ Linked' = Linked /\ Chain' = Chain /\ Claimant' = Claimant
       /\ \A x, y : (Before(x, y)' <=> Before(x, y)) /\ (UpTo(x, y)' <=> UpTo(x, y))
       /\ \A x : Claimable(x)' <=> Claimable(x)
  BY <1>4, SameNodes
<1>14. ListMoves
  <2>1. \A y \in W!Nodes : enq_tid[y] # W!kTidNotSet => enq_tid'[y] = enq_tid[y]
    BY <1>7, <1>11
  <2> QED BY <1>4, <1>13, <2>1 DEF ListMoves, Before
<1>15. HeadMoves /\ TailMoves /\ NeverClaimable
  BY <1>4, <1>13 DEF HeadMoves, TailMoves, NeverClaimable
<1>16. DescMoves(t)
  <2>1. Published(t, t)
    <3>1. ~th[t].slow
      BY <1>1 DEF WLocals
    <3>2. state'[t].pending /\ state'[t].phase > state[t].phase /\ ~state[t].pending
      BY <1>3, <1>6, <1>7, <1>8
    <3>3. state'[t].type = "put" => state'[t].node \notin Linked'
      BY <1>6, <1>7, <1>8, <1>13
    <3>4. \A v \in Threads \ {t} : Helping(th[v]) /\ WaitfreeNum[th[v].i] = t => state'[t].phase > th[v].phase
      BY <1>3, <1>6, <1>8
    <3> QED BY ONLY <3>1, <3>2, <3>3, <3>4 DEF Published
  <2> QED BY <1>8, <2>1 DEF DescMoves
<1>17. CallMoves(t)
  <2>1. ASSUME NEW v \in Threads \ {t}, th[v].op = "put", ~th[v].slow, th[v].pc # "return"
        PROVE  th[v].item \notin Linked' /\ enq_tid'[th[v].item] = W!kTidNotSet
    <3>1. th[v].item \notin Linked /\ enq_tid[th[v].item] = W!kTidNotSet /\ th[v].item \in Items
      BY <2>1 DEF WInv, ThreadInv, DescInv, DescAt, ControlInv, ControlAt
    <3>2. s.op = "put" => th[v].item # s.item
      BY <1>1, <2>1 DEF PlacesInv
    <3> QED BY <1>11, <1>13, <3>1, <3>2
  <2>2. Helping(r) => WaitfreeNum[r.i] = t
    BY <1>5 DEF Helping, PutPcs, EndPutPcs, GetPcs, EmptyPcs, TakePcs, EndGetPcs, FastPutPcs, FastGetPcs, FastPcs
  <2> QED BY <1>10, <2>1, <2>2 DEF CallMoves
<1>18. Moves(t)
  BY <1>4, <1>10, <1>12, <1>14, <1>15, <1>16, <1>17 DEF Moves
<1>19. ListInv'
  BY <1>1, <1>4, <1>13 DEF ListInv, Acyclic, W!Nodes
<1>20. ClaimInv'
  <2>1. t # W!kTidNotSet /\ (Claimant # W!kTidNotSet => Claimant \in Threads)
    BY <1>1, StrictQueuesAssumption DEF WTypeOK, Claimant, W!kTidNotSet, ThreadsOrNone
  <2>2. Claimant # W!kTidNotSet => Claimant \in Threads \ {t}
    BY <1>1, <2>1 DEF ClaimInv
  <2>3. \A v \in Threads \ {t} : state'[v] = state[v] /\ th'[v] = th[v]
    BY <1>8, <1>10 DEF Others
  <2>4. \A v \in Threads \ {t} : v = Claimant => /\ state'[v].type = "get" /\ state'[v].node = head.node
                                                 /\ th'[v].slow /\ th'[v].op = "get" /\ th'[v].item = Null
    BY <1>1, <2>2, <2>3, StrictQueuesAssumption DEF ClaimInv, W!kTidNotSet
  <2> QED BY <1>1, <1>4, <1>13, <2>2, <2>4 DEF ClaimInv, W!Nodes, W!kTidNotSet
<1>21. ThreadInv(t)'
  <2>1. /\ r.pc \in {"help", "E_pending", "D_pending"} /\ ~Finishing(r)
        /\ Helping(r) => version # "ppopp11" /\ (HelpsPut(r) <=> s.op = "put")
    BY <1>5, <1>7 DEF Helping, HelpsPut, Finishing, PutPcs, EndPutPcs, GetPcs, EmptyPcs, TakePcs, EndGetPcs, FastPutPcs, FastGetPcs, FastPcs
  <2>2. ControlAt(t, r)
    <3>1. \E i \in DOMAIN WaitfreeNum : WaitfreeNum[i] = t
      BY <1>1 DEF ControlAt
    <3> QED BY <1>1, <1>5, <1>7, <2>1, <3>1 DEF ControlAt, PutPcs, EndPutPcs, GetPcs, EmptyPcs, TakePcs, EndGetPcs, FastPutPcs, FastGetPcs, FastPcs
  <2>3. ControlAt(t, r)'
    BY <1>4, <2>2 DEF ControlAt, Helping, W!Idle
  <2>4. DescAt(t, r)'
    <3>1. p # W!kNoPhase
      BY DEF W!kNoPhase
    <3>2. s.op = "put" => enq_tid'[s.item] = t /\ s.item \notin Linked'
      BY <1>1, <1>4, <1>7, <1>11, <1>13 DEF WTypeOK
    <3> QED BY <1>5, <1>6, <1>7, <1>8, <2>1, <3>1, <3>2 DEF DescAt
  <2>5. HelpAt(t, r)'
    <3>1. r.i \in DOMAIN WaitfreeNum /\ \A j \in DOMAIN WaitfreeNum : ~(j < 0) /\ ~(j < j)
      BY <1>5, NumCount DEF WLocals
    <3>2. version # "ppopp11" => \A j \in DOMAIN WaitfreeNum : WaitfreeNum[j] = t => j = r.i
      BY <1>5, <3>1, StrictQueuesAssumption
    <3>3. version = "ppopp11" => ~Helping(r) /\ r.i = 0
      BY <1>5, <2>1
    <3>4. version # "ppopp11" => WaitfreeNum[r.i] = t
      BY <1>5
    <3>5. \A j \in DOMAIN WaitfreeNum : ~(WaitfreeNum[j] = t /\ j < r.i)
      BY <3>1, <3>2, <3>3
    <3>6. Helping(r) => state'[WaitfreeNum[r.i]].type = IF HelpsPut(r) THEN "put" ELSE "get"
      BY <1>6, <1>7, <1>8, <2>1, <3>4
    <3>7. r.then # "helped"
      BY <1>5
    <3> QED BY <3>5, <3>6, <3>7 DEF HelpAt
  <2>6. PhaseAt(t, r)'
    BY <2>1 DEF PhaseAt
  <2>7. LinkAt(t, r)' /\ EndPutAt(t, r)' /\ LookAt(t, r)' /\ GetAt(t, r)' /\ EndGetAt(t, r)'
    BY <1>5, <2>1 DEF LinkAt, EndPutAt, LookAt, GetAt, EndGetAt, EndPutPcs, EmptyPcs, TakePcs, EndGetPcs
  <2> QED BY <1>10, <2>3, <2>4, <2>5, <2>6, <2>7
          DEF ThreadInv, ControlInv, DescInv, HelpInv, PhaseInv, PutInv, EndPutInv, LookInv, GetInv, EndGetInv
<1>22. \A u \in Threads : th'[u].op = th[u].op /\ th'[u].item = th[u].item
  BY <1>5, <1>10 DEF Others
<1>23. \A u \in Threads : W!InHand(u)' = W!InHand(u) /\ Behind(u)' = Behind(u)
  <2>1. Behind(t) = {} /\ Behind(t)' = {}
    BY <1>1, <1>6, <1>8 DEF Behind
  <2>2. \A u \in Threads \ {t} : th'[u] = th[u] /\ state'[u] = state[u]
    BY <1>8, <1>10 DEF Others
  <2> QED BY <1>4, <1>22, <2>1, <2>2 DEF W!InHand, Behind
<1>24. W!Hands' = W!Hands /\ W!Begun' = W!Begun
  BY <1>10, <1>22, <1>23 DEF W!Hands, W!Begun
<1>25. PlacesInv'
  <2> DEFINE held == After(Succ, head.node)
  <2>1. W!Held = held
    BY <1>1, WHeldIs DEF ListInv
  <2>2. held \cap done = {} => \A v \in Threads : th'[v].op = "get" => sight'[v]
    BY <1>10, <2>1
  <2>3. \A y \in Items : enq_tid'[y] # W!kTidNotSet => y \in W!Begun
    <3>1. s.op = "put" => s.item \in W!Begun
      BY DEF W!Begun
    <3> QED BY <1>1, <1>11, <3>1 DEF PlacesInv
  <2> QED BY <1>1, <1>4, <1>10, <1>13, <1>22, <1>23, <1>24, <2>2, <2>3 DEF PlacesInv, W!kTidNotSet
<1>26. OrderInv'
  BY <1>1, <1>10, <1>13 DEF OrderInv
<1> QED BY <1>18, <1>19, <1>20, <1>21, <1>25, <1>26, StepKept
-----------------------------------------------------------------------------
\* All steps.

LEMMA NextKept ==
  ASSUME WInv, W!Next
  PROVE  WInv'
<1> PICK t \in Threads : W!CallEnqueue(t) \/ W!CallDequeue(t) \/ W!Step(t)
  BY DEF W!Next
<1>1. CASE W!CallEnqueue(t)
  BY <1>1, CallEnqueueKept
<1>2. CASE W!CallDequeue(t)
  BY <1>2, CallDequeueKept
<1>3. CASE W!Slow(t)
  BY <1>3, MaxPhaseKept, PublishKept, HelpKept, ResultKept DEF W!Slow
<1>4. CASE W!Enq(t)
  <2>1. CASE W!PutPending(t) \/ W!PutTail(t) \/ W!PutNext(t) \/ W!PutSame(t) \/ W!PutAgain(t) \/ W!PutNode(t)
    BY <2>1, PutPendingKept, PutTailKept, PutNextKept, PutSameKept, PutAgainKept, PutNodeKept
  <2>2. CASE W!PutLink(t) \/ W!EndTail(t) \/ W!EndNext(t) \/ W!EndState(t) \/ W!EndSame(t) \/ W!EndNode(t)
    BY <2>2, PutLinkKept, EndTailKept, EndNextKept, EndStateKept, EndSameKept, EndNodeKept
  <2>3. CASE W!EndDone(t) \/ W!EndSwing(t)
    BY <2>3, EndDoneKept, EndSwingKept
  <2> QED BY <1>4, <2>1, <2>2, <2>3 DEF W!Enq
<1>5. CASE W!Deq(t)
  <2>1. CASE W!GetPending(t) \/ W!GetHead(t) \/ W!GetTail(t) \/ W!GetNext(t) \/ W!GetSame(t) \/ W!GetState(t)
    BY <2>1, GetPendingKept, GetHeadKept, GetTailKept, GetNextKept, GetSameKept, GetStateKept
  <2>2. CASE W!EmptyStill(t) \/ W!GetAgain(t) \/ W!GetEmpty(t) \/ W!GetMark(t) \/ W!GetCas(t) \/ W!GetClaim(t)
    BY <2>2, EmptyStillKept, GetAgainKept, GetEmptyKept, GetMarkKept, GetCasKept, GetClaimKept
  <2>3. CASE W!EndHead(t) \/ W!EndHeadNext(t) \/ W!EndTid(t) \/ W!EndGetState(t) \/ W!EndHeadSame(t)
    BY <2>3, EndHeadKept, EndHeadNextKept, EndTidKept, EndGetStateKept, EndHeadSameKept
  <2>4. CASE W!EndGetDone(t) \/ W!EndHeadSwing(t)
    BY <2>4, EndGetDoneKept, EndHeadSwingKept
  <2> QED BY <1>5, <2>1, <2>2, <2>3, <2>4 DEF W!Deq
<1>6. CASE W!Fast(t)
  <2>1. CASE W!Check(t) \/ W!FastBegin(t) \/ W!FastPutTail(t) \/ W!FastPutNext(t) \/ W!FastPutSame(t) \/ W!FastPutLink(t)
    BY <2>1, CheckKept, FastBeginKept, FastPutTailKept, FastPutNextKept, FastPutSameKept, FastPutLinkKept
  <2>2. CASE W!FastGetHead(t) \/ W!FastGetTail(t) \/ W!FastGetNext(t) \/ W!FastGetSame(t) \/ W!FastGetTid(t) \/ W!FastGetTake(t)
    BY <2>2, FastGetHeadKept, FastGetTailKept, FastGetNextKept, FastGetSameKept, FastGetTidKept, FastGetTakeKept
  <2> QED BY <1>6, <2>1, <2>2 DEF W!Fast
<1>7. CASE W!Return(t)
  BY <1>7, ReturnKept
<1> QED BY <1>1, <1>2, <1>3, <1>4, <1>5, <1>6, <1>7 DEF W!Step

LEMMA NextMarks ==
  ASSUME WInv, W!Next
  PROVE  W!MarksCarriedOut
<1> PICK t \in Threads : W!CallEnqueue(t) \/ W!CallDequeue(t) \/ W!Step(t)
  BY DEF W!Next
<1>1. state' = state => W!MarksCarriedOut
  BY DEF W!MarksCarriedOut
<1>2. ASSUME NEW r, W!Local(t, r) PROVE state' = state
  BY <1>2 DEF W!Local, W!shared, W!list
<1>3. ASSUME NEW pc, NEW r, W!Read(t, pc, r) PROVE state' = state
  BY <1>2, <1>3 DEF W!Read
<1>4. CASE W!Publish(t)
  <2>1. \A u \in Threads \ {t} : state'[u] = state[u]
    BY <1>4 DEF WInv, WTypeOK, W!Publish
  <2>2. state'[t].pending
    BY <1>4 DEF WInv, WTypeOK, W!Publish, W!Descriptor
  <2> QED BY <2>1, <2>2 DEF W!MarksCarriedOut
<1>5. CASE W!EndDone(t) \/ W!GetEmpty(t) \/ W!GetCas(t) \/ W!EndGetDone(t)
  BY <1>5, EndDoneKept, GetEmptyKept, GetCasKept, EndGetDoneKept
<1>6. CASE W!CallEnqueue(t) \/ W!CallDequeue(t) \/ W!Check(t)
  BY <1>1, <1>6 DEF W!CallEnqueue, W!CallDequeue, W!Check, W!shared, W!list
<1>7. CASE W!PutLink(t) \/ W!EndSwing(t) \/ W!GetClaim(t) \/ W!EndHeadSwing(t) \/ W!FastPutLink(t) \/ W!FastGetTake(t)
  BY <1>1, <1>7 DEF W!PutLink, W!EndSwing, W!GetClaim, W!EndHeadSwing, W!FastPutLink, W!FastGetTake
<1>8. CASE W!MaxPhase(t) \/ W!Help(t) \/ W!Result(t) \/ W!Return(t)
  BY <1>1, <1>3, <1>8 DEF W!MaxPhase, W!Help, W!Result, W!Return
<1>9. CASE W!PutPending(t) \/ W!PutTail(t) \/ W!PutNext(t) \/ W!PutSame(t) \/ W!PutAgain(t) \/ W!PutNode(t)
  BY <1>1, <1>3, <1>9 DEF W!PutPending, W!PutTail, W!PutNext, W!PutSame, W!PutAgain, W!PutNode
<1>10. CASE W!EndTail(t) \/ W!EndNext(t) \/ W!EndState(t) \/ W!EndSame(t) \/ W!EndNode(t)
  BY <1>1, <1>3, <1>10 DEF W!EndTail, W!EndNext, W!EndState, W!EndSame, W!EndNode
<1>11. CASE W!GetPending(t) \/ W!GetHead(t) \/ W!GetTail(t) \/ W!GetNext(t) \/ W!GetSame(t) \/ W!GetState(t)
  BY <1>1, <1>3, <1>11 DEF W!GetPending, W!GetHead, W!GetTail, W!GetNext, W!GetSame, W!GetState
<1>12. CASE W!EmptyStill(t) \/ W!GetAgain(t) \/ W!GetMark(t)
  BY <1>1, <1>3, <1>12 DEF W!EmptyStill, W!GetAgain, W!GetMark
<1>13. CASE W!EndHead(t) \/ W!EndHeadNext(t) \/ W!EndTid(t) \/ W!EndGetState(t) \/ W!EndHeadSame(t)
  BY <1>1, <1>3, <1>13 DEF W!EndHead, W!EndHeadNext, W!EndTid, W!EndGetState, W!EndHeadSame
<1>14. CASE W!FastBegin(t) \/ W!FastPutTail(t) \/ W!FastPutNext(t) \/ W!FastPutSame(t)
  BY <1>1, <1>3, <1>14 DEF W!FastBegin, W!FastPutTail, W!FastPutNext, W!FastPutSame
<1>15. CASE W!FastGetHead(t) \/ W!FastGetTail(t) \/ W!FastGetNext(t) \/ W!FastGetSame(t) \/ W!FastGetTid(t)
  BY <1>1, <1>3, <1>15 DEF W!FastGetHead, W!FastGetTail, W!FastGetNext, W!FastGetSame, W!FastGetTid
<1>16. CASE W!Slow(t)
  BY <1>4, <1>8, <1>16 DEF W!Slow
<1>17. CASE W!Enq(t)
  BY <1>5, <1>7, <1>9, <1>10, <1>17 DEF W!Enq
<1>18. CASE W!Deq(t)
  BY <1>5, <1>7, <1>11, <1>12, <1>13, <1>18 DEF W!Deq
<1>19. CASE W!Fast(t)
  BY <1>6, <1>7, <1>14, <1>15, <1>19 DEF W!Fast
<1> QED BY <1>6, <1>8, <1>16, <1>17, <1>18, <1>19 DEF W!Step
-----------------------------------------------------------------------------
\* From the first state on.

LEMMA InitKept ==
  ASSUME W!Init
  PROVE  WInv
<1>1. /\ version \in Versions /\ head = W!Head(W!Sentinel, W!kTidNotSet) /\ tail = W!Sentinel
      /\ next = [x \in W!Nodes |-> Null] /\ enq_tid = [x \in W!Nodes |-> W!kTidNotSet]
      /\ deq_tid = [x \in W!Nodes |-> W!kTidNotSet] /\ state = [t \in Threads |-> W!NoDescriptor]
      /\ th = [t \in Threads |-> W!Idle]
      /\ done = {} /\ out = {} /\ late = {} /\ older = [x \in Items |-> {}]
      /\ start = [t \in Threads |-> W!NoMemo] /\ sight = [t \in Threads |-> FALSE]
  BY DEF W!Init, W!HistoryInit
<1>2. /\ W!Idle \in WLocals /\ W!Idle.pc = "idle" /\ W!Idle.op = "none" /\ W!Idle.item = Null /\ W!Idle.slow = FALSE
      /\ W!Idle.phase = W!kNoPhase /\ W!Idle.i = 0 /\ W!Idle.then = "idle" /\ W!Idle.back = "idle"
      /\ ~Helping(W!Idle) /\ ~Finishing(W!Idle)
  BY IdleFact
<1>3. /\ W!NoDescriptor \in Descriptors /\ W!NoDescriptor.phase = W!kNoPhase /\ ~W!NoDescriptor.pending
      /\ W!NoDescriptor.type = "put" /\ W!NoDescriptor.node = Null
  BY DEF W!NoDescriptor, W!Descriptor, Descriptors, NodesOrNone
<1>4. head.node = W!Sentinel /\ head.tid = W!kTidNotSet /\ head \in [node : W!Nodes, tid : ThreadsOrNone]
  BY <1>1 DEF W!Head, W!Nodes, ThreadsOrNone, W!kTidNotSet
<1>5. \A t \in Threads : th[t] = W!Idle /\ state[t] = W!NoDescriptor
  BY <1>1
<1>6. WTypeOK
  <2>1. /\ next \in [W!Nodes -> Items \cup {Null}] /\ enq_tid \in [W!Nodes -> ThreadsOrNone]
        /\ deq_tid \in [W!Nodes -> ThreadsOrNone] /\ tail \in W!Nodes
    BY <1>1 DEF ThreadsOrNone, W!kTidNotSet, W!Nodes
  <2>2. state \in [Threads -> Descriptors] /\ th \in [Threads -> WLocals]
    BY <1>1, <1>2, <1>3
  <2>3. /\ older \in [Items -> SUBSET Items] /\ sight \in [Threads -> BOOLEAN]
        /\ start \in [Threads -> [done : SUBSET Items, late : SUBSET Items]]
    BY <1>1 DEF W!NoMemo
  <2> QED BY <1>1, <1>4, <2>1, <2>2, <2>3 DEF WTypeOK
<1>7. /\ Succ \in [W!Nodes -> SUBSET W!Nodes] /\ W!Sentinel \in W!Nodes /\ \A x \in W!Nodes : next[x] = Null /\ Succ[x] = {}
  BY <1>1, <1>6, SuccFact
<1>8. Linked = {} /\ Chain = {W!Sentinel} /\ After(Succ, head.node) = {}
  BY <1>4, <1>7, AfterNone DEF Linked, Chain
<1>9. ListInv
  <2>1. Acyclic(Succ)
    BY <1>7 DEF Acyclic
  <2> QED BY <1>1, <1>4, <1>7, <1>8, <2>1 DEF ListInv, UpTo
<1>10. ClaimInv
  <2>1. Claimant = W!kTidNotSet
    BY <1>1, <1>4, <1>7 DEF Claimant
  <2>2. \A x \in Chain : ~Before(x, head.node)
    BY <1>7, <1>8, AfterNone DEF Before
  <2>3. \A x \in W!Nodes : deq_tid[x] = W!kTidNotSet
    BY <1>1
  <2> QED BY <1>4, <2>1, <2>2, <2>3 DEF ClaimInv
<1>11. ASSUME NEW t \in Threads PROVE ThreadInv(t)
  <2>1. th[t] = W!Idle /\ state[t] = W!NoDescriptor
    BY <1>5
  <2>2. ControlInv(t)
    BY <1>2, <2>1 DEF ControlInv, ControlAt, PutPcs, EndPutPcs, GetPcs, EmptyPcs, TakePcs, EndGetPcs, FastPutPcs, FastGetPcs, FastPcs
  <2>3. DescInv(t)
    BY <1>2, <1>3, <2>1 DEF DescInv, DescAt
  <2>4. HelpInv(t) /\ PhaseInv(t)
    BY <1>2, <2>1 DEF HelpInv, PhaseInv, HelpAt, PhaseAt
  <2>5. PutInv(t) /\ EndPutInv(t) /\ LookInv(t) /\ GetInv(t) /\ EndGetInv(t)
    BY <1>2, <2>1 DEF PutInv, EndPutInv, LookInv, GetInv, EndGetInv, LinkAt, EndPutAt, LookAt, GetAt, EndGetAt,
                      EndPutPcs, EmptyPcs, TakePcs, EndGetPcs
  <2> QED BY <2>2, <2>3, <2>4, <2>5 DEF ThreadInv
<1>12. PlacesInv
  <2>1. \A t \in Threads : W!InHand(t) = {} /\ Behind(t) = {} /\ th[t].op = "none"
    BY <1>2, <1>5 DEF W!InHand, Behind
  <2>2. W!Hands = {}
    BY <2>1 DEF W!Hands
  <2>3. \A y \in Items : enq_tid[y] = W!kTidNotSet
    BY <1>1, <1>6, SuccFact
  <2> QED BY <1>1, <1>8, <2>1, <2>2, <2>3 DEF PlacesInv
<1>13. OrderInv
  BY <1>1, <1>8 DEF OrderInv, W!NoMemo
<1> QED BY <1>6, <1>9, <1>10, <1>11, <1>12, <1>13 DEF WInv

\* What the invariant is for.
LEMMA WSafe ==
  ASSUME WInv
  PROVE  /\ W!Conserved
         /\ \A t \in Threads : W!SaysEmpty(t) => sight[t]
         /\ Order = "fifo" => \A t \in Threads : th[t].item \notin start[t].late
<1> DEFINE held == After(Succ, head.node)
<1>1. /\ WTypeOK /\ ListInv /\ PlacesInv /\ OrderInv
      /\ \A t \in Threads : DescAt(t, th[t])
  BY DEF WInv, ThreadInv, DescInv
<1>2. W!Held = held
  BY <1>1, WHeldIs DEF ListInv
<1>3. \A x : x \in W!Transit <=> \E u \in Threads : x \in Behind(u)
  BY DEF W!Transit, Behind
<1>4. /\ done \subseteq Linked /\ Linked \subseteq W!Begun
      /\ \A x \in Linked \ held : x \in W!Hands \cup out \/ \E u \in Threads : x \in Behind(u)
      /\ W!Hands \cup out \subseteq Linked /\ held \cap (W!Hands \cup out) = {} /\ W!Hands \cap out = {}
      /\ \A u \in Threads : Behind(u) \cap (W!Hands \cup out) = {}
      /\ \A v, u \in Threads : v # u => W!InHand(v) \cap W!InHand(u) = {}
  BY <1>1 DEF PlacesInv
<1>5. W!Conserved
  <2> HIDE DEF held
  <2>1. done \subseteq (held \cup W!Transit) \cup W!Hands \cup out
    BY <1>3, <1>4
  <2>2. (held \cup W!Transit) \cap (W!Hands \cup out) = {}
    BY <1>3, <1>4
  <2> QED BY <1>2, <1>4, <2>1, <2>2 DEF W!Conserved, W!ConservedIn
<1>6. \A t \in Threads : W!SaysEmpty(t) => sight[t]
  BY <1>1 DEF DescAt, W!SaysEmpty
<1>7. Order = "fifo" => \A t \in Threads : th[t].item \notin start[t].late
  BY <1>1 DEF OrderInv
<1> QED BY <1>5, <1>6, <1>7

\* A step of nobody.

LEMMA WStutter ==
  ASSUME WInv, UNCHANGED W!vars
  PROVE  WInv'
<1>1. UNCHANGED <<th, version, head, tail, next, enq_tid, deq_tid, state, done, out, older, late, start, sight>>
  BY DEF W!vars, W!shared, W!list, W!history
<1>2. WTypeOK' /\ ListInv' /\ ClaimInv'
  BY <1>1 DEF WInv, WTypeOK, ListInv, ClaimInv, Succ, Linked, Chain, Before, UpTo, Claimant
<1>3. ASSUME NEW t \in Threads PROVE ThreadInv(t)'
  <2>1. ControlInv(t)'
    BY <1>1 DEF WInv, ThreadInv, ControlInv, ControlAt
  <2>2. DescInv(t)'
    BY <1>1 DEF WInv, ThreadInv, DescInv, DescAt, Succ, Linked, Chain, Before, UpTo
  <2>3. HelpInv(t)' /\ PhaseInv(t)'
    BY <1>1 DEF WInv, ThreadInv, HelpInv, HelpAt, PhaseInv, PhaseAt, Succ, Linked, Pending
  <2>4. PutInv(t)'
    BY <1>1 DEF WInv, ThreadInv, PutInv, LinkAt, Succ, Linked, Chain, Before, UpTo, WasTail, Pending
  <2>5. EndPutInv(t)'
    BY <1>1 DEF WInv, ThreadInv, EndPutInv, EndPutAt, Succ, Linked, Chain, Before, UpTo, WasTail, UpToNow, Newer
  <2>6. LookInv(t)'
    BY <1>1 DEF WInv, ThreadInv, LookInv, LookAt, Succ, Linked, Chain, Before, UpTo, WasTail, WasHead, HeadNewer, Pending
  <2>7. GetInv(t)'
    BY <1>1 DEF WInv, ThreadInv, GetInv, GetAt, Succ, Linked, Chain, Before, UpTo, UpToNow, Newer, WasHead, HeadNewer,
                Claimable, Pending
  <2>8. EndGetInv(t)'
    BY <1>1 DEF WInv, ThreadInv, EndGetInv, EndGetAt, Succ, Linked, Chain, Before, UpTo, UpToNow, Newer, WasHead, HeadNewer
  <2> QED BY <2>1, <2>2, <2>3, <2>4, <2>5, <2>6, <2>7, <2>8 DEF ThreadInv
<1>4. PlacesInv'
  BY <1>1 DEF WInv, PlacesInv, Succ, Linked, Before, Behind, W!Hands, W!InHand, W!Begun
<1>5. OrderInv'
  BY <1>1 DEF WInv, OrderInv, Succ, Linked, Before
<1> QED BY <1>2, <1>3, <1>4, <1>5 DEF WInv
=============================================================================
