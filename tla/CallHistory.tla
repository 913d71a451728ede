---------------------------- MODULE CallHistory ----------------------------
(***************************************************************************)
(* The calls that threads make to a pool, queue or stack whose items are   *)
(* all different, and a history of them that decides what a caller can     *)
(* observe.  A structure's module keeps in th[t] what thread t is doing: a *)
(* record with the fields                                                  *)
(*   pc    "idle" outside a call, "return" where the call returns;         *)
(*   op    "none" outside a call, else "put" or "get";                     *)
(*   item  the item put, or the one got so far (Null: none);               *)
(*   end   "left" or "right", where the pool is a deque.                   *)
(* Each of its steps includes Observe, which alone changes the history.    *)
(*                                                                         *)
(* The properties are the ones by which a violation of linearizability     *)
(* shows (an item lost, invented, got twice or out of order, an "empty"    *)
(* that was never true), so they need no refinement mapping, and apply     *)
(* where other threads complete an operation.                              *)
(***************************************************************************)
EXTENDS Naturals, FiniteSets

CONSTANTS Threads, Items, Null,
          Order   \* "kfifo", "klifo", "fifo", "lifo" or "deque"

ASSUME CallHistoryAssumption ==
  Null \notin Items /\ Order \in {"kfifo", "klifo", "fifo", "lifo", "deque"}

VARIABLES
  th,       \* what every thread is doing
  done,     \* the items whose put has returned
  out,      \* the items whose get has returned
  older,    \* for an item put: the items in done when its put began
  ends,     \* for an item put to a deque: where
  late,     \* the items that a later get must not find any more
  start,    \* done and late when the get of a thread began, as Order needs
  sight     \* whether the pool was ever empty during the get of a thread

history == <<done, out, older, ends, late, start, sight>>

Strict == Order \in {"fifo", "lifo", "deque"}
Memo == [done |-> IF Order \in {"klifo", "lifo", "deque"} THEN done ELSE {},
         late |-> IF Strict THEN late ELSE {}]
NoMemo == [done |-> {}, late |-> {}]

HistoryInit ==
  /\ done = {} /\ out = {} /\ late = {}
  /\ older = [x \in Items |-> {}]
  /\ ends = [x \in Items |-> "none"]
  /\ start = [t \in Threads |-> NoMemo]
  /\ sight = [t \in Threads |-> FALSE]

InHand(t) == IF th[t].op = "get" THEN {th[t].item} \ {Null} ELSE {}
Hands == UNION {InHand(t) : t \in Threads}
Begun == done \cup {th[t].item : t \in {u \in Threads : th[u].op = "put"}}
Fresh == Items \ (Begun \cup out \cup Hands)

\* The items that had to go before x, which t gets: with "fifo", the puts that
\* came before its put; with "lifo", those that came between its put and its get;
\* with "deque", those that lay between x and the end at which t gets it.
Earlier(x) == older[x]
Later(t, x) == {y \in start[t].done : x \in older[y]}
PutAt(end) == {y \in Items : ends[y] = end}

First(t, x) ==
  CASE Order = "fifo" -> Earlier(x)
    [] Order = "lifo" -> Later(t, x)
    [] Order = "deque" /\ ends[x] = th[t].end -> Later(t, x) \cap PutAt(ends[x])
    [] OTHER -> (Earlier(x) \cap PutAt(ends[x])) \cup (start[t].done \cap PutAt(th[t].end))

\* The step of thread t is from th to th'; heldNext are the items in the
\* structure after it.
Observe(t, heldNext) ==
  LET begins == th[t].op = "none" /\ th'[t].op # "none"
      over == th[t].op # "none" /\ th'[t].op = "none"
      x == th[t].item
      emptied == done' \cap heldNext = {}
  IN
  /\ done' = IF over /\ th[t].op = "put" /\ x # Null THEN done \cup {x} ELSE done
  /\ out' = IF over /\ th[t].op = "get" /\ x # Null THEN out \cup {x} ELSE out
  /\ older' = IF begins /\ th'[t].op = "put"
              THEN [older EXCEPT ![th'[t].item] = done] ELSE older
  /\ ends' = IF begins /\ th'[t].op = "put" /\ Order = "deque"
             THEN [ends EXCEPT ![th'[t].item] = th'[t].end] ELSE ends
  /\ late' = IF over /\ th[t].op = "get" /\ x # Null /\ Strict
             THEN late \cup (First(t, x) \cap heldNext) ELSE late
  /\ start' = IF begins /\ th'[t].op = "get" THEN [start EXCEPT ![t] = Memo]
              ELSE IF over THEN [start EXCEPT ![t] = NoMemo] ELSE start
  /\ sight' = [u \in Threads |->
                 /\ th'[u].op = "get"
                 /\ sight[u] \/ emptied]

-----------------------------------------------------------------------------
\* What a module states about its contents, held.

\* An item whose put has returned is in one place: the structure, the hands
\* of one get, or out; and what is got was put.
ConservedIn(held) ==
  /\ done \subseteq held \cup Hands \cup out
  /\ Hands \cup out \subseteq Begun
  /\ Hands \cap out = {}
  /\ held \cap (Hands \cup out) = {}
  /\ \A t, u \in Threads : t # u => InHand(t) \cap InHand(u) = {}

\* A get is in the course of answering "empty".
SaysEmpty(t) == th[t].pc = "return" /\ th[t].op = "get" /\ th[t].item = Null

\* The items that t's get passes by: see First.
PassedBy(t, held) ==
  LET x == th[t].item IN
  IF Order \in {"fifo", "kfifo"} THEN older[x] \cap held
  ELSE {y \in start[t].done \cap held : x \in older[y]}
=============================================================================
