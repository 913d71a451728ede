------------------------------ MODULE TSDeque ------------------------------
(***************************************************************************)
(* The timestamped deque of src/src/datastructures/ts_deque.h over the     *)
(* buffers of ts_deque_buffer.h: a doubly linked list per thread, to which *)
(* only that thread adds, at either end.  The timestamped queues and       *)
(* stacks use the same buffers, from one end or from both.                 *)
(*                                                                         *)
(* The code has each operation twice, for the left and for the right; here *)
(* the end e is a parameter.  One step reads or writes one shared word,    *)
(* except that of an item in a list the taken flag, which is only ever     *)
(* set, is read together with the link, and that the thread that adds to a *)
(* list walks over taken items, or changes a word of which only it changes *)
(* the tag, in one step.                                                   *)
(***************************************************************************)
EXTENDS TSTimestamp

CONSTANTS Calls,   \* the operations and ends of each thread, by the class of timestamps
          MaxGets  \* bounds the removes that each thread calls, by the class

Ends == {"left", "right"}

TSDequeAssumption ==
  /\ Calls \in [Kinds -> [Threads -> SUBSET ({"put", "get"} \X Ends)]]
  /\ MaxGets \in [Kinds -> [Threads -> Nat]]

VARIABLES list,   \* left_ and right_: an item and a tag
          link,   \* Item::left and Item::right
          index,  \* Item::index
          next,   \* next_index_
          taken,  \* the items whose Item::taken is set
          seen,   \* emptiness_check_left_ and emptiness_check_right_
          gets    \* the removes that each thread has called

shared == <<list, link, index, next, taken, seen>>
vars == <<th, stamps, shared, gets, history>>

\* The sentinel of a thread's list has the thread's name.
Nodes == Items \cup Threads

Other(e) == IF e = "left" THEN "right" ELSE "left"
Word(x, a) == [item |-> x, aba |-> a]
NextAba(a) == (a + 1) % 8              \* add_next_aba: a tag of three bits
NoWord == Word(Null, 0)                \* NULL
NoBest == [item |-> Null, buf |-> 0, top |-> NoWord, stamp |-> Sentinel]

\* The locals of a thread: those of TSTimestamp; the end at which it works; the
\* item inserted next to; invocation_time and start_time; the buffer looked at,
\* and the number of those left; its pointer tmp_left (or tmp_right), the
\* threshold, the item looked at; the best item so far, and empty.
Idle == [pc |-> "idle", op |-> "none", item |-> Null, end |-> "left", now |-> 0,
         i |-> 0, stamp |-> Sentinel, cand |-> Null, inv |-> 0, from |-> 0,
         buf |-> 0, left |-> 0, top |-> NoWord, limit |-> 0, best |-> NoBest,
         empty |-> TRUE]

Init ==
  /\ TimestampInit
  /\ list = [e \in Ends |-> [t \in Threads |-> Word(t, 0)]]
  /\ link = [e \in Ends |-> [x \in Nodes |-> x]]
  /\ index = [x \in Nodes |-> 0]
  /\ next = [t \in Threads |-> 1]
  /\ taken = Threads
  /\ seen = [t \in Threads |-> [e \in Ends |-> [u \in Threads |-> NoWord]]]
  /\ gets = [t \in Threads |-> 0]
  /\ th = [t \in Threads |-> Idle]
  /\ HistoryInit

At(t, label) == th[t].pc = label
Goto(t, label) == th' = [th EXCEPT ![t].pc = label]

\* inserted_left and inserted_right.
InsertedAt(e, x) == IF e = "left" THEN index[x] < 0 ELSE index[x] > 0

\* The items in t's list, from end e on, that are not taken.
Reach(e, t) ==
  LET f[x \in Nodes] == {x} \cup (IF link[Other(e)][x] = x THEN {} ELSE f[link[Other(e)][x]])
  IN f[list[e][t].item] \ taken
HeldAt(e) == UNION {Reach(e, t) : t \in Threads}
Held == HeldAt("left") \cup HeldAt("right")

Local(t) == UNCHANGED <<stamps, shared, gets>> /\ Observe(t, Held)

-----------------------------------------------------------------------------
CallInsert(t, e) ==
  /\ At(t, "idle") /\ <<"put", e>> \in Calls[kind][t]
  /\ \E x \in Fresh :
       th' = [th EXCEPT ![t] =
                [Idle EXCEPT !.pc = "I_walk", !.op = "put", !.end = e, !.item = x]]
  /\ Local(t)

CallRemove(t, e) ==
  /\ At(t, "idle") /\ <<"get", e>> \in Calls[kind][t] /\ gets[t] < MaxGets[kind][t]
  /\ gets' = [gets EXCEPT ![t] = @ + 1]
  /\ th' = [th EXCEPT ![t] = [Idle EXCEPT !.pc = "inv", !.op = "get", !.end = e]]
  /\ UNCHANGED <<stamps, shared>> /\ Observe(t, Held)

Return(t) ==
  /\ At(t, "return")
  /\ th' = [th EXCEPT ![t] = Idle]
  /\ Local(t)

-----------------------------------------------------------------------------
\* insert_left and insert_right.

\* The item at end e of t's list that is not taken, or the last one.
Outermost(t, e) ==
  LET f[x \in Nodes] == IF link[Other(e)][x] = x \/ x \notin taken THEN x
                        ELSE f[link[Other(e)][x]]
  IN f[list[e][t].item]

InsertWalk(t) ==
  /\ At(t, "I_walk")
  /\ LET e == th[t].end  x == th[t].item  near == Outermost(t, e) IN
     /\ th' = [th EXCEPT ![t].cand = near,
                         ![t].pc = IF link[Other(e)][near] = near THEN "I_other" ELSE "I_link"]
     /\ index' = [index EXCEPT ![x] = IF e = "left" THEN -next[t] ELSE next[t]]
     /\ next' = [next EXCEPT ![t] = @ + 1]
     /\ link' = [link EXCEPT ![e][x] = x, ![Other(e)][x] = near]
  /\ UNCHANGED <<stamps, list, taken, seen, gets>> /\ Observe(t, Held)

\* Nothing is left: the other pointer must come along, and with a new tag, lest a
\* remover that is about to move it moves it to what is no longer in the list.
OldTag(a) == a                         \* a fault
OtherAba(a) == NextAba(a)

InsertOther(t) ==
  /\ At(t, "I_other")
  /\ list' = [list EXCEPT ![Other(th[t].end)][t] = Word(th[t].cand, OtherAba(@.aba))]
  /\ Goto(t, "I_link")
  /\ UNCHANGED <<stamps, link, index, next, taken, seen, gets>> /\ Observe(t, Held')

InsertLink(t) ==
  /\ At(t, "I_link")
  /\ link' = [link EXCEPT ![th[t].end][th[t].cand] = th[t].item]
  /\ th' = [th EXCEPT ![t].pc = "I_list", ![t].cand = Null]
  /\ UNCHANGED <<stamps, list, index, next, taken, seen, gets>> /\ Observe(t, Held')

InsertList(t) ==
  /\ At(t, "I_list")
  /\ list' = [list EXCEPT ![th[t].end][t] = Word(th[t].item, NextAba(@.aba))]
  /\ Goto(t, "S_read")
  /\ UNCHANGED <<stamps, link, index, next, taken, seen, gets>> /\ Observe(t, Held')

Stamp(t) == SetTimestamp(t) /\ UNCHANGED <<shared, gets>> /\ Observe(t, Held)

-----------------------------------------------------------------------------
\* remove_left and try_remove_left, remove_right and try_remove_right.

NewRound(t, label) ==
  [Idle EXCEPT !.pc = label, !.op = "get", !.end = th[t].end, !.inv = th[t].inv]

RemoveTime(t) ==
  /\ ReadTime(t, "inv", [NewRound(t, "from") EXCEPT !.inv = TimeRead(t)])
  /\ UNCHANGED <<shared, gets>> /\ Observe(t, Held)

\* Every round has a start time, and begins at a random buffer.
RemoveStart(t) ==
  /\ \E first \in 0 .. NumThreads-1 :
       ReadTime(t, "from", [NewRound(t, "top") EXCEPT
                             !.from = TimeRead(t), !.buf = first, !.left = NumThreads])
  /\ UNCHANGED <<shared, gets>> /\ Observe(t, Held)

\* What was stamped after the start of the round is left alone.
TooLate(r) == IsLater(r.best.stamp, <<r.from, r.from>>)

NothingTaken(t, r) ==
  IF r.empty THEN [NewRound(t, "return") EXCEPT !.inv = 0] ELSE NewRound(t, "from")

EndRound(t, r) ==
  IF r.best = NoBest \/ TooLate(r) THEN NothingTaken(t, r)
  ELSE [NewRound(t, "take") EXCEPT !.best = r.best, !.empty = r.empty]

\* Onwards from a buffer.
Scanned(t, r) ==
  IF r.left = 1 THEN EndRound(t, r)
  ELSE [r EXCEPT !.pc = "top", !.buf = (@ + 1) % NumThreads, !.left = @ - 1,
                 !.top = NoWord, !.limit = 0, !.cand = Null, !.stamp = Sentinel]

List(t, e) == list[e][Thread[kind][th[t].buf]]

RemoveTop(t) ==
  /\ At(t, "top")
  /\ th' = [th EXCEPT ![t].pc = "limit", ![t].top = List(t, th[t].end)]
  /\ Local(t)

\* get_left_item and get_right_item.
RemoveLimit(t) ==
  /\ At(t, "limit")
  /\ th' = [th EXCEPT ![t].pc = "list", ![t].limit = index[List(t, Other(th[t].end)).item]]
  /\ Local(t)

RemoveList(t) ==
  /\ At(t, "list")
  /\ th' = [th EXCEPT ![t].pc = "walk", ![t].cand = List(t, th[t].end).item]
  /\ Local(t)

\* An empty list counts as such if its ends looked the same before.
SeenBefore(t, e) == seen[t][e][Thread[kind][th[t].buf]] = List(t, e)
SeenTop(t) == seen[t][th[t].end][Thread[kind][th[t].buf]] = th[t].top

\* A walk from end e stops behind the item that the pointer of the other end
\* named before.
Past(e, x, limit) == IF e = "left" THEN index[x] > limit ELSE index[x] < limit

RemoveWalk(t) ==
  /\ At(t, "walk")
  /\ LET x == th[t].cand  e == th[t].end  further == link[Other(e)][x] IN
     \/ /\ ~Past(e, x, th[t].limit) /\ x \notin taken
        /\ th' = [th EXCEPT ![t].pc = "stamp", ![t].empty = FALSE]
        /\ UNCHANGED seen
     \/ /\ ~Past(e, x, th[t].limit) /\ x \in taken /\ further # x
        /\ th' = [th EXCEPT ![t].cand = further]
        /\ UNCHANGED seen
     \/ /\ Past(e, x, th[t].limit) \/ (x \in taken /\ further = x)
        /\ th' = [th EXCEPT ![t].pc = "other", ![t].cand = Null, ![t].limit = 0,
                            ![t].empty = @ /\ SeenTop(t)]
        /\ seen' = [seen EXCEPT ![t][e][Thread[kind][th[t].buf]] = th[t].top]
  /\ UNCHANGED <<stamps, list, link, index, next, taken, gets>> /\ Observe(t, Held)

RemoveOther(t) ==
  /\ At(t, "other")
  /\ LET e == Other(th[t].end) IN
     /\ th' = [th EXCEPT ![t] = Scanned(t, [th[t] EXCEPT !.empty = @ /\ SeenBefore(t, e)])]
     /\ seen' = [seen EXCEPT ![t][e][Thread[kind][th[t].buf]] = List(t, e)]
  /\ UNCHANGED <<stamps, list, link, index, next, taken, gets>> /\ Observe(t, Held)

\* is_more_left and is_more_right: whether x is nearer to end e than y.
NearerTo(e, x, stampX, y, stampY) ==
  IF InsertedAt(e, y) THEN InsertedAt(e, x) /\ IsLater(stampX, stampY)
  ELSE InsertedAt(e, x) \/ IsLater(stampY, stampX)

\* An item that was inserted at this end, and not before the call began, is taken
\* at once.
AtOnce(t, r) == InsertedAt(r.end, r.best.item) /\ ~IsLater(<<r.inv, r.inv>>, r.best.stamp)

Compared(t, r) ==
  LET better == [r EXCEPT !.best = [item |-> r.cand, buf |-> r.buf, top |-> r.top,
                                    stamp |-> r.stamp]] IN
  IF ~(r.best = NoBest \/ NearerTo(r.end, r.cand, r.stamp, r.best.item, r.best.stamp))
  THEN Scanned(t, r)
  ELSE IF AtOnce(t, better) THEN [better EXCEPT !.pc = "eliminate", !.limit = 0]
  ELSE Scanned(t, better)

RemoveStamp(t) ==
  /\ At(t, "stamp")
  /\ LoadTimestamp(t, th[t].cand,
       Compared(t, [th[t] EXCEPT !.stamp = Loaded(t, th[t].cand), !.i = 0]))
  /\ Local(t)

\* Whoever sets the taken flag has the item.
TakenBefore(x) == x \in taken

RemoveTake(t) ==
  /\ th[t].pc \in {"eliminate", "take"}
  /\ LET best == th[t].best IN
     \/ /\ ~TakenBefore(best.item)
        /\ taken' = taken \cup {best.item}
        /\ th' = [th EXCEPT ![t] = [NewRound(t, "adjust") EXCEPT
                    !.inv = 0, !.item = best.item, !.buf = best.buf, !.top = best.top]]
     \/ /\ TakenBefore(best.item)
        /\ th' = [th EXCEPT ![t] = IF At(t, "take") THEN NothingTaken(t, th[t])
                                   ELSE Scanned(t, th[t])]
        /\ UNCHANGED taken
  /\ UNCHANGED <<stamps, list, link, index, next, seen, gets>> /\ Observe(t, Held')

\* The pointer moves to the item, if it is as it was before.
SameTop(t) == List(t, th[t].end) = th[t].top

RemoveAdjust(t) ==
  /\ At(t, "adjust")
  /\ list' = IF SameTop(t)
             THEN [list EXCEPT ![th[t].end][Thread[kind][th[t].buf]].item = th[t].item]
             ELSE list
  /\ th' = [th EXCEPT ![t] = [NewRound(t, "return") EXCEPT !.item = th[t].item]]
  /\ UNCHANGED <<stamps, link, index, next, taken, seen, gets>> /\ Observe(t, Held')

-----------------------------------------------------------------------------
Insert(t) == InsertWalk(t) \/ InsertOther(t) \/ InsertLink(t) \/ InsertList(t) \/ Stamp(t)

Remove(t) ==
  \/ RemoveTime(t) \/ RemoveStart(t) \/ RemoveTop(t) \/ RemoveLimit(t) \/ RemoveList(t)
  \/ RemoveWalk(t) \/ RemoveOther(t) \/ RemoveStamp(t) \/ RemoveTake(t) \/ RemoveAdjust(t)

Next == \E t \in Threads : Insert(t) \/ Remove(t) \/ Return(t)
                           \/ \E e \in Ends : CallInsert(t, e) \/ CallRemove(t, e)

Spec == Init /\ [][Next]_vars

-----------------------------------------------------------------------------
\* Properties.

\* No item is got twice, and one that was added can be found from either end: no
\* pointer is moved out of the list, or past an item.
Conserved ==
  LET left == HeldAt("left")  right == HeldAt("right") IN
  ConservedIn(left \cup right) /\ done \cap (left \cup right) \subseteq left \cap right

\* A remove answers "empty" only if, at some instant of it, every item that had
\* been added was gone.
EmptyIsTrue == \A t \in Threads : SaysEmpty(t) => sight[t]

\* A remove never gets an item that lay, for sure and free to be taken, between
\* one removed earlier and the end it was removed from.
InOrder == \A t \in Threads : th[t].item \notin start[t].late
=============================================================================
