------------------------------ MODULE TSStack ------------------------------
(***************************************************************************)
(* The timestamped stack of src/src/datastructures/ts_stack.h over the     *)
(* buffers of ts_stack_buffer.h: a list per thread, to which only that     *)
(* thread pushes, and from which a pop takes the item with the latest      *)
(* timestamp, or at once any item pushed during the pop.                   *)
(*                                                                         *)
(* One step reads or writes one shared word, except that a walk over taken *)
(* items is the step of its last read: taken flags are only ever set, and  *)
(* next is constant.  A thread is never unregistered, so the ring of       *)
(* buffers only grows, right after the entry buffer: a buffer is never     *)
(* unlinked, the entry buffer is met once, and reading the link of another *)
(* buffer is not a step of its own.                                        *)
(***************************************************************************)
EXTENDS TSTimestamp

CONSTANTS Entry,   \* entry_buffer_
          Calls    \* the operations each thread may call, by the class of timestamps

\* Whoever stamps items has a clock of its own, where there is one per thread.
ASSUME TSStackAssumption ==
  /\ Entry \notin Threads /\ Calls \in [Kinds -> [Threads -> SUBSET {"put", "get"}]]
  /\ \A k \in Kinds \cap {"stutter"} : \A t \in Threads :
       "put" \in Calls[k][t] => \E j \in DOMAIN Thread[k] : t = Thread[k][j]

VARIABLES link,   \* SPBuffer::next
          list,   \* SPBuffer::list: an item, Null for the sentinel, and a tag
          next,   \* Item::next
          taken,  \* the items whose Item::taken is set
          seen    \* emptiness_check_pointers_

shared == <<link, list, next, taken, seen>>
vars == <<th, stamps, shared, history>>

Word(x, a) == [item |-> x, aba |-> a]
NoWord == Word(Null, -1)               \* a NULL emptiness_check_pointer
NoBest == [item |-> Null, buf |-> Entry, top |-> NoWord, stamp |-> Sentinel]

\* The locals of a thread: those of TSTimestamp; invocation_time; current_buffer
\* and start_buffer, tmp_top, the item looked at, whether its list is looked at
\* again; the youngest item so far, and empty.
Idle == [pc |-> "idle", op |-> "none", item |-> Null, now |-> 0, i |-> 0,
         stamp |-> Sentinel, cur |-> Entry, start |-> Entry, top |-> NoWord,
         cand |-> Null, again |-> FALSE, best |-> NoBest, empty |-> TRUE]

Init ==
  /\ TimestampInit
  /\ link = [b \in Threads \cup {Entry} |-> b]
  /\ list = [b \in Threads |-> Word(Null, 0)]
  /\ next = [x \in Items |-> Null]
  /\ taken = {}
  /\ seen = [t \in Threads |-> [b \in Threads |-> NoWord]]
  /\ th = [t \in Threads |-> Idle]
  /\ HistoryInit

At(t, label) == th[t].pc = label
Goto(t, label) == th' = [th EXCEPT ![t].pc = label]

\* Where the pointers f lead from x on, within S.
Onward(S, f, x) ==
  {y \in S : \A T \in SUBSET S :
     (x \in S => x \in T) /\ (\A z \in T : f[z] \in S => f[z] \in T) => y \in T}

\* The items from x down, and the first of them that is not taken.
Chain(x) == Onward(Items, next, x)
FirstUntaken(x) ==
  LET left == Chain(x) \ taken
  IN IF left = {} THEN Null ELSE CHOOSE y \in left : left \subseteq Chain(y)
Held == (UNION {Chain(list[b].item) : b \in Threads}) \ taken

Local(t) == UNCHANGED <<stamps, shared>> /\ Observe(t, Held)

-----------------------------------------------------------------------------
CallPush(t) ==
  /\ At(t, "idle") /\ "put" \in Calls[kind][t]
  /\ \E x \in Fresh :
       th' = [th EXCEPT ![t] =
                [Idle EXCEPT !.op = "put", !.item = x,
                             !.pc = IF link[t] = t THEN "register" ELSE "I_walk"]]
  /\ Local(t)

CallPop(t) ==
  /\ At(t, "idle") /\ "get" \in Calls[kind][t]
  /\ th' = [th EXCEPT ![t] = [Idle EXCEPT !.op = "get", !.pc = "time"]]
  /\ Local(t)

Return(t) ==
  /\ At(t, "return")
  /\ th' = [th EXCEPT ![t] = Idle]
  /\ Local(t)

\* register_thread: the ring grows by the thread's buffer.
Register(t) ==
  /\ At(t, "register")
  /\ link' = [link EXCEPT ![t] = link[Entry], ![Entry] = t]
  /\ Goto(t, "I_walk")
  /\ UNCHANGED <<stamps, list, next, taken, seen>> /\ Observe(t, Held)

\* insert_right: items taken from the top are left out.
InsertTop(t) == FirstUntaken(list[t].item)
InsertWalk(t) ==
  /\ At(t, "I_walk")
  /\ next' = [next EXCEPT ![th[t].item] = InsertTop(t)]
  /\ Goto(t, "I_list")
  /\ UNCHANGED <<stamps, link, list, taken, seen>> /\ Observe(t, Held)

\* add_next_aba: a tag of three bits.
NextAba(a) == (a + 1) % 8

InsertList(t) ==
  /\ At(t, "I_list")
  /\ list' = [list EXCEPT ![t] = Word(th[t].item, NextAba(@.aba))]
  /\ Goto(t, "S_read")
  /\ UNCHANGED <<stamps, link, next, taken, seen>> /\ Observe(t, Held')

Stamp(t) == SetTimestamp(t) /\ UNCHANGED shared /\ Observe(t, Held)

-----------------------------------------------------------------------------
\* pop and try_remove_right.

PopTime(t) ==
  /\ ReadTime(t, "time", [th[t] EXCEPT !.pc = "start", !.now = TimeRead(t), !.i = 0])
  /\ UNCHANGED shared /\ Observe(t, Held)

\* A round keeps the invocation time.
NewRound(t, label) == [Idle EXCEPT !.pc = label, !.op = "get", !.now = th[t].now]

\* The end of a round whose locals are r: all buffers were looked at.
EndRound(t, r) ==
  IF r.best # NoBest THEN [r EXCEPT !.pc = "take", !.cand = Null, !.stamp = Sentinel]
  ELSE IF r.empty THEN [Idle EXCEPT !.pc = "return", !.op = "get"]
  ELSE NewRound(t, "start")

\* From a buffer to the next one.  The list of the entry buffer is always empty.
Ahead(t, r) ==
  IF link[r.cur] # Entry THEN [r EXCEPT !.pc = "top", !.cur = link[@]]
  ELSE IF r.start = Entry THEN EndRound(t, r)
  ELSE [r EXCEPT !.pc = "entry", !.cur = Entry]

Scanned(t, r) ==
  IF r.cur = r.start THEN EndRound(t, r)
  ELSE Ahead(t, [r EXCEPT !.top = NoWord, !.cand = Null, !.stamp = Sentinel, !.again = FALSE])

\* The buffers behind b in the ring, up to the entry buffer.  The start is at most
\* num_threads_ - 1 links away from that.
After(b) == Onward(Threads, link, link[b])
Starts == {Entry} \cup {b \in After(Entry) : Cardinality(After(Entry) \ After(b)) < NumThreads}

RemoveStart(t) ==
  /\ At(t, "start")
  /\ \E s \in Starts :
       th' = [th EXCEPT ![t] = Ahead(t, [NewRound(t, "start") EXCEPT !.cur = s, !.start = s])]
  /\ Local(t)

RemoveNext(t) ==
  /\ At(t, "entry")
  /\ th' = [th EXCEPT ![t] = Ahead(t, th[t])]
  /\ Local(t)

RemoveTop(t) ==
  /\ At(t, "top")
  /\ th' = [th EXCEPT ![t].pc = "list", ![t].top = list[th[t].cur]]
  /\ Local(t)

\* get_youngest_item: the list is loaded once more, and walked.
RemoveList(t) ==
  /\ At(t, "list")
  /\ th' = [th EXCEPT ![t].pc = "walk", ![t].cand = list[th[t].cur].item]
  /\ Local(t)

\* An empty list counts as such if it looked the same before.
SeenAssumed(t) == TRUE                 \* a fault: a single look at the list
SeenBefore(t) == seen[t][th[t].cur] = th[t].top

RemoveWalk(t) ==
  /\ At(t, "walk")
  /\ LET r == [th[t] EXCEPT !.cand = FirstUntaken(@)] IN
     \/ /\ r.cand # Null
        /\ th' = [th EXCEPT ![t] = [r EXCEPT !.pc = "stamp", !.empty = FALSE]]
        /\ UNCHANGED seen
     \/ /\ r.cand = Null
        /\ seen' = IF r.again \/ SeenBefore(t) THEN seen
                   ELSE [seen EXCEPT ![t][r.cur] = r.top]
        /\ th' = [th EXCEPT ![t] =
                    Scanned(t, [r EXCEPT !.empty = @ /\ (r.again \/ SeenBefore(t))])]
  /\ UNCHANGED <<stamps, link, list, next, taken>> /\ Observe(t, Held)

\* The timestamp decides whether to take the item at once (if it was not pushed
\* before the pop began), and whether it is the youngest so far.
Compared(t, r) ==
  Scanned(t, IF IsLater(r.stamp, r.best.stamp)
             THEN [r EXCEPT !.best = [item |-> r.cand, buf |-> r.cur, top |-> r.top,
                                      stamp |-> r.stamp]]
             ELSE r)
AtOnceSwapped(t, stamp) == ~IsLater(stamp, <<th[t].now, th[t].now>>) \* a fault
AtOnce(t, stamp) == ~IsLater(<<th[t].now, th[t].now>>, stamp)

RemoveStamp(t) ==
  /\ At(t, "stamp")
  /\ LoadTimestamp(t, th[t].cand,
       LET r == [th[t] EXCEPT !.stamp = Loaded(t, th[t].cand), !.i = 0] IN
       IF ~r.again /\ AtOnce(t, r.stamp) THEN [r EXCEPT !.pc = "eliminate"]
       ELSE Compared(t, r))
  /\ Local(t)

\* Whoever sets the taken flag has the item.
TakenBefore(x) == x \in taken

RemoveEliminate(t) ==
  /\ At(t, "eliminate")
  /\ \/ /\ ~TakenBefore(th[t].cand)
        /\ taken' = taken \cup {th[t].cand}
        /\ th' = [th EXCEPT ![t] = [Idle EXCEPT !.pc = "adjust", !.op = "get",
                    !.item = th[t].cand, !.cur = th[t].cur, !.top = th[t].top]]
     \/ /\ TakenBefore(th[t].cand)
        /\ th' = [th EXCEPT ![t].pc = "top", ![t].again = TRUE, ![t].top = NoWord,
                            ![t].cand = Null, ![t].stamp = Sentinel]
        /\ UNCHANGED taken
  /\ UNCHANGED <<stamps, link, list, next, seen>> /\ Observe(t, Held')

RemoveTake(t) ==
  /\ At(t, "take")
  /\ LET best == th[t].best IN
     \/ /\ ~TakenBefore(best.item)
        /\ taken' = taken \cup {best.item}
        /\ th' = [th EXCEPT ![t] = [Idle EXCEPT !.pc = "adjust", !.op = "get",
                    !.item = best.item, !.cur = best.buf, !.top = best.top]]
     \/ /\ TakenBefore(best.item)
        /\ th' = [th EXCEPT ![t] = NewRound(t, "start")]
        /\ UNCHANGED taken
  /\ UNCHANGED <<stamps, link, list, next, seen>> /\ Observe(t, Held')

\* The list is cut above the item, if it is as it was before.
ListMoved(t) == TRUE                   \* a fault: the list is cut blindly
SameTop(t) == list[th[t].cur] = th[t].top

RemoveAdjust(t) ==
  /\ At(t, "adjust")
  /\ list' = IF SameTop(t) THEN [list EXCEPT ![th[t].cur].item = th[t].item] ELSE list
  /\ th' = [th EXCEPT ![t] = [Idle EXCEPT !.pc = "return", !.op = "get",
                                          !.item = th[t].item]]
  /\ UNCHANGED <<stamps, link, next, taken, seen>> /\ Observe(t, Held')

-----------------------------------------------------------------------------
Step(t) ==
  \/ Register(t) \/ InsertWalk(t) \/ InsertList(t) \/ Stamp(t)
  \/ PopTime(t) \/ RemoveStart(t) \/ RemoveNext(t) \/ RemoveTop(t) \/ RemoveList(t)
  \/ RemoveWalk(t) \/ RemoveStamp(t) \/ RemoveEliminate(t) \/ RemoveTake(t)
  \/ RemoveAdjust(t) \/ Return(t)

Next == \E t \in Threads : CallPush(t) \/ CallPop(t) \/ Step(t)

Spec == Init /\ [][Next]_vars

-----------------------------------------------------------------------------
\* Properties.

\* No item is lost from a list that is cut while its owner pushes, and none is
\* popped twice.
Conserved == ConservedIn(Held)

\* A pop answers "empty" only if, at some instant of it, every item whose push
\* had returned was gone: two equal looks at each list make up for not seeing
\* all of them at once.
EmptyIsTrue == \A t \in Threads : SaysEmpty(t) => sight[t]

\* The stack is LIFO although it has no top: a pop never gets an item that was
\* pushed after, and could have been taken before, an item popped earlier.
InOrder == \A t \in Threads : th[t].item \notin start[t].late
=============================================================================
