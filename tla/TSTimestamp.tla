---------------------------- MODULE TSTimestamp ----------------------------
(***************************************************************************)
(* The timestamps of src/src/datastructures/ts_timestamp.h, by which the   *)
(* timestamped structures order the items of different threads.            *)
(*                                                                         *)
(* A timestamp is a pair <<first, second>>, of equal parts where the class *)
(* keeps one number; x is later than y if y[2] < x[1].  kind is the class: *)
(*   "hardware"  the time stamp counter, external: it grows from reading   *)
(*               to reading.  Stamps are the odd numbers 1, 3, ..., and a  *)
(*               reading that stamps nothing is the even number between;   *)
(*   "interval"  two readings of that counter, one after the other;        *)
(*   "atomic"    a shared counter, fetched and incremented;                *)
(*   "stutter"   a clock per thread, set beyond the latest of all clocks.  *)
(***************************************************************************)
EXTENDS CallHistory, Integers

CONSTANTS Kinds,   \* the classes at hand
          Thread   \* the thread with a given thread_id, by the class

ASSUME TSTimestampAssumption ==
  /\ IsFiniteSet(Items)
  /\ Kinds \subseteq {"hardware", "interval", "atomic", "stutter"}
  /\ DOMAIN Thread = Kinds
  /\ \A k \in Kinds : \E n \in 0 .. Cardinality(Threads)-1 : Thread[k] \in [0 .. n -> Threads]

VARIABLES kind,   \* the class, never changed
          clock,  \* the counter: the shared one, or the stamps made so far
          clocks, \* clocks_ of StutteringTimestamp
          ts      \* Item::timestamp of every item

NumThreads == Cardinality(DOMAIN Thread[kind])   \* num_threads_

stamps == <<kind, clock, clocks, ts>>

\* init_sentinel and init_top: earlier, and later, than any stamp.
Sentinel == <<0, 0>>
UINT64_MAX == 4 * Cardinality(Items) + 4
Top == <<UINT64_MAX, UINT64_MAX>>

IsLater(x, y) == y[2] < x[1]

TimestampInit ==
  /\ kind \in Kinds
  /\ clock = 1
  /\ clocks = [t \in Threads |-> 1]
  /\ ts = [x \in Items |-> Top]

\* get_hwptime() and clock_->load().
Hwptime == 2 * clock
ReadClock == IF kind = "atomic" THEN clock ELSE Hwptime
StampClock == IF kind = "atomic" THEN clock ELSE Hwptime + 1

\* The time as t reads it.  The classes with one clock per thread read one per step,
\* th[t].i next, and keep the latest.
LatestSoFar(t) ==
  LET read == clocks[Thread[kind][th[t].i]] IN IF read > th[t].now THEN read ELSE th[t].now
TimeRead(t) == IF kind = "stutter" THEN LatestSoFar(t) ELSE ReadClock
MoreClocks(t) == kind = "stutter" /\ th[t].i + 1 < NumThreads

\* read_time, and the same loop in set_timestamp: then is what the locals of t are
\* once it has read the time, TimeRead(t).
ReadTime(t, label, then) ==
  /\ th[t].pc = label
  /\ th' = IF MoreClocks(t) THEN [th EXCEPT ![t].now = TimeRead(t), ![t].i = @ + 1]
                            ELSE [th EXCEPT ![t] = then]
  /\ UNCHANGED stamps

\* set_timestamp.  A stamp is taken in one step and stored in another.
TakeStamp(t) ==
  /\ th[t].pc = "S_read" /\ kind # "stutter"
  /\ clock' = clock + 1
  /\ th' = [th EXCEPT ![t].pc = "S_store", ![t].now = StampClock]
  /\ UNCHANGED <<kind, clocks, ts>>

TakeLatest(t) ==
  /\ kind = "stutter"
  /\ ReadTime(t, "S_read", [th[t] EXCEPT !.pc = "S_clock", !.now = TimeRead(t), !.i = 0])

SetClock(t) ==
  /\ th[t].pc = "S_clock"
  /\ clocks' = [clocks EXCEPT ![t] = th[t].now + 1]
  /\ th' = [th EXCEPT ![t].pc = "S_store", ![t].now = @ + 1]
  /\ UNCHANGED <<kind, clock, ts>>

StoreStamp(t) ==
  /\ th[t].pc = "S_store"
  /\ LET x == th[t].item  now == th[t].now IN
     \/ /\ kind # "interval"
        /\ ts' = [ts EXCEPT ![x] = <<now, now>>]
        /\ th' = [th EXCEPT ![t].pc = "return", ![t].now = 0]
     \/ /\ kind = "interval"
        /\ ts' = [ts EXCEPT ![x][th[t].i + 1] = now]
        /\ th' = IF th[t].i = 0
                 THEN [th EXCEPT ![t].pc = "S_read", ![t].now = 0, ![t].i = 1]
                 ELSE [th EXCEPT ![t].pc = "return", ![t].now = 0, ![t].i = 0]
  /\ UNCHANGED <<kind, clock, clocks>>

SetTimestamp(t) == TakeStamp(t) \/ TakeLatest(t) \/ SetClock(t) \/ StoreStamp(t)

\* load_timestamp, a part at a time: th[t].i is the part to read next, and r the
\* locals of t once it has read all of the timestamp of x, Loaded(t, x).
Loaded(t, x) == IF kind = "interval" THEN <<th[t].stamp[1], ts[x][2]>> ELSE ts[x]

LoadTimestamp(t, x, r) ==
  th' = IF kind = "interval" /\ th[t].i = 0
        THEN [th EXCEPT ![t].stamp[1] = ts[x][1], ![t].i = 1]
        ELSE [th EXCEPT ![t] = r]
=============================================================================
