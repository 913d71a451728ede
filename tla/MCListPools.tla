---------------------------- MODULE MCListPools ----------------------------
(* The pools that find an item by a search, through the lists of all threads *)
(* or down one list, side by side: every behaviour is one of TSDeque, of     *)
(* TSQueue or of RandomDequeueQueue, and the same is asked of each.          *)
EXTENDS CallHistory, Integers, TLC

CONSTANTS a, b, c, DequeKinds, QueueKinds, QuasiFactor, RetryLimits

VARIABLES pool,                                     \* "deque", "queue" or "random"
          kind, clock, clocks, ts, seen,            \* of TSDeque and TSQueue
          list, link, index, taken,                 \* of TSDeque
          tickets, insert, remove,                  \* of TSQueue
          max_retries, head, tail, deleted,         \* of RandomDequeueQueue
          next, gets                                \* of each

\* A queue with two lists and a remover; a list from which both ends are taken at
\* once; a list with items from both ends, and another one with the remover's own.
Calling(toPut, toGet) == ({"put"} \X toPut) \cup ({"get"} \X toGet)
DequeCalls ==
  "hardware" :> (0 :> Calling({"left"}, {}) @@ 1 :> Calling({"left"}, {})
                 @@ 2 :> Calling({}, {"right"}))
  @@ "stutter" :> (0 :> Calling({"right"}, {"right"}) @@ 1 :> Calling({}, {"left"}) @@ 2 :> {})
  @@ "interval" :> (0 :> Calling({"left", "right"}, {}) @@ 1 :> Calling({"left"}, {"left"}) @@ 2 :> {})
DequeGets == [k \in DequeKinds |-> [t \in Threads |-> IF k = "stutter" THEN 1 ELSE 2]]

\* The same queue, or two threads in both roles.
QueueCalls == [k \in QueueKinds |->
  IF k = "hardware" THEN 0 :> {"put"} @@ 1 :> {"put"} @@ 2 :> {"get"}
  ELSE 0 :> {"put", "get"} @@ 1 :> {"put", "get"} @@ 2 :> {}]
QueueGets == [k \in QueueKinds |-> [t \in Threads |-> IF k = "interval" THEN 2 - t ELSE 2]]

\* Three items, of which two can be passed by.
RandomCalls == 0 :> {"put", "get"} @@ 1 :> {"put", "get"} @@ 2 :> {}
RandomGets == [t \in Threads |-> 2 - t]

MCThreads == 0 .. 2
Numbered(kinds) == [k \in kinds |-> [i \in 0 .. (IF k = "hardware" THEN 2 ELSE 1) |-> i]]

D == INSTANCE TSDeque WITH Kinds <- DequeKinds, Thread <- Numbered(DequeKinds),
                           Calls <- DequeCalls, MaxGets <- DequeGets, Order <- "deque"
T == INSTANCE TSQueue WITH Kinds <- QueueKinds, Thread <- Numbered(QueueKinds),
                           Calls <- QueueCalls, MaxGets <- QueueGets
R == INSTANCE RandomDequeueQueue WITH Items <- Items \cup {c}, Calls <- RandomCalls,
                                      MaxGets <- RandomGets, Order <- "kfifo"

ASSUME MCListPoolsAssumption == D!TSDequeAssumption

ofTimed == <<kind, clock, clocks, ts, seen>>
ofD == <<list, link, index, taken>>
ofT == <<tickets, insert, remove>>
ofR == <<max_retries, head, tail, deleted>>
vars == <<th, history, pool, ofTimed, ofD, ofT, ofR, next, gets>>

TimedUnused == kind = Null /\ clock = 0 /\ clocks = Null /\ ts = Null /\ seen = Null
DUnused == list = Null /\ link = Null /\ index = Null /\ taken = Null
TUnused == tickets = 0 /\ insert = Null /\ remove = Null
RUnused == max_retries = 0 /\ head = Null /\ tail = Null /\ deleted = Null

Init ==
  \/ pool = "deque" /\ D!Init /\ TUnused /\ RUnused
  \/ pool = "queue" /\ T!Init /\ DUnused /\ RUnused
  \/ pool = "random" /\ R!Init /\ TimedUnused /\ DUnused /\ TUnused

Next ==
  \/ pool = "deque" /\ D!Next /\ UNCHANGED <<pool, ofT, ofR>>
  \/ pool = "queue" /\ T!Next /\ UNCHANGED <<pool, ofD, ofR>>
  \/ pool = "random" /\ R!Next /\ UNCHANGED <<pool, ofTimed, ofD, ofT>>

Spec == Init /\ [][Next]_vars

MCSymmetry == Permutations(Items)

-----------------------------------------------------------------------------
\* No item is got twice, and one that was added can be found.
Conserved == CASE pool = "deque" -> D!Conserved
               [] pool = "queue" -> T!Conserved
               [] pool = "random" -> R!Conserved

\* A remover answers that there is nothing only if so it was at some instant of
\* its call, though it looks at many places one after the other.
EmptyIsTrue == \A t \in Threads : SaysEmpty(t) => sight[t]

\* No remover gets what lies, for sure and free to be taken, behind what was
\* removed earlier; in the random dequeue queue, behind quasi_factor items.
InOrder == CASE pool = "deque" -> D!InOrder
             [] pool = "queue" -> T!InOrder
             [] pool = "random" -> R!InOrder
=============================================================================
