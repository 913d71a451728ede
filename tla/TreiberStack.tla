---------------------------- MODULE TreiberStack ----------------------------
(***************************************************************************)
(* The Treiber stack of src/src/datastructures/treiber_stack.h: a linked   *)
(* list behind one word *top_, changed only by compare-and-swap.  One step *)
(* of a thread is one access to shared memory.                             *)
(*                                                                         *)
(* As in MSQueue a word is a pointer and an ABA tag of AbaMod values, reads *)
(* of a word are atomic, and a node that was handed out is never handed    *)
(* out again.                                                              *)
(*                                                                         *)
(* spine (the nodes in the stack, the top one last) and changes (how often *)
(* the top word changed) are history variables, and emptyAt[t] is the      *)
(* value of changes at the read that gave t its emptyState.                *)
(***************************************************************************)
EXTENDS Integers, Sequences

CONSTANTS Threads,   \* the threads sharing the stack
          Values,    \* the items
          Nodes,     \* the memory nodes are taken from
          Null,      \* the null pointer, and "no item"
          AbaMod,    \* the number of ABA tags: 2^64, or 2^3 without cas128
          Calls,     \* the operations each thread may call
          Live       \* the threads that are scheduled again and again

PushOps == {"push"}
PopOps == {"pop", "get_return_empty_state"}

ASSUME TreiberStackAssumption ==
  /\ Null \notin Nodes
  /\ Null \notin Values
  /\ AbaMod \in Nat \ {0}
  /\ Calls \in [Threads -> SUBSET (PushOps \cup PopOps)]
  /\ Live \subseteq Threads

VARIABLES
  top,               \* the word *top_
  next, data,        \* Node::next (its pointer) and Node::data of every node
  allocated,         \* the nodes handed out so far
  pc, op,            \* what each thread is doing, for which operation
  topOld,            \* the local word top_old of each thread
  node,              \* the node of a push; the successor in top_new of a pop
  emptyState,        \* the *state of the last empty answer of a thread
  res,               \* the answer of the last call of a thread, until the next
  spine, changes, emptyAt  \* history variables

memory  == <<next, data, allocated>>
locals  == <<pc, op, topOld, node>>
answers == <<emptyState, emptyAt, res>>
history == <<spine, changes>>
vars == <<top, memory, locals, answers, history>>

NullWord == [ptr |-> Null, aba |-> 0]
NoAnswer == [kind |-> "none", val |-> Null]

\* Faults for the runs: a tag that stays or outgrows its bits, a store instead
\* of a CAS, a copy of the top that is made before the loop only.
SwingKeepTag(w, n) == [ptr |-> n, aba |-> w.aba]
SwingTagUnbounded(w, n) == [ptr |-> n, aba |-> w.aba + 1]
TopAssumed(t) == TRUE
TopCopyOnce(t) == IF topOld[t] = NullWord THEN top ELSE topOld[t]

Swing(w, n) == [ptr |-> n, aba |-> (w.aba + 1) % AbaMod]
TopUnchanged(t) == top = topOld[t]
TopCopy(t) == top

Init ==
  /\ top = NullWord
  /\ next = [n \in Nodes |-> Null]
  /\ data = [n \in Nodes |-> Null]
  /\ allocated = {}
  /\ pc = [t \in Threads |-> "idle"]
  /\ op = [t \in Threads |-> "none"]
  /\ topOld = [t \in Threads |-> NullWord]
  /\ node = [t \in Threads |-> Null]
  /\ emptyState = [t \in Threads |-> NullWord]
  /\ emptyAt = [t \in Threads |-> 0]
  /\ res = [t \in Threads |-> NoAnswer]
  /\ spine = <<>>
  /\ changes = 0

At(t, label) == pc[t] = label
Goto(t, label) == pc' = [pc EXCEPT ![t] = label]

\* The call returns; its locals die.
Respond(t, kind, val) ==
  /\ Goto(t, "idle")
  /\ op' = [op EXCEPT ![t] = "none"]
  /\ topOld' = [topOld EXCEPT ![t] = NullWord]
  /\ node' = [node EXCEPT ![t] = Null]
  /\ res' = [res EXCEPT ![t] = [kind |-> kind, val |-> val]]

-----------------------------------------------------------------------------
\* push

CallPush(t, n, v) ==
  /\ At(t, "idle") /\ "push" \in Calls[t]
  /\ n \in Nodes \ allocated
  /\ allocated' = allocated \cup {n}
  /\ data' = [data EXCEPT ![n] = v]
  /\ node' = [node EXCEPT ![t] = n]
  /\ Goto(t, "P_read")
  /\ op' = [op EXCEPT ![t] = "push"]
  /\ res' = [res EXCEPT ![t] = NoAnswer]
  /\ UNCHANGED <<top, next, topOld, emptyState, emptyAt, history>>

\* The copy of the top, and the link of the private node to it.
PushRead(t) ==
  /\ At(t, "P_read")
  /\ topOld' = [topOld EXCEPT ![t] = TopCopy(t)]
  /\ next' = [next EXCEPT ![node[t]] = TopCopy(t).ptr]
  /\ Goto(t, "P_cas")
  /\ UNCHANGED <<top, data, allocated, op, node, answers, history>>

PushCas(t) ==
  /\ At(t, "P_cas")
  /\ UNCHANGED <<memory, op, topOld, node, answers>>
  /\ \/ /\ TopUnchanged(t)
        /\ top' = Swing(topOld[t], node[t])
        /\ Goto(t, "P_return")
        /\ spine' = Append(spine, node[t])
        /\ changes' = changes + 1
     \/ /\ ~TopUnchanged(t)
        /\ Goto(t, "P_read")
        /\ UNCHANGED <<top, history>>

PushReturn(t) ==
  /\ At(t, "P_return")
  /\ Respond(t, "ok", Null)
  /\ UNCHANGED <<top, memory, emptyState, emptyAt, history>>

-----------------------------------------------------------------------------
\* pop and get_return_empty_state

CallPop(t, o) ==
  /\ At(t, "idle") /\ o \in Calls[t]
  /\ Goto(t, "O_read")
  /\ op' = [op EXCEPT ![t] = o]
  /\ res' = [res EXCEPT ![t] = NoAnswer]
  /\ UNCHANGED <<top, memory, topOld, node, emptyState, emptyAt, history>>

PopRead(t) ==
  /\ At(t, "O_read")
  /\ topOld' = [topOld EXCEPT ![t] = TopCopy(t)]
  /\ \/ /\ TopCopy(t).ptr = Null
        /\ Goto(t, "O_empty")
        /\ \/ /\ op[t] = "pop"
              /\ UNCHANGED <<emptyState, emptyAt>>
           \/ /\ op[t] = "get_return_empty_state"
              /\ emptyState' = [emptyState EXCEPT ![t] = TopCopy(t)]
              /\ emptyAt' = [emptyAt EXCEPT ![t] = changes]
     \/ /\ TopCopy(t).ptr # Null
        /\ Goto(t, "O_next")
        /\ UNCHANGED <<emptyAt, emptyState>>
  /\ UNCHANGED <<top, memory, op, node, res, history>>

PopEmpty(t) ==
  /\ At(t, "O_empty")
  /\ Respond(t, "empty", Null)
  /\ UNCHANGED <<top, memory, emptyState, emptyAt, history>>

PopReadNext(t) ==
  /\ At(t, "O_next")
  /\ node' = [node EXCEPT ![t] = next[topOld[t].ptr]]
  /\ Goto(t, "O_cas")
  /\ UNCHANGED <<top, memory, op, topOld, answers, history>>

PopCas(t) ==
  /\ At(t, "O_cas")
  /\ UNCHANGED <<memory, op, topOld, node, answers>>
  /\ \/ /\ TopUnchanged(t)
        /\ top' = Swing(topOld[t], node[t])
        /\ Goto(t, "O_data")
        /\ spine' = SubSeq(spine, 1, Len(spine) - 1)
        /\ changes' = changes + 1
     \/ /\ ~TopUnchanged(t)
        /\ Goto(t, "O_read")
        /\ UNCHANGED <<top, history>>

\* The item is read only after the node was taken off the stack.  (The *state
\* that get_return_empty_state sets here too is read by no caller.)
PopReadData(t) ==
  /\ At(t, "O_data")
  /\ Respond(t, "item", data[topOld[t].ptr])
  /\ UNCHANGED <<top, memory, emptyState, emptyAt, history>>

-----------------------------------------------------------------------------
Invoke(t) ==
  \/ \E n \in Nodes, v \in Values : CallPush(t, n, v)
  \/ \E o \in PopOps : CallPop(t, o)

\* A thread inside a call takes its next step.
Step(t) ==
  \/ PushRead(t) \/ PushCas(t) \/ PushReturn(t)
  \/ PopRead(t) \/ PopEmpty(t) \/ PopReadNext(t) \/ PopCas(t) \/ PopReadData(t)

Next == \E t \in Threads : Invoke(t) \/ Step(t)

Spec == Init /\ [][Next]_vars

\* The threads in Live keep being scheduled; any other may halt anywhere.
FairSpec == Spec /\ \A t \in Live : WF_vars(Step(t))

-----------------------------------------------------------------------------
\* Properties.

PushPcs == {"P_read", "P_cas", "P_return"}
PopPcs == {"O_read", "O_empty", "O_next", "O_cas", "O_data"}
Words == [ptr : Nodes \cup {Null}, aba : 0..AbaMod-1]
AnswerKinds == {"none", "ok", "item", "empty"}

\* Every variable has its type; ABA tags stay inside their width.
TypeOK ==
  /\ top \in Words
  /\ next \in [Nodes -> Nodes \cup {Null}]
  /\ data \in [Nodes -> Values \cup {Null}]
  /\ allocated \subseteq Nodes
  /\ pc \in [Threads -> {"idle"} \cup PushPcs \cup PopPcs]
  /\ op \in [Threads -> PushOps \cup PopOps \cup {"none"}]
  /\ topOld \in [Threads -> Words]
  /\ node \in [Threads -> Nodes \cup {Null}]
  /\ emptyState \in [Threads -> Words]
  /\ emptyAt \in [Threads -> Nat]
  /\ res \in [Threads -> [kind : AnswerKinds, val : Values \cup {Null}]]
  /\ spine \in Seq(Nodes)
  /\ changes \in Nat

\* A node is published by the CAS that pushes it; before that it is its
\* pusher's own.
Owns(t, n) == pc[t] \in {"P_read", "P_cas"} /\ node[t] = n
Published(n) == n \in allocated /\ \A t \in Threads : ~Owns(t, n)

\* The list: from the top down, the next pointers run through the spine.
SpineNode(i) ==
  /\ Published(spine[i])
  /\ next[spine[i]] = IF i = 1 THEN Null ELSE spine[i - 1]

SpineInv ==
  /\ \A i \in 1..Len(spine) : SpineNode(i)
  /\ top.ptr = IF spine = <<>> THEN Null ELSE spine[Len(spine)]
  /\ \A n \in allocated : data[n] \in Values

\* What a thread may rely on between two accesses.
ThreadInv(t) ==
  /\ pc[t] = "idle" <=> op[t] = "none"
  /\ pc[t] \in PushPcs => op[t] \in PushOps /\ node[t] \in allocated
  /\ pc[t] \in PopPcs => op[t] \in PopOps
  /\ pc[t] \in {"P_read", "P_cas"} =>
       \A u \in Threads \ {t} : ~Owns(u, node[t])
  /\ At(t, "P_cas") => next[node[t]] = topOld[t].ptr
  /\ pc[t] \in {"O_next", "O_cas", "O_data"} => Published(topOld[t].ptr)
  /\ At(t, "O_cas") => node[t] = next[topOld[t].ptr]

\* The tag of the top counts its changes, and a recorded empty state is the
\* top as it was at emptyAt.
TagInv ==
  /\ top.aba = changes % AbaMod
  /\ \A t \in Threads : /\ emptyAt[t] <= changes
                        /\ emptyState[t] = [ptr |-> Null, aba |-> emptyAt[t] % AbaMod]

\* The inductive invariant: the list is intact whatever stale copies of its
\* top the threads hold.  No tag is needed for it, as nodes never come back.
IInv == TypeOK /\ SpineInv /\ TagInv /\ \A t \in Threads : ThreadInv(t)

\* DistributedQueueInterface: the state that came with an "empty" answer is
\* changed as soon as an item is put.  True as long as the tag has not gone
\* round: then an equal state means that the top was never touched.
EmptyStateSound ==
  \A t \in Threads :
    top = emptyState[t] /\ changes - emptyAt[t] < AbaMod => changes = emptyAt[t]

\* The refinement mapping: an item is in, or out, once its CAS is done, and
\* "empty" is seen where the null top is read.
Phase(t) ==
  IF At(t, "idle") THEN "idle"
  ELSE IF At(t, "P_return") THEN "inserted"
  ELSE IF At(t, "O_data") THEN "removed" ELSE op[t]

Arg(t) ==
  IF pc[t] \in {"P_read", "P_cas", "P_return"} THEN data[node[t]]
  ELSE IF At(t, "O_data") THEN data[topOld[t].ptr] ELSE Null

Content == [i \in 1..Len(spine) |-> data[spine[i]]]
PhaseMap == [t \in Threads |-> Phase(t)]
ArgMap == [t \in Threads |-> Arg(t)]
SeenMap == [t \in Threads |-> At(t, "O_empty")]

Lifo == INSTANCE LifoStack
  WITH content <- Content, phase <- PhaseMap, arg <- ArgMap, seen <- SeenMap,
       Inserting <- PushOps, Removing <- PopOps, Failable <- {}

\* stack.h: a linearizable LIFO stack.
Linearizable == Lifo!LifoSpec

\* Lock-freedom: threads that halt inside a call, at whatever access, cannot
\* keep a live thread from returning.
LiveCallsReturn == \A t \in Live : pc[t] # "idle" ~> pc[t] = "idle"
=============================================================================
