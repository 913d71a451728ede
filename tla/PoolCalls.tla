----------------------------- MODULE PoolCalls -----------------------------
(***************************************************************************)
(* The calls of datastructures/pool.h as a caller sees them: a call is     *)
(* made, takes effect at one instant before it returns, and returns.  What *)
(* the effect is on the contents is up to the modules that extend this one *)
(* (FifoQueue, LifoStack, UnorderedPool).                                  *)
(*                                                                         *)
(* phase[t] is "idle", the operation t is in while it has had no effect,   *)
(* or "inserted" / "removed" once it has; arg[t] is the item.  An "empty"  *)
(* answer needs an instant inside the call at which the pool was empty:    *)
(* seen[t] remembers such an instant (a removal may make it forget).       *)
(***************************************************************************)
EXTENDS Naturals, Sequences

CONSTANTS Threads,    \* the threads that share the pool
          Values,     \* the items
          Null,       \* "no item"; not an item
          Inserting,  \* the operations that put an item in
          Removing,   \* the operations that take one out
          Failable    \* those of them that may give up

VARIABLES phase, arg, seen, res

callVars == <<phase, arg, seen, res>>

Answers == {"ok", "item", "empty", "failed"}
NoAnswer == [kind |-> "none", val |-> Null]

CallsInit ==
  /\ phase = [t \in Threads |-> "idle"]
  /\ arg = [t \in Threads |-> Null]
  /\ seen = [t \in Threads |-> FALSE]
  /\ res = [t \in Threads |-> NoAnswer]

\* Thread t calls an inserting operation with item v, or a removing one.
BeginCall(t) ==
  /\ phase[t] = "idle"
  /\ \/ \E op \in Inserting, v \in Values :
          /\ phase' = [phase EXCEPT ![t] = op]
          /\ arg' = [arg EXCEPT ![t] = v]
     \/ \E op \in Removing :
          /\ phase' = [phase EXCEPT ![t] = op]
          /\ UNCHANGED arg
  /\ res' = [res EXCEPT ![t] = NoAnswer]
  /\ UNCHANGED seen

\* The insertion of t takes effect.
TakeIn(t) ==
  /\ phase[t] \in Inserting
  /\ phase' = [phase EXCEPT ![t] = "inserted"]
  /\ UNCHANGED <<arg, seen, res>>

\* t takes item v out; earlier sightings of an empty pool may be forgotten.
TakeOut(t, v) ==
  /\ phase[t] \in Removing
  /\ phase' = [phase EXCEPT ![t] = "removed"]
  /\ arg' = [arg EXCEPT ![t] = v]
  /\ seen' \in [Threads -> BOOLEAN]
  /\ \A u \in Threads : seen'[u] => seen[u]
  /\ UNCHANGED res

\* t finds nothing to take out.
Sight(t) ==
  /\ phase[t] \in Removing
  /\ seen' = [seen EXCEPT ![t] = TRUE]
  /\ UNCHANGED <<phase, arg, res>>

\* The answer of a returning call: what it did, "empty" only if that was seen.
Answer(t, kind, val) ==
  \/ phase[t] = "inserted" /\ kind = "ok"     /\ val = Null
  \/ phase[t] = "removed"  /\ kind = "item"   /\ val = arg[t]
  \/ phase[t] \in Removing /\ kind = "empty"  /\ val = Null /\ seen[t]
  \/ phase[t] \in Failable /\ kind = "failed" /\ val = Null

EndCall(t) ==
  /\ \E kind \in Answers, val \in Values \cup {Null} :
       /\ Answer(t, kind, val)
       /\ res' = [res EXCEPT ![t] = [kind |-> kind, val |-> val]]
  /\ phase' = [phase EXCEPT ![t] = "idle"]
  /\ arg' = [arg EXCEPT ![t] = Null]
  /\ seen' = [seen EXCEPT ![t] = FALSE]
=============================================================================
