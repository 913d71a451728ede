-------------------------- MODULE MCTSAtomicQueue --------------------------
(* TSDeque as a queue, with two lists, for TLC. *)
EXTENDS TSDeque, TLC

CONSTANTS a, b

MCThreads == 0 .. 2
MCThread == [k \in Kinds |-> [i \in MCThreads |-> i]]

MCCalls == [k \in Kinds |-> 0 :> {<<"put", "left">>} @@ 1 :> {<<"put", "left">>}
                            @@ 2 :> {<<"get", "right">>}]
MCMaxGets == [k \in Kinds |-> [t \in Threads |-> 2]]

MCSymmetry == Permutations(Items)
=============================================================================
