---------------------------- MODULE MCContainers ----------------------------
(***************************************************************************)
(* The lock-free containers: hash_table, with its trees, or dynamic_array, *)
(* one of which is used in each behaviour.                                 *)
(*                                                                         *)
(* Two threads add up to three of four keys, three of which share a tree,  *)
(* beside an iterator.  Three threads append three elements to chunks that *)
(* begin with one element or two.                                          *)
(***************************************************************************)
EXTENDS HashTable, DynamicArray

VARIABLE container

MCHash == [k \in Keys |-> IF k = 4 THEN 0 ELSE 1]

AnyInit ==
  \/ container = "hash_table" /\ Init /\ ArrayInit /\ allocated[1] = 1
  \/ container = "dynamic_array" /\ Init /\ ArrayInit

AnyNext ==
  \/ container = "hash_table" /\ Next /\ UNCHANGED << container, array_vars >>
  \/ container = "dynamic_array" /\ ArrayNext /\ UNCHANGED << container, vars >>

AnySpec ==
  /\ AnyInit /\ [][AnyNext]_<< container, vars, array_vars >>
  /\ \A t \in Threads : WF_vars(container = "hash_table" /\ Step(t)
                                /\ UNCHANGED << container, array_vars >>)
  /\ \A t \in Pushers : WF_array_vars(container = "dynamic_array" /\ PushStep(t)
                                      /\ UNCHANGED << container, vars >>)
=============================================================================
