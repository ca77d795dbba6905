----------------------------- MODULE HashTable ------------------------------
(***************************************************************************)
(* hash_table (source/hash_table.h): a table of trees, each put in its     *)
(* slot by the first call for a key of that slot.  A thread whose          *)
(* compare-and-swap of the slot fails uses the tree that it finds there.   *)
(***************************************************************************)
EXTENDS BinaryTree, FiniteSets

CONSTANTS
  Slots,  \* an interval that starts at 0
  hash    \* the slot of each key

ASSUME HashAssumption == hash \in [Keys -> Slots]

VARIABLES
  table,     \* the tree in each slot, or Nothing
  trees,     \* the number of trees that have been allocated
  new_tree   \* the tree that each thread has made

table_vars == << table, trees, new_tree >>
vars == << tree_vars, table_vars >>

Init ==
  /\ TreeInit
  /\ table = [h \in Slots |-> Nothing]
  /\ trees = 0
  /\ new_tree = [t \in Threads |-> Nothing]
-----------------------------------------------------------------------------
\* operator[](): the first load of the slot, and a tree if there is none.
LoadSlot(t, k) ==
  /\ at[t] = "idle" /\ calls < max_calls
  /\ calls' = calls + 1
  /\ place' = [place EXCEPT ![t] = << Nothing, k >>]
  /\ IF table[hash[k]] # Nothing
     THEN Goto(t, "load") /\ UNCHANGED << trees, new_tree >>
     ELSE /\ trees < max_trees
          /\ trees' = trees + 1
          /\ new_tree' = [new_tree EXCEPT ![t] = trees + 1]
          /\ Goto(t, "slot")
  /\ UNCHANGED << node_vars, current, new_node, answers, iterator, table >>

\* A plain store in place of the compare-and-swap.
CasSlotStore(t) ==
  /\ at[t] = "slot"
  /\ table' = [table EXCEPT ![hash[place[t][2]]] = new_tree[t]]
  /\ new_tree' = [new_tree EXCEPT ![t] = Nothing]
  /\ Goto(t, "load")
  /\ UNCHANGED << node_vars, place, current, new_node, calls, answers, iterator, trees >>

\* The compare-and-swap of the slot, of which the outcome is ignored.
CasSlot(t) ==
  LET h == hash[place[t][2]] IN
  /\ at[t] = "slot"
  /\ table' = [table EXCEPT ![h] = IF @ = Nothing THEN new_tree[t] ELSE @]
  /\ new_tree' = [new_tree EXCEPT ![t] = Nothing]
  /\ Goto(t, "load")
  /\ UNCHANGED << node_vars, place, current, new_node, calls, answers, iterator, trees >>

\* The second load of the slot, and operator[] of the tree.
LoadTree(t) ==
  /\ at[t] = "load"
  /\ CallTree(t, table[hash[place[t][2]]], place[t][2])
  /\ UNCHANGED << calls, table_vars >>

Step(t) == CasSlot(t) \/ LoadTree(t) \/ (find_and_add(t) /\ UNCHANGED table_vars)

Next ==
  \/ \E t \in Threads : (\E k \in Keys : LoadSlot(t, k)) \/ Step(t)
  \/ /\ \/ \E h \in Slots : table[h] # Nothing /\ IteratorBegin(table[h])
        \/ IteratorLeft
        \/ IteratorNext
     /\ UNCHANGED table_vars

Spec == Init /\ [][Next]_vars /\ \A t \in Threads : WF_vars(Step(t))
-----------------------------------------------------------------------------
\* The iterator of the table goes through the slots that have a tree.  It takes the first
\* node of each for granted: location is nullptr in a tree that has no node yet.
Listing[h \in Slots \cup {-1}] ==
  IF h = -1 THEN << >>
  ELSE Listing[h - 1] \o
       IF table[h] = Nothing THEN << >>
       ELSE IF link[<< table[h], "root" >>] = Nothing THEN << Nothing >>
       ELSE From[LeftMost[link[<< table[h], "root" >>]]]

AtRest == \A t \in Threads : at[t] = "idle"

\* When no thread is in operator[], the iterator lists every key that was asked for, each
\* once, and meets no tree without a node: no key was put into a tree or below a node that
\* lost its compare-and-swap.
ListsEveryKey ==
  AtRest => LET list == Listing[Cardinality(Slots) - 1] IN
            /\ {list[i] : i \in DOMAIN list} = {a[1] : a \in answers}
            /\ Len(list) = Cardinality({a[1] : a \in answers})

\* The node that each key has.
Elements ==
  LET linked == Linked IN
  [k \in Keys |-> IF \E n \in linked : key[n] = k THEN CHOOSE n \in linked : key[n] = k
                                                  ELSE Nothing]
Promise == INSTANCE Dictionary WITH element <- Elements

\* operator[] is a dictionary's: all calls for a key return one element, which is made once
\* (class comments of hash_table.h and binary_tree.h: thread safe, no duplicate keys).
ImplementsDictionary == Promise!Spec

\* Every call returns: a failed compare-and-swap is not tried again at the same link.
CallReturns == \A t \in Threads : at[t] # "idle" ~> at[t] = "idle"
=============================================================================
