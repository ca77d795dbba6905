----------------------------- MODULE BinaryTree -----------------------------
(***************************************************************************)
(* binary_tree (source/binary_tree.h) under threads that call operator[]   *)
(* without a lock, and its iterator running beside them.  One action is    *)
(* one access to a link.  A link, once it is set, never changes, so the    *)
(* loads that find_and_add() repeats after the first are one load.         *)
(*                                                                         *)
(* There may be several trees, as hash_table has (HashTable).  room is a   *)
(* history variable: the places, pairs of a tree and a key, that a search  *)
(* which comes to a link may be looking for.                               *)
(***************************************************************************)
EXTENDS Integers, Sequences

CONSTANTS
  Keys,       \* a set of integers, ordered as the slices are
  Threads,
  max_trees,
  max_nodes,  \* the nodes that the allocator has memory for
  max_calls,  \* bound on the number of calls
  Nothing     \* nullptr

Trees == 1 .. max_trees
Nodes == 1 .. max_nodes
Roots == {<< tree, "root" >> : tree \in Trees}
Links == Roots \cup {<< n, side >> : n \in Nodes, side \in {"left", "right"}}

ASSUME TreeAssumption ==
  /\ Keys \subseteq Int
  /\ max_trees \in Nat /\ max_nodes \in Nat /\ max_calls \in Nat
  /\ Nothing \notin Int

VARIABLES
  link,      \* root, left and right of the trees and nodes
  key,       \* the key of each node
  parent,    \* the parent of each node
  made,      \* the number of nodes that have been allocated
  at,        \* where each thread is in operator[]
  place,     \* the tree and the key that it was called with
  current,   \* the link that find_and_add() is at
  new_node,  \* the node that it has made
  calls,     \* the calls made so far
  answers,   \* history: the pairs << key, node >> returned
  room,
  iterator   \* at, the tree, location, the keys seen, and those there when it began

node_vars == << link, key, parent, made, room >>
thread_vars == << at, place, current, new_node, calls, answers >>
tree_vars == << node_vars, thread_vars, iterator >>

Idle == [at |-> "idle", tree |-> Nothing, location |-> Nothing, seen |-> << >>, owed |-> {}]

TreeInit ==
  /\ link = [l \in Links |-> Nothing]
  /\ key = [n \in Nodes |-> Nothing]
  /\ parent = [n \in Nodes |-> Nothing]
  /\ made = 0
  /\ at = [t \in Threads |-> "idle"]
  /\ place = [t \in Threads |-> Nothing]
  /\ current = [t \in Threads |-> Nothing]
  /\ new_node = [t \in Threads |-> Nothing]
  /\ calls = 0
  /\ answers = {}
  /\ room = [l \in Links |-> IF l \in Roots THEN {l[1]} \X Keys ELSE {}]
  /\ iterator = Idle
-----------------------------------------------------------------------------
Goto(t, where) == at' = [at EXCEPT ![t] = where]

\* operator[](): find_and_add(key, nullptr, root)
CallTree(t, tree, k) ==
  /\ Goto(t, "find")
  /\ place' = [place EXCEPT ![t] = << tree, k >>]
  /\ current' = [current EXCEPT ![t] = << tree, "root" >>]
  /\ UNCHANGED << node_vars, new_node, answers, iterator >>

\* The node that a link is in, which is nullptr for a root.
Owner(l) == IF l \in Roots THEN Nothing ELSE l[1]

\* A node whose parent is not set.
MakeNodeOrphan(t) ==
  /\ at[t] = "find" /\ link[current[t]] = Nothing
  /\ made < max_nodes
  /\ made' = made + 1
  /\ key' = [key EXCEPT ![made + 1] = place[t][2]]
  /\ new_node' = [new_node EXCEPT ![t] = made + 1]
  /\ Goto(t, "cas")
  /\ UNCHANGED << link, parent, room, place, current, calls, answers, iterator >>

\* current is nullptr: a node is made, with its parent, before it can be seen.
MakeNode(t) ==
  /\ at[t] = "find" /\ link[current[t]] = Nothing
  /\ made < max_nodes
  /\ made' = made + 1
  /\ key' = [key EXCEPT ![made + 1] = place[t][2]]
  /\ parent' = [parent EXCEPT ![made + 1] = Owner(current[t])]
  /\ new_node' = [new_node EXCEPT ![t] = made + 1]
  /\ Goto(t, "cas")
  /\ UNCHANGED << link, room, place, current, calls, answers, iterator >>

Answer(t, n) ==
  /\ answers' = answers \cup {<< place[t][2], n >>}
  /\ Goto(t, "idle")
  /\ place' = [place EXCEPT ![t] = Nothing]
  /\ current' = [current EXCEPT ![t] = Nothing]
  /\ new_node' = [new_node EXCEPT ![t] = Nothing]

\* A plain store in place of the compare-and-swap.
CasStore(t) ==
  /\ at[t] = "cas"
  /\ link' = [link EXCEPT ![current[t]] = new_node[t]]
  /\ room' = [room EXCEPT
                ![<< new_node[t], "left" >>] = {p \in room[current[t]] : place[t][2] < p[2]},
                ![<< new_node[t], "right" >>] = {p \in room[current[t]] : p[2] < place[t][2]}]
  /\ Answer(t, new_node[t])
  /\ UNCHANGED << key, parent, made, calls, iterator >>

\* A loop on the compare-and-swap itself.
CasSpin(t) ==
  /\ at[t] = "cas"
  /\ IF link[current[t]] = Nothing
     THEN CasStore(t)
     ELSE UNCHANGED tree_vars

\* The compare-and-swap of the link.  If it fails find_and_add() is called again for the
\* same link, where it now finds a node, and goes on without the one it made.
Cas(t) ==
  /\ at[t] = "cas"
  /\ IF link[current[t]] = Nothing
     THEN /\ link' = [link EXCEPT ![current[t]] = new_node[t]]
          /\ room' = [room EXCEPT
               ![<< new_node[t], "left" >>] = {p \in room[current[t]] : place[t][2] < p[2]},
               ![<< new_node[t], "right" >>] = {p \in room[current[t]] : p[2] < place[t][2]}]
          /\ Answer(t, new_node[t])
     ELSE /\ Goto(t, "find")
          /\ UNCHANGED << link, room, place, current, new_node, answers >>
  /\ UNCHANGED << key, parent, made, calls, iterator >>

\* A step down.  Smaller keys go to the right and larger ones to the left.
Descend(t) ==
  LET n == link[current[t]] IN
  /\ at[t] = "find" /\ n # Nothing /\ key[n] # place[t][2]
  /\ current' = [current EXCEPT ![t] =
                   << n, IF place[t][2] < key[n] THEN "right" ELSE "left" >>]
  /\ new_node' = [new_node EXCEPT ![t] = Nothing]
  /\ UNCHANGED << node_vars, at, place, calls, answers, iterator >>

Found(t) ==
  LET n == link[current[t]] IN
  /\ at[t] = "find" /\ n # Nothing /\ key[n] = place[t][2]
  /\ Answer(t, n)
  /\ UNCHANGED << node_vars, calls, iterator >>

find_and_add(t) == MakeNode(t) \/ Cas(t) \/ Descend(t) \/ Found(t)
-----------------------------------------------------------------------------
Linked == {link[l] : l \in Links} \ {Nothing}

\* The keys of a tree.
KeysOf(tree) ==
  {key[link[l]] : l \in {m \in Links : link[m] # Nothing
                                       /\ << tree, key[link[m]] >> \in room[m]}}

\* The loop of operator++ that leaves the subtrees it has finished.  All it reads was
\* written before the node could be seen.
Climb[n \in Nodes] ==
  IF parent[n] # Nothing /\ link[<< parent[n], "right" >>] = n THEN Climb[parent[n]]
                                                               ELSE parent[n]

\* The iterator comes to rest at a node, or at the end.
Visit(n) ==
  iterator' = IF n = Nothing THEN [iterator EXCEPT !.at = "end", !.location = Nothing]
              ELSE [iterator EXCEPT !.at = "next", !.location = n, !.seen = Append(@, key[n])]

\* begin(): loads the root.
IteratorBegin(tree) ==
  /\ iterator.at = "idle"
  /\ iterator' = [at |-> IF link[<< tree, "root" >>] = Nothing THEN "end" ELSE "leftmost",
                  tree |-> tree, location |-> link[<< tree, "root" >>],
                  seen |-> << >>, owed |-> KeysOf(tree)]
  /\ UNCHANGED << node_vars, thread_vars >>

\* One turn of the loop of get_left_most().
IteratorLeft ==
  LET left == link[<< iterator.location, "left" >>] IN
  /\ iterator.at = "leftmost"
  /\ IF left # Nothing THEN iterator' = [iterator EXCEPT !.location = left]
                       ELSE Visit(iterator.location)
  /\ UNCHANGED << node_vars, thread_vars >>

\* operator++()
IteratorNext ==
  LET right == link[<< iterator.location, "right" >>] IN
  /\ iterator.at = "next"
  /\ IF right # Nothing
     THEN iterator' = [iterator EXCEPT !.at = "leftmost", !.location = right]
     ELSE Visit(Climb[iterator.location])
  /\ UNCHANGED << node_vars, thread_vars >>

\* What begin() and operator++ give when nothing is being added.
LeftMost[n \in Nodes] ==
  IF link[<< n, "left" >>] = Nothing THEN n ELSE LeftMost[link[<< n, "left" >>]]

Successor(n) ==
  IF link[<< n, "right" >>] # Nothing THEN LeftMost[link[<< n, "right" >>]] ELSE Climb[n]

From[n \in Nodes \cup {Nothing}] ==
  IF n = Nothing THEN << >> ELSE << key[n] >> \o From[Successor(n)]
-----------------------------------------------------------------------------
\* An iterator that runs while keys are added comes to each key at most once, and at its
\* end has come to every key that was in the tree when it began.
IterationComplete ==
  /\ \A i, j \in DOMAIN iterator.seen : i # j => iterator.seen[i] # iterator.seen[j]
  /\ iterator.at = "end" => \A k \in iterator.owed : \E i \in DOMAIN iterator.seen :
                                                        iterator.seen[i] = k

\* begin(): "Return an iterator pointing to left-most (smallest) node in the tree."
BeginIsSmallest ==
  iterator.seen # << >> => \A k \in iterator.owed : iterator.seen[1] <= k
=============================================================================
