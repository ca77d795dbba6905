-------------------------- MODULE HashTableProofs ---------------------------
(***************************************************************************)
(* hash_table implements a dictionary, for any number of threads, keys,    *)
(* slots, trees and nodes.                                                 *)
(*                                                                         *)
(* The argument: the places that a search may come to a link for are       *)
(* divided among the links at which it may end, so that a place is either  *)
(* that of one node or has one empty link that a search for it ends at.    *)
(***************************************************************************)
EXTENDS HashTable, InductionTheorems

Searching == {"find", "cas"}

Typed ==
  /\ link \in [Links -> Nodes \cup {Nothing}]
  /\ key \in [Nodes -> Keys \cup {Nothing}]
  /\ made \in 0 .. max_nodes
  /\ at \in [Threads -> {"idle", "slot", "load"} \cup Searching]
  /\ place \in [Threads -> ((Trees \cup {Nothing}) \X Keys) \cup {Nothing}]
  /\ current \in [Threads -> Links \cup {Nothing}]
  /\ new_node \in [Threads -> Nodes \cup {Nothing}]
  /\ room \in [Links -> SUBSET (Trees \X Keys)]
  /\ table \in [Slots -> Trees \cup {Nothing}]
  /\ trees \in 0 .. max_trees
  /\ new_tree \in [Threads -> Trees \cup {Nothing}]

\* A link that a search can come to.
Open(l) == l \in Roots \/ \E m \in Links : link[m] = l[1]

\* Only links that a search can come to are set, and to nodes that were made.
SetIsOpen == \A l \in Links : link[l] # Nothing => Open(l) /\ link[l] <= made

\* Where a search is, it may be looking for its place.
SearchInRoom ==
  \A t \in Threads : at[t] \in Searching =>
    /\ current[t] \in Links /\ Open(current[t])
    /\ place[t] \in room[current[t]]
    /\ place[t][1] = table[hash[place[t][2]]]

\* What a thread knows at the other places.
CallKnown ==
  \A t \in Threads :
    /\ at[t] # "idle" => place[t] \in (Trees \cup {Nothing}) \X Keys
    /\ at[t] = "slot" => new_tree[t] # Nothing
    /\ at[t] = "load" => table[hash[place[t][2]]] # Nothing

\* A node that is about to be linked belongs to one thread.
NewIsOwn ==
  \A t \in Threads : at[t] = "cas" =>
    /\ new_node[t] # Nothing /\ new_node[t] <= made
    /\ key[new_node[t]] = place[t][2]
    /\ \A l \in Links : link[l] # new_node[t]
    /\ \A u \in Threads : at[u] = "cas" /\ new_node[u] = new_node[t] => u = t

\* The places of a link belong to one tree.
RoomInTree == \A l \in Links : \A p, q \in room[l] : p[1] = q[1]

\* A search for any key may come to the root of its tree.
RootRoom == \A tree \in Trees : room[<< tree, "root" >>] = {tree} \X Keys

\* The place of the node that a link points to.
PlaceAt(l) == << table[hash[key[link[l]]]], key[link[l]] >>

\* A node is at a place of its link and divides the others between its own links.
RoomDivided ==
  \A l \in Links : link[l] # Nothing =>
    /\ key[link[l]] # Nothing
    /\ PlaceAt(l) \in room[l]
    /\ room[<< link[l], "right" >>] = {p \in room[l] : p[2] < key[link[l]]}
    /\ room[<< link[l], "left" >>] = {p \in room[l] : key[link[l]] < p[2]}

\* A place has one empty link or one node.
PlaceOnce ==
  \A l, m \in Links : Open(l) /\ Open(m) /\ l # m =>
    /\ link[l] = Nothing /\ link[m] = Nothing => room[l] \cap room[m] = {}
    /\ link[l] # Nothing /\ link[m] = Nothing => PlaceAt(l) \notin room[m]
    /\ link[l] # Nothing /\ link[m] # Nothing => PlaceAt(l) # PlaceAt(m)

\* Calls returned nodes of the table that have the key they were for.
AnswersTrue ==
  \A a \in answers : /\ a \in Keys \X Nodes /\ key[a[2]] = a[1]
                     /\ \E l \in Links : link[l] = a[2]

\* The inductive invariant.
Inv ==
  /\ Typed /\ SetIsOpen /\ RoomInTree /\ RoomDivided /\ PlaceOnce
  /\ RootRoom /\ SearchInRoom /\ CallKnown /\ NewIsOwn /\ AnswersTrue

\* The shape of the links.
LEMMA LinkFacts ==
  /\ \A tree \in Trees : << tree, "root" >> \in Roots
  /\ \A l \in Roots : l \in Links /\ l[1] \in Trees /\ l = << l[1], "root" >>
  /\ \A n \in Nodes : \A side \in {"left", "right"} :
       << n, side >> \in Links /\ << n, side >> \notin Roots
  /\ \A l \in Links : l \in Roots \/ (l[1] \in Nodes /\ l \in {<< l[1], "left" >>, << l[1], "right" >>})
  /\ Nothing \notin Nodes /\ Nothing \notin Trees /\ Nothing \notin Keys
  /\ Nodes \subseteq Int /\ Keys \subseteq Int
  /\ \A n, m \in Nodes : /\ << n, "left" >> # << m, "right" >>
                         /\ n # m => << n, "left" >> # << m, "left" >> /\ << n, "right" >> # << m, "right" >>
BY TreeAssumption DEF Links, Roots, Trees, Nodes

\* The empty table.
LEMMA InitInv == Init => Inv
<1> SUFFICES ASSUME Init PROVE Inv
  OBVIOUS
<1> USE TreeAssumption, HashAssumption, LinkFacts DEF Init, TreeInit
<1>1. Typed
  <2>1. room \in [Links -> SUBSET (Trees \X Keys)]
    BY DEF Roots
  <2>2. made \in 0 .. max_nodes /\ trees \in 0 .. max_trees
    OBVIOUS
  <2> QED
    BY <2>1, <2>2 DEF Typed
<1>2. SetIsOpen /\ RoomDivided
  BY DEF SetIsOpen, RoomDivided
<1>3. RoomInTree
  BY DEF RoomInTree
<1>4. PlaceOnce
  BY DEF PlaceOnce, Open
<1>5. RootRoom /\ SearchInRoom /\ CallKnown /\ NewIsOwn /\ AnswersTrue
  BY DEF RootRoom, SearchInRoom, CallKnown, NewIsOwn, AnswersTrue, Searching
<1> QED
  BY <1>1, <1>2, <1>3, <1>4, <1>5 DEF Inv

\* A slot that has a tree keeps it.
TableKept == \A h \in Slots : table[h] # Nothing => table'[h] = table[h]

\* The node that a link points to is at the place of the tree of its slot.
LEMMA PlaceOfNode ==
  ASSUME Inv, NEW l \in Links, link[l] # Nothing
  PROVE  /\ link[l] \in Nodes /\ key[link[l]] \in Keys /\ hash[key[link[l]]] \in Slots
         /\ table[hash[key[link[l]]]] \in Trees
         /\ PlaceAt(l) \in room[l] /\ PlaceAt(l)[2] = key[link[l]]
<1>1. link[l] \in Nodes
  BY DEF Inv, Typed
<1>2. key[link[l]] \in Keys
  BY <1>1 DEF Inv, Typed, RoomDivided
<1>3. hash[key[link[l]]] \in Slots
  BY <1>2, HashAssumption
<1>4. PlaceAt(l) \in room[l] /\ room[l] \subseteq Trees \X Keys
  BY DEF Inv, Typed, RoomDivided
<1>5. table[hash[key[link[l]]]] \in Trees
  BY <1>4 DEF PlaceAt
<1> QED
  BY <1>1, <1>2, <1>3, <1>4, <1>5 DEF PlaceAt

\* A step that leaves the nodes alone leaves what is said of them true.
LEMMA NodesKept ==
  ASSUME Inv, UNCHANGED node_vars, TableKept
  PROVE  SetIsOpen' /\ RoomInTree' /\ RoomDivided' /\ PlaceOnce' /\ RootRoom'
<1>0. SetIsOpen /\ RoomInTree /\ RootRoom /\ RoomDivided /\ PlaceOnce /\ UNCHANGED << link, key, made, room >>
  BY DEF Inv, node_vars
<1>1. \A l \in Links : link[l] # Nothing => PlaceAt(l)' = PlaceAt(l)
  <2> SUFFICES ASSUME NEW l \in Links, link[l] # Nothing PROVE PlaceAt(l)' = PlaceAt(l)
    OBVIOUS
  <2>1. table'[hash[key[link[l]]]] = table[hash[key[link[l]]]]
    BY PlaceOfNode, LinkFacts DEF TableKept
  <2> QED
    BY <1>0, <2>1 DEF PlaceAt
<1>2. SetIsOpen' /\ RoomInTree' /\ RootRoom'
  BY <1>0 DEF SetIsOpen, RoomInTree, RootRoom, Open
<1>3. RoomDivided'
  BY <1>0, <1>1 DEF RoomDivided
<1>4. PlaceOnce'
  <2>1. \A l \in Links : Open(l)' <=> Open(l)
    BY <1>0 DEF Open
  <2> QED
    BY <1>0, <1>1, <2>1 DEF PlaceOnce
<1> QED
  BY <1>2, <1>3, <1>4

\* A call begins, with a tree of its own if its slot has none.
LEMMA LoadSlotInv ==
  ASSUME Inv, NEW t \in Threads, NEW k \in Keys, LoadSlot(t, k)
  PROVE  Inv' /\ UNCHANGED << link, key, made, answers >>
<1> USE TreeAssumption, HashAssumption, LinkFacts
<1>0. /\ at[t] = "idle" /\ place' = [place EXCEPT ![t] = << Nothing, k >>]
      /\ at' \in {[at EXCEPT ![t] = "load"], [at EXCEPT ![t] = "slot"]}
      /\ UNCHANGED << link, key, made, room, current, new_node, answers, table >>
      /\ UNCHANGED node_vars
  BY DEF LoadSlot, Goto, node_vars
<1>1. Typed
  BY DEF Inv
<1>2. /\ \A u \in Threads : u # t => at'[u] = at[u] /\ place'[u] = place[u]
      /\ at'[t] \in {"load", "slot"} /\ place'[t] = << Nothing, k >>
  BY <1>0, <1>1 DEF Typed
<1>3. /\ at'[t] = "load" => table[hash[k]] # Nothing
      /\ at'[t] = "slot" => new_tree'[t] # Nothing
      /\ \A u \in Threads : u # t => new_tree'[u] = new_tree[u]
      /\ trees' \in 0 .. max_trees /\ new_tree' \in [Threads -> Trees \cup {Nothing}]
  BY <1>1 DEF LoadSlot, Goto, Typed, Trees
<1>4. Typed'
  <2>1. place' \in [Threads -> ((Trees \cup {Nothing}) \X Keys) \cup {Nothing}]
    BY <1>0, <1>1 DEF Typed
  <2>2. at' \in [Threads -> {"idle", "slot", "load"} \cup Searching]
    BY <1>0, <1>1 DEF Typed
  <2> QED
    BY <1>0, <1>1, <1>3, <2>1, <2>2 DEF Typed
<1>5. SetIsOpen' /\ RoomInTree' /\ RoomDivided' /\ PlaceOnce' /\ RootRoom'
  BY <1>0, NodesKept DEF TableKept
<1>6. SearchInRoom'
  BY <1>0, <1>2 DEF Inv, SearchInRoom, Searching, Open
<1>7. CallKnown'
  <2> SUFFICES ASSUME NEW u \in Threads
               PROVE  /\ at'[u] # "idle" => place'[u] \in (Trees \cup {Nothing}) \X Keys
                      /\ at'[u] = "slot" => new_tree'[u] # Nothing
                      /\ at'[u] = "load" => table'[hash[place'[u][2]]] # Nothing
    BY DEF CallKnown
  <2>1. CASE u = t
    BY <1>0, <1>2, <1>3, <2>1
  <2>2. CASE u # t
    BY <1>0, <1>2, <1>3, <2>2 DEF Inv, CallKnown
  <2> QED
    BY <2>1, <2>2
<1>8. NewIsOwn'
  BY <1>0, <1>2 DEF Inv, NewIsOwn
<1>9. AnswersTrue'
  BY <1>0 DEF Inv, AnswersTrue
<1> QED
  BY <1>0, <1>4, <1>5, <1>6, <1>7, <1>8, <1>9 DEF Inv

\* A slot gets its tree, or keeps the one that it has.
LEMMA CasSlotInv ==
  ASSUME Inv, NEW t \in Threads, CasSlot(t)
  PROVE  Inv' /\ UNCHANGED << link, key, made, answers >>
<1> USE TreeAssumption, HashAssumption, LinkFacts
<1> DEFINE h == hash[place[t][2]]
<1>0. /\ at[t] = "slot" /\ at' = [at EXCEPT ![t] = "load"]
      /\ table' = [table EXCEPT ![h] = IF table[h] = Nothing THEN new_tree[t] ELSE table[h]]
      /\ new_tree' = [new_tree EXCEPT ![t] = Nothing]
      /\ UNCHANGED << link, key, made, room, place, current, new_node, answers, trees >>
      /\ UNCHANGED node_vars
  BY DEF CasSlot, Goto, node_vars
<1>1. Typed /\ CallKnown
  BY DEF Inv
<1>2. new_tree[t] \in Trees /\ h \in Slots
  BY <1>0, <1>1 DEF Typed, CallKnown
<1>3. TableKept /\ table'[h] # Nothing /\ table' \in [Slots -> Trees \cup {Nothing}]
  BY <1>0, <1>1, <1>2 DEF Typed, TableKept
<1>4. /\ \A u \in Threads : u # t => at'[u] = at[u] /\ new_tree'[u] = new_tree[u]
      /\ at'[t] = "load"
  BY <1>0, <1>1 DEF Typed
<1>5. Typed'
  BY <1>0, <1>1, <1>3 DEF Typed
<1>6. SetIsOpen' /\ RoomInTree' /\ RoomDivided' /\ PlaceOnce' /\ RootRoom'
  BY <1>0, <1>3, NodesKept
<1>7. SearchInRoom'
  <2> SUFFICES ASSUME NEW u \in Threads, at'[u] \in Searching
               PROVE  /\ current'[u] \in Links /\ Open(current[u])'
                      /\ place'[u] \in room'[current'[u]]
                      /\ place'[u][1] = table'[hash[place'[u][2]]]
    BY <1>0 DEF SearchInRoom
  <2>1. at[u] \in Searching
    BY <1>4 DEF Searching
  <2>2. current[u] \in Links /\ Open(current[u]) /\ place[u] \in room[current[u]]
        /\ place[u][1] = table[hash[place[u][2]]]
    BY <2>1 DEF Inv, SearchInRoom
  <2>3. place[u] \in Trees \X Keys
    BY <1>1, <2>2 DEF Typed
  <2>4. table'[hash[place[u][2]]] = table[hash[place[u][2]]]
    BY <1>3, <2>2, <2>3 DEF TableKept
  <2> QED
    BY <1>0, <2>2, <2>4 DEF Open
<1>8. CallKnown'
  <2> SUFFICES ASSUME NEW u \in Threads
               PROVE  /\ at'[u] # "idle" => place'[u] \in (Trees \cup {Nothing}) \X Keys
                      /\ at'[u] = "slot" => new_tree'[u] # Nothing
                      /\ at'[u] = "load" => table'[hash[place'[u][2]]] # Nothing
    BY DEF CallKnown
  <2>1. CASE u = t
    BY <1>0, <1>1, <1>3, <1>4, <2>1 DEF CallKnown
  <2>2. CASE u # t
    <3>1. at[u] = "load" => /\ hash[place[u][2]] \in Slots
                            /\ table[hash[place[u][2]]] # Nothing
      BY <1>1 DEF CallKnown
    <3> QED
      BY <1>0, <1>1, <1>3, <1>4, <2>2, <3>1 DEF CallKnown, TableKept
  <2> QED
    BY <2>1, <2>2
<1>9. NewIsOwn' /\ AnswersTrue'
  BY <1>0, <1>4 DEF Inv, NewIsOwn, AnswersTrue
<1> QED
  BY <1>0, <1>5, <1>6, <1>7, <1>8, <1>9 DEF Inv

\* A search starts at the root of the tree of its slot.
LEMMA LoadTreeInv ==
  ASSUME Inv, NEW t \in Threads, LoadTree(t)
  PROVE  Inv' /\ UNCHANGED << link, key, made, answers >>
<1> USE TreeAssumption, HashAssumption, LinkFacts
<1> DEFINE k == place[t][2]  tree == table[hash[k]]
<1>0. /\ at[t] = "load" /\ at' = [at EXCEPT ![t] = "find"]
      /\ place' = [place EXCEPT ![t] = << tree, k >>]
      /\ current' = [current EXCEPT ![t] = << tree, "root" >>]
      /\ UNCHANGED << link, key, made, room, new_node, answers, table, trees, new_tree >>
      /\ UNCHANGED node_vars
  BY DEF LoadTree, CallTree, Goto, node_vars, table_vars
<1>1. Typed /\ CallKnown
  BY DEF Inv
<1>2. k \in Keys /\ tree \in Trees
  BY <1>0, <1>1 DEF Typed, CallKnown
<1>3. << tree, "root" >> \in Roots /\ << tree, "root" >> \in Links
  BY <1>2
<1>4. /\ \A u \in Threads : u # t => /\ at'[u] = at[u] /\ place'[u] = place[u]
                                     /\ current'[u] = current[u]
      /\ at'[t] = "find" /\ place'[t] = << tree, k >> /\ current'[t] = << tree, "root" >>
  BY <1>0, <1>1 DEF Typed
<1>5. Typed'
  <2>1. place' \in [Threads -> ((Trees \cup {Nothing}) \X Keys) \cup {Nothing}]
    BY <1>0, <1>1, <1>2 DEF Typed
  <2>2. current' \in [Threads -> Links \cup {Nothing}]
    BY <1>0, <1>1, <1>3 DEF Typed
  <2>3. at' \in [Threads -> {"idle", "slot", "load"} \cup Searching]
    BY <1>0, <1>1 DEF Typed, Searching
  <2> QED
    BY <1>0, <1>1, <2>1, <2>2, <2>3 DEF Typed
<1>6. SetIsOpen' /\ RoomInTree' /\ RoomDivided' /\ PlaceOnce' /\ RootRoom'
  BY <1>0, NodesKept DEF TableKept
<1>7. << tree, k >> \in room[<< tree, "root" >>]
  BY <1>2, <1>3 DEF Inv, RootRoom
<1>8. SearchInRoom'
  <2> SUFFICES ASSUME NEW u \in Threads, at'[u] \in Searching
               PROVE  /\ current'[u] \in Links /\ Open(current'[u])
                      /\ place'[u] \in room[current'[u]]
                      /\ place'[u][1] = table[hash[place'[u][2]]]
    BY <1>0 DEF SearchInRoom, Open
  <2>1. CASE u = t
    BY <1>2, <1>3, <1>4, <1>7, <2>1 DEF Open
  <2>2. CASE u # t
    BY <1>4, <2>2 DEF Inv, SearchInRoom
  <2> QED
    BY <2>1, <2>2
<1>9. CallKnown'
  <2> SUFFICES ASSUME NEW u \in Threads
               PROVE  /\ at'[u] # "idle" => place'[u] \in (Trees \cup {Nothing}) \X Keys
                      /\ at'[u] = "slot" => new_tree'[u] # Nothing
                      /\ at'[u] = "load" => table'[hash[place'[u][2]]] # Nothing
    BY DEF CallKnown
  <2>1. CASE u = t
    <3>1. << tree, k >> \in (Trees \cup {Nothing}) \X Keys
      BY <1>2
    <3>2. at'[u] = "find" /\ place'[u] \in (Trees \cup {Nothing}) \X Keys
      BY <1>4, <2>1, <3>1
    <3> QED
      BY <3>2
  <2>2. CASE u # t
    BY <1>0, <1>1, <1>4, <2>2 DEF CallKnown
  <2> QED
    BY <2>1, <2>2
<1>10. NewIsOwn' /\ AnswersTrue'
  BY <1>0, <1>4 DEF Inv, NewIsOwn, AnswersTrue
<1> QED
  BY <1>0, <1>5, <1>6, <1>8, <1>9, <1>10 DEF Inv

\* A node is made that no link points to.
LEMMA MakeNodeInv ==
  ASSUME Inv, NEW t \in Threads, MakeNode(t), UNCHANGED table_vars
  PROVE  /\ Inv' /\ UNCHANGED << link, answers >>
         /\ \A l \in Links : link[l] # Nothing => key'[link[l]] = key[link[l]]
<1> USE TreeAssumption, HashAssumption, LinkFacts
<1> DEFINE n == made + 1
<1>0. /\ at[t] = "find" /\ at' = [at EXCEPT ![t] = "cas"]
      /\ made < max_nodes /\ made' = made + 1
      /\ key' = [key EXCEPT ![n] = place[t][2]]
      /\ new_node' = [new_node EXCEPT ![t] = n]
      /\ UNCHANGED << link, room, place, current, answers, table, trees, new_tree >>
  BY DEF MakeNode, Goto, table_vars
<1>1. Typed /\ SetIsOpen /\ CallKnown /\ SearchInRoom /\ NewIsOwn
  BY DEF Inv
<1>2. made \in Nat /\ n \in Nodes /\ max_nodes \in Nat
  BY <1>0, <1>1 DEF Typed, Nodes
<1>3. place[t][2] \in Keys
  BY <1>0, <1>1 DEF CallKnown
<1>4. \A l \in Links : link[l] # Nothing => /\ link[l] \in Nodes /\ link[l] # n
                                            /\ key'[link[l]] = key[link[l]]
  BY <1>0, <1>1, <1>2 DEF Typed, SetIsOpen, Nodes
<1>5. /\ \A u \in Threads : u # t => at'[u] = at[u] /\ new_node'[u] = new_node[u]
      /\ at'[t] = "cas" /\ new_node'[t] = n /\ key'[n] = place[t][2]
  BY <1>0, <1>1, <1>2 DEF Typed
<1>6. Typed'
  <2>1. key' \in [Nodes -> Keys \cup {Nothing}]
    BY <1>0, <1>1, <1>3 DEF Typed
  <2>2. at' \in [Threads -> {"idle", "slot", "load"} \cup Searching]
    BY <1>0, <1>1 DEF Typed, Searching
  <2>3. new_node' \in [Threads -> Nodes \cup {Nothing}] /\ made' \in 0 .. max_nodes
    BY <1>0, <1>1, <1>2 DEF Typed
  <2> QED
    BY <1>0, <1>1, <2>1, <2>2, <2>3 DEF Typed
<1>7. SetIsOpen'
  <2> SUFFICES ASSUME NEW l \in Links, link[l] # Nothing
               PROVE  Open(l)' /\ link[l] <= made'
    BY <1>0 DEF SetIsOpen
  <2>1. Open(l) /\ link[l] <= made /\ link[l] \in Nodes
    BY <1>1, <1>4 DEF SetIsOpen
  <2> QED
    BY <1>0, <1>2, <2>1 DEF Open, Nodes
<1>8. \A l \in Links : link[l] # Nothing => PlaceAt(l)' = PlaceAt(l)
  BY <1>0, <1>4 DEF PlaceAt
<1>9. RoomInTree' /\ RootRoom'
  BY <1>0 DEF Inv, RoomInTree, RootRoom
<1>10. RoomDivided'
  BY <1>0, <1>4, <1>8 DEF Inv, RoomDivided
<1>11. PlaceOnce'
  BY <1>0, <1>8 DEF Inv, PlaceOnce, Open
<1>12. SearchInRoom'
  BY <1>0, <1>1, <1>5 DEF SearchInRoom, Searching, Open
<1>13. CallKnown'
  BY <1>0, <1>1, <1>5 DEF CallKnown
<1>14. NewIsOwn'
  <2>1. \A u \in Threads : u # t /\ at[u] = "cas" =>
          new_node[u] \in Nodes /\ new_node[u] # n /\ key'[new_node[u]] = key[new_node[u]]
    BY <1>0, <1>1, <1>2 DEF NewIsOwn, Typed, Nodes
  <2> SUFFICES ASSUME NEW u \in Threads, at'[u] = "cas"
               PROVE  /\ new_node'[u] # Nothing /\ new_node'[u] <= made'
                      /\ key'[new_node'[u]] = place[u][2]
                      /\ \A l \in Links : link[l] # new_node'[u]
                      /\ \A v \in Threads : at'[v] = "cas" /\ new_node'[v] = new_node'[u] => v = u
    BY <1>0 DEF NewIsOwn
  <2>2. CASE u = t
    <3>1. n # Nothing /\ n <= made'
      BY <1>0, <1>2
    <3>2. \A l \in Links : link[l] # n
      BY <1>2, <1>4
    <3>3. \A v \in Threads : at'[v] = "cas" /\ new_node'[v] = n => v = t
      BY <1>5, <2>1
    <3> QED
      BY <1>5, <2>2, <3>1, <3>2, <3>3
  <2>3. CASE u # t
    <3>1. at[u] = "cas" /\ new_node'[u] = new_node[u]
      BY <1>5, <2>3
    <3>2. new_node[u] <= made'
      BY <1>0, <1>1, <1>2, <2>1, <2>3, <3>1 DEF NewIsOwn, Nodes
    <3>3. \A v \in Threads : at'[v] = "cas" /\ new_node'[v] = new_node[u] => v = u
      BY <1>1, <1>5, <2>1, <2>3, <3>1 DEF NewIsOwn
    <3> QED
      BY <1>1, <2>1, <2>3, <3>1, <3>2, <3>3 DEF NewIsOwn
  <2> QED
    BY <2>2, <2>3
<1>15. AnswersTrue'
  BY <1>0, <1>4 DEF Inv, AnswersTrue
<1> QED
  BY <1>0, <1>4, <1>6, <1>7, <1>9, <1>10, <1>11, <1>12, <1>13, <1>14, <1>15 DEF Inv

\* A step down the tree, or the second try at a link.
LEMMA DescendInv ==
  ASSUME Inv, NEW t \in Threads, UNCHANGED << node_vars, answers, table_vars, place >>,
         Descend(t) \/ (at[t] = "cas" /\ at' = [at EXCEPT ![t] = "find"]
                        /\ UNCHANGED << current, new_node >>)
  PROVE  Inv'
<1> USE TreeAssumption, HashAssumption, LinkFacts
<1>0. UNCHANGED << link, key, made, room, answers, table, trees, new_tree, place >>
  BY DEF node_vars, table_vars
<1>1. Typed /\ CallKnown /\ SearchInRoom
  BY DEF Inv
<1>2. at[t] \in Searching /\ at'[t] = "find" /\ at' \in [Threads -> {"idle", "slot", "load"} \cup Searching]
  BY <1>1 DEF Typed, Searching, Descend
<1>3. /\ current'[t] \in Links /\ Open(current'[t]) /\ place[t] \in room[current'[t]]
      /\ current' \in [Threads -> Links \cup {Nothing}]
      /\ new_node' \in [Threads -> Nodes \cup {Nothing}]
  <2>1. CASE Descend(t)
    <3> DEFINE l == current[t]  n == link[l]  k == place[t][2]
    <3>1. /\ at[t] = "find" /\ n # Nothing /\ key[n] # k
          /\ current' = [current EXCEPT ![t] = << n, IF k < key[n] THEN "right" ELSE "left" >>]
          /\ new_node' = [new_node EXCEPT ![t] = Nothing]
      BY <2>1 DEF Descend
    <3>2. l \in Links /\ place[t] \in room[l] /\ place[t] \in Trees \X Keys
      BY <1>1, <1>2 DEF SearchInRoom, Typed
    <3>3. n \in Nodes /\ key[n] \in Keys
      BY <3>1, <3>2, PlaceOfNode
    <3>4. k < key[n] \/ key[n] < k
      BY <3>1, <3>2, <3>3
    <3>5. /\ room[<< n, "right" >>] = {p \in room[l] : p[2] < key[n]}
          /\ room[<< n, "left" >>] = {p \in room[l] : key[n] < p[2]}
      BY <3>1, <3>2 DEF Inv, RoomDivided
    <3>6. current'[t] = << n, IF k < key[n] THEN "right" ELSE "left" >>
      BY <1>1, <3>1 DEF Typed
    <3>7. place[t] \in room[current'[t]]
      BY <3>2, <3>4, <3>5, <3>6
    <3>8. current'[t] \in Links /\ current'[t][1] = n
      <4>1. << n, "right" >> \in Links /\ << n, "left" >> \in Links
        BY <3>3
      <4>2. current'[t] = << n, "right" >> \/ current'[t] = << n, "left" >>
        BY <3>6
      <4> QED
        BY <4>1, <4>2
    <3>9. Open(current'[t])
      BY <3>2, <3>8 DEF Open
    <3> QED
      BY <1>1, <3>1, <3>7, <3>8, <3>9 DEF Typed
  <2>2. CASE UNCHANGED << current, new_node >>
    BY <1>1, <1>2, <2>2 DEF SearchInRoom, Typed
  <2> QED
    BY <2>1, <2>2
<1>4. \A u \in Threads : u # t => at'[u] = at[u] /\ current'[u] = current[u] /\ new_node'[u] = new_node[u]
  BY <1>1 DEF Typed, Descend
<1>5. Typed'
  BY <1>0, <1>1, <1>2, <1>3 DEF Typed
<1>6. SetIsOpen' /\ RoomInTree' /\ RoomDivided' /\ PlaceOnce' /\ RootRoom'
  BY <1>0, NodesKept DEF TableKept
<1>7. SearchInRoom'
  <2> SUFFICES ASSUME NEW u \in Threads, at'[u] \in Searching
               PROVE  /\ current'[u] \in Links /\ Open(current'[u])
                      /\ place[u] \in room[current'[u]]
                      /\ place[u][1] = table[hash[place[u][2]]]
    BY <1>0 DEF SearchInRoom, Open
  <2>1. CASE u = t
    BY <1>1, <1>2, <1>3, <2>1 DEF SearchInRoom
  <2>2. CASE u # t
    BY <1>1, <1>4, <2>2 DEF SearchInRoom
  <2> QED
    BY <2>1, <2>2
<1>8. CallKnown'
  BY <1>0, <1>1, <1>2, <1>4 DEF CallKnown, Searching
<1>9. NewIsOwn' /\ AnswersTrue'
  BY <1>0, <1>2, <1>4 DEF Inv, NewIsOwn, AnswersTrue
<1> QED
  BY <1>5, <1>6, <1>7, <1>8, <1>9 DEF Inv

\* A call that finds its key.
LEMMA FoundInv ==
  ASSUME Inv, NEW t \in Threads, Found(t), UNCHANGED table_vars
  PROVE  /\ Inv' /\ UNCHANGED << link, key, made >>
         /\ place[t][2] \in Keys /\ current[t] \in Links
         /\ link[current[t]] \in Nodes /\ key[link[current[t]]] = place[t][2]
         /\ answers' = answers \cup {<< place[t][2], link[current[t]] >>}
<1> USE TreeAssumption, HashAssumption, LinkFacts
<1> DEFINE n == link[current[t]]  k == place[t][2]
<1>0. /\ at[t] = "find" /\ n # Nothing /\ key[n] = k
      /\ answers' = answers \cup {<< k, n >>}
      /\ at' = [at EXCEPT ![t] = "idle"] /\ place' = [place EXCEPT ![t] = Nothing]
      /\ current' = [current EXCEPT ![t] = Nothing]
      /\ new_node' = [new_node EXCEPT ![t] = Nothing]
      /\ UNCHANGED << link, key, made, room, table, trees, new_tree >>
      /\ UNCHANGED node_vars
  BY DEF Found, Answer, Goto, node_vars, table_vars
<1>1. Typed /\ CallKnown /\ SearchInRoom /\ NewIsOwn /\ AnswersTrue
  BY DEF Inv
<1>2. current[t] \in Links /\ k \in Keys /\ n \in Nodes
  BY <1>0, <1>1, PlaceOfNode DEF SearchInRoom, CallKnown, Searching
<1>3. /\ \A u \in Threads : u # t => /\ at'[u] = at[u] /\ place'[u] = place[u]
                                     /\ current'[u] = current[u] /\ new_node'[u] = new_node[u]
      /\ at'[t] = "idle"
  BY <1>0, <1>1 DEF Typed
<1>4. Typed'
  BY <1>0, <1>1 DEF Typed
<1>5. SetIsOpen' /\ RoomInTree' /\ RoomDivided' /\ PlaceOnce' /\ RootRoom'
  BY <1>0, NodesKept DEF TableKept
<1>6. SearchInRoom'
  BY <1>0, <1>1, <1>3 DEF SearchInRoom, Searching, Open
<1>7. CallKnown' /\ NewIsOwn'
  BY <1>0, <1>1, <1>3 DEF CallKnown, NewIsOwn
<1>8. AnswersTrue'
  BY <1>0, <1>1, <1>2 DEF AnswersTrue
<1> QED
  BY <1>0, <1>2, <1>4, <1>5, <1>6, <1>7, <1>8 DEF Inv

\* A node goes into the tree.
LEMMA LinkInv ==
  ASSUME Inv, NEW t \in Threads, Cas(t), link[current[t]] = Nothing, UNCHANGED table_vars
  PROVE  /\ Inv' /\ UNCHANGED << key, made >>
         /\ place[t][2] \in Keys /\ current[t] \in Links /\ new_node[t] \in Nodes
         /\ key[new_node[t]] = place[t][2]
         /\ \A m \in Links : link[m] # new_node[t]
         /\ \A m \in Links : link[m] # Nothing => key[link[m]] # place[t][2]
         /\ link' = [link EXCEPT ![current[t]] = new_node[t]]
         /\ answers' = answers \cup {<< place[t][2], new_node[t] >>}
<1> USE TreeAssumption, HashAssumption, LinkFacts
<1> DEFINE l == current[t]  n == new_node[t]  k == place[t][2]
           nl == << n, "left" >>  nr == << n, "right" >>
<1>0. /\ at[t] = "cas" /\ link' = [link EXCEPT ![l] = n]
      /\ room' = [room EXCEPT ![nl] = {p \in room[l] : k < p[2]},
                              ![nr] = {p \in room[l] : p[2] < k}]
      /\ answers' = answers \cup {<< k, n >>}
      /\ at' = [at EXCEPT ![t] = "idle"] /\ place' = [place EXCEPT ![t] = Nothing]
      /\ current' = [current EXCEPT ![t] = Nothing]
      /\ new_node' = [new_node EXCEPT ![t] = Nothing]
      /\ UNCHANGED << key, made, table, trees, new_tree >>
  BY DEF Cas, Answer, Goto, table_vars
<1>1. Typed /\ SetIsOpen /\ RoomInTree /\ RoomDivided /\ PlaceOnce /\ RootRoom
      /\ SearchInRoom /\ CallKnown /\ NewIsOwn /\ AnswersTrue
  BY DEF Inv
<1>2. /\ l \in Links /\ Open(l) /\ place[t] \in room[l] /\ place[t] \in Trees \X Keys
      /\ k \in Keys /\ place[t] = << table[hash[k]], k >>
  BY <1>0, <1>1 DEF SearchInRoom, Searching, Typed
<1>3. /\ n \in Nodes /\ n <= made /\ key[n] = k
      /\ \A m \in Links : link[m] # n
  BY <1>0, <1>1 DEF NewIsOwn, Typed
<1>4. /\ nl \in Links /\ nr \in Links /\ nl \notin Roots /\ nr \notin Roots /\ nl # nr
      /\ nl[1] = n /\ nr[1] = n
  BY <1>3
<1>5. ~Open(nl) /\ ~Open(nr) /\ link[nl] = Nothing /\ link[nr] = Nothing /\ l # nl /\ l # nr
  BY <1>1, <1>2, <1>3, <1>4 DEF Open, SetIsOpen
<1>6. link'[l] = n /\ \A m \in Links : m # l => link'[m] = link[m]
  BY <1>0, <1>1, <1>2 DEF Typed
<1>7. /\ room'[nl] = {p \in room[l] : k < p[2]} /\ room'[nr] = {p \in room[l] : p[2] < k}
      /\ \A m \in Links : m # nl /\ m # nr => room'[m] = room[m]
  BY <1>0, <1>1, <1>4 DEF Typed
<1>8. \A m \in Links : Open(m)' <=> Open(m) \/ m = nl \/ m = nr
  <2> SUFFICES ASSUME NEW m \in Links PROVE Open(m)' <=> Open(m) \/ m = nl \/ m = nr
    OBVIOUS
  <2>1. CASE m \in Roots
    BY <2>1 DEF Open
  <2>2. CASE m \notin Roots
    <3>1. m[1] \in Nodes /\ (m[1] = n <=> m = nl \/ m = nr)
      BY <1>4, <2>2
    <3>2. (\E q \in Links : link'[q] = m[1]) <=> (\E q \in Links : link[q] = m[1]) \/ m[1] = n
      BY <1>2, <1>6, <3>1
    <3> QED
      BY <2>2, <3>1, <3>2 DEF Open
  <2> QED
    BY <2>1, <2>2
<1>9. \A m \in Links : /\ link[m] # Nothing => m # l /\ PlaceAt(m)' = PlaceAt(m)
                       /\ m = l => PlaceAt(m)' = place[t]
  BY <1>0, <1>2, <1>3, <1>6 DEF PlaceAt
<1>10. \A m \in Links : Open(m) => m # nl /\ m # nr /\ room'[m] = room[m]
  BY <1>5, <1>7
<1>11. Typed'
  <2>1. link' \in [Links -> Nodes \cup {Nothing}]
    BY <1>0, <1>1, <1>3 DEF Typed
  <2>2. room' \in [Links -> SUBSET (Trees \X Keys)]
    BY <1>0, <1>1, <1>2, <1>4 DEF Typed
  <2> QED
    BY <1>0, <1>1, <2>1, <2>2 DEF Typed
<1>12. SetIsOpen'
  BY <1>0, <1>1, <1>2, <1>3, <1>6, <1>8 DEF SetIsOpen
<1>13. RoomInTree'
  <2> SUFFICES ASSUME NEW m \in Links, NEW p \in room'[m], NEW q \in room'[m] PROVE p[1] = q[1]
    BY DEF RoomInTree
  <2>1. CASE m = nl \/ m = nr
    BY <1>1, <1>2, <1>7, <2>1 DEF RoomInTree
  <2>2. CASE m # nl /\ m # nr
    BY <1>1, <1>7, <2>2 DEF RoomInTree
  <2> QED
    BY <2>1, <2>2
<1>14. RootRoom'
  BY <1>1, <1>4, <1>7 DEF RootRoom
<1>15. RoomDivided'
  <2> SUFFICES ASSUME NEW m \in Links, link'[m] # Nothing
               PROVE  /\ key[link'[m]] # Nothing
                      /\ PlaceAt(m)' \in room'[m]
                      /\ room'[<< link'[m], "right" >>] = {p \in room'[m] : p[2] < key[link'[m]]}
                      /\ room'[<< link'[m], "left" >>] = {p \in room'[m] : key[link'[m]] < p[2]}
    BY <1>0 DEF RoomDivided
  <2>1. CASE m = l
    BY <1>2, <1>3, <1>6, <1>7, <1>9, <1>10, <2>1
  <2>2. CASE m # l
    <3>1. link'[m] = link[m] /\ link[m] # Nothing /\ Open(m)
      BY <1>1, <1>6, <2>2 DEF SetIsOpen
    <3>2. room'[m] = room[m] /\ PlaceAt(m)' = PlaceAt(m)
      BY <1>9, <1>10, <3>1
    <3>3. link[m] \in Nodes /\ link[m] # n
      BY <1>1, <1>3, <3>1 DEF Typed
    <3>4. /\ << link[m], "right" >> \in Links /\ << link[m], "right" >> # nl /\ << link[m], "right" >> # nr
          /\ << link[m], "left" >> \in Links /\ << link[m], "left" >> # nl /\ << link[m], "left" >> # nr
      BY <1>3, <3>3
    <3>5. /\ room'[<< link[m], "right" >>] = room[<< link[m], "right" >>]
          /\ room'[<< link[m], "left" >>] = room[<< link[m], "left" >>]
      BY <1>7, <3>4
    <3> QED
      BY <1>1, <3>1, <3>2, <3>5 DEF RoomDivided
  <2> QED
    BY <2>1, <2>2
<1>16. \A m \in Links : Open(m) /\ m # l =>
         /\ link[m] = Nothing => room[m] \cap room[l] = {}
         /\ link[m] # Nothing => PlaceAt(m) \notin room[l]
  BY <1>1, <1>2 DEF PlaceOnce
<1>17. PlaceOnce'
  <2> SUFFICES ASSUME NEW a \in Links, NEW b \in Links, Open(a)', Open(b)', a # b
               PROVE  /\ link'[a] = Nothing /\ link'[b] = Nothing => room'[a] \cap room'[b] = {}
                      /\ link'[a] # Nothing /\ link'[b] = Nothing => PlaceAt(a)' \notin room'[b]
                      /\ link'[a] # Nothing /\ link'[b] # Nothing => PlaceAt(a)' # PlaceAt(b)'
    BY DEF PlaceOnce
  <2>1. link'[nl] = Nothing /\ link'[nr] = Nothing /\ n # Nothing
    BY <1>3, <1>4, <1>5, <1>6
  <2>2. /\ room'[nl] \subseteq room[l] /\ room'[nr] \subseteq room[l]
        /\ room'[nl] \cap room'[nr] = {}
        /\ place[t] \notin room'[nl] /\ place[t] \notin room'[nr]
    <3>1. \A p \in room[l] : p[2] \in Int
      BY <1>1, <1>2 DEF Typed
    <3> QED
      BY <1>2, <1>7, <3>1
  <2>3. CASE Open(a) /\ Open(b)
    <3>1. room'[a] = room[a] /\ room'[b] = room[b]
      BY <1>10, <2>3
    <3>2. CASE a = l
      BY <1>2, <1>6, <1>9, <1>16, <2>3, <3>1, <3>2
    <3>3. CASE b = l
      <4>1. link'[b] = n /\ link'[b] # Nothing
        BY <1>6, <2>1, <3>3
      <4>2. link'[a] = link[a]
        BY <1>6, <3>3
      <4>3. link[a] # Nothing => PlaceAt(a)' = PlaceAt(a) /\ PlaceAt(b)' = place[t]
        BY <1>9, <3>3
      <4> QED
        BY <1>2, <1>16, <2>3, <3>3, <4>1, <4>2, <4>3
    <3>4. CASE a # l /\ b # l
      BY <1>1, <1>6, <1>9, <2>3, <3>1, <3>4 DEF PlaceOnce
    <3> QED
      BY <3>2, <3>3, <3>4
  <2>4. CASE (a = nl \/ a = nr) /\ (b = nl \/ b = nr)
    BY <2>1, <2>2, <2>4
  <2>5. CASE (a = nl \/ a = nr) /\ Open(b)
    <3>1. link'[a] = Nothing /\ room'[a] \subseteq room[l] /\ room'[b] = room[b]
      BY <1>10, <2>1, <2>2, <2>5
    <3>2. CASE b = l
      BY <1>6, <2>1, <3>1, <3>2
    <3>3. CASE b # l
      BY <1>6, <1>16, <2>5, <3>1, <3>3
    <3> QED
      BY <3>2, <3>3
  <2>6. CASE Open(a) /\ (b = nl \/ b = nr)
    <3>1. /\ link'[b] = Nothing /\ room'[b] \subseteq room[l] /\ room'[a] = room[a]
          /\ place[t] \notin room'[b]
      BY <1>10, <2>1, <2>2, <2>6
    <3>2. CASE a = l
      BY <1>6, <1>9, <2>1, <3>1, <3>2
    <3>3. CASE a # l
      BY <1>6, <1>9, <1>16, <2>6, <3>1, <3>3
    <3> QED
      BY <3>2, <3>3
  <2> QED
    BY <1>8, <2>3, <2>4, <2>5, <2>6
<1>18. \A m \in Links : link[m] # Nothing => key[link[m]] # k
  <2> SUFFICES ASSUME NEW m \in Links, link[m] # Nothing, key[link[m]] = k PROVE FALSE
    OBVIOUS
  <2>1. PlaceAt(m) = place[t]
    BY <1>2 DEF PlaceAt
  <2>2. Open(m) /\ m # l
    BY <1>1 DEF SetIsOpen
  <2> QED
    BY <1>2, <1>16, <2>1, <2>2
<1>19. \A u \in Threads : u # t => /\ at'[u] = at[u] /\ place'[u] = place[u]
                                   /\ current'[u] = current[u] /\ new_node'[u] = new_node[u]
  BY <1>0, <1>1 DEF Typed
<1>20. at'[t] = "idle"
  BY <1>0, <1>1 DEF Typed
<1>21. SearchInRoom'
  <2> SUFFICES ASSUME NEW u \in Threads, at'[u] \in Searching
               PROVE  /\ current'[u] \in Links
                      /\ current'[u] \in Roots \/ \E m \in Links : link'[m] = current'[u][1]
                      /\ place'[u] \in room'[current'[u]]
                      /\ place'[u][1] = table'[hash[place'[u][2]]]
    BY DEF SearchInRoom, Open
  <2>1. u # t
    BY <1>20 DEF Searching
  <2>2. /\ current[u] \in Links /\ Open(current[u]) /\ place[u] \in room[current[u]]
        /\ place[u][1] = table[hash[place[u][2]]]
    BY <1>1, <1>19, <2>1 DEF SearchInRoom
  <2>3. current[u] \in Roots \/ \E m \in Links : link'[m] = current[u][1]
    <3>1. CASE current[u] \in Roots
      BY <3>1
    <3>2. CASE current[u] \notin Roots
      <4>1. PICK m \in Links : link[m] = current[u][1]
        BY <2>2, <3>2 DEF Open
      <4>2. link[m] # Nothing
        BY <2>2, <3>2, <4>1
      <4> QED
        BY <1>6, <4>1, <4>2
    <3> QED
      BY <3>1, <3>2
  <2>4. current'[u] = current[u] /\ place'[u] = place[u] /\ table' = table
    BY <1>0, <1>19, <2>1
  <2>5. room'[current[u]] = room[current[u]]
    BY <1>10, <2>2
  <2> HIDE DEF l, n, k, nl, nr
  <2> QED
    BY <2>2, <2>3, <2>4, <2>5
<1>22. CallKnown'
  BY <1>0, <1>1, <1>19, <1>20 DEF CallKnown
<1>23. NewIsOwn'
  <2> SUFFICES ASSUME NEW u \in Threads, at'[u] = "cas"
               PROVE  /\ new_node'[u] # Nothing /\ new_node'[u] <= made'
                      /\ key'[new_node'[u]] = place'[u][2]
                      /\ \A m \in Links : link'[m] # new_node'[u]
                      /\ \A v \in Threads : at'[v] = "cas" /\ new_node'[v] = new_node'[u] => v = u
    BY DEF NewIsOwn
  <2>1. u # t /\ at[u] = "cas" /\ new_node[u] # n
    BY <1>0, <1>1, <1>19, <1>20 DEF NewIsOwn
  <2> QED
    BY <1>0, <1>1, <1>6, <1>19, <1>20, <2>1 DEF NewIsOwn
<1>24. AnswersTrue'
  <2>1. \A m \in Links : link[m] # Nothing => \E q \in Links : link'[q] = link[m]
    BY <1>6
  <2> SUFFICES ASSUME NEW a \in answers'
               PROVE  a \in Keys \X Nodes /\ key[a[2]] = a[1] /\ \E q \in Links : link'[q] = a[2]
    BY <1>0 DEF AnswersTrue
  <2>2. CASE a \in answers
    BY <1>1, <2>1, <2>2 DEF AnswersTrue
  <2>3. CASE a = << k, n >>
    BY <1>2, <1>3, <1>6, <2>3
  <2> QED
    BY <1>0, <2>2, <2>3
<1> QED
  BY <1>0, <1>2, <1>3, <1>11, <1>12, <1>13, <1>14, <1>15, <1>17, <1>18, <1>21, <1>22, <1>23, <1>24 DEF Inv

\* No two nodes of the table have the same key.
LEMMA KeyOnce ==
  ASSUME Inv
  PROVE  \A n, m \in Linked : /\ n \in Nodes /\ n # Nothing /\ key[n] \in Keys
                              /\ key[n] = key[m] => n = m
<1> SUFFICES ASSUME NEW n \in Linked, NEW m \in Linked
             PROVE  n \in Nodes /\ n # Nothing /\ key[n] \in Keys /\ (key[n] = key[m] => n = m)
  OBVIOUS
<1>1. PICK a \in Links : link[a] = n /\ n # Nothing
  BY DEF Linked
<1>2. PICK b \in Links : link[b] = m /\ m # Nothing
  BY DEF Linked
<1>3. n \in Nodes /\ key[n] \in Keys
  BY <1>1, PlaceOfNode
<1>4. Open(a) /\ Open(b)
  BY <1>1, <1>2 DEF Inv, SetIsOpen
<1>5. key[n] = key[m] => PlaceAt(a) = PlaceAt(b)
  BY <1>1, <1>2 DEF PlaceAt
<1>6. key[n] = key[m] => a = b
  BY <1>1, <1>2, <1>4, <1>5 DEF Inv, PlaceOnce
<1> QED
  BY <1>1, <1>2, <1>3, <1>6

\* A step that links no node and changes no key of a linked one keeps the dictionary.
LEMMA ElementsKept ==
  ASSUME Inv, UNCHANGED link, \A n \in Linked : key'[n] = key[n]
  PROVE  Elements' = Elements
<1>1. Linked' = Linked
  BY DEF Linked
<1>2. \A k \in Keys : Elements'[k] = Elements[k]
  <2> SUFFICES ASSUME NEW k \in Keys PROVE Elements'[k] = Elements[k]
    OBVIOUS
  <2>1. CASE \E n \in Linked : key[n] = k
    <3>1. PICK n \in Linked : key[n] = k
      BY <2>1
    <3>2. \A m \in Linked : (key[m] = k => m = n) /\ (key'[m] = k => m = n)
      BY <3>1, KeyOnce
    <3>3. Elements[k] = n
      BY <3>1, <3>2 DEF Elements
    <3>4. Elements'[k] = n
      BY <1>1, <3>1, <3>2 DEF Elements
    <3> QED
      BY <3>3, <3>4
  <2>2. CASE ~\E n \in Linked : key[n] = k
    BY <1>1, <2>2 DEF Elements
  <2> QED
    BY <2>1, <2>2
<1> QED
  BY <1>2 DEF Elements

\* The node that a compare-and-swap links is the new element of its key.
LEMMA LinkAdds ==
  ASSUME Inv, NEW t \in Threads, Cas(t), link[current[t]] = Nothing, UNCHANGED table_vars
  PROVE  Promise!Add(place[t][2])
<1> USE LinkFacts
<1> DEFINE l == current[t]  n == new_node[t]  k == place[t][2]
<1>1. /\ UNCHANGED key /\ k \in Keys /\ l \in Links /\ n \in Nodes /\ key[n] = k
      /\ \A m \in Links : link[m] # n /\ (link[m] # Nothing => key[link[m]] # k)
      /\ link' = [link EXCEPT ![l] = n] /\ answers' = answers \cup {<< k, n >>}
  BY LinkInv
<1>2. link'[l] = n /\ \A m \in Links : m # l => link'[m] = link[m]
  BY <1>1 DEF Inv, Typed
<1>3. Linked' = Linked \cup {n} /\ n \notin Linked
  <2>1. \A x : x \in Linked' <=> x \in Linked \cup {n}
    BY <1>1, <1>2 DEF Linked
  <2> QED
    BY <1>1, <2>1 DEF Linked
<1>4. \A m \in Linked : key[m] # k
  BY <1>1 DEF Linked
<1>5. Elements[k] = Nothing
  BY <1>1, <1>4 DEF Elements
<1>6. Elements'[k] = n
  BY <1>1, <1>3, <1>4 DEF Elements
<1>7. \A o \in Keys \ {k} : Elements'[o] = Elements[o]
  <2> SUFFICES ASSUME NEW o \in Keys \ {k} PROVE Elements'[o] = Elements[o]
    OBVIOUS
  <2>1. CASE \E m \in Linked : key[m] = o
    <3>1. PICK m \in Linked : key[m] = o
      BY <2>1
    <3>2. \A x \in Linked : key[x] = o => x = m
      BY <3>1, KeyOnce
    <3>3. \A x \in Linked' : key'[x] = o => x = m
      BY <1>1, <1>3, <3>2
    <3>4. Elements[o] = m
      BY <3>1, <3>2 DEF Elements
    <3>5. Elements'[o] = m
      BY <1>1, <1>3, <3>1, <3>3 DEF Elements
    <3> QED
      BY <3>4, <3>5
  <2>2. CASE ~\E m \in Linked : key[m] = o
    BY <1>1, <1>3, <2>2 DEF Elements
  <2> QED
    BY <2>1, <2>2
<1>8. Elements' = [Elements EXCEPT ![k] = n]
  <2>1. /\ Elements' = [o \in Keys |-> Elements'[o]]
        /\ Elements = [o \in Keys |-> Elements[o]]
    BY DEF Elements
  <2>2. \A o \in Keys : Elements'[o] = IF o = k THEN n ELSE Elements[o]
    BY <1>6, <1>7
  <2> HIDE DEF n, k
  <2>3. Elements' = [o \in Keys |-> IF o = k THEN n ELSE Elements[o]]
    BY <2>1, <2>2
  <2> QED
    BY <2>1, <2>3
<1>9. \A o \in Keys : Elements[o] # n
  <2> SUFFICES ASSUME NEW o \in Keys PROVE Elements[o] # n
    OBVIOUS
  <2>1. Elements[o] = Nothing \/ Elements[o] \in Linked
    BY DEF Elements
  <2> QED
    BY <1>1, <1>3, <2>1
<1> QED
  <2>1. n \in Nodes \ {Elements[o] : o \in Keys}
    BY <1>1, <1>9
  <2>2. answers' = answers \cup {<< k, n >>}
    BY <1>1
  <2> HIDE DEF n, k
  <2>3. \E m \in Nodes \ {Elements[o] : o \in Keys} :
          Elements' = [Elements EXCEPT ![k] = m] /\ answers' = answers \cup {<< k, m >>}
    BY <1>8, <2>1, <2>2
  <2> QED
    BY <1>5, <2>3 DEF Promise!Add, k

\* Every step keeps the invariant and is a step of the dictionary, or none.
LEMMA NextInv ==
  ASSUME Inv, [Next]_vars
  PROVE  Inv' /\ [Promise!Next]_<< Elements, answers >>
<1>1. \A n \in Linked : \E l \in Links : link[l] = n /\ n # Nothing
  BY DEF Linked
<1>2. ASSUME UNCHANGED << node_vars, thread_vars, table_vars >>
      PROVE  Inv' /\ [Promise!Next]_<< Elements, answers >>
  <2>0. UNCHANGED << link, key, made, room, at, place, current, new_node, answers, table, trees, new_tree >>
    BY <1>2 DEF node_vars, thread_vars, table_vars
  <2>1. Typed' /\ SearchInRoom' /\ CallKnown' /\ NewIsOwn' /\ AnswersTrue'
    BY <2>0 DEF Inv, Typed, SearchInRoom, CallKnown, NewIsOwn, AnswersTrue, Open
  <2>2. SetIsOpen' /\ RoomInTree' /\ RoomDivided' /\ PlaceOnce' /\ RootRoom'
    BY <1>2, <2>0, NodesKept DEF TableKept
  <2>3. Elements' = Elements
    BY <2>0, ElementsKept
  <2> QED
    BY <2>0, <2>1, <2>2, <2>3 DEF Inv
<1>3. ASSUME NEW t \in Threads, NEW k \in Keys, LoadSlot(t, k)
      PROVE  Inv' /\ [Promise!Next]_<< Elements, answers >>
  BY <1>3, LoadSlotInv, ElementsKept
<1>4. ASSUME NEW t \in Threads, CasSlot(t) \/ LoadTree(t)
      PROVE  Inv' /\ [Promise!Next]_<< Elements, answers >>
  BY <1>4, CasSlotInv, LoadTreeInv, ElementsKept
<1>5. ASSUME NEW t \in Threads, find_and_add(t), UNCHANGED table_vars
      PROVE  Inv' /\ [Promise!Next]_<< Elements, answers >>
  <2>1. CASE MakeNode(t)
    <3>1. /\ Inv' /\ UNCHANGED << link, answers >>
          /\ \A l \in Links : link[l] # Nothing => key'[link[l]] = key[link[l]]
      BY <1>5, <2>1, MakeNodeInv
    <3>2. \A n \in Linked : key'[n] = key[n]
      BY <1>1, <3>1
    <3> QED
      BY <3>1, <3>2, ElementsKept
  <2>2. CASE Cas(t) /\ link[current[t]] = Nothing
    <3>1. Inv' /\ place[t][2] \in Keys
      BY <1>5, <2>2, LinkInv
    <3>2. Promise!Add(place[t][2])
      BY <1>5, <2>2, LinkAdds
    <3> QED
      BY <3>1, <3>2 DEF Promise!Next
  <2>3. CASE Cas(t) /\ link[current[t]] # Nothing
    <3>1. /\ at[t] = "cas" /\ at' = [at EXCEPT ![t] = "find"]
          /\ UNCHANGED << node_vars, place, current, new_node, answers, link, key >>
      BY <2>3 DEF Cas, Goto, node_vars
    <3>2. Inv'
      BY <1>5, <3>1, DescendInv
    <3> QED
      BY <3>1, <3>2, ElementsKept
  <2>4. CASE Descend(t)
    <3>1. UNCHANGED << node_vars, place, answers, link, key >>
      BY <2>4 DEF Descend, node_vars
    <3>2. Inv'
      BY <1>5, <2>4, <3>1, DescendInv
    <3> QED
      BY <3>1, <3>2, ElementsKept
  <2>5. CASE Found(t)
    <3> DEFINE n == link[current[t]]  k == place[t][2]
    <3>1. /\ Inv' /\ UNCHANGED << link, key >> /\ k \in Keys /\ current[t] \in Links
          /\ n \in Nodes /\ key[n] = k /\ answers' = answers \cup {<< k, n >>}
      BY <1>5, <2>5, FoundInv
    <3>2. n \in Linked
      BY <3>1, LinkFacts DEF Linked
    <3>3. Elements[k] = n /\ n # Nothing
      BY <3>1, <3>2, KeyOnce DEF Elements
    <3>4. Elements' = Elements
      BY <3>1, ElementsKept
    <3>5. Promise!Find(k)
      BY <3>1, <3>3, <3>4 DEF Promise!Find
    <3> QED
      BY <3>1, <3>5 DEF Promise!Next
  <2> QED
    BY <1>5, <2>1, <2>2, <2>3, <2>4, <2>5 DEF find_and_add
<1>6. CASE UNCHANGED vars
  BY <1>2, <1>6 DEF vars, tree_vars
<1>7. CASE Next
  <2>1. \/ \E t \in Threads : \/ \E k \in Keys : LoadSlot(t, k)
                              \/ CasSlot(t) \/ LoadTree(t)
                              \/ find_and_add(t) /\ UNCHANGED table_vars
        \/ UNCHANGED << node_vars, thread_vars, table_vars >>
    BY <1>7 DEF Next, Step, IteratorBegin, IteratorLeft, IteratorNext
  <2> QED
    BY <1>2, <1>3, <1>4, <1>5, <2>1
<1> QED
  BY <1>6, <1>7

\* hash_table is a dictionary, whatever the threads, keys and slots: concurrent calls of
\* operator[] make one element for a key and all return it.
THEOREM TableIsDictionary == Spec => ImplementsDictionary
<1>1. Init => Promise!Init
  <2> SUFFICES ASSUME Init PROVE Promise!Init
    OBVIOUS
  <2>1. Linked = {} /\ answers = {}
    BY DEF Init, TreeInit, Linked
  <2> QED
    BY <2>1 DEF Promise!Init, Elements
<1>2. Inv /\ [Next]_vars => Inv' /\ [Promise!Next]_<< Elements, answers >>
  BY NextInv
<1> QED
  BY <1>1, <1>2, InitInv, PTL DEF Spec, ImplementsDictionary, Promise!Spec
-----------------------------------------------------------------------------
\* The places of a link are an interval.
RoomConvex ==
  \A l \in Links : \A p, q \in room[l] : \A k \in Keys :
    p[2] < k /\ k < q[2] => << p[1], k >> \in room[l]

\* The parent of a node is the node that has its link, which was made before it.
ParentTrue ==
  /\ parent \in [Nodes -> Nodes \cup {Nothing}]
  /\ \A n \in Nodes : parent[n] # Nothing => parent[n] < n
  /\ \A l \in Links : link[l] # Nothing => parent[link[l]] = Owner(l)
  /\ \A t \in Threads : at[t] = "cas" => parent[new_node[t]] = Owner(current[t])

\* The keys that the iterator has come to.
Seen(k) == \E i \in DOMAIN iterator.seen : iterator.seen[i] = k

IteratorTyped ==
  iterator \in [at : {"idle", "leftmost", "next", "end"}, tree : Trees \cup {Nothing},
                location : Nodes \cup {Nothing}, seen : Seq(Keys), owed : SUBSET Keys]

\* The keys that it came to fall.
SeenFalls == \A i, j \in DOMAIN iterator.seen : i < j => iterator.seen[j] < iterator.seen[i]

\* The keys that it must come to are in its tree.
OwedThere ==
  \A k \in iterator.owed : \E l \in Links :
    link[l] # Nothing /\ key[link[l]] = k /\ << iterator.tree, k >> \in room[l]

\* Before it goes to the left of the node of a link, the keys it has come to are above
\* those of the link, and the others that it must come to are not.
LeftAt(l) ==
  /\ link[l] = iterator.location /\ link[l] # Nothing
  /\ << iterator.tree, key[link[l]] >> \in room[l]
  /\ \A i \in DOMAIN iterator.seen : \A p \in room[l] : p[2] < iterator.seen[i]
  /\ \A k \in iterator.owed :
       Seen(k) \/ << iterator.tree, k >> \in room[l] \/ \A p \in room[l] : k < p[2]

\* At a node, the keys it has come to are its own and those above, and the others that it
\* must come to are below.
NextAt(l) ==
  /\ link[l] = iterator.location /\ link[l] # Nothing
  /\ << iterator.tree, key[link[l]] >> \in room[l]
  /\ \A i \in DOMAIN iterator.seen : key[link[l]] <= iterator.seen[i]
  /\ \A k \in iterator.owed : Seen(k) \/ k < key[link[l]]

\* Where the iterator is.
IteratorInv ==
  /\ IteratorTyped /\ SeenFalls
  /\ iterator.at # "idle" => iterator.tree \in Trees /\ OwedThere
  /\ iterator.at = "leftmost" => \E l \in Links : LeftAt(l)
  /\ iterator.at = "next" => \E l \in Links : NextAt(l)
  /\ iterator.at = "end" => \A k \in iterator.owed : Seen(k)

\* The inductive invariant of the iteration.
TreeInv == RoomConvex /\ ParentTrue /\ IteratorInv

\* The loop of operator++ ends: a parent was made before its children.
LEMMA ClimbLoop ==
  ASSUME ParentTrue, NEW n \in Nodes
  PROVE  Climb[n] = IF parent[n] # Nothing /\ link[<< parent[n], "right" >>] = n
                    THEN Climb[parent[n]] ELSE parent[n]
<1> USE TreeAssumption
<1> DEFINE Up(g, m) == IF parent[m] # Nothing /\ link[<< parent[m], "right" >>] = m
                       THEN g[parent[m]] ELSE parent[m]
           Solves(g, i) == \A m \in Nodes : m <= i => g[m] = Up(g, m)
           T == {i \in Nat : \E g : Solves(g, i)}
<1>0. Nodes \subseteq Nat \ {0} /\ \A m \in Nodes : parent[m] # Nothing => parent[m] \in Nodes /\ parent[m] < m
  BY DEF ParentTrue, Nodes
<1>1. 0 \in T
  <2>1. Solves(<< >>, 0)
    BY <1>0
  <2> HIDE DEF Solves
  <2> QED
    BY <2>1
<1>2. ASSUME NEW i \in T PROVE i + 1 \in T
  <2>1. PICK g : Solves(g, i)
    OBVIOUS
  <2> DEFINE h == [m \in Nodes |-> Up(g, m)]
  <2>2. ASSUME NEW m \in Nodes, m <= i + 1 PROVE h[m] = Up(h, m)
    <3>1. parent[m] # Nothing => parent[m] \in Nodes /\ parent[m] <= i
      BY <1>0, <2>2
    <3>2. parent[m] # Nothing => h[parent[m]] = g[parent[m]]
      BY <2>1, <3>1
    <3> QED
      BY <3>2
  <2>3. Solves(h, i + 1)
    BY <2>2
  <2> HIDE DEF Solves, h
  <2>4. i \in Nat
    OBVIOUS
  <2> QED
    BY <2>3, <2>4
<1>3. T = Nat
  <2> HIDE DEF T
  <2>1. T \in SUBSET Nat
    BY DEF T
  <2> QED
    BY <1>1, <1>2, <2>1, NatSetInduction
<1>4. PICK g : Solves(g, max_nodes)
  BY <1>3
<1> DEFINE h == [m \in Nodes |-> g[m]]
<1>5. h = [m \in Nodes |-> Up(h, m)]
  <2>1. \A m \in Nodes : g[m] = Up(g, m) /\ Up(h, m) = Up(g, m)
    BY <1>0, <1>4 DEF Nodes
  <2> QED
    BY <2>1
<1>6. Climb = [m \in Nodes |-> Up(Climb, m)]
  <2>1. \E f : f = [m \in Nodes |-> Up(f, m)]
    BY <1>5
  <2> QED
    BY <2>1 DEF Climb
<1> QED
  BY <1>6

\* The links of a linked node: the places that they share out, and their node's own place.
LEMMA NodeFacts ==
  ASSUME Inv, NEW l \in Links, link[l] # Nothing
  PROVE  /\ link[l] \in Nodes /\ key[link[l]] \in Keys /\ Open(l)
         /\ PlaceAt(l)[1] \in Trees /\ << PlaceAt(l)[1], key[link[l]] >> \in room[l]
         /\ \A p \in room[l] : p = << PlaceAt(l)[1], p[2] >> /\ p[2] \in Keys
         /\ << link[l], "left" >> \in Links /\ << link[l], "right" >> \in Links
         /\ room[<< link[l], "right" >>] = {p \in room[l] : p[2] < key[link[l]]}
         /\ room[<< link[l], "left" >>] = {p \in room[l] : key[link[l]] < p[2]}
         /\ \A m \in Links : link[m] = link[l] => m = l
<1>1. /\ link[l] \in Nodes /\ key[link[l]] \in Keys /\ PlaceAt(l) \in room[l]
      /\ PlaceAt(l)[2] = key[link[l]]
  BY PlaceOfNode
<1>2. Open(l) /\ room[l] \subseteq Trees \X Keys
  BY DEF Inv, SetIsOpen, Typed
<1>3. \A p \in room[l] : p[1] = PlaceAt(l)[1]
  BY <1>1 DEF Inv, RoomInTree
<1>4. << link[l], "left" >> \in Links /\ << link[l], "right" >> \in Links
  BY <1>1, LinkFacts
<1>5. /\ room[<< link[l], "right" >>] = {p \in room[l] : p[2] < key[link[l]]}
      /\ room[<< link[l], "left" >>] = {p \in room[l] : key[link[l]] < p[2]}
  BY DEF Inv, RoomDivided
<1>6. ASSUME NEW m \in Links, link[m] = link[l] PROVE m = l
  <2>1. Open(m) /\ PlaceAt(m) = PlaceAt(l)
    BY <1>6 DEF Inv, SetIsOpen, PlaceAt
  <2> QED
    BY <1>2, <1>6, <2>1 DEF Inv, PlaceOnce
<1>7. \A p \in room[l] : p = << PlaceAt(l)[1], p[2] >> /\ p[2] \in Keys
  BY <1>2, <1>3
<1>8. PlaceAt(l)[1] \in Trees /\ << PlaceAt(l)[1], key[link[l]] >> \in room[l]
  BY <1>1, <1>2 DEF PlaceAt
<1> QED
  BY <1>1, <1>2, <1>4, <1>5, <1>6, <1>7, <1>8

\* The places of the link of a node are those of its tree.
LEMMA TreeOfNode ==
  ASSUME Inv, NEW l \in Links, link[l] # Nothing, NEW tree, << tree, key[link[l]] >> \in room[l]
  PROVE  /\ tree = PlaceAt(l)[1] /\ PlaceAt(l) = << tree, key[link[l]] >>
         /\ \A p \in room[l] : p = << tree, p[2] >> /\ p[2] \in Keys
<1>1. \A p \in room[l] : p = << PlaceAt(l)[1], p[2] >> /\ p[2] \in Keys
  BY NodeFacts
<1>2. << tree, key[link[l]] >> = << PlaceAt(l)[1], << tree, key[link[l]] >>[2] >>
  BY <1>1
<1>3. tree = PlaceAt(l)[1]
  BY <1>2
<1>4. PlaceAt(l) = << tree, key[link[l]] >>
  BY <1>3 DEF PlaceAt
<1> QED
  BY <1>1, <1>3, <1>4

\* Where the climb from the node of a link ends: at the node with the next key below the
\* places of the link, or nowhere if there is none.
ClimbsTo(l, c) ==
  /\ c = Nothing => \A k \in Keys : k < key[link[l]] => << PlaceAt(l)[1], k >> \in room[l]
  /\ c # Nothing => \E m \in Links :
       /\ link[m] = c /\ << PlaceAt(l)[1], key[c] >> \in room[m]
       /\ \A p \in room[l] : key[c] < p[2]
       /\ \A k \in Keys : key[c] < k /\ k < key[link[l]] => << PlaceAt(l)[1], k >> \in room[l]

\* One turn of the loop.
LEMMA ClimbStep ==
  ASSUME Inv, RoomConvex, ParentTrue, NEW l \in Links, link[l] # Nothing
  PROVE  \/ Climb[link[l]] = Nothing /\ ClimbsTo(l, Nothing)
         \/ Climb[link[l]] # Nothing /\ ClimbsTo(l, Climb[link[l]])
         \/ \E m \in Links : /\ link[m] # Nothing /\ link[m] < link[l]
                             /\ Climb[link[l]] = Climb[link[m]]
                             /\ \A c : ClimbsTo(m, c) => ClimbsTo(l, c)
<1> USE LinkFacts
<1> DEFINE n == link[l]  tree == PlaceAt(l)[1]
<1>0. n \in Nodes /\ key[n] \in Keys /\ << tree, key[n] >> \in room[l] /\ tree \in Trees /\ Open(l)
  BY NodeFacts
<1>1. parent[n] = Owner(l)
  BY DEF ParentTrue
<1>2. CASE l \in Roots
  <2>1. Climb[n] = Nothing
    BY <1>0, <1>1, <1>2, ClimbLoop DEF Owner
  <2>2. room[l] = {l[1]} \X Keys
    BY <1>2 DEF Inv, RootRoom
  <2>3. tree = l[1]
    BY <1>0, <2>2
  <2>4. ClimbsTo(l, Nothing)
    BY <2>2, <2>3 DEF ClimbsTo
  <2> QED
    BY <2>1, <2>4
<1>3. CASE l \notin Roots
  <2> DEFINE p == l[1]
  <2>1. parent[n] = p /\ p \in Nodes /\ l \in {<< p, "left" >>, << p, "right" >>} /\ p # Nothing /\ p < n
    BY <1>0, <1>1, <1>3 DEF Owner, ParentTrue
  <2>2. PICK m \in Links : link[m] = p
    BY <1>0, <1>3 DEF Open
  <2>3. /\ key[p] \in Keys /\ << PlaceAt(m)[1], key[p] >> \in room[m]
        /\ room[<< p, "right" >>] = {q \in room[m] : q[2] < key[p]}
        /\ room[<< p, "left" >>] = {q \in room[m] : key[p] < q[2]}
        /\ \A q \in room[m] : q = << PlaceAt(m)[1], q[2] >> /\ q[2] \in Keys
    BY <2>1, <2>2, NodeFacts
  <2>4. PlaceAt(m)[1] = tree
    BY <1>0, <2>1, <2>3
  <2>5. CASE l = << p, "right" >>
    <3>1. Climb[n] = Climb[p]
      BY <1>0, <2>1, <2>5, ClimbLoop
    <3>2. key[n] < key[p]
      BY <1>0, <2>3, <2>5
    <3>3. ASSUME NEW c, ClimbsTo(m, c) PROVE ClimbsTo(l, c)
      <4>1. CASE c = Nothing
        BY <1>0, <2>2, <2>3, <2>4, <2>5, <3>2, <3>3, <4>1 DEF ClimbsTo
      <4>2. CASE c # Nothing
        <5>1. PICK o \in Links :
                /\ link[o] = c /\ << tree, key[c] >> \in room[o]
                /\ \A q \in room[m] : key[c] < q[2]
                /\ \A k \in Keys : key[c] < k /\ k < key[p] => << tree, k >> \in room[m]
          BY <2>2, <2>4, <3>3, <4>2 DEF ClimbsTo
        <5>2. \A k \in Keys : key[c] < k /\ k < key[n] => << tree, k >> \in room[l]
          BY <1>0, <2>3, <2>5, <3>2, <5>1
        <5>3. \A q \in room[l] : key[c] < q[2]
          BY <2>3, <2>5, <5>1
        <5> QED
          BY <4>2, <5>1, <5>2, <5>3 DEF ClimbsTo
      <4> QED
        BY <4>1, <4>2
    <3> QED
      BY <2>1, <2>2, <3>1, <3>3
  <2>6. CASE l = << p, "left" >>
    <3>1. link[<< p, "right" >>] # n
      BY <1>0, <2>1, <2>6, NodeFacts
    <3>2. Climb[n] = p
      BY <1>0, <2>1, <3>1, ClimbLoop
    <3>3. key[p] < key[n] /\ << tree, key[n] >> \in room[m]
      BY <1>0, <2>3, <2>6
    <3>4. \A k \in Keys : key[p] < k /\ k < key[n] => << tree, k >> \in room[l]
      BY <2>3, <2>4, <2>6, <3>3 DEF RoomConvex
    <3>5. ClimbsTo(l, p)
      BY <2>1, <2>2, <2>3, <2>4, <2>6, <3>4 DEF ClimbsTo
    <3> QED
      BY <2>1, <3>2, <3>5
  <2> QED
    BY <2>1, <2>5, <2>6
<1> QED
  BY <1>2, <1>3

\* The loop of operator++ comes to the node with the next key.
LEMMA ClimbEnds ==
  ASSUME Inv, RoomConvex, ParentTrue, NEW l \in Links, link[l] # Nothing
  PROVE  ClimbsTo(l, Climb[link[l]])
<1> DEFINE Good(i) == \A m \in Links : link[m] # Nothing /\ link[m] <= i => ClimbsTo(m, Climb[link[m]])
           T == {i \in Nat : Good(i)}
<1>0. \A m \in Links : link[m] # Nothing => link[m] \in Nat /\ link[m] > 0
  BY TreeAssumption DEF Inv, Typed, Nodes
<1>1. 0 \in T
  BY <1>0
<1>2. ASSUME NEW i \in T PROVE i + 1 \in T
  <2>1. i \in Nat /\ Good(i)
    OBVIOUS
  <2>2. ASSUME NEW m \in Links, link[m] # Nothing, link[m] <= i + 1
        PROVE  ClimbsTo(m, Climb[link[m]])
    <3>1. CASE \E o \in Links : /\ link[o] # Nothing /\ link[o] < link[m]
                                /\ Climb[link[m]] = Climb[link[o]]
                                /\ \A c : ClimbsTo(o, c) => ClimbsTo(m, c)
      <4>1. PICK o \in Links : /\ link[o] # Nothing /\ link[o] < link[m]
                               /\ Climb[link[m]] = Climb[link[o]]
                               /\ \A c : ClimbsTo(o, c) => ClimbsTo(m, c)
        BY <3>1
      <4>2. link[o] <= i
        BY <1>0, <2>1, <2>2, <4>1
      <4> QED
        BY <2>1, <4>1, <4>2
    <3> QED
      BY <2>2, <3>1, ClimbStep
  <2> QED
    BY <2>1, <2>2
<1>3. T = Nat
  <2> HIDE DEF T
  <2>1. T \in SUBSET Nat
    BY DEF T
  <2> QED
    BY <1>1, <1>2, <2>1, NatSetInduction
<1>4. link[l] \in T
  BY <1>0, <1>3
<1> QED
  BY <1>0, <1>4

\* A step beside the iterator, which leaves alone the links that are set and their nodes.
LEMMA IteratorKept ==
  ASSUME Inv, IteratorInv, UNCHANGED iterator,
         \A l \in Links : link[l] # Nothing =>
           link'[l] = link[l] /\ room'[l] = room[l] /\ key'[link[l]] = key[link[l]]
  PROVE  IteratorInv'
<1>1. IteratorTyped' /\ SeenFalls' /\ \A k : Seen(k)' <=> Seen(k)
  BY DEF IteratorInv, IteratorTyped, SeenFalls, Seen
<1>2. OwedThere => OwedThere'
  BY DEF OwedThere
<1>3. \A l \in Links : LeftAt(l) => LeftAt(l)'
  BY <1>1 DEF LeftAt
<1>4. \A l \in Links : NextAt(l) => NextAt(l)'
  BY <1>1 DEF NextAt
<1> QED
  BY <1>1, <1>2, <1>3, <1>4 DEF IteratorInv

\* A key that is in the tree of the iterator is not at a link that is not set.
LEMMA OwedNotEmpty ==
  ASSUME Inv, OwedThere, NEW k \in iterator.owed, NEW m \in Links, Open(m), link[m] = Nothing
  PROVE  << iterator.tree, k >> \notin room[m]
<1>1. PICK l \in Links : link[l] # Nothing /\ key[link[l]] = k /\ << iterator.tree, k >> \in room[l]
  BY DEF OwedThere
<1>2. Open(l) /\ PlaceAt(l) = << iterator.tree, k >>
  BY <1>1, NodeFacts, TreeOfNode
<1> QED
  BY <1>1, <1>2 DEF Inv, PlaceOnce

\* The iterator begins.
LEMMA BeginInv ==
  ASSUME Inv, TreeInv, NEW tree \in Trees, IteratorBegin(tree), UNCHANGED table_vars
  PROVE  IteratorInv'
<1> USE LinkFacts
<1> DEFINE l == << tree, "root" >>
<1>0. /\ UNCHANGED << link, key, room >> /\ iterator'.seen = << >> /\ iterator'.owed = KeysOf(tree)
      /\ iterator'.tree = tree /\ iterator'.location = link[l]
      /\ iterator'.at = IF link[l] = Nothing THEN "end" ELSE "leftmost"
      /\ iterator' = [at |-> iterator'.at, tree |-> iterator'.tree, location |-> iterator'.location,
                      seen |-> iterator'.seen, owed |-> iterator'.owed]
  BY DEF IteratorBegin, node_vars
<1>1. l \in Links /\ l \in Roots /\ Open(l) /\ room[l] = {tree} \X Keys
  BY DEF Inv, RootRoom, Open
<1>2. \A k \in KeysOf(tree) : k \in Keys /\ << tree, k >> \in room[l]
                              /\ \E m \in Links : /\ link[m] # Nothing /\ key[link[m]] = k
                                                  /\ << tree, k >> \in room[m]
  <2> TAKE k \in KeysOf(tree)
  <2>1. PICK m \in Links : /\ link[m] # Nothing /\ << tree, key[link[m]] >> \in room[m]
                           /\ k = key[link[m]]
    BY DEF KeysOf
  <2>2. k \in Keys
    BY <2>1, NodeFacts
  <2> QED
    BY <1>1, <2>1, <2>2
<1>3. OwedThere'
  BY <1>0, <1>2 DEF OwedThere
<1>4. IteratorTyped'
  <2>1. link[l] \in Nodes \cup {Nothing}
    BY <1>1 DEF Inv, Typed
  <2>2. \A k \in KeysOf(tree) : k \in Keys
    BY <1>2
  <2>3. KeysOf(tree) \in SUBSET Keys
    BY <2>2
  <2>4. iterator'.at \in {"idle", "leftmost", "next", "end"} /\ << >> \in Seq(Keys)
    BY <1>0
  <2> QED
    BY <1>0, <2>1, <2>3, <2>4 DEF IteratorTyped
<1>5. SeenFalls' /\ DOMAIN iterator'.seen = {}
  BY <1>0 DEF SeenFalls
<1>6. link[l] = Nothing => KeysOf(tree) = {}
  <2> SUFFICES ASSUME link[l] = Nothing, NEW k \in KeysOf(tree) PROVE FALSE
    OBVIOUS
  <2>1. PICK m \in Links : /\ link[m] # Nothing /\ << tree, key[link[m]] >> \in room[m]
                           /\ k = key[link[m]]
    BY DEF KeysOf
  <2>2. Open(m) /\ PlaceAt(m) = << tree, k >>
    BY <2>1, NodeFacts, TreeOfNode
  <2>3. << tree, k >> \notin room[l]
    BY <1>1, <2>1, <2>2 DEF Inv, PlaceOnce
  <2> QED
    BY <1>2, <2>3
<1>7. link[l] # Nothing => LeftAt(l)'
  <2> SUFFICES ASSUME link[l] # Nothing PROVE LeftAt(l)'
    OBVIOUS
  <2>1. << tree, key[link[l]] >> \in room[l]
    BY <1>1, NodeFacts
  <2> QED
    BY <1>0, <1>2, <1>5, <2>1 DEF LeftAt
<1> QED
  BY <1>0, <1>1, <1>3, <1>4, <1>5, <1>6, <1>7 DEF IteratorInv

\* The iterator comes to a node below those it has come to, above which there is no other
\* that it must come to.
LEMMA VisitInv ==
  ASSUME Inv, IteratorInv, UNCHANGED << link, key, room >>,
         iterator.tree \in Trees, OwedThere,
         NEW l \in Links, link[l] # Nothing, Visit(link[l]),
         << iterator.tree, key[link[l]] >> \in room[l],
         \A i \in DOMAIN iterator.seen : key[link[l]] < iterator.seen[i],
         \A k \in iterator.owed : Seen(k) \/ k <= key[link[l]]
  PROVE  IteratorInv'
<1> DEFINE n == link[l]  seen == iterator.seen
<1>0. n \in Nodes /\ key[n] \in Keys /\ n # Nothing
  BY NodeFacts
<1>1. /\ seen \in Seq(Keys) /\ iterator'.seen = Append(seen, key[n])
      /\ iterator'.at = "next" /\ iterator'.location = n
      /\ iterator'.tree = iterator.tree /\ iterator'.owed = iterator.owed
      /\ iterator' = [iterator EXCEPT !.at = "next", !.location = n, !.seen = Append(@, key[n])]
  BY <1>0 DEF Visit, IteratorInv, IteratorTyped
<1>2. /\ Append(seen, key[n]) \in Seq(Keys) /\ Len(seen) \in Nat
      /\ DOMAIN seen = 1 .. Len(seen) /\ DOMAIN iterator'.seen = 1 .. Len(seen) + 1
      /\ \A i \in DOMAIN seen : iterator'.seen[i] = seen[i]
      /\ iterator'.seen[Len(seen) + 1] = key[n]
  BY <1>0, <1>1
<1>3. IteratorTyped'
  BY <1>0, <1>1, <1>2 DEF IteratorInv, IteratorTyped
<1>4. \A i \in DOMAIN iterator'.seen : i \in DOMAIN seen \/ i = Len(seen) + 1
  BY <1>2
<1>5. SeenFalls'
  <2> SUFFICES ASSUME NEW i \in DOMAIN iterator'.seen, NEW j \in DOMAIN iterator'.seen, i < j
               PROVE  iterator'.seen[j] < iterator'.seen[i]
    BY DEF SeenFalls
  <2>1. i \in DOMAIN seen
    BY <1>2
  <2>2. CASE j \in DOMAIN seen
    BY <1>2, <2>1, <2>2 DEF IteratorInv, SeenFalls
  <2>3. CASE j = Len(seen) + 1
    BY <1>2, <2>1, <2>3
  <2> QED
    BY <1>4, <2>2, <2>3
<1>6. \A k : Seen(k)' <=> Seen(k) \/ k = key[n]
  <2> TAKE k
  <2>1. Len(seen) + 1 \in DOMAIN iterator'.seen /\ \A i \in DOMAIN seen : i \in DOMAIN iterator'.seen
    BY <1>2
  <2> QED
    BY <1>2, <1>4, <2>1 DEF Seen
<1>7. OwedThere'
  BY <1>1 DEF OwedThere
<1>8. NextAt(l)'
  <2>1. \A i \in DOMAIN iterator'.seen : key[n] <= iterator'.seen[i]
    <3> TAKE i \in DOMAIN iterator'.seen
    <3>1. key[n] \in Int /\ (i \in DOMAIN seen => seen[i] \in Int)
      BY <1>0, <1>1, <1>2, LinkFacts
    <3> QED
      BY <1>2, <1>4, <3>1
  <2>2. \A k \in iterator.owed : Seen(k)' \/ k < key[n]
    <3> TAKE k \in iterator.owed
    <3>1. k \in Int /\ key[n] \in Int
      BY <1>0, LinkFacts DEF IteratorInv, IteratorTyped
    <3> QED
      BY <1>6, <3>1
  <2> QED
    BY <1>0, <1>1, <2>1, <2>2 DEF NextAt
<1> QED
  BY <1>1, <1>3, <1>5, <1>7, <1>8 DEF IteratorInv

\* One turn of the loop of get_left_most().
LEMMA LeftInv ==
  ASSUME Inv, TreeInv, IteratorLeft
  PROVE  IteratorInv'
<1> USE LinkFacts
<1>0. /\ IteratorInv /\ IteratorTyped /\ iterator.at = "leftmost" /\ UNCHANGED << link, key, room >>
      /\ iterator.tree \in Trees /\ OwedThere
  BY DEF TreeInv, IteratorInv, IteratorLeft, node_vars
<1>1. PICK l \in Links : LeftAt(l)
  BY <1>0 DEF IteratorInv
<1> DEFINE n == iterator.location  tree == iterator.tree  left == << n, "left" >>
<1>2. /\ n \in Nodes /\ link[l] = n /\ n # Nothing /\ left \in Links /\ key[n] \in Keys
      /\ << tree, key[n] >> \in room[l]
      /\ room[left] = {p \in room[l] : key[n] < p[2]}
      /\ \A p \in room[l] : p = << tree, p[2] >> /\ p[2] \in Keys
  <2>1. << tree, key[link[l]] >> \in room[l] /\ link[l] = n /\ link[l] # Nothing
    BY <1>1 DEF LeftAt
  <2>2. /\ tree = PlaceAt(l)[1]
        /\ \A p \in room[l] : p = << tree, p[2] >> /\ p[2] \in Keys
    BY <2>1, TreeOfNode
  <2>3. /\ link[l] \in Nodes /\ key[link[l]] \in Keys /\ << link[l], "left" >> \in Links
        /\ room[<< link[l], "left" >>] = {p \in room[l] : key[link[l]] < p[2]}
    BY <2>1, NodeFacts
  <2> QED
    BY <2>1, <2>2, <2>3
<1>3. \A k \in iterator.owed : k \in Keys
  BY <1>0 DEF IteratorTyped
<1>4. CASE link[left] # Nothing
  <2>1. /\ iterator' = [iterator EXCEPT !.location = link[left]]
        /\ iterator'.seen = iterator.seen /\ iterator'.owed = iterator.owed
        /\ iterator'.tree = tree /\ iterator'.at = "leftmost" /\ iterator'.location = link[left]
    BY <1>0, <1>4 DEF IteratorLeft, IteratorTyped
  <2>2. /\ link[left] \in Nodes /\ << PlaceAt(left)[1], key[link[left]] >> \in room[left]
    BY <1>2, <1>4, NodeFacts
  <2>3. << tree, key[link[left]] >> \in room[left]
    BY <1>2, <2>2
  <2>4. IteratorTyped' /\ SeenFalls' /\ OwedThere' /\ \A k : Seen(k)' <=> Seen(k)
    <3>1. IteratorTyped'
      BY <1>0, <2>1, <2>2 DEF IteratorTyped
    <3> QED
      BY <1>0, <2>1, <3>1 DEF IteratorInv, SeenFalls, OwedThere, Seen
  <2>5. ASSUME NEW k \in iterator.owed
        PROVE  Seen(k) \/ << tree, k >> \in room[left] \/ \A p \in room[left] : k < p[2]
    <3>1. Seen(k) \/ << tree, k >> \in room[l] \/ \A p \in room[l] : k < p[2]
      BY <1>1, <2>5 DEF LeftAt
    <3>2. CASE << tree, k >> \in room[l] /\ key[n] < k
      BY <1>2, <3>2
    <3>3. CASE << tree, k >> \in room[l] /\ ~(key[n] < k)
      <4> SUFFICES ASSUME NEW p \in room[left] PROVE k < p[2]
        OBVIOUS
      <4>1. key[n] < p[2] /\ p[2] \in Int /\ k \in Int /\ key[n] \in Int
        BY <1>2, <1>3, <2>5
      <4> QED
        BY <3>3, <4>1
    <3> QED
      BY <1>2, <3>1, <3>2, <3>3
  <2>6. PICK m \in Links : m = left
    BY <1>2
  <2>7. LeftAt(m)'
    BY <1>0, <1>1, <1>2, <1>4, <2>1, <2>3, <2>4, <2>5, <2>6 DEF LeftAt
  <2> QED
    BY <1>0, <2>1, <2>4, <2>7 DEF IteratorInv
<1>5. CASE link[left] = Nothing
  <2>1. Visit(link[l])
    BY <1>2, <1>5 DEF IteratorLeft
  <2>2. \A i \in DOMAIN iterator.seen : key[link[l]] < iterator.seen[i]
    BY <1>1, <1>2 DEF LeftAt
  <2>3. Open(left)
    BY <1>2 DEF Open
  <2>4. ASSUME NEW k \in iterator.owed, ~Seen(k) PROVE k <= key[link[l]]
    <3>1. k \in Int /\ key[n] \in Int
      BY <1>2, <1>3, <2>4
    <3>2. CASE << tree, k >> \in room[l]
      <4>1. << tree, k >> \notin room[left]
        BY <1>0, <1>2, <1>5, <2>3, <2>4, OwedNotEmpty
      <4> QED
        BY <1>2, <3>1, <3>2, <4>1
    <3>3. CASE \A p \in room[l] : k < p[2]
      BY <1>2, <3>1, <3>3
    <3> QED
      BY <1>1, <2>4, <3>2, <3>3 DEF LeftAt
  <2> QED
    BY <1>0, <1>2, <2>1, <2>2, <2>4, VisitInv
<1> QED
  BY <1>4, <1>5

\* operator++
LEMMA NextNodeInv ==
  ASSUME Inv, TreeInv, IteratorNext
  PROVE  IteratorInv'
<1> USE LinkFacts
<1>0. /\ IteratorInv /\ IteratorTyped /\ iterator.at = "next" /\ UNCHANGED << link, key, room >>
      /\ iterator.tree \in Trees /\ OwedThere /\ RoomConvex /\ ParentTrue
  BY DEF TreeInv, IteratorInv, IteratorNext, node_vars
<1>1. PICK l \in Links : NextAt(l)
  BY <1>0 DEF IteratorInv
<1> DEFINE n == iterator.location  tree == iterator.tree  right == << n, "right" >>
<1>2. /\ n \in Nodes /\ link[l] = n /\ n # Nothing /\ right \in Links /\ key[n] \in Keys
      /\ << tree, key[n] >> \in room[l] /\ tree = PlaceAt(l)[1]
      /\ room[right] = {p \in room[l] : p[2] < key[n]}
      /\ \A p \in room[l] : p = << tree, p[2] >> /\ p[2] \in Keys
  <2>1. << tree, key[link[l]] >> \in room[l] /\ link[l] = n /\ link[l] # Nothing
    BY <1>1 DEF NextAt
  <2>2. /\ tree = PlaceAt(l)[1]
        /\ \A p \in room[l] : p = << tree, p[2] >> /\ p[2] \in Keys
    BY <2>1, TreeOfNode
  <2>3. /\ link[l] \in Nodes /\ key[link[l]] \in Keys /\ << link[l], "right" >> \in Links
        /\ room[<< link[l], "right" >>] = {p \in room[l] : p[2] < key[link[l]]}
    BY <2>1, NodeFacts
  <2> QED
    BY <2>1, <2>2, <2>3
<1>3. /\ \A k \in iterator.owed : k \in Keys /\ (Seen(k) \/ k < key[n])
      /\ \A i \in DOMAIN iterator.seen : key[n] <= iterator.seen[i] /\ iterator.seen[i] \in Keys
  BY <1>0, <1>1, <1>2 DEF IteratorTyped, NextAt
<1>4. CASE link[right] # Nothing
  <2>1. /\ iterator' = [iterator EXCEPT !.at = "leftmost", !.location = link[right]]
        /\ iterator'.seen = iterator.seen /\ iterator'.owed = iterator.owed
        /\ iterator'.tree = tree /\ iterator'.at = "leftmost" /\ iterator'.location = link[right]
    BY <1>0, <1>4 DEF IteratorNext, IteratorTyped
  <2>2. /\ link[right] \in Nodes /\ << PlaceAt(right)[1], key[link[right]] >> \in room[right]
    BY <1>2, <1>4, NodeFacts
  <2>3. << tree, key[link[right]] >> \in room[right]
    BY <1>2, <2>2
  <2>4. IteratorTyped' /\ SeenFalls' /\ OwedThere' /\ \A k : Seen(k)' <=> Seen(k)
    <3>1. IteratorTyped'
      BY <1>0, <2>1, <2>2 DEF IteratorTyped
    <3> QED
      BY <1>0, <2>1, <3>1 DEF IteratorInv, SeenFalls, OwedThere, Seen
  <2>5. ASSUME NEW k \in iterator.owed, ~Seen(k), NEW p \in room[right], ~(k < p[2])
        PROVE  << tree, k >> \in room[right]
    <3>1. k \in Int /\ key[n] \in Int /\ p[2] \in Int /\ k < key[n] /\ p \in room[l] /\ k \in Keys
      BY <1>2, <1>3, <2>5
    <3>2. CASE k = p[2]
      BY <1>2, <2>5, <3>1, <3>2
    <3>3. CASE p[2] < k
      <4>1. << p[1], k >> \in room[l] /\ << p[1], k >> = << tree, k >>
        BY <1>0, <1>2, <3>1, <3>3 DEF RoomConvex
      <4> QED
        BY <1>2, <3>1, <4>1
    <3> QED
      BY <2>5, <3>1, <3>2, <3>3
  <2>6. \A i \in DOMAIN iterator.seen : \A p \in room[right] : p[2] < iterator.seen[i]
    BY <1>2, <1>3
  <2>7. PICK m \in Links : m = right
    BY <1>2
  <2>8. LeftAt(m)'
    BY <1>0, <1>2, <1>4, <2>1, <2>3, <2>4, <2>5, <2>6, <2>7 DEF LeftAt
  <2> QED
    BY <1>0, <2>1, <2>4, <2>8 DEF IteratorInv
<1>5. CASE link[right] = Nothing
  <2> DEFINE c == Climb[n]
  <2>1. Visit(c) /\ ClimbsTo(l, c)
    BY <1>0, <1>2, <1>5, ClimbEnds DEF IteratorNext
  <2>2. Open(right)
    BY <1>2 DEF Open
  <2>3. ASSUME NEW k \in iterator.owed, ~Seen(k)
        PROVE  k \in Keys /\ k < key[n] /\ << tree, k >> \notin room[l]
    <3>1. << tree, k >> \notin room[right]
      BY <1>0, <1>2, <1>5, <2>2, <2>3, OwedNotEmpty
    <3> QED
      BY <1>2, <1>3, <2>3, <3>1
  <2> HIDE DEF c
  <2>4. CASE c = Nothing
    <3>1. /\ iterator' = [iterator EXCEPT !.at = "end", !.location = Nothing]
          /\ iterator'.seen = iterator.seen /\ iterator'.owed = iterator.owed
          /\ iterator'.tree = tree /\ iterator'.at = "end"
      BY <1>0, <2>1, <2>4 DEF Visit, IteratorTyped
    <3>2. IteratorTyped' /\ SeenFalls' /\ OwedThere' /\ \A k : Seen(k)' <=> Seen(k)
      <4>1. IteratorTyped'
        BY <1>0, <3>1 DEF IteratorTyped
      <4> QED
        BY <1>0, <3>1, <4>1 DEF IteratorInv, SeenFalls, OwedThere, Seen
    <3>3. \A k \in iterator.owed : Seen(k)
      BY <1>2, <2>1, <2>3, <2>4 DEF ClimbsTo
    <3> QED
      BY <1>0, <3>1, <3>2, <3>3 DEF IteratorInv
  <2>5. CASE c # Nothing
    <3>1. PICK m \in Links :
            /\ link[m] = c /\ << tree, key[c] >> \in room[m]
            /\ \A p \in room[l] : key[c] < p[2]
            /\ \A k \in Keys : key[c] < k /\ k < key[n] => << tree, k >> \in room[l]
      BY <1>2, <2>1, <2>5 DEF ClimbsTo
    <3>2. key[c] \in Keys /\ key[c] < key[n]
      BY <1>2, <2>5, <3>1, NodeFacts
    <3>3. \A i \in DOMAIN iterator.seen : key[c] < iterator.seen[i]
      <4> TAKE i \in DOMAIN iterator.seen
      <4>1. key[n] <= iterator.seen[i] /\ iterator.seen[i] \in Int /\ key[n] \in Int /\ key[c] \in Int
        BY <1>2, <1>3, <3>2
      <4> QED
        BY <3>2, <4>1
    <3>4. \A k \in iterator.owed : Seen(k) \/ k <= key[c]
      <4> TAKE k \in iterator.owed
      <4>1. k \in Int /\ key[c] \in Int
        BY <1>3, <3>2
      <4>2. ~Seen(k) => ~(key[c] < k)
        BY <2>3, <3>1
      <4> QED
        BY <4>1, <4>2
    <3> QED
      BY <1>0, <2>1, <2>5, <3>1, <3>3, <3>4, VisitInv
  <2> QED
    BY <2>4, <2>5
<1> QED
  BY <1>4, <1>5

\* A step of a thread, or one that begins a call, keeps the links that are set, the places
\* of the links and the parents.
LEMMA ThreadTreeInv ==
  ASSUME Inv, Inv', TreeInv, NEW t \in Threads,
         \/ \E k \in Keys : LoadSlot(t, k)
         \/ CasSlot(t) \/ LoadTree(t)
         \/ find_and_add(t) /\ UNCHANGED table_vars
  PROVE  TreeInv'
<1> USE LinkFacts, TreeAssumption
<1>0. /\ RoomConvex /\ ParentTrue /\ IteratorInv /\ Typed /\ SearchInRoom /\ NewIsOwn /\ SetIsOpen
      /\ Typed'
  BY DEF TreeInv, Inv
<1>1. CASE (\E k \in Keys : LoadSlot(t, k)) \/ CasSlot(t) \/ LoadTree(t)
            \/ Descend(t) \/ Found(t) \/ (Cas(t) /\ link[current[t]] # Nothing)
  <2>1. UNCHANGED << link, key, parent, made, room, iterator >>
    BY <1>1 DEF LoadSlot, CasSlot, LoadTree, CallTree, Descend, Found, Cas, node_vars
  <2>2. \A u \in Threads : at'[u] = "cas" => /\ at[u] = "cas" /\ new_node'[u] = new_node[u]
                                             /\ current'[u] = current[u]
    <3> DEFINE Others == \A u \in Threads : u # t => /\ at'[u] = at[u]
                                                   /\ new_node'[u] = new_node[u]
                                                   /\ current'[u] = current[u]
    <3>1. DOMAIN at = Threads /\ DOMAIN new_node = Threads /\ DOMAIN current = Threads
      BY <1>0 DEF Typed
    <3> DEFINE G == at'[t] # "cas" /\ Others
    <3>2. \A k \in Keys : LoadSlot(t, k) => G
      BY <3>1 DEF LoadSlot, Goto
    <3>3. CasSlot(t) => G
      BY <3>1 DEF CasSlot, Goto
    <3>4. LoadTree(t) => G
      BY <3>1 DEF LoadTree, CallTree, Goto
    <3>5. Descend(t) => G
      BY <3>1 DEF Descend
    <3>6. Found(t) => G
      BY <3>1 DEF Found, Answer, Goto
    <3>7. Cas(t) /\ link[current[t]] # Nothing => G
      BY <3>1 DEF Cas, Goto
    <3> HIDE DEF G
    <3>8. G
      BY <1>1, <3>2, <3>3, <3>4, <3>5, <3>6, <3>7
    <3> QED
      BY <3>8 DEF G
  <2>3. RoomConvex' /\ ParentTrue'
    BY <1>0, <2>1, <2>2 DEF RoomConvex, ParentTrue, Owner
  <2>4. IteratorInv'
    BY <1>0, <2>1, IteratorKept
  <2> QED
    BY <2>3, <2>4 DEF TreeInv
<1>2. CASE MakeNode(t)
  <2> DEFINE n == made + 1
  <2>1. /\ UNCHANGED << link, room, current, iterator >> /\ n \in Nodes /\ made \in Nat
        /\ parent' = [parent EXCEPT ![n] = Owner(current[t])]
        /\ key' = [key EXCEPT ![n] = place[t][2]] /\ at[t] = "find"
        /\ new_node' = [new_node EXCEPT ![t] = n] /\ at' = [at EXCEPT ![t] = "cas"]
    BY <1>0, <1>2 DEF MakeNode, Goto, Typed, Nodes
  <2>2. current[t] \in Links /\ Open(current[t])
    BY <1>0, <2>1 DEF SearchInRoom, Searching
  <2>3. Owner(current[t]) \in Nodes \cup {Nothing} /\ (Owner(current[t]) # Nothing => Owner(current[t]) < n)
    <3>1. CASE current[t] \in Roots
      BY <3>1 DEF Owner
    <3>2. CASE current[t] \notin Roots
      <4>1. PICK m \in Links : link[m] = current[t][1] /\ current[t][1] \in Nodes
        BY <2>2, <3>2 DEF Open
      <4>2. link[m] <= made /\ link[m] \in Nat
        BY <1>0, <4>1 DEF SetIsOpen, Nodes
      <4> QED
        BY <2>1, <3>2, <4>1, <4>2 DEF Owner
    <3> QED
      BY <3>1, <3>2
  <2>4. \A l \in Links : link[l] # Nothing => link[l] \in Nodes /\ link[l] # n
    BY <1>0, <2>1 DEF Typed, SetIsOpen, Nodes
  <2>5. \A u \in Threads : u # t /\ at[u] = "cas" => new_node[u] \in Nodes /\ new_node[u] # n
    BY <1>0, <2>1 DEF Typed, NewIsOwn, Nodes
  <2> HIDE DEF n
  <2>6. ParentTrue'
    <3>1. parent' \in [Nodes -> Nodes \cup {Nothing}]
      BY <1>0, <2>1, <2>3 DEF ParentTrue
    <3>2. \A m \in Nodes : parent'[m] # Nothing => parent'[m] < m
      BY <1>0, <2>1, <2>3 DEF ParentTrue
    <3>3. \A l \in Links : link'[l] # Nothing => parent'[link'[l]] = Owner(l)
      BY <1>0, <2>1, <2>4 DEF ParentTrue
    <3>4. \A u \in Threads : at'[u] = "cas" => parent'[new_node'[u]] = Owner(current'[u])
      <4> SUFFICES ASSUME NEW u \in Threads, at'[u] = "cas"
                   PROVE  parent'[new_node'[u]] = Owner(current[u])
        BY <2>1
      <4>1. CASE u = t
        BY <1>0, <2>1, <4>1 DEF Typed, ParentTrue
      <4>2. CASE u # t
        BY <1>0, <2>1, <2>5, <4>2 DEF Typed, ParentTrue
      <4> QED
        BY <4>1, <4>2
    <3> QED
      BY <3>1, <3>2, <3>3, <3>4 DEF ParentTrue, Owner
  <2>7. RoomConvex'
    BY <1>0, <2>1 DEF RoomConvex
  <2>8. IteratorInv'
    BY <1>0, <2>1, <2>4, IteratorKept DEF Typed
  <2> QED
    BY <2>6, <2>7, <2>8 DEF TreeInv
<1>3. CASE Cas(t) /\ link[current[t]] = Nothing
  <2> DEFINE l == current[t]  n == new_node[t]  k == place[t][2]
             nl == << n, "left" >>  nr == << n, "right" >>
  <2>1. /\ UNCHANGED << key, parent, iterator >> /\ at[t] = "cas"
        /\ link' = [link EXCEPT ![l] = n]
        /\ room' = [room EXCEPT ![nl] = {p \in room[l] : k < p[2]},
                                ![nr] = {p \in room[l] : p[2] < k}]
        /\ at' = [at EXCEPT ![t] = "idle"] /\ current' = [current EXCEPT ![t] = Nothing]
        /\ new_node' = [new_node EXCEPT ![t] = Nothing]
    BY <1>3 DEF Cas, Answer, Goto
  <2>2. l \in Links /\ Open(l) /\ n \in Nodes /\ (\A m \in Links : link[m] # n) /\ k \in Keys
    BY <1>0, <2>1 DEF SearchInRoom, Searching, NewIsOwn, Typed, Inv, CallKnown
  <2>3. nl \in Links /\ nr \in Links /\ nl # nr /\ ~Open(nl) /\ ~Open(nr)
    BY <2>2 DEF Open
  <2>4. /\ link'[l] = n /\ \A m \in Links : m # l => link'[m] = link[m]
        /\ room'[nl] = {p \in room[l] : k < p[2]} /\ room'[nr] = {p \in room[l] : p[2] < k}
        /\ \A m \in Links : m # nl /\ m # nr => room'[m] = room[m]
    <3>1. link'[l] = n /\ \A m \in Links : m # l => link'[m] = link[m]
      BY <1>0, <2>1, <2>2 DEF Typed
    <3>2. /\ room'[nl] = {p \in room[l] : k < p[2]} /\ room'[nr] = {p \in room[l] : p[2] < k}
          /\ \A m \in Links : m # nl /\ m # nr => room'[m] = room[m]
      <4>1. room \in [Links -> SUBSET (Trees \X Keys)]
        BY <1>0 DEF Typed
      <4> HIDE DEF l, k, nl, nr
      <4> QED
        BY <2>1, <2>3, <4>1
    <3> QED
      BY <3>1, <3>2
  <2>5. \A m \in Links : link[m] # Nothing => link'[m] = link[m] /\ room'[m] = room[m]
    <3> SUFFICES ASSUME NEW m \in Links, link[m] # Nothing
                 PROVE  link'[m] = link[m] /\ room'[m] = room[m]
      OBVIOUS
    <3>1. Open(m)
      BY <1>0 DEF SetIsOpen
    <3> QED
      BY <1>3, <2>3, <2>4, <3>1
  <2>6. IteratorInv'
    BY <1>0, <2>1, <2>5, IteratorKept
  <2>7. ParentTrue'
    <3>1. \A m \in Links : link'[m] # Nothing => parent[link'[m]] = Owner(m)
      BY <1>0, <2>1, <2>2, <2>4 DEF ParentTrue
    <3>2. \A u \in Threads : at'[u] = "cas" => /\ at[u] = "cas" /\ new_node'[u] = new_node[u]
                                               /\ current'[u] = current[u]
      BY <1>0, <2>1 DEF Typed
    <3> QED
      BY <1>0, <2>1, <3>1, <3>2 DEF ParentTrue, Owner
  <2>8. RoomConvex'
    <3> SUFFICES ASSUME NEW m \in Links, NEW p \in room'[m], NEW q \in room'[m], NEW j \in Keys,
                        p[2] < j, j < q[2]
                 PROVE  << p[1], j >> \in room'[m]
      BY DEF RoomConvex
    <3>1. CASE m # nl /\ m # nr
      BY <1>0, <2>4, <3>1 DEF RoomConvex
    <3>2. CASE m = nl \/ m = nr
      <4>1. p \in room[l] /\ q \in room[l] /\ p[2] \in Keys /\ q[2] \in Keys
        <5>1. p \in room[l] /\ q \in room[l]
          BY <2>4, <3>2
        <5>2. room[l] \subseteq Trees \X Keys
          BY <1>0, <2>2 DEF Typed
        <5> QED
          BY <5>1, <5>2
      <4>2. << p[1], j >> \in room[l] /\ << p[1], j >>[2] = j
        BY <1>0, <2>2, <4>1 DEF RoomConvex
      <4>3. p[2] \in Int /\ q[2] \in Int /\ j \in Int /\ k \in Int
        BY <2>2, <4>1
      <4>4. CASE m = nl
        <5>1. k < p[2]
          BY <2>4, <4>4
        <5>2. k < j
          BY <4>3, <5>1
        <5> QED
          BY <2>4, <4>2, <4>4, <5>2
      <4>5. CASE m = nr
        <5>1. q[2] < k
          BY <2>4, <4>5
        <5>2. j < k
          BY <4>3, <5>1
        <5> QED
          BY <2>4, <4>2, <4>5, <5>2
      <4> QED
        BY <3>2, <4>4, <4>5
    <3> QED
      BY <3>1, <3>2
  <2> QED
    BY <2>6, <2>7, <2>8 DEF TreeInv
<1> QED
  BY <1>1, <1>2, <1>3 DEF find_and_add

\* Every step keeps the invariant of the iteration.
LEMMA NextTreeInv ==
  ASSUME Inv, Inv', TreeInv, [Next]_vars
  PROVE  TreeInv'
<1>1. ASSUME UNCHANGED << node_vars, thread_vars >>, IteratorInv' PROVE TreeInv'
  <2>1. UNCHANGED << link, parent, room, at, current, new_node >>
    BY <1>1 DEF node_vars, thread_vars
  <2>2. RoomConvex' /\ ParentTrue'
    BY <2>1 DEF TreeInv, RoomConvex, ParentTrue, Owner
  <2> QED
    BY <1>1, <2>2 DEF TreeInv
<1>2. CASE UNCHANGED vars
  <2>1. UNCHANGED << node_vars, thread_vars, iterator, link, room, key >>
    BY <1>2 DEF vars, tree_vars, node_vars
  <2>2. IteratorInv'
    BY <2>1, IteratorKept DEF TreeInv
  <2> QED
    BY <1>1, <2>1, <2>2
<1>3. ASSUME NEW h \in Slots, table[h] # Nothing, IteratorBegin(table[h]), UNCHANGED table_vars
      PROVE  TreeInv'
  <2>1. table[h] \in Trees
    BY <1>3 DEF Inv, Typed
  <2>2. IteratorInv'
    BY <1>3, <2>1, BeginInv
  <2> QED
    BY <1>1, <1>3, <2>2 DEF IteratorBegin
<1>4. CASE IteratorLeft
  BY <1>1, <1>4, LeftInv DEF IteratorLeft
<1>5. CASE IteratorNext
  BY <1>1, <1>5, NextNodeInv DEF IteratorNext
<1> QED
  BY <1>2, <1>3, <1>4, <1>5, ThreadTreeInv DEF Next, Step

\* An iterator that runs while any number of threads add any keys comes to no key of its
\* tree twice, and to every key that was there when it began.
THEOREM IteratorMissesNothing == Spec => []IterationComplete
<1>1. Init => TreeInv
  <2> SUFFICES ASSUME Init PROVE TreeInv
    OBVIOUS
  <2> USE LinkFacts DEF Init, TreeInit
  <2>1. RoomConvex
    BY DEF RoomConvex
  <2>2. ParentTrue
    BY DEF ParentTrue
  <2>3. IteratorInv
    BY DEF IteratorInv, IteratorTyped, SeenFalls, Idle
  <2> QED
    BY <2>1, <2>2, <2>3 DEF TreeInv
<1>2. Inv /\ [Next]_vars => Inv'
  BY NextInv
<1>3. Inv /\ Inv' /\ TreeInv /\ [Next]_vars => TreeInv'
  BY NextTreeInv
<1>4. TreeInv => IterationComplete
  <2> SUFFICES ASSUME TreeInv PROVE IterationComplete
    OBVIOUS
  <2>1. PICK seen \in Seq(Keys) : seen = iterator.seen
    BY DEF TreeInv, IteratorInv, IteratorTyped
  <2>2. ASSUME NEW i \in DOMAIN seen, NEW j \in DOMAIN seen, i # j
        PROVE  seen[i] # seen[j]
    <3>0. DOMAIN seen = 1 .. Len(seen) /\ Len(seen) \in Nat
      OBVIOUS
    <3>1. i \in Int /\ j \in Int /\ seen[i] \in Int /\ seen[j] \in Int
      <4>1. i \in 1 .. Len(seen) /\ j \in 1 .. Len(seen)
        BY <2>2, <3>0
      <4>2. seen[i] \in Keys /\ seen[j] \in Keys
        BY <4>1
      <4>3. i \in Int /\ j \in Int
        BY <3>0, <4>1
      <4>4. \A k \in Keys : k \in Int
        BY TreeAssumption
      <4> QED
        BY <4>2, <4>3, <4>4, Zenon
    <3>2. (i < j => seen[j] < seen[i]) /\ (j < i => seen[i] < seen[j])
      BY <2>1 DEF TreeInv, IteratorInv, SeenFalls
    <3> QED
      BY <2>2, <3>1, <3>2
  <2>3. iterator.at = "end" => \A k \in iterator.owed : Seen(k)
    BY DEF TreeInv, IteratorInv
  <2> QED
    BY <2>1, <2>2, <2>3 DEF Seen, IterationComplete
<1> QED
  BY <1>1, <1>2, <1>3, <1>4, InitInv, PTL DEF Spec
=============================================================================
