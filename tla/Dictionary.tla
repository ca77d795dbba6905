----------------------------- MODULE Dictionary -----------------------------
(***************************************************************************)
(* What operator[] of hash_table and binary_tree promises: a key has one   *)
(* element, made by the first call for the key and returned by every call. *)
(***************************************************************************)
CONSTANTS Keys, Nodes, Nothing

VARIABLES
  element,  \* the node of each key, or Nothing
  answers   \* the pairs << key, node >> that calls have returned

Init ==
  /\ element = [k \in Keys |-> Nothing]
  /\ answers = {}

\* A call for a key that no call was made for.
Add(k) ==
  /\ element[k] = Nothing
  /\ \E n \in Nodes \ {element[other] : other \in Keys} :
       /\ element' = [element EXCEPT ![k] = n]
       /\ answers' = answers \cup {<< k, n >>}

Find(k) ==
  /\ element[k] # Nothing
  /\ answers' = answers \cup {<< k, element[k] >>}
  /\ UNCHANGED element

Next == \E k \in Keys : Add(k) \/ Find(k)

Spec == Init /\ [][Next]_<< element, answers >>
=============================================================================
