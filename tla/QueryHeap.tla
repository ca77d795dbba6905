------------------------------ MODULE QueryHeap ------------------------------
(***************************************************************************)
(* How query_heap_clean (source/query_heap_clean.h) maintains the top k of *)
(* a query while postings are added: which documents are in the heap, which *)
(* of them is its root, and the lowest score that may enter.  The heap is  *)
(* seen through what source/heap.h promises - array[0] is its smallest     *)
(* element, push_back() replaces that one, promote() keeps the contents.   *)
(* QueryHeapClean has the array itself and implements this module.         *)
(*                                                                         *)
(* A query is rewind(), any number of add_rsv(), until it throws Done if   *)
(* there is an oracle score, top_up() if that score was too high, and      *)
(* sort(), as JASS_anytime_api::anytime() (AnytimeQuery) does it unless it *)
(* has to process a minimum number of postings.                            *)
(***************************************************************************)
EXTENDS Integers, FiniteSets

CONSTANTS
  documents,   \* the number of documents; their ids are 0 .. documents - 1
  top_k,       \* the number of results to track
  MAX_RSV,     \* the largest value of an accumulator
  Impacts,     \* the impact scores of the segments
  Oracles,     \* the lower bounds that rewind() is given (1: no oracle)
  NoDocument   \* what array[0] points to before the heap is full: &zero

ASSUME HeapAssumption ==
  /\ documents \in Nat
  /\ top_k \in Nat \ {0}
  /\ MAX_RSV \in Nat
  /\ Impacts \subseteq Nat \ {0}
  /\ Oracles \subseteq Nat \ {0}
  /\ NoDocument \notin Nat

VARIABLES
  accumulators,       \* the score of each document so far
  heap,               \* the documents in accumulator_pointers
  root,               \* the document of accumulator_pointers[0]
  needed_for_top_k,   \* the free places
  top_k_lower_bound,  \* the lowest score that may enter
  heap_entry_point,   \* top_up()'s own lower bound
  from,               \* the document that top_up() is looking at
  phase,              \* where the query is
  oracle,             \* the lower bound that rewind() was given
  lost                \* history: promote() was given a document not in the heap

vars == << accumulators, heap, root, needed_for_top_k, top_k_lower_bound,
           heap_entry_point, from, phase, oracle, lost >>

Docs == 0 .. documents - 1

\* pointer_box::operator<: by score, and by address (document id) at equal scores.
Less(a, d, e) == a[d] < a[e] \/ (a[d] = a[e] /\ d < e)

\* The smallest document of a heap, which heap.h keeps in array[0].
IsRoot(a, H, r) == r \in H /\ \A e \in H : e = r \/ Less(a, r, e)

Init ==
  /\ accumulators = [d \in Docs |-> 0]
  /\ heap = {}
  /\ root = NoDocument
  /\ needed_for_top_k = top_k
  /\ top_k_lower_bound = 1
  /\ heap_entry_point = 1
  /\ from = 0
  /\ phase = "adding"
  /\ oracle = 1
  /\ lost = FALSE

\* rewind(smallest, lower_bound, largest) when the results have been used.  The
\* caller knows the bound as rsv_at_k and passes it in an ACCUMULATOR_TYPE.
rewind(rsv_at_k, lower_bound) ==
  /\ phase = "sorted"
  /\ accumulators' = [d \in Docs |-> 0]
  /\ heap' = {}
  /\ root' = NoDocument
  /\ needed_for_top_k' = top_k
  /\ top_k_lower_bound' = lower_bound
  /\ heap_entry_point' = 1
  /\ from' = 0
  /\ phase' = "adding"
  /\ oracle' = rsv_at_k
  /\ UNCHANGED lost

\* What happens to the heap when the score of d becomes a[d]: nothing.
Ignore == UNCHANGED << heap, root, needed_for_top_k, top_k_lower_bound, phase, lost >>

\* A place is free: d takes it.  With the last place the heap is built; with an oracle
\* the bound stays where it is and the rest of the segment is skipped (throw Done()).
Fill(a, d) ==
  /\ heap' = heap \cup {d}
  /\ needed_for_top_k' = needed_for_top_k - 1
  /\ IF needed_for_top_k = 1
     THEN /\ \E r \in heap' : IsRoot(a, heap', r) /\ root' = r
          /\ top_k_lower_bound' = IF top_k_lower_bound # 1 THEN top_k_lower_bound ELSE a[root']
     ELSE UNCHANGED << root, top_k_lower_bound >>
  /\ UNCHANGED << phase, lost >>

\* push_back(): d replaces the root.
Push(a, d) ==
  /\ heap' = (heap \ {root}) \cup {d}
  /\ \E r \in heap' : IsRoot(a, heap', r) /\ root' = r
  /\ top_k_lower_bound' = a[root']
  /\ UNCHANGED << needed_for_top_k, phase, lost >>

\* find() and promote(): the score of a document in the heap has grown.
Promote(a, d) ==
  /\ lost' = (d \notin heap)
  /\ \E r \in heap : IsRoot(a, heap, r) /\ root' = r
  /\ top_k_lower_bound' = a[root']
  /\ UNCHANGED << heap, needed_for_top_k, phase >>

\* The tie break the wrong way around: the lower document id wins.
KeepOutLower(a, d, old) ==
  \/ a[d] = top_k_lower_bound /\ d > root
  \/ a[d] < top_k_lower_bound

\* A full heap keeps d out: it is too small, or loses the tie break.
KeepOut(a, d, old) ==
  \/ a[d] = top_k_lower_bound /\ d < root
  \/ a[d] < top_k_lower_bound

\* The test of the old score without the tie break.
WasOutNoTie(a, d, old) == old < top_k_lower_bound

\* A full heap, and d was not in it.
WasOut(a, d, old) ==
  \/ a[d] = top_k_lower_bound
  \/ old < top_k_lower_bound
  \/ old = top_k_lower_bound /\ d < root

\* add_rsv(d, score).  The caller has scaled the impacts so that no accumulator
\* overflows.
add_rsv(d, score) ==
  LET old == accumulators[d]
      a == [accumulators EXCEPT ![d] = old + score]
  IN  /\ phase = "adding" /\ ~lost
      /\ old + score <= MAX_RSV
      /\ accumulators' = a
      /\ \/ a[d] < top_k_lower_bound /\ Ignore
         \/ /\ a[d] >= top_k_lower_bound /\ needed_for_top_k > 0
            /\ IF old < top_k_lower_bound THEN Fill(a, d) ELSE Ignore
         \/ /\ a[d] >= top_k_lower_bound /\ needed_for_top_k = 0
            /\ \/ KeepOut(a, d, old) /\ Ignore
               \/ ~KeepOut(a, d, old) /\ WasOut(a, d, old) /\ Push(a, d)
               \/ ~KeepOut(a, d, old) /\ ~WasOut(a, d, old) /\ Promote(a, d)
      /\ UNCHANGED << heap_entry_point, from, oracle >>

\* Done was thrown: an oracle's score has filled the heap.
Done == oracle # 1 /\ needed_for_top_k = 0
-----------------------------------------------------------------------------
\* top_up() is called when an oracle was used and the heap is not full.
top_up ==
  /\ phase = "adding" /\ oracle > 1 /\ needed_for_top_k > 0
  /\ heap_entry_point' = 1
  /\ from' = 0
  /\ phase' = "topup"
  /\ UNCHANGED << accumulators, heap, root, needed_for_top_k, top_k_lower_bound,
                  oracle, lost >>

\* A loop that takes only documents above its lower bound.
WantedGreater == /\ accumulators[from] > heap_entry_point
                 /\ accumulators[from] < top_k_lower_bound

\* Any score greater than or equal to top_k_lower_bound is already in the heap.
Wanted == /\ accumulators[from] >= heap_entry_point
          /\ accumulators[from] < top_k_lower_bound

\* One document of top_up()'s loop.
TopUpStep ==
  /\ phase = "topup" /\ from < documents
  /\ from' = from + 1
  /\ \/ /\ ~Wanted
        /\ UNCHANGED << heap, root, needed_for_top_k, heap_entry_point >>
     \/ /\ Wanted /\ needed_for_top_k > 0
        /\ heap' = heap \cup {from}
        /\ needed_for_top_k' = needed_for_top_k - 1
        /\ IF needed_for_top_k = 1
           THEN /\ \E r \in heap' : IsRoot(accumulators, heap', r) /\ root' = r
                /\ heap_entry_point' = accumulators[root']
           ELSE UNCHANGED << root, heap_entry_point >>
     \/ /\ Wanted /\ needed_for_top_k = 0
        /\ heap' = (heap \ {root}) \cup {from}
        /\ \E r \in heap' : IsRoot(accumulators, heap', r) /\ root' = r
        /\ heap_entry_point' = accumulators[root']
        /\ UNCHANGED needed_for_top_k
  /\ UNCHANGED << accumulators, top_k_lower_bound, phase, oracle, lost >>

\* sort(): the query is over and its results are read.
sort ==
  /\ ~lost
  /\ \/ phase = "adding" /\ (oracle = 1 \/ needed_for_top_k = 0)
     \/ phase = "topup" /\ from = documents
  /\ phase' = "sorted"
  /\ UNCHANGED << accumulators, heap, root, needed_for_top_k, top_k_lower_bound,
                  heap_entry_point, from, oracle, lost >>

Next ==
  \/ \E rsv_at_k \in Oracles : rewind(rsv_at_k, rsv_at_k)
  \/ \E d \in Docs, score \in Impacts : ~Done /\ add_rsv(d, score)
  \/ top_up \/ TopUpStep \/ sort

Spec == Init /\ [][Next]_vars
-----------------------------------------------------------------------------
\* Types.
TypeOK ==
  /\ accumulators \in [Docs -> 0 .. MAX_RSV]
  /\ heap \subseteq Docs
  /\ root \in Docs \cup {NoDocument}
  /\ needed_for_top_k \in 0 .. top_k
  /\ top_k_lower_bound \in Nat
  /\ heap_entry_point \in Nat
  /\ from \in 0 .. documents
  /\ phase \in {"adding", "topup", "sorted"}
  /\ oracle \in Nat
  /\ lost \in BOOLEAN

\* The documents that the query has found.
Found == {d \in Docs : accumulators[d] > 0}

\* S holds the best documents found, as many as fit: no document outside it is
\* better than one in it, and it has a free place only if there are no others.
IsTopK(S) ==
  /\ S \subseteq Found
  /\ Cardinality(S) <= top_k
  /\ \A d \in Found \ S : \A e \in S : Less(accumulators, d, e)
  /\ Cardinality(S) < top_k => S = Found

\* Without an oracle the heap holds the top k of the scores so far after every
\* single posting, so that the anytime algorithm may stop between any two, and
\* the bounds that add_rsv() tests instead of searching the heap never go wrong.
AlwaysTopK == oracle = 1 => IsTopK(heap)

\* With an oracle whose score was too high, top_up() ends with the same top k as a query
\* without an oracle.  (A bound of 0, as which AnytimeQuery may cut a score, lets nothing
\* in and leaves nothing to top up from.)
ToppedUpIsTopK ==
  phase = "sorted" /\ from = documents /\ top_k_lower_bound # 0 => IsTopK(heap)

\* With an oracle the query stops early only with k documents that all reach the
\* oracle's score.
StoppedAtOracle ==
  phase = "adding" /\ Done =>
    /\ Cardinality(heap) = top_k
    /\ \A d \in heap : accumulators[d] >= oracle

\* needed_for_top_k counts the free places of the array: size() is the number of
\* documents in the heap, none of them twice.
PlacesCounted == Cardinality(heap) + needed_for_top_k = top_k

\* "we're already in there so find us and reshuffle the heap": promote() is only
\* called for a document that find() finds.
PromotedIsInHeap == ~lost
=============================================================================
