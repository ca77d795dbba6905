--------------------------- MODULE QueryHeapClean ---------------------------
(***************************************************************************)
(* query_heap_clean (source/query_heap_clean.h), the query object of the   *)
(* default build, with the array accumulator_pointers that the heap of     *)
(* source/heap.h lives in.  The array is filled from its end; array[0] is  *)
(* &zero until the heap is full; below needed_for_top_k it has whatever    *)
(* the query before left there.                                            *)
(***************************************************************************)
EXTENDS HeapOps, FiniteSets, Functions, SequencesExt

CONSTANTS documents, top_k, MAX_RSV, Impacts, Oracles, Zero

VARIABLES
  accumulators,          \* the score of each document so far
  accumulator_pointers,  \* the array of the heap
  needed_for_top_k,      \* its free places
  top_k_lower_bound,     \* the lowest score that may enter
  heap_entry_point,      \* top_up()'s own lower bound
  from,                  \* the document that top_up() is looking at
  phase,                 \* where the query is
  oracle,                \* the lower bound that rewind() was given
  lost                   \* history: promote() was given the -1 of find()

vars == << accumulators, accumulator_pointers, needed_for_top_k, top_k_lower_bound,
           heap_entry_point, from, phase, oracle, lost >>

Docs == 0 .. documents - 1

\* The elements in use, and the addresses compared by the tie break: zero is a
\* member of the object after the accumulators.
InHeap == {accumulator_pointers[i] : i \in needed_for_top_k .. top_k - 1}

Address(x) == IF x = Zero THEN documents ELSE x

Init ==
  /\ accumulators = [d \in Docs |-> 0]
  /\ accumulator_pointers = [i \in 0 .. top_k - 1 |-> Zero]
  /\ needed_for_top_k = top_k
  /\ top_k_lower_bound = 1
  /\ heap_entry_point = 1
  /\ from = 0
  /\ phase = "adding"
  /\ oracle = 1
  /\ lost = FALSE

\* A rewind() that forgets to make array[0] point to zero again.
rewindStale(rsv_at_k) ==
  /\ phase = "sorted"
  /\ accumulators' = [d \in Docs |-> 0]
  /\ needed_for_top_k' = top_k
  /\ top_k_lower_bound' = rsv_at_k % (MAX_RSV + 1)
  /\ heap_entry_point' = 1
  /\ from' = 0
  /\ phase' = "adding"
  /\ oracle' = rsv_at_k
  /\ UNCHANGED << accumulator_pointers, lost >>

\* rewind(): the lower bound arrives as an ACCUMULATOR_TYPE.
rewind(rsv_at_k) ==
  /\ phase = "sorted"
  /\ accumulators' = [d \in Docs |-> 0]
  /\ accumulator_pointers' = [accumulator_pointers EXCEPT ![0] = Zero]
  /\ needed_for_top_k' = top_k
  /\ top_k_lower_bound' = rsv_at_k % (MAX_RSV + 1)
  /\ heap_entry_point' = 1
  /\ from' = 0
  /\ phase' = "adding"
  /\ oracle' = rsv_at_k
  /\ UNCHANGED lost

\* array[--needed_for_top_k] = d, and make_heap() once there is no place left.
Placed(a, d) ==
  LET placed == [accumulator_pointers EXCEPT ![needed_for_top_k - 1] = d]
  IN  IF needed_for_top_k = 1 THEN make_heap(a, placed, top_k) ELSE placed

Ignore ==
  UNCHANGED << accumulator_pointers, needed_for_top_k, top_k_lower_bound, phase, lost >>

Fill(a, d) ==
  /\ accumulator_pointers' = Placed(a, d)
  /\ needed_for_top_k' = needed_for_top_k - 1
  /\ top_k_lower_bound' = IF needed_for_top_k' = 0 /\ top_k_lower_bound = 1
                          THEN a[accumulator_pointers'[0]] ELSE top_k_lower_bound
  /\ UNCHANGED << phase, lost >>

Push(a, d) ==
  /\ accumulator_pointers' = push_back(a, accumulator_pointers, top_k, d)
  /\ top_k_lower_bound' = a[accumulator_pointers'[0]]
  /\ UNCHANGED << needed_for_top_k, phase, lost >>

\* promote(which, find(which)); with the -1 of find() the write is outside the
\* array, and the model goes no further.
Promote(a, d) ==
  LET at == find(accumulator_pointers, top_k, d)
  IN  /\ lost' = (at = -1)
      /\ accumulator_pointers' = IF at = -1 THEN accumulator_pointers
                                 ELSE promote(a, accumulator_pointers, top_k, d, at)
      /\ top_k_lower_bound' = a[accumulator_pointers'[0]]
      /\ UNCHANGED << needed_for_top_k, phase >>

add_rsv(d, score) ==
  LET old == accumulators[d]
      a == [accumulators EXCEPT ![d] = (old + score) % (MAX_RSV + 1)]
      first == d < Address(accumulator_pointers[0])
  IN  /\ phase = "adding" /\ ~lost
      /\ old + score <= MAX_RSV
      /\ accumulators' = a
      /\ IF a[d] < top_k_lower_bound THEN Ignore
         ELSE IF needed_for_top_k > 0
         THEN IF a[d] - score < top_k_lower_bound THEN Fill(a, d) ELSE Ignore
         ELSE IF a[d] = top_k_lower_bound
         THEN IF first THEN Ignore ELSE Push(a, d)
         ELSE IF \/ a[d] - score < top_k_lower_bound
                 \/ a[d] - score = top_k_lower_bound /\ first
         THEN Push(a, d) ELSE Promote(a, d)
      /\ UNCHANGED << heap_entry_point, from, oracle >>

\* Done was thrown: an oracle's score has filled the heap.
Done == oracle # 1 /\ needed_for_top_k = 0
-----------------------------------------------------------------------------
\* The value of *accumulator_pointers[0].
RootValue(a, array) == IF array[0] = Zero THEN 0 ELSE a[array[0]]

top_up ==
  /\ phase = "adding" /\ oracle > 1 /\ needed_for_top_k > 0
  /\ LET v == RootValue(accumulators, accumulator_pointers)
     IN  heap_entry_point' = IF v = 0 THEN 1 ELSE v
  /\ from' = 0
  /\ phase' = "topup"
  /\ UNCHANGED << accumulators, accumulator_pointers, needed_for_top_k, top_k_lower_bound,
                  oracle, lost >>

TopUpStep ==
  /\ phase = "topup" /\ from < documents
  /\ from' = from + 1
  /\ IF /\ accumulators[from] >= heap_entry_point
        /\ accumulators[from] < top_k_lower_bound
     THEN /\ IF needed_for_top_k > 0
             THEN /\ accumulator_pointers' = Placed(accumulators, from)
                  /\ needed_for_top_k' = needed_for_top_k - 1
             ELSE /\ accumulator_pointers' =
                       push_back(accumulators, accumulator_pointers, top_k, from)
                  /\ UNCHANGED needed_for_top_k
          /\ heap_entry_point' = IF needed_for_top_k' = 0
                                 THEN RootValue(accumulators, accumulator_pointers')
                                 ELSE heap_entry_point
     ELSE UNCHANGED << accumulator_pointers, needed_for_top_k, heap_entry_point >>
  /\ UNCHANGED << accumulators, top_k_lower_bound, phase, oracle, lost >>

\* std::partial_sort() of the places in use.
Sorted ==
  LET ranked == SetToSortSeq(InHeap, LAMBDA x, y : LessThan(accumulators, x, y))
  IN  [i \in DOMAIN accumulator_pointers |->
         IF i < needed_for_top_k THEN accumulator_pointers[i]
         ELSE ranked[i - needed_for_top_k + 1]]

sort ==
  /\ ~lost
  /\ \/ phase = "adding" /\ (oracle <= 1 \/ needed_for_top_k = 0)
     \/ phase = "topup" /\ from = documents
  /\ accumulator_pointers' = Sorted
  /\ phase' = "sorted"
  /\ UNCHANGED << accumulators, needed_for_top_k, top_k_lower_bound, heap_entry_point,
                  from, oracle, lost >>

Next ==
  \/ \E rsv_at_k \in Oracles : rewind(rsv_at_k)
  \/ \E d \in Docs, score \in Impacts : ~Done /\ add_rsv(d, score)
  \/ top_up \/ TopUpStep \/ sort

Spec == Init /\ [][Next]_vars
-----------------------------------------------------------------------------
\* The array holds each document at most once and, when it is full, is a heap:
\* the smallest score, with the lowest document id among equals, is in array[0].
ArrayIsHeap ==
  /\ \A i, j \in needed_for_top_k .. top_k - 1 :
       accumulator_pointers[i] = accumulator_pointers[j] => i = j
  /\ needed_for_top_k = 0 =>
       \A i \in 1 .. top_k - 1 :
         LessThan(accumulators, accumulator_pointers[(i - 1) \div 2], accumulator_pointers[i])

QH == INSTANCE QueryHeap WITH
  heap <- InHeap,
  root <- IF needed_for_top_k = 0 THEN accumulator_pointers[0] ELSE Zero,
  NoDocument <- Zero

\* The array keeps the promises of the heap that QueryHeap describes, and with
\* them all that is proved there: query_heap_clean computes the top k.
ImplementsQueryHeap == QH!Spec
=============================================================================
