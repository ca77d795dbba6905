------------------------------- MODULE MCTopK -------------------------------
(***************************************************************************)
(* How a query comes by its top k, at three levels, and the accumulators   *)
(* that its scores are kept in, in the three classes that a build of JASS  *)
(* can choose between (the ACCUMULATOR_STRATEGY_... macros).  One of the   *)
(* six is used in each behaviour and the others stay as they were built.   *)
(*                                                                         *)
(* "set", the documents in the heap of query_heap_clean as a set: the top  *)
(* two of three documents, with no oracle score and with scores that are   *)
(* too low, right and too high.                                            *)
(* "query", anytime(), with the heap of "set": every query of two terms    *)
(* over the three documents with impacts 1 and 3, in accumulators that     *)
(* hold less than the largest possible score, and with oracle scores of    *)
(* which some do not fit an accumulator.                                   *)
(* "array", the array of query_heap_clean: the top five of six documents,  *)
(* a heap of three levels, the last of them incomplete, and one document   *)
(* outside it.                                                             *)
(*                                                                         *)
(* "2d", accumulator_2d with three accumulators: widths 1, 2 and 4, full   *)
(* and partial last rows, and tables that do not fit.                      *)
(* "counter", accumulator_counter with three, with query numbers that      *)
(* start again after three queries and, with two flags in a byte, a last   *)
(* byte that is half used.                                                 *)
(* "interleaved", accumulator_counter_interleaved with four in chunks of   *)
(* three (an odd number, as the 25 of the 4-bit build is).                 *)
(***************************************************************************)
EXTENDS AnytimeQuery, Accumulator2D, TLC

CONSTANTS array_documents, array_top_k, array_MAX_RSV, array_Impacts, array_Oracles, Zero
CONSTANTS max_clean_id, accumulators_per_chunk

VARIABLES
  level,
  h_accumulators, h_accumulator_pointers, h_needed_for_top_k, h_top_k_lower_bound,
  h_heap_entry_point, h_from, h_phase, h_oracle, h_lost,
  c_bitsize, c_number, c_clean_id, c_flag, c_accumulator, c_result,
  i_bitsize, i_number, i_chunks, i_clean_id, i_chunk, i_result

array_vars == << h_accumulators, h_accumulator_pointers, h_needed_for_top_k,
                 h_top_k_lower_bound, h_heap_entry_point, h_from, h_phase, h_oracle, h_lost >>

query_vars == << query, segment_order, header, buffer, postings_processed, settings, at >>

c_vars == << c_bitsize, c_number, c_clean_id, c_flag, c_accumulator, c_result >>
i_vars == << i_bitsize, i_number, i_chunks, i_clean_id, i_chunk, i_result >>

HeapArray == INSTANCE QueryHeapClean WITH
  documents <- array_documents, top_k <- array_top_k, MAX_RSV <- array_MAX_RSV,
  Impacts <- array_Impacts, Oracles <- array_Oracles,
  accumulators <- h_accumulators, accumulator_pointers <- h_accumulator_pointers,
  needed_for_top_k <- h_needed_for_top_k, top_k_lower_bound <- h_top_k_lower_bound,
  heap_entry_point <- h_heap_entry_point, from <- h_from, phase <- h_phase,
  oracle <- h_oracle, lost <- h_lost

Counter == INSTANCE AccumulatorCounter WITH
  COUNTER_BITSIZE <- c_bitsize, number_of_accumulators <- c_number,
  clean_id <- c_clean_id, clean_flag <- c_flag, accumulator <- c_accumulator,
  result <- c_result

Interleaved == INSTANCE AccumulatorCounterInterleaved WITH
  NUMBER_OF_ACCUMULATORS <- NUMBER_OF_ACCUMULATORS + 1,
  COUNTER_BITSIZE <- i_bitsize, number_of_accumulators <- i_number,
  number_of_chunks <- i_chunks, clean_id <- i_clean_id, accumulator_chunk <- i_chunk,
  result <- i_result

TermSymmetry == Permutations(Terms)
-----------------------------------------------------------------------------
\* At the other levels nobody asks a query.
NoQuery ==
  /\ query = [t \in Terms |-> [d \in Docs |-> 0]]
  /\ segment_order = << >> /\ header = 1 /\ buffer = {} /\ postings_processed = 0
  /\ postings_to_process = 0 /\ postings_to_process_min = 0
  /\ rounds_down = FALSE /\ at = "none"

\* A class of accumulators that is not used, in one of its initial states.
Unused2D ==
  /\ dirty_flag = [f \in Flags |-> TRUE] /\ accumulator = [c \in Cells |-> 0]
  /\ TableInit

UnusedCounter ==
  /\ c_bitsize = 8
  /\ c_flag = [c \in 0 .. NUMBER_OF_ACCUMULATORS - 1 |-> 0]
  /\ c_accumulator = [c \in 0 .. NUMBER_OF_ACCUMULATORS - 1 |-> 0]
  /\ Counter!Init

UnusedInterleaved == i_bitsize = 8 /\ i_chunk = << >> /\ i_number = 0 /\ i_chunks = 0
                     /\ i_clean_id = 1 /\ i_result = << >>

AnyInit ==
  /\ HeapArray!Init
  /\ IF level = "query" THEN AnytimeInit ELSE Init /\ NoQuery
  /\ IF level = "2d" THEN TableInit ELSE Unused2D
  /\ IF level = "counter" THEN Counter!Init ELSE UnusedCounter
  /\ IF level = "interleaved" THEN Interleaved!Init ELSE UnusedInterleaved

Levels == {"set", "array", "query", "2d", "counter", "interleaved"}

AnyNext ==
  \/ level = "set" /\ Next /\ UNCHANGED << array_vars, query_vars, table_vars, c_vars, i_vars >>
  \/ level = "array" /\ HeapArray!Next /\ UNCHANGED << anytime_vars, table_vars, c_vars, i_vars >>
  \/ level = "query" /\ AnytimeNext /\ UNCHANGED << array_vars, table_vars, c_vars, i_vars >>
  \/ level = "2d" /\ TableNext /\ UNCHANGED << array_vars, anytime_vars, c_vars, i_vars >>
  \/ level = "counter" /\ Counter!Next
     /\ UNCHANGED << array_vars, anytime_vars, table_vars, i_vars >>
  \/ level = "interleaved" /\ Interleaved!Next
     /\ UNCHANGED << array_vars, anytime_vars, table_vars, c_vars >>

all_vars == << level, array_vars, anytime_vars, table_vars, c_vars, i_vars >>

AnySpec == level \in Levels /\ AnyInit /\ [][AnyNext /\ UNCHANGED level]_all_vars
-----------------------------------------------------------------------------
\* heap.h's array holds each document at most once and, when it is full, is a heap.
ArrayIsHeap == HeapArray!ArrayIsHeap

\* query_heap_clean with the array of heap.h implements the heap of QueryHeap.
ImplementsQueryHeap == HeapArray!ImplementsQueryHeap

\* accumulator_counter behaves as a plain array, also after rewind() has run out of
\* query numbers, with 8-bit flags and with two 4-bit flags in a byte.
CounterImplementsArray == Counter!ImplementsArray

\* accumulator_counter_interleaved behaves as a plain array although init() does not
\* clear the accumulators.
InterleavedImplementsArray == Interleaved!ImplementsArray
=============================================================================
