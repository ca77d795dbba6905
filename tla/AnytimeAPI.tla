----------------------------- MODULE AnytimeAPI -----------------------------
(***************************************************************************)
(* A session with JASS_anytime_api (anytime/JASS_anytime_api.cpp): the     *)
(* calls that configure it, load an index and search, in any order, as one *)
(* caller makes them.  What a search computes is AnytimeQuery and how its  *)
(* threads interleave is AnytimeThreads; here it allocates the query       *)
(* objects of its threads and leaves a budget behind.                      *)
(*                                                                         *)
(* An allocation may fail wherever the code allocates.  load_index()       *)
(* catches the exception, a search of one thread passes it to the caller   *)
(* and in a search of several it ends the process.  So may a search whose  *)
(* threads insert into the same map, and one that calls promote() for a    *)
(* document that is not in its heap.                                       *)
(***************************************************************************)
EXTENDS Integers

CONSTANTS
  MAX_DOCUMENTS, MAX_TOP_K, MAX_WIDTH,
  MAX_SIZE,      \* the largest size_t
  Directories,   \* what the files of an index hold
  Misfits,       \* the << documents, width >> that accumulator_2d::init() refuses
  Ks, Widths, Counts, Percents, Totals, ThreadCounts,
  None,
  Half           \* segment_order is allocated and the query object not initialised

Indexes == [documents : Nat, complete : BOOLEAN]
Objects == [documents : Nat, top_k : Nat, width : Nat]
Thread == UNION {0 .. n - 1 : n \in ThreadCounts \cup {1}}

ASSUME APIAssumption ==
  /\ {MAX_DOCUMENTS, MAX_TOP_K, MAX_WIDTH, MAX_SIZE} \subseteq Nat /\ MAX_TOP_K >= 10
  /\ Directories \subseteq [keys : Nat, postings : BOOLEAN, vocab : BOOLEAN]
  /\ Ks \subseteq Nat /\ Widths \subseteq Nat /\ Counts \subseteq Nat /\ Totals \subseteq Nat
  /\ Percents \subseteq Nat /\ ThreadCounts \subseteq Nat
  /\ None # Half /\ None \notin Indexes /\ Half \notin Objects

VARIABLES
  index,                          \* None is nullptr
  precomputed_minimum_rsv_table,  \* "empty", with "scores", or "deleted" already
  postings_to_process, postings_to_process_min,
  relative_postings_to_process,   \* in percent
  top_k, accumulator_width,
  which_query_parser,
  thread_local_data,              \* the query object of each thread
  error,                          \* what the last call returned
  alive,                          \* FALSE after undefined behaviour or std::terminate()
  trouble,                        \* history: what has gone wrong
  loaded,                         \* history: load_index() has returned JASS_ERROR_OK
  asked                           \* history: the budget last set, None if a relative one was

budget == << postings_to_process, postings_to_process_min, relative_postings_to_process >>
settings == << top_k, accumulator_width, which_query_parser >>
objects == << index, precomputed_minimum_rsv_table, thread_local_data >>
history == << alive, trouble, loaded, asked >>
vars == << budget, settings, objects, history, error >>

Init ==
  /\ index = None
  /\ precomputed_minimum_rsv_table = "empty"
  /\ postings_to_process = MAX_SIZE
  /\ postings_to_process_min = 0
  /\ relative_postings_to_process = 100
  /\ top_k = 10
  /\ accumulator_width = 0
  /\ which_query_parser = "query"
  /\ thread_local_data = [t \in Thread |-> None]
  /\ error = "OK" /\ alive = TRUE /\ trouble = {} /\ loaded = FALSE
  /\ asked = MAX_SIZE

Refuse(e) == error' = e /\ UNCHANGED << budget, settings, objects, history >>
-----------------------------------------------------------------------------
\* read_index(): the primary keys, then the postings, then the vocabulary.
read_index(d) == [documents |-> d.keys,
                  complete |-> d.keys # 0 /\ d.postings /\ d.vocab]

Object(i) == [documents |-> i.documents, top_k |-> top_k, width |-> accumulator_width]

Fits(i) == << i.documents, accumulator_width >> \notin Misfits

\* The entry of a thread after get_thread_local_data(), and what it threw, if anything.
\* segment_order is allocated before the query object, whose init() refuses a width that
\* does not fit.
get_thread_local_data(i, t) ==
  IF thread_local_data[t] # None THEN {<< thread_local_data[t], "nothing" >>}
  ELSE {<< None, "memory" >>, << Half, "memory" >>,
        IF Fits(i) THEN << Object(i), "nothing" >> ELSE << Half, "width" >>}

\* The exceptions of a call, remembered.
Noted(threw) == trouble' = trouble \cup ({threw} \ {"nothing"})
-----------------------------------------------------------------------------
\* An exception is caught and forgotten.
load_indexForgets(version, d) ==
  LET i == read_index(d)
  IN  /\ index = None /\ version \in {1, 2} /\ i.documents <= MAX_DOCUMENTS
      /\ index' = i
      /\ \E entry \in get_thread_local_data(i, 0) :
           /\ thread_local_data' = [thread_local_data EXCEPT ![0] = entry[1]]
           /\ Noted(entry[2])
      /\ error' = "OK" /\ loaded' = TRUE
      /\ UNCHANGED << budget, settings, precomputed_minimum_rsv_table, alive, asked >>

\* load_index(): what read_index() returns is not looked at, and an exception leaves
\* index as it is at that point.
load_index(version, d) ==
  LET i == read_index(d)
  IN  \/ index # None /\ Refuse("INDEX_ALREADY_LOADED")
      \/ index = None /\ version \notin {1, 2} /\ Refuse("BAD_INDEX_VERSION")
      \/ /\ index = None /\ version \in {1, 2} /\ i.documents > MAX_DOCUMENTS
         /\ index' = None   \* it was read, and is deleted
         /\ error' = "TOO_MANY_DOCUMENTS"
         /\ UNCHANGED << budget, settings, precomputed_minimum_rsv_table, thread_local_data,
                         history >>
      \/ /\ index = None /\ version \in {1, 2} /\ i.documents <= MAX_DOCUMENTS
         /\ index' = i
         /\ \E entry \in get_thread_local_data(i, 0) :
              /\ thread_local_data' = [thread_local_data EXCEPT ![0] = entry[1]]
              /\ Noted(entry[2])
              /\ error' = IF entry[2] = "nothing" THEN "OK" ELSE "FAIL"
              /\ loaded' = (entry[2] = "nothing")
         /\ UNCHANGED << budget, settings, precomputed_minimum_rsv_table, alive, asked >>
      \/ /\ index = None /\ version \in {1, 2}   \* no memory for the index or its lists
         /\ index' \in {None, [documents |-> 0, complete |-> FALSE],
                        [documents |-> d.keys, complete |-> FALSE]}
         /\ error' = "FAIL" /\ Noted("memory")
         /\ UNCHANGED << budget, settings, precomputed_minimum_rsv_table, thread_local_data,
                         alive, loaded, asked >>
-----------------------------------------------------------------------------
\* What the process did has no defined outcome, or nothing catches what it threw.
EndsBy(cause) ==
  /\ alive' = FALSE /\ Noted(cause)
  /\ UNCHANGED << budget, settings, objects, loaded, asked, error >>

\* load_oracle_scores(): the old table is deleted first, so an exception leaves a
\* pointer to it.  The file, if there is one, has scores.
load_oracle_scores ==
  \/ precomputed_minimum_rsv_table = "deleted" /\ EndsBy("nothing")
  \/ /\ precomputed_minimum_rsv_table # "deleted"
     /\ \/ precomputed_minimum_rsv_table' \in {"empty", "scores"} /\ error' = "OK" /\ Noted("nothing")
        \/ precomputed_minimum_rsv_table' = "deleted" /\ error' = "FAIL" /\ Noted("memory")
     /\ UNCHANGED << budget, settings, index, thread_local_data, alive, loaded, asked >>

\* The two calls that set the budget; a relative one is stronger than both.
SetBudget(n) ==
  /\ postings_to_process' = n
  /\ asked' = IF relative_postings_to_process = 100 THEN n ELSE None
  /\ error' = "OK"
  /\ UNCHANGED << postings_to_process_min, relative_postings_to_process, settings, objects,
                  alive, trouble, loaded >>

set_postings_to_process_proportion(percent) ==
  IF index = None THEN Refuse("NO_INDEX")
  ELSE SetBudget((index.documents * percent) \div 100)

set_postings_to_process_proportion_minimum(percent) ==
  IF index = None THEN Refuse("NO_INDEX")
  ELSE /\ postings_to_process_min' = (index.documents * percent) \div 100
       /\ error' = "OK"
       /\ UNCHANGED << postings_to_process, relative_postings_to_process, settings,
                       objects, history >>

set_postings_to_process_relative(percent) ==
  /\ relative_postings_to_process' = percent
  /\ asked' = IF percent = 100 THEN asked ELSE None
  /\ error' = "OK"
  /\ UNCHANGED << postings_to_process, postings_to_process_min, settings, objects, alive,
                  trouble, loaded >>

set_postings_to_process(count) == SetBudget(count)

set_postings_to_process_minimum(count) ==
  /\ postings_to_process_min' = count
  /\ error' = "OK"
  /\ UNCHANGED << postings_to_process, relative_postings_to_process, settings, objects,
                  history >>

\* k may be changed at any time.
set_top_kAnyTime(k) ==
  IF k > MAX_TOP_K THEN Refuse("TOO_LARGE")
  ELSE top_k' = k /\ error' = "OK"
       /\ UNCHANGED << budget, accumulator_width, which_query_parser, objects, history >>

set_top_k(k) ==
  IF index # None THEN Refuse("INDEX_ALREADY_LOADED")
  ELSE IF k > MAX_TOP_K THEN Refuse("TOO_LARGE")
  ELSE top_k' = k /\ error' = "OK"
       /\ UNCHANGED << budget, accumulator_width, which_query_parser, objects, history >>

set_accumulator_width(width) ==
  IF index # None THEN Refuse("INDEX_ALREADY_LOADED")
  ELSE IF width > MAX_WIDTH THEN Refuse("TOO_LARGE")
  ELSE accumulator_width' = width /\ error' = "OK"
       /\ UNCHANGED << budget, top_k, which_query_parser, objects, history >>

use_parser(parser) ==
  /\ which_query_parser' = parser
  /\ error' = "OK"
  /\ UNCHANGED << budget, top_k, accumulator_width, objects, history >>
-----------------------------------------------------------------------------
\* The budget of the last query, whether or not it is a relative one.
BudgetAfterAlways(n, total) ==
  IF n > 0 THEN (total * relative_postings_to_process) \div 100 ELSE postings_to_process

BudgetAfter(n, total) ==
  IF n > 0 /\ relative_postings_to_process # 100
  THEN (total * relative_postings_to_process) \div 100 ELSE postings_to_process

Missing(n) == \E t \in 0 .. n - 1 : thread_local_data[t] = None

\* The query objects of threads 0 .. n - 1 are all there after the search has begun.
Answered(n, total) ==
  /\ \A t \in 0 .. n - 1 : Half # thread_local_data[t]
  /\ Missing(n) => Fits(index)
  /\ n > 0 => precomputed_minimum_rsv_table # "deleted"
  /\ thread_local_data' = [t \in Thread |-> IF t < n /\ thread_local_data[t] = None
                                            THEN Object(index) ELSE thread_local_data[t]]
  /\ postings_to_process' = BudgetAfter(n, total)
  /\ error' = "OK"
  /\ UNCHANGED << postings_to_process_min, relative_postings_to_process, settings, index,
                  precomputed_minimum_rsv_table, history >>

\* get_thread_local_data() throws in the caller's own thread.
Exception ==
  /\ \E entry \in get_thread_local_data(index, 0) :
       /\ entry[2] # "nothing" /\ Noted(entry[2])
       /\ thread_local_data' = [thread_local_data EXCEPT ![0] = entry[1]]
  /\ error' = "exception"
  /\ UNCHANGED << budget, settings, index, precomputed_minimum_rsv_table, alive, loaded,
                  asked >>

\* It throws in another thread, and nothing catches it there.
Terminate(n) ==
  \E t \in 0 .. n - 1 : \E entry \in get_thread_local_data(index, t) :
    entry[2] # "nothing" /\ EndsBy(entry[2])

\* One of several threads inserts its entry of thread_local_data, or the id of its
\* query into the oracle table, while another is in the same map.
Race(n) == n > 1 /\ (Missing(n) \/ precomputed_minimum_rsv_table = "scores")

\* A heap takes a document to be one of its own that it does not hold: with an oracle
\* it is full before the minimum is reached, and with k = 0 from the beginning.
Promotes(n) ==
  /\ n > 0
  /\ \/ precomputed_minimum_rsv_table = "scores" /\ postings_to_process_min > 0
     \/ top_k = 0

\* An object that was never initialised, or a table that was deleted, is used; two
\* threads race; promote() writes in front of the heap.
Undefined(n) ==
  \/ (\E t \in 0 .. n - 1 : thread_local_data[t] = Half) /\ EndsBy("nothing")
  \/ n > 0 /\ precomputed_minimum_rsv_table = "deleted" /\ EndsBy("nothing")
  \/ Race(n) /\ EndsBy("race")
  \/ Promotes(n) /\ EndsBy("promote")

\* search() of a list of queries that has total postings, threaded_search() too.
search_list(n, total) ==
  IF index = None THEN Refuse("NO_INDEX")
  ELSE \/ Answered(n, total)
       \/ n = 1 /\ Exception
       \/ n > 1 /\ Terminate(n)
       \/ Undefined(n)

\* search() of one query.
search(total) ==
  IF index = None THEN Refuse("NO_INDEX")
  ELSE Answered(1, total) \/ Exception \/ Undefined(1)

\* search() of the empty string reads the first of no results.
search_empty == IF index = None THEN Refuse("NO_INDEX") ELSE EndsBy("empty")

Next ==
  /\ alive
  /\ \/ \E version \in 1 .. 3, d \in Directories : load_index(version, d)
     \/ load_oracle_scores
     \/ \E percent \in Percents :
          \/ set_postings_to_process_proportion(percent)
          \/ set_postings_to_process_proportion_minimum(percent)
          \/ set_postings_to_process_relative(percent)
     \/ \E count \in Counts :
          \/ set_postings_to_process(count)
          \/ set_postings_to_process_minimum(count)
     \/ \E k \in Ks : set_top_k(k)
     \/ \E width \in Widths : set_accumulator_width(width)
     \/ \E parser \in {"query", "raw"} : use_parser(parser)
     \/ \E n \in ThreadCounts, total \in Totals : search_list(n, total)
     \/ \E total \in Totals : search(total)
     \/ search_empty

Spec == Init /\ [][Next]_vars
-----------------------------------------------------------------------------
Errors == {"OK", "FAIL", "INDEX_ALREADY_LOADED", "BAD_INDEX_VERSION", "TOO_MANY_DOCUMENTS",
           "NO_INDEX", "TOO_LARGE", "exception"}

Causes == {"memory", "width", "empty", "race", "promote"}

\* Types; k never is more than the query objects have room for.
TypeOK ==
  /\ index \in Indexes \cup {None}
  /\ precomputed_minimum_rsv_table \in {"empty", "scores", "deleted"}
  /\ postings_to_process \in Nat /\ postings_to_process_min \in Nat
  /\ relative_postings_to_process \in Nat
  /\ top_k \in 0 .. MAX_TOP_K
  /\ accumulator_width \in 0 .. MAX_WIDTH
  /\ which_query_parser \in {"query", "raw"}
  /\ thread_local_data \in [Thread -> Objects \cup {None, Half}]
  /\ error \in Errors
  /\ alive \in BOOLEAN /\ trouble \subseteq Causes /\ loaded \in BOOLEAN
  /\ asked \in Nat \cup {None}

\* The query object of every thread, whenever it was made, is for the index, the k and
\* the accumulator width that the session has now: anytime() compares the size of that
\* object's heap with the session's top_k.
ObjectsAgree ==
  \A t \in Thread :
    thread_local_data[t] \notin {None, Half} =>
      index # None /\ thread_local_data[t] = Object(index)

\* "Which ever of set_postings_to_process() and set_postings_to_process_proportion() is
\* called last takes presidence.  By default all postings are processed": however many
\* searches there have been since, as long as there is no relative budget.
LastBudgetHolds == asked # None => postings_to_process = asked

\* Once load_index() has returned JASS_ERROR_OK, the process ends only where an allocation
\* has failed, the empty string was searched for, two threads raced or promote() was called
\* for a document that is not in the heap: an accumulator width that does not fit, which
\* leaves half of the data of a thread behind, was found out by load_index().
LoadedIsSafe == ~alive /\ loaded => trouble \cap {"memory", "empty", "race", "promote"} # {}

\* "JASS_ERROR_NO_INDEX if no index has been loaded": a session with an index has had a
\* load_index() that returned JASS_ERROR_OK, if no allocation has failed.
IndexWasLoaded == index # None /\ "memory" \notin trouble => loaded
=============================================================================
