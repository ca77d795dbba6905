--------------------------- MODULE AnytimeThreads ---------------------------
(***************************************************************************)
(* JASS_anytime_api::search() with several threads (anytime/               *)
(* JASS_anytime_api.cpp): each runs anytime() over one list of queries,    *)
(* takes queries from it by compare-and-swap (anytime/JASS_anytime_query.h)*)
(* and keeps its results in a map of its own.  One action is one access to *)
(* what the threads share: the taken flags, the map of thread local data,  *)
(* the oracle table and postings_to_process.                               *)
(*                                                                         *)
(* How a query is resolved is AnytimeQuery; here it is the loop over the   *)
(* sizes of its segments.  With thread_count = 1 the caller runs anytime() *)
(* itself, which is the same as one thread that it waits for.              *)
(***************************************************************************)
EXTENDS Integers, FiniteSets

CONSTANTS
  thread_count,
  queries,      \* the length of query_list
  Empty,        \* the queries that are the empty string
  query_id,     \* the id of each query
  segments,     \* the sizes of the segments of each query, as sequences
  total,        \* the number of postings of each query
  relative,     \* set_postings_to_process_relative(), in percent
  Allocations,  \* the threads that earlier calls may have allocated data for
  Tables,       \* the sets of query ids that may be in the oracle table
  Nothing

Threads == 0 .. thread_count - 1
QueryList == 1 .. queries
Ids == {query_id[i] : i \in QueryList}

ASSUME ThreadsAssumption ==
  /\ thread_count \in Nat
  /\ queries \in Nat
  /\ Empty \subseteq QueryList
  /\ Nothing \notin Nat

VARIABLES
  main,                 \* where search() is
  started,              \* the threads that main has started
  joined,               \* the threads that main has joined
  at,                   \* where each thread is
  starting_from,        \* its position in query_list
  query,                \* the query it has taken
  header,               \* its position in the segments of that query
  postings_processed,
  output,               \* its results, keyed on the query id
  taken,                \* the flags of the queries
  thread_local_data,    \* the threads that have an entry
  table,                \* the ids in the oracle table
  postings_to_process,  \* the shared budget
  took,                 \* history: the threads that took each query
  answered              \* history: the queries whose results were stored

vars == << main, started, joined, at, starting_from, query, header, postings_processed,
           output, taken, thread_local_data, table, postings_to_process, took, answered >>

Init ==
  /\ main = "starting" /\ started = 0 /\ joined = 0
  /\ at = [t \in Threads |-> "new"]
  /\ starting_from = [t \in Threads |-> 1]
  /\ query = [t \in Threads |-> Nothing]
  /\ header = [t \in Threads |-> 1]
  /\ postings_processed = [t \in Threads |-> 0]
  /\ output = [t \in Threads |-> [id \in Ids |-> Nothing]]
  /\ taken = [i \in QueryList |-> FALSE]
  /\ thread_local_data \in Allocations
  /\ table \in Tables
  /\ postings_to_process = Nothing   \* the largest size_t: no limit
  /\ took = [i \in QueryList |-> {}]
  /\ answered = {}

Goto(t, place) == at' = [at EXCEPT ![t] = place]

local_vars == << starting_from, query, header, postings_processed, output >>
shared == << taken, thread_local_data, table, postings_to_process >>
history == << took, answered >>
-----------------------------------------------------------------------------
\* The caller starts the threads one after the other, then joins them in turn.
StartThread ==
  /\ main = "starting" /\ started < thread_count
  /\ started' = started + 1
  /\ Goto(started, "local")
  /\ UNCHANGED << main, joined, local_vars, shared, history >>

AllStarted ==
  /\ main = "starting" /\ started = thread_count
  /\ main' = "joining"
  /\ UNCHANGED << started, joined, at, local_vars, shared, history >>

Join ==
  /\ main = "joining" /\ joined < thread_count
  /\ at[joined] = "ended"
  /\ joined' = joined + 1
  /\ UNCHANGED << main, started, at, local_vars, shared, history >>

\* A caller that waits only for the last thread.
ReturnEarly ==
  /\ main = "joining" /\ (thread_count = 0 \/ at[thread_count - 1] = "ended")
  /\ main' = "returned"
  /\ UNCHANGED << started, joined, at, local_vars, shared, history >>

Return ==
  /\ main = "joining" /\ joined = thread_count
  /\ main' = "returned"
  /\ UNCHANGED << started, joined, at, local_vars, shared, history >>
-----------------------------------------------------------------------------
\* get_thread_local_data(): operator[] of a std::map finds the entry or begins to
\* insert it.
GetThreadLocalData(t) ==
  /\ at[t] = "local"
  /\ Goto(t, IF t \in thread_local_data THEN "next" ELSE "inserting")
  /\ UNCHANGED << main, started, joined, local_vars, shared, history >>

Inserted(t) ==
  /\ at[t] = "inserting"
  /\ thread_local_data' = thread_local_data \cup {t}
  /\ Goto(t, "next")
  /\ UNCHANGED << main, started, joined, local_vars, taken, table, postings_to_process,
                  history >>

\* A loop that stays at a query which another thread has taken.
NextQueryStays(t) ==
  /\ at[t] = "next"
  /\ IF starting_from[t] > queries THEN Goto(t, "ended")
     ELSE IF taken[starting_from[t]] THEN UNCHANGED at ELSE Goto(t, "cas")
  /\ UNCHANGED << main, started, joined, local_vars, shared, history >>

\* get_next_query(): the end of the list, or the test of the taken flag.
NextQuery(t) ==
  /\ at[t] = "next"
  /\ IF starting_from[t] > queries
     THEN Goto(t, "ended") /\ UNCHANGED starting_from
     ELSE IF taken[starting_from[t]]
     THEN /\ starting_from' = [starting_from EXCEPT ![t] = @ + 1]
          /\ UNCHANGED at
     ELSE Goto(t, "cas") /\ UNCHANGED starting_from
  /\ UNCHANGED << main, started, joined, query, header, postings_processed, output, shared,
                  history >>

\* The flag is set without looking at what it was.
TakeBlind(t) ==
  LET i == starting_from[t]
  IN  /\ at[t] = "cas"
      /\ taken' = [taken EXCEPT ![i] = TRUE]
      /\ took' = [took EXCEPT ![i] = @ \cup {t}]
      /\ query' = [query EXCEPT ![t] = i]
      /\ Goto(t, IF i \in Empty THEN "ended" ELSE "oracle")
      /\ UNCHANGED << main, started, joined, starting_from, header, postings_processed,
                      output, thread_local_data, table, postings_to_process, answered >>

\* compare_exchange_strong() on the taken flag.  The empty string ends the thread.
Take(t) ==
  LET i == starting_from[t]
  IN  /\ at[t] = "cas"
      /\ IF taken[i]
         THEN Goto(t, "next") /\ UNCHANGED << taken, took, query >>
         ELSE /\ taken' = [taken EXCEPT ![i] = TRUE]
              /\ took' = [took EXCEPT ![i] = @ \cup {t}]
              /\ query' = [query EXCEPT ![t] = i]
              /\ Goto(t, IF i \in Empty THEN "ended" ELSE "oracle")
      /\ UNCHANGED << main, started, joined, starting_from, header, postings_processed,
                      output, thread_local_data, table, postings_to_process, answered >>

\* The oracle table: operator[] of a std::unordered_map, unless it is empty.
Oracle(t) ==
  /\ at[t] = "oracle"
  /\ Goto(t, IF table = {} \/ query_id[query[t]] \in table THEN "budget" ELSE "table")
  /\ UNCHANGED << main, started, joined, local_vars, shared, history >>

TableInserted(t) ==
  /\ at[t] = "table"
  /\ table' = table \cup {query_id[query[t]]}
  /\ Goto(t, "budget")
  /\ UNCHANGED << main, started, joined, local_vars, taken, thread_local_data,
                  postings_to_process, history >>

\* A relative budget is written to the member that all threads read.
SetBudget(t) ==
  /\ at[t] = "budget"
  /\ postings_to_process' = IF relative # 100 THEN (total[query[t]] * relative) \div 100
                            ELSE postings_to_process
  /\ header' = [header EXCEPT ![t] = 1]
  /\ postings_processed' = [postings_processed EXCEPT ![t] = 0]
  /\ Goto(t, "segments")
  /\ UNCHANGED << main, started, joined, starting_from, query, output, taken,
                  thread_local_data, table, history >>

\* One segment, if it fits the budget as it is now.
Segment(t) ==
  LET sizes == segments[query[t]]
      processed == postings_processed[t] + sizes[header[t]]
  IN  /\ at[t] = "segments"
      /\ IF header[t] \in DOMAIN sizes
            /\ (postings_to_process = Nothing \/ processed <= postings_to_process)
         THEN /\ postings_processed' = [postings_processed EXCEPT ![t] = processed]
              /\ header' = [header EXCEPT ![t] = @ + 1]
              /\ UNCHANGED at
         ELSE Goto(t, "store") /\ UNCHANGED << postings_processed, header >>
      /\ UNCHANGED << main, started, joined, starting_from, query, output, shared, history >>

\* All threads were given the output of the first.
StoreShared(t) ==
  /\ at[t] = "store"
  /\ output' = [output EXCEPT ![0][query_id[query[t]]] =
                  [query |-> query[t], processed |-> postings_processed[t]]]
  /\ answered' = answered \cup {query[t]}
  /\ query' = [query EXCEPT ![t] = Nothing]
  /\ Goto(t, "next")
  /\ UNCHANGED << main, started, joined, starting_from, header, postings_processed, shared,
                  took >>

\* output.push_back(), and on to the next query.
Store(t) ==
  /\ at[t] = "store"
  /\ output' = [output EXCEPT ![t][query_id[query[t]]] =
                  [query |-> query[t], processed |-> postings_processed[t]]]
  /\ answered' = answered \cup {query[t]}
  /\ query' = [query EXCEPT ![t] = Nothing]
  /\ Goto(t, "next")
  /\ UNCHANGED << main, started, joined, starting_from, header, postings_processed, shared,
                  took >>

\* Two threads are in the same map and one of them is changing it.
Race ==
  \E s, t \in Threads :
    /\ s # t
    /\ \/ at[s] = "inserting" /\ at[t] \in {"local", "inserting"}
       \/ at[s] = "table" /\ at[t] \in {"oracle", "table"}

\* A data race on a container of the standard library has no defined outcome: it
\* may go well, or be the end of the process.
Undefined ==
  /\ Race /\ main # "undefined"
  /\ main' = "undefined"
  /\ UNCHANGED << started, joined, at, local_vars, shared, history >>

Done == main \in {"returned", "undefined"} /\ UNCHANGED vars

Thread(t) ==
  \/ GetThreadLocalData(t) \/ Inserted(t)
  \/ NextQuery(t) \/ Take(t)
  \/ Oracle(t) \/ TableInserted(t)
  \/ SetBudget(t) \/ Segment(t) \/ Store(t)

Main == StartThread \/ AllStarted \/ Join \/ Return

Next ==
  \/ Main
  \/ main # "undefined" /\ \E t \in Threads : Thread(t)
  \/ Undefined
  \/ Done

Spec == Init /\ [][Next]_vars

\* The operating system runs every thread that can go on.
FairSpec ==
  Spec /\ WF_vars(Main) /\ \A t \in Threads : WF_vars(main # "undefined" /\ Thread(t))
-----------------------------------------------------------------------------
Places == {"new", "local", "inserting", "next", "cas", "oracle", "table", "budget",
           "segments", "store", "ended"}
Working == {"oracle", "table", "budget", "segments", "store"}

\* Types.
TypeOK ==
  /\ main \in {"starting", "joining", "returned", "undefined"}
  /\ started \in 0 .. thread_count /\ joined \in 0 .. thread_count
  /\ at \in [Threads -> Places]
  /\ starting_from \in [Threads -> 1 .. queries + 1]
  /\ query \in [Threads -> QueryList \cup {Nothing}]
  /\ taken \in [QueryList -> BOOLEAN]
  /\ took \in [QueryList -> SUBSET Threads]
  /\ answered \subseteq QueryList

\* No query is resolved twice: whatever the order in which threads test and set
\* the flags, at most one of them takes a query.
TakenOnce == \A i \in QueryList : \A s, t \in took[i] : s = t

\* search() returns only when every query of the list has been answered (with no
\* empty strings in the list, and at least one thread): no query is skipped by a
\* thread that saw it taken, and none is still being worked on.
AllAnswered == main = "returned" /\ thread_count > 0 => answered = QueryList

\* A result in the output of a thread is that of a query it took itself.
ResultsAreOwn ==
  \A t \in Threads, id \in Ids :
    output[t][id] # Nothing =>
      query_id[output[t][id].query] = id /\ t \in took[output[t][id].query]

\* search() returns, unless a data race has undefined consequences.
SearchReturns == <>(main \in {"returned", "undefined"})
-----------------------------------------------------------------------------
\* "Set the number of postings to process as a proportion of the number of postings
\* for this query."
BudgetIsOwn ==
  \A t \in Threads :
    at[t] = "store" =>
      LET sizes == segments[query[t]]
          own == (total[query[t]] * relative) \div 100
      IN  /\ postings_processed[t] <= own
          /\ header[t] \in DOMAIN sizes => postings_processed[t] + sizes[header[t]] > own
=============================================================================
