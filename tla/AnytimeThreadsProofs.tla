------------------------ MODULE AnytimeThreadsProofs ------------------------
(***************************************************************************)
(* Any number of threads over any list of queries: no query is taken twice *)
(* and every result is that of a query its thread took.  In a list without *)
(* empty strings search() returns with all of them answered.               *)
(***************************************************************************)
EXTENDS AnytimeThreads, TLAPS

\* A query that is not taken has no taker.
FlagsTrue == \A i \in QueryList : ~taken[i] => took[i] = {}

\* A thread has passed only queries that are taken.
PassedTaken ==
  \A t \in Threads : \A i \in QueryList : i < starting_from[t] => taken[i]

\* What a thread knows at each place.
PlaceKnown ==
  \A t \in Threads :
    /\ at[t] = "ended" => starting_from[t] = queries + 1
    /\ at[t] = "cas" => starting_from[t] \in QueryList
    /\ at[t] \in Working => query[t] \in QueryList

\* A query that is taken is answered or being worked on.
TakenInHand ==
  \A i \in QueryList :
    taken[i] => i \in answered \/ \E t \in Threads : at[t] \in Working /\ query[t] = i

\* What the caller knows of the threads.
MainKnown ==
  /\ \A t \in Threads : t >= started => at[t] = "new"
  /\ \A t \in Threads : t < joined => at[t] = "ended"
  /\ main = "returned" => joined = thread_count

\* The inductive invariant.
Inv ==
  /\ TypeOK /\ TakenOnce /\ FlagsTrue /\ PassedTaken /\ PlaceKnown /\ TakenInHand
  /\ MainKnown

USE DEF Threads, QueryList

\* Nobody has started.
LEMMA InitInv == Init => Inv
<1> SUFFICES ASSUME Init PROVE Inv
  OBVIOUS
<1> USE ThreadsAssumption DEF Init
<1>1. TypeOK
  <2>1. at \in [Threads -> Places]
    BY DEF Places
  <2>2. query \in [Threads -> QueryList \cup {Nothing}]
    OBVIOUS
  <2>3. starting_from \in [Threads -> 1 .. queries + 1]
    OBVIOUS
  <2>4. taken \in [QueryList -> BOOLEAN] /\ took \in [QueryList -> SUBSET Threads]
    OBVIOUS
  <2>5. /\ main \in {"starting", "joining", "returned", "undefined"}
        /\ started \in 0 .. thread_count /\ joined \in 0 .. thread_count
        /\ answered \subseteq QueryList
    OBVIOUS
  <2> QED
    BY <2>1, <2>2, <2>3, <2>4, <2>5 DEF TypeOK
<1>2. TakenOnce /\ FlagsTrue /\ PassedTaken /\ TakenInHand
  BY DEF TakenOnce, FlagsTrue, PassedTaken, TakenInHand
<1>3. PlaceKnown
  BY DEF PlaceKnown, Working
<1>4. MainKnown
  BY DEF MainKnown
<1> QED
  BY <1>1, <1>2, <1>3, <1>4 DEF Inv

\* The steps of the caller.
LEMMA MainInv ==
  ASSUME Inv, Main \/ Undefined
  PROVE  Inv'
<1> USE ThreadsAssumption
<1>0. /\ TypeOK /\ TakenOnce /\ FlagsTrue /\ PassedTaken /\ PlaceKnown /\ TakenInHand
      /\ MainKnown
      /\ UNCHANGED << local_vars, shared, history >>
  BY DEF Inv, Main, StartThread, AllStarted, Join, Return, Undefined
<1>1. UNCHANGED << starting_from, query, taken, took, answered >>
  BY <1>0 DEF local_vars, shared, history
<1>2. TakenOnce' /\ FlagsTrue' /\ PassedTaken'
  BY <1>0, <1>1 DEF TakenOnce, FlagsTrue, PassedTaken
<1>3. CASE StartThread
  <2>1. /\ main = "starting" /\ started < thread_count /\ started' = started + 1
        /\ at' = [at EXCEPT ![started] = "local"] /\ UNCHANGED << main, joined >>
        /\ started \in Threads
    BY <1>0, <1>3 DEF StartThread, Goto, TypeOK
  <2>2. at' \in [Threads -> Places]
    BY <1>0, <2>1 DEF TypeOK, Places
  <2>3. TypeOK'
    BY <1>0, <1>1, <2>1, <2>2 DEF TypeOK
  <2>4. at[started] = "new"
    BY <1>0, <2>1 DEF MainKnown
  <2>5. \A t \in Threads : at'[t] # at[t] => t = started
    BY <1>0, <2>1 DEF TypeOK
  <2>6. at'[started] = "local"
    BY <1>0, <2>1 DEF TypeOK
  <2>7. PlaceKnown'
    BY <1>0, <1>1, <2>5, <2>6 DEF PlaceKnown, Working
  <2>8. TakenInHand'
    BY <1>0, <1>1, <2>4, <2>5 DEF TakenInHand, Working
  <2>9. MainKnown'
    <3>1. \A t \in Threads : t >= started' => at'[t] = "new"
      BY <1>0, <2>1, <2>5 DEF MainKnown, TypeOK
    <3>2. \A t \in Threads : t < joined' => at'[t] = "ended"
      BY <1>0, <2>1, <2>4, <2>5 DEF MainKnown
    <3> QED
      BY <1>0, <2>1, <3>1, <3>2 DEF MainKnown
  <2> QED
    BY <1>2, <2>3, <2>7, <2>8, <2>9 DEF Inv
<1>4. CASE AllStarted \/ Undefined
  <2>1. main' \in {"joining", "undefined"} /\ UNCHANGED << started, joined, at >>
    BY <1>4 DEF AllStarted, Undefined
  <2>2. TypeOK' /\ PlaceKnown' /\ TakenInHand' /\ MainKnown'
    BY <1>0, <1>1, <2>1 DEF TypeOK, PlaceKnown, TakenInHand, MainKnown
  <2> QED
    BY <1>2, <2>2 DEF Inv
<1>5. CASE Join
  <2>1. /\ main = "joining" /\ joined < thread_count /\ at[joined] = "ended"
        /\ joined' = joined + 1 /\ UNCHANGED << main, started, at >>
    BY <1>5 DEF Join
  <2>2. TypeOK' /\ PlaceKnown' /\ TakenInHand'
    BY <1>0, <1>1, <2>1 DEF TypeOK, PlaceKnown, TakenInHand
  <2>3. \A t \in Threads : t < joined' => at'[t] = "ended"
    BY <1>0, <2>1 DEF MainKnown, TypeOK
  <2>4. MainKnown'
    BY <1>0, <2>1, <2>3 DEF MainKnown
  <2> QED
    BY <1>2, <2>2, <2>4 DEF Inv
<1>6. CASE Return
  <2>1. joined = thread_count /\ main' = "returned" /\ UNCHANGED << started, joined, at >>
    BY <1>6 DEF Return
  <2>2. TypeOK' /\ PlaceKnown' /\ TakenInHand' /\ MainKnown'
    BY <1>0, <1>1, <2>1 DEF TypeOK, PlaceKnown, TakenInHand, MainKnown
  <2> QED
    BY <1>2, <2>2 DEF Inv
<1> QED
  BY <1>3, <1>4, <1>5, <1>6 DEF Main

\* A thread that goes from one place to another, and neither takes nor answers.
LEMMA MoveInv ==
  ASSUME Inv, NEW t \in Threads, NEW p \in Places \ {"new"},
         at[t] \notin {"new", "ended"},
         at' = [at EXCEPT ![t] = p],
         UNCHANGED << main, started, joined, starting_from, query, taken, took, answered >>,
         p = "ended" => starting_from[t] = queries + 1,
         p = "cas" => starting_from[t] \in QueryList,
         p \in Working <=> at[t] \in Working
  PROVE  Inv'
<1>0. /\ TypeOK /\ TakenOnce /\ FlagsTrue /\ PassedTaken /\ PlaceKnown /\ TakenInHand
      /\ MainKnown
  BY DEF Inv
<1>1. /\ at \in [Threads -> Places] /\ at' \in [Threads -> Places] /\ at'[t] = p
      /\ \A s \in Threads : s # t => at'[s] = at[s]
  BY <1>0 DEF TypeOK
<1>2. TypeOK'
  BY <1>0, <1>1 DEF TypeOK
<1>3. TakenOnce' /\ FlagsTrue' /\ PassedTaken'
  BY <1>0 DEF TakenOnce, FlagsTrue, PassedTaken
<1>4. PlaceKnown'
  BY <1>0, <1>1 DEF PlaceKnown
<1>5. \A s \in Threads : at[s] \in Working => at'[s] \in Working
  BY <1>1
<1>6. TakenInHand'
  BY <1>0, <1>5 DEF TakenInHand
<1>7. MainKnown'
  BY <1>0, <1>1 DEF MainKnown
<1> QED
  BY <1>2, <1>3, <1>4, <1>6, <1>7 DEF Inv

\* A thread passes a query that is taken.
LEMMA PassInv ==
  ASSUME Inv, NEW t \in Threads, at[t] = "next", starting_from[t] <= queries,
         taken[starting_from[t]],
         starting_from' = [starting_from EXCEPT ![t] = @ + 1],
         UNCHANGED << main, started, joined, at, query, taken, took, answered >>
  PROVE  Inv'
<1>0. /\ TypeOK /\ TakenOnce /\ FlagsTrue /\ PassedTaken /\ PlaceKnown /\ TakenInHand
      /\ MainKnown /\ queries \in Nat
  BY ThreadsAssumption DEF Inv
<1>1. /\ starting_from \in [Threads -> 1 .. queries + 1]
      /\ starting_from' \in [Threads -> 1 .. queries + 1]
      /\ starting_from'[t] = starting_from[t] + 1
      /\ \A s \in Threads : s # t => starting_from'[s] = starting_from[s]
  BY <1>0 DEF TypeOK
<1>2. TypeOK'
  BY <1>0, <1>1 DEF TypeOK
<1>3. TakenOnce' /\ FlagsTrue' /\ TakenInHand' /\ MainKnown'
  BY <1>0 DEF TakenOnce, FlagsTrue, TakenInHand, MainKnown
<1>4. PassedTaken'
  BY <1>0, <1>1 DEF PassedTaken
<1>5. PlaceKnown'
  BY <1>0, <1>1 DEF PlaceKnown, Working
<1> QED
  BY <1>2, <1>3, <1>4, <1>5 DEF Inv

\* The thread whose compare-and-swap succeeds is the only taker of the query.
LEMMA TakeInv ==
  ASSUME Inv, Empty = {}, NEW t \in Threads, Take(t), ~taken[starting_from[t]]
  PROVE  Inv'
<1> DEFINE i == starting_from[t]
<1>0. /\ TypeOK /\ TakenOnce /\ FlagsTrue /\ PassedTaken /\ PlaceKnown /\ TakenInHand
      /\ MainKnown /\ queries \in Nat /\ thread_count \in Nat
  BY ThreadsAssumption DEF Inv
<1>1. /\ at[t] = "cas"
      /\ taken' = [taken EXCEPT ![i] = TRUE]
      /\ took' = [took EXCEPT ![i] = @ \cup {t}]
      /\ query' = [query EXCEPT ![t] = i]
      /\ at' = [at EXCEPT ![t] = "oracle"]
      /\ UNCHANGED << main, started, joined, starting_from, answered >>
  BY DEF Take, Goto
<1>2. i \in QueryList
  BY <1>0, <1>1 DEF PlaceKnown
<1>3. /\ at' \in [Threads -> Places] /\ at'[t] = "oracle"
      /\ \A s \in Threads : s # t => at'[s] = at[s]
  BY <1>0, <1>1 DEF TypeOK, Places
<1>4. /\ query' \in [Threads -> QueryList \cup {Nothing}] /\ query'[t] = i
      /\ \A s \in Threads : s # t => query'[s] = query[s]
  BY <1>0, <1>1, <1>2 DEF TypeOK
<1>5. /\ taken' \in [QueryList -> BOOLEAN] /\ taken'[i]
      /\ \A j \in QueryList : j # i => taken'[j] = taken[j]
  BY <1>0, <1>1, <1>2 DEF TypeOK
<1>6. took[i] = {}
  BY <1>0, <1>2 DEF FlagsTrue
<1>7. /\ took' \in [QueryList -> SUBSET Threads] /\ took'[i] = {t}
      /\ \A j \in QueryList : j # i => took'[j] = took[j]
  BY <1>0, <1>1, <1>2, <1>6 DEF TypeOK
<1>8. TypeOK'
  BY <1>0, <1>1, <1>3, <1>4, <1>5, <1>7 DEF TypeOK
<1>9. TakenOnce'
  BY <1>0, <1>7 DEF TakenOnce
<1>10. FlagsTrue'
  BY <1>0, <1>5, <1>7 DEF FlagsTrue
<1>11. PassedTaken'
  BY <1>0, <1>1, <1>5 DEF PassedTaken
<1>12. PlaceKnown'
  <2>1. "oracle" \notin {"ended", "cas"}
    OBVIOUS
  <2> QED
    BY <1>0, <1>1, <1>2, <1>3, <1>4, <2>1 DEF PlaceKnown
<1>13. TakenInHand'
  <2> SUFFICES ASSUME NEW j \in QueryList, taken'[j]
               PROVE  j \in answered' \/ \E s \in Threads : at'[s] \in Working /\ query'[s] = j
    BY DEF TakenInHand
  <2>1. CASE j = i
    BY <1>3, <1>4, <2>1 DEF Working
  <2>2. CASE j # i
    <3>1. j \in answered \/ \E s \in Threads : at[s] \in Working /\ query[s] = j
      BY <1>0, <1>5, <2>2 DEF TakenInHand
    <3>2. at[t] \notin Working
      BY <1>1 DEF Working
    <3> QED
      BY <1>1, <1>3, <1>4, <3>1, <3>2
  <2> QED
    BY <2>1, <2>2
<1>14. MainKnown'
  BY <1>0, <1>1, <1>3 DEF MainKnown
<1> QED
  BY <1>8, <1>9, <1>10, <1>11, <1>12, <1>13, <1>14 DEF Inv

\* A query in hand becomes an answered one.
LEMMA StoreInv ==
  ASSUME Inv, NEW t \in Threads, Store(t)
  PROVE  Inv'
<1>0. /\ TypeOK /\ TakenOnce /\ FlagsTrue /\ PassedTaken /\ PlaceKnown /\ TakenInHand
      /\ MainKnown
  BY DEF Inv
<1>1. /\ at[t] = "store"
      /\ answered' = answered \cup {query[t]}
      /\ query' = [query EXCEPT ![t] = Nothing]
      /\ at' = [at EXCEPT ![t] = "next"]
      /\ UNCHANGED << main, started, joined, starting_from, taken, took >>
  BY DEF Store, Goto, shared
<1>2. query[t] \in QueryList
  BY <1>0, <1>1 DEF PlaceKnown, Working
<1>3. /\ at' \in [Threads -> Places] /\ at'[t] = "next"
      /\ \A s \in Threads : s # t => at'[s] = at[s]
  BY <1>0, <1>1 DEF TypeOK, Places
<1>4. /\ query' \in [Threads -> QueryList \cup {Nothing}]
      /\ \A s \in Threads : s # t => query'[s] = query[s]
  BY <1>0, <1>1 DEF TypeOK
<1>5. TypeOK'
  BY <1>0, <1>1, <1>2, <1>3, <1>4 DEF TypeOK
<1>6. TakenOnce' /\ FlagsTrue' /\ PassedTaken'
  BY <1>0, <1>1 DEF TakenOnce, FlagsTrue, PassedTaken
<1>7. PlaceKnown'
  BY <1>0, <1>1, <1>3, <1>4 DEF PlaceKnown, Working
<1>8. TakenInHand'
  BY <1>0, <1>1, <1>3, <1>4 DEF TakenInHand
<1>9. MainKnown'
  BY <1>0, <1>1, <1>3 DEF MainKnown
<1> QED
  BY <1>5, <1>6, <1>7, <1>8, <1>9 DEF Inv

\* The steps of a thread.
LEMMA ThreadInv ==
  ASSUME Inv, Empty = {}, NEW t \in Threads, Thread(t)
  PROVE  Inv'
<1>0. TypeOK /\ PlaceKnown /\ queries \in Nat /\ starting_from[t] \in 1 .. queries + 1
  BY ThreadsAssumption DEF Inv, TypeOK
<1> USE DEF Goto, local_vars, shared, history
<1>1. CASE GetThreadLocalData(t)
  <2>1. CASE t \in thread_local_data
    BY <1>1, <2>1, MoveInv DEF GetThreadLocalData, Places, Working
  <2>2. CASE t \notin thread_local_data
    BY <1>1, <2>2, MoveInv DEF GetThreadLocalData, Places, Working
  <2> QED
    BY <2>1, <2>2
<1>2. CASE Inserted(t)
  BY <1>2, MoveInv DEF Inserted, Places, Working
<1>3. CASE NextQuery(t)
  <2>1. CASE starting_from[t] > queries
    <3>1. starting_from[t] = queries + 1
      BY <1>0, <2>1
    <3> QED
      BY <1>3, <2>1, <3>1, MoveInv DEF NextQuery, Places, Working
  <2>2. CASE starting_from[t] <= queries /\ taken[starting_from[t]]
    BY <1>0, <1>3, <2>2, PassInv DEF NextQuery
  <2>3. CASE starting_from[t] <= queries /\ ~taken[starting_from[t]]
    <3>1. starting_from[t] \in QueryList /\ ~(starting_from[t] > queries)
      BY <1>0, <2>3
    <3> QED
      BY <1>3, <2>3, <3>1, MoveInv DEF NextQuery, Places, Working
  <2> QED
    BY <1>0, <2>1, <2>2, <2>3
<1>4. CASE Take(t)
  <2>1. CASE taken[starting_from[t]]
    BY <1>4, <2>1, MoveInv DEF Take, Places, Working
  <2>2. CASE ~taken[starting_from[t]]
    BY <1>4, <2>2, TakeInv
  <2> QED
    BY <2>1, <2>2
<1>5. CASE Oracle(t)
  <2>1. CASE table = {} \/ query_id[query[t]] \in table
    BY <1>5, <2>1, MoveInv DEF Oracle, Places, Working
  <2>2. CASE ~(table = {} \/ query_id[query[t]] \in table)
    BY <1>5, <2>2, MoveInv DEF Oracle, Places, Working
  <2> QED
    BY <2>1, <2>2
<1>6. CASE TableInserted(t)
  BY <1>6, MoveInv DEF TableInserted, Places, Working
<1>7. CASE SetBudget(t)
  BY <1>7, MoveInv DEF SetBudget, Places, Working
<1>8. CASE Segment(t)
  <2>1. /\ at[t] = "segments"
        /\ at' = at \/ at' = [at EXCEPT ![t] = "store"]
        /\ UNCHANGED << main, started, joined, starting_from, query, taken, took, answered >>
    BY <1>8 DEF Segment
  <2>2. at' = at => at' = [at EXCEPT ![t] = "segments"]
    BY <1>0, <2>1 DEF TypeOK
  <2>3. CASE at' = at
    BY <2>1, <2>2, <2>3, MoveInv DEF Places, Working
  <2>4. CASE at' = [at EXCEPT ![t] = "store"]
    BY <2>1, <2>4, MoveInv DEF Places, Working
  <2> QED
    BY <2>1, <2>3, <2>4
<1>9. CASE Store(t)
  BY <1>9, StoreInv
<1> QED
  BY <1>1, <1>2, <1>3, <1>4, <1>5, <1>6, <1>7, <1>8, <1>9 DEF Thread

\* When search() has returned, every thread has come to the end of the list.
LEMMA InvAnswered ==
  ASSUME Inv
  PROVE  AllAnswered
<1> SUFFICES ASSUME main = "returned", thread_count > 0 PROVE answered = QueryList
  BY DEF AllAnswered
<1>0. /\ TypeOK /\ PassedTaken /\ PlaceKnown /\ TakenInHand /\ MainKnown
      /\ thread_count \in Nat /\ queries \in Nat
  BY ThreadsAssumption DEF Inv
<1>1. \A t \in Threads : at[t] = "ended"
  BY <1>0 DEF MainKnown
<1>2. 0 \in Threads /\ starting_from[0] = queries + 1
  BY <1>0, <1>1 DEF PlaceKnown
<1>3. \A i \in QueryList : taken[i]
  BY <1>0, <1>2 DEF PassedTaken
<1>4. \A i \in QueryList : i \in answered
  BY <1>0, <1>1, <1>3 DEF TakenInHand, Working
<1> QED
  BY <1>0, <1>4 DEF TypeOK

\* However many threads share a list of queries, none of them the empty string, and
\* however they interleave, search() returns only when all have been answered.
THEOREM SearchIsComplete ==
  ASSUME Empty = {}
  PROVE  Spec => []AllAnswered
<1>1. Init => Inv
  BY InitInv
<1>2. Inv /\ [Next]_vars => Inv'
  <2> SUFFICES ASSUME Inv, [Next]_vars PROVE Inv'
    OBVIOUS
  <2>1. CASE UNCHANGED vars \/ Done
    <3>1. UNCHANGED << main, started, joined, at, starting_from, query, taken, took,
                       answered >>
      BY <2>1 DEF vars, Done
    <3> QED
      BY <3>1 DEF Inv, TypeOK, TakenOnce, FlagsTrue, PassedTaken, PlaceKnown, TakenInHand,
                  MainKnown
  <2>2. CASE Main \/ Undefined
    BY <2>2, MainInv
  <2>3. CASE \E t \in Threads : Thread(t)
    BY <2>3, ThreadInv
  <2> QED
    BY <2>1, <2>2, <2>3 DEF Next
<1>3. Inv => AllAnswered
  BY InvAnswered
<1> QED
  BY <1>1, <1>2, <1>3, PTL DEF Spec
-----------------------------------------------------------------------------
\* What the threads keep for themselves needs no assumption on the list.  A result is
\* either absent or a record that names a query of the list.
OwnTyped ==
  /\ at \in [Threads -> Places]
  /\ starting_from \in [Threads -> 1 .. queries + 1]
  /\ query \in [Threads -> QueryList \cup {Nothing}]
  /\ taken \in [QueryList -> BOOLEAN]
  /\ took \in [QueryList -> SUBSET Threads]
  /\ output = [t \in Threads |-> [id \in Ids |-> output[t][id]]]
  /\ \A t \in Threads, id \in Ids :
       output[t][id] = Nothing \/ output[t][id].query \in QueryList

\* A thread at its compare-and-swap is in the list, and one that works on a query has
\* taken that query.
InHand ==
  \A t \in Threads :
    /\ at[t] = "cas" => starting_from[t] \in QueryList
    /\ at[t] \in Working => query[t] \in QueryList /\ t \in took[query[t]]

OwnInv == OwnTyped /\ FlagsTrue /\ TakenOnce /\ InHand /\ ResultsAreOwn

\* A thread that only goes on to another place keeps what it has in hand.
LEMMA MoveOwn ==
  ASSUME OwnInv, NEW t \in Threads, NEW place \in Places,
         at' = [at EXCEPT ![t] = place],
         place = "cas" => starting_from[t] \in QueryList,
         place \in Working => at[t] \in Working,
         UNCHANGED << starting_from, query, output, taken, took >>
  PROVE  OwnInv'
<1>1. OwnTyped'
  BY DEF OwnInv, OwnTyped
<1>2. at'[t] = place /\ \A s \in Threads : s # t => at'[s] = at[s]
  BY DEF OwnInv, OwnTyped
<1>3. InHand'
  BY <1>2 DEF OwnInv, InHand
<1>4. FlagsTrue' /\ TakenOnce' /\ ResultsAreOwn'
  BY DEF OwnInv, FlagsTrue, TakenOnce, ResultsAreOwn
<1>5. QED
  BY <1>1, <1>3, <1>4 DEF OwnInv

\* compare_exchange_strong() succeeds: the query had no taker.
LEMMA TakeOwn ==
  ASSUME OwnInv, NEW t \in Threads, Take(t), ~taken[starting_from[t]]
  PROVE  OwnInv'
<1> DEFINE i == starting_from[t]
           place == IF i \in Empty THEN "ended" ELSE "oracle"
<1>0. /\ i \in QueryList /\ took[i] = {} /\ place \in Places /\ place # "cas"
      /\ at' = [at EXCEPT ![t] = place]
      /\ taken' = [taken EXCEPT ![i] = TRUE] /\ took' = [took EXCEPT ![i] = @ \cup {t}]
      /\ query' = [query EXCEPT ![t] = i] /\ UNCHANGED << starting_from, output >>
  BY DEF Take, Goto, OwnInv, InHand, FlagsTrue, Places
<1> HIDE DEF i, place
<1>1. OwnTyped'
  <2>1. at' \in [Threads -> Places] /\ query' \in [Threads -> QueryList \cup {Nothing}]
    BY <1>0 DEF OwnInv, OwnTyped
  <2>2. taken' \in [QueryList -> BOOLEAN]
    BY <1>0 DEF OwnInv, OwnTyped
  <2>3. took' \in [QueryList -> SUBSET Threads]
    BY <1>0 DEF OwnInv, OwnTyped
  <2>4. QED
    BY <1>0, <2>1, <2>2, <2>3 DEF OwnInv, OwnTyped
<1>2. /\ took'[i] = {t} /\ taken'[i]
      /\ \A j \in QueryList : took[j] \subseteq took'[j]
      /\ \A j \in QueryList : j # i => took'[j] = took[j] /\ taken'[j] = taken[j]
  BY <1>0 DEF OwnInv, OwnTyped
<1>3. FlagsTrue' /\ TakenOnce'
  BY <1>2 DEF OwnInv, FlagsTrue, TakenOnce
<1>4. InHand'
  <2>1. at'[t] = place /\ query'[t] = i
    BY <1>0 DEF OwnInv, OwnTyped
  <2>2. \A s \in Threads : s # t => at'[s] = at[s] /\ query'[s] = query[s]
    BY <1>0 DEF OwnInv, OwnTyped
  <2>3. QED
    BY <1>0, <1>2, <2>1, <2>2 DEF OwnInv, InHand
<1>5. ResultsAreOwn'
  BY <1>0, <1>2 DEF OwnInv, ResultsAreOwn, OwnTyped
<1>6. QED
  BY <1>1, <1>3, <1>4, <1>5 DEF OwnInv

\* push_back() into the thread's own output, under the id of the query in hand.
LEMMA StoreOwn ==
  ASSUME OwnInv, NEW t \in Threads, Store(t)
  PROVE  OwnInv'
<1> DEFINE q == query[t]
           result == [query |-> q, processed |-> postings_processed[t]]
<1>0. /\ q \in QueryList /\ t \in took[q] /\ query_id[q] \in Ids
      /\ at' = [at EXCEPT ![t] = "next"] /\ query' = [query EXCEPT ![t] = Nothing]
      /\ output' = [output EXCEPT ![t][query_id[q]] = result]
      /\ UNCHANGED << starting_from, taken, took >>
  BY DEF Store, Goto, OwnInv, InHand, Working, Ids, shared
<1>1. result # Nothing => result.query = q
  OBVIOUS
<1> HIDE DEF q
<1>2. \A s \in Threads, id \in Ids :
        output'[s][id] = IF s = t /\ id = query_id[q] THEN result ELSE output[s][id]
  BY <1>0 DEF OwnInv, OwnTyped
<1>3. output' = [s \in Threads |-> [id \in Ids |-> output'[s][id]]]
  BY <1>0 DEF OwnInv, OwnTyped
<1>4. OwnTyped'
  <2>1. at' \in [Threads -> Places] /\ query' \in [Threads -> QueryList \cup {Nothing}]
    BY <1>0 DEF OwnInv, OwnTyped, Places
  <2>2. \A s \in Threads, id \in Ids :
          output'[s][id] = Nothing \/ output'[s][id].query \in QueryList
    BY <1>0, <1>2 DEF OwnInv, OwnTyped
  <2>3. QED
    BY <1>0, <1>3, <2>1, <2>2 DEF OwnInv, OwnTyped
<1>5. FlagsTrue' /\ TakenOnce'
  BY <1>0 DEF OwnInv, FlagsTrue, TakenOnce
<1>6. InHand'
  <2>1. /\ at'[t] = "next"
        /\ \A s \in Threads : s # t => at'[s] = at[s] /\ query'[s] = query[s]
    BY <1>0 DEF OwnInv, OwnTyped
  <2>2. QED
    BY <1>0, <2>1 DEF OwnInv, InHand, Working
<1>7. ResultsAreOwn'
  BY <1>0, <1>2 DEF OwnInv, ResultsAreOwn
<1>8. QED
  BY <1>4, <1>5, <1>6, <1>7 DEF OwnInv

\* The steps of a thread.
LEMMA ThreadOwn ==
  ASSUME OwnInv, NEW t \in Threads, Thread(t)
  PROVE  OwnInv'
<1> USE DEF Goto, local_vars, shared, history
<1>0. at[t] \in Places /\ starting_from[t] \in 1 .. queries + 1 /\ queries \in Nat
  BY ThreadsAssumption DEF OwnInv, OwnTyped
<1>1. CASE GetThreadLocalData(t) \/ Inserted(t)
  <2>1. PICK place \in {"next", "inserting"} : at' = [at EXCEPT ![t] = place]
    BY <1>1 DEF GetThreadLocalData, Inserted
  <2>2. UNCHANGED << starting_from, query, output, taken, took >>
    BY <1>1 DEF GetThreadLocalData, Inserted
  <2>3. QED
    BY <2>1, <2>2, MoveOwn DEF Places, Working
<1>2. CASE NextQuery(t)
  <2>1. UNCHANGED << query, output, taken, took >>
    BY <1>2 DEF NextQuery
  <2>2. CASE starting_from[t] > queries
    BY <1>2, <2>1, <2>2, MoveOwn DEF NextQuery, Places, Working
  <2>3. CASE starting_from[t] <= queries /\ taken[starting_from[t]]
    <3>1. at[t] = "next" /\ at' = at /\ starting_from' = [starting_from EXCEPT ![t] = @ + 1]
      BY <1>0, <1>2, <2>3 DEF NextQuery
    <3>2. starting_from' \in [Threads -> 1 .. queries + 1]
      BY <1>0, <2>3, <3>1 DEF OwnInv, OwnTyped
    <3>3. \A s \in Threads : s # t => starting_from'[s] = starting_from[s]
      BY <3>1 DEF OwnInv, OwnTyped
    <3>4. OwnTyped' /\ FlagsTrue' /\ TakenOnce' /\ ResultsAreOwn'
      BY <2>1, <3>1, <3>2 DEF OwnInv, OwnTyped, FlagsTrue, TakenOnce, ResultsAreOwn
    <3>5. InHand'
      BY <2>1, <3>1, <3>3 DEF OwnInv, InHand, Working
    <3>6. QED
      BY <3>4, <3>5 DEF OwnInv
  <2>4. CASE starting_from[t] <= queries /\ ~taken[starting_from[t]]
    <3>1. at' = [at EXCEPT ![t] = "cas"] /\ UNCHANGED starting_from
      BY <1>0, <1>2, <2>4 DEF NextQuery
    <3>2. starting_from[t] \in QueryList
      BY <1>0, <2>4
    <3>3. QED
      BY <2>1, <3>1, <3>2, MoveOwn DEF Places, Working
  <2>5. QED
    BY <1>0, <2>2, <2>3, <2>4
<1>3. CASE Take(t)
  <2>1. CASE taken[starting_from[t]]
    BY <1>3, <2>1, MoveOwn DEF Take, Places, Working
  <2>2. CASE ~taken[starting_from[t]]
    BY <1>3, <2>2, TakeOwn
  <2>3. QED
    BY <2>1, <2>2
<1>4. CASE Oracle(t) \/ TableInserted(t) \/ SetBudget(t)
  <2>1. PICK place \in {"budget", "table", "segments"} : at' = [at EXCEPT ![t] = place]
    BY <1>4 DEF Oracle, TableInserted, SetBudget
  <2>2. at[t] \in Working /\ UNCHANGED << starting_from, query, output, taken, took >>
    BY <1>4 DEF Oracle, TableInserted, SetBudget, Working
  <2>3. QED
    BY <2>1, <2>2, MoveOwn DEF Places, Working
<1>5. CASE Segment(t)
  <2>1. /\ at[t] = "segments"
        /\ at' = at \/ at' = [at EXCEPT ![t] = "store"]
        /\ UNCHANGED << starting_from, query, output, taken, took >>
    BY <1>5 DEF Segment
  <2>2. at' = at => at' = [at EXCEPT ![t] = "segments"]
    BY <2>1 DEF OwnInv, OwnTyped
  <2>3. PICK place \in {"segments", "store"} : at' = [at EXCEPT ![t] = place]
    BY <2>1, <2>2
  <2>4. QED
    BY <2>1, <2>3, MoveOwn DEF Places, Working
<1>6. CASE Store(t)
  BY <1>6, StoreOwn
<1>7. QED
  BY <1>1, <1>2, <1>3, <1>4, <1>5, <1>6 DEF Thread

\* OwnInv is an invariant, whatever the caller and the other threads do.
LEMMA OwnAlways == Spec => []OwnInv
<1>1. Init => OwnInv
  <2> SUFFICES ASSUME Init PROVE OwnInv
    OBVIOUS
  <2> USE ThreadsAssumption DEF Init
  <2>1. OwnTyped
    <3>1. at \in [Threads -> Places] /\ query \in [Threads -> QueryList \cup {Nothing}]
      BY DEF Places
    <3>2. starting_from \in [Threads -> 1 .. queries + 1]
      OBVIOUS
    <3>3. taken \in [QueryList -> BOOLEAN] /\ took \in [QueryList -> SUBSET Threads]
      OBVIOUS
    <3>4. output = [t \in Threads |-> [id \in Ids |-> output[t][id]]]
      OBVIOUS
    <3>5. \A t \in Threads, id \in Ids : output[t][id] = Nothing
      OBVIOUS
    <3>6. QED
      BY <3>1, <3>2, <3>3, <3>4, <3>5 DEF OwnTyped
  <2>2. FlagsTrue /\ TakenOnce /\ InHand
    BY DEF FlagsTrue, TakenOnce, InHand, Working
  <2>3. ResultsAreOwn
    BY DEF ResultsAreOwn
  <2>4. QED
    BY <2>1, <2>2, <2>3 DEF OwnInv
<1>2. OwnInv /\ [Next]_vars => OwnInv'
  <2> SUFFICES ASSUME OwnInv, [Next]_vars PROVE OwnInv'
    OBVIOUS
  <2>1. CASE UNCHANGED << at, starting_from, query, output, taken, took >>
    BY <2>1 DEF OwnInv, OwnTyped, FlagsTrue, TakenOnce, InHand, ResultsAreOwn
  <2>2. CASE StartThread
    <3>1. at' = [at EXCEPT ![started] = "local"]
      BY <2>2 DEF StartThread, Goto
    <3>2. UNCHANGED << starting_from, query, output, taken, took >>
      BY <2>2 DEF StartThread, local_vars, shared, history
    <3>3. CASE started \in Threads
      BY <3>1, <3>2, <3>3, MoveOwn DEF Places, Working
    <3>4. CASE started \notin Threads
      <4>1. at' = at
        BY <3>1, <3>4 DEF OwnInv, OwnTyped
      <4>2. QED
        BY <2>1, <3>2, <4>1
    <3>5. QED
      BY <3>3, <3>4
  <2>3. CASE \E t \in Threads : Thread(t)
    BY <2>3, ThreadOwn
  <2>4. CASE AllStarted \/ Join \/ Return \/ Undefined \/ Done \/ UNCHANGED vars
    BY <2>1, <2>4 DEF AllStarted, Join, Return, Undefined, Done, vars, local_vars, shared,
                      history
  <2>5. QED
    BY <2>2, <2>3, <2>4 DEF Next, Main
<1>3. QED
  BY <1>1, <1>2, PTL DEF Spec

\* However many threads run and however they interleave between the test of a taken
\* flag and its compare-and-swap, no query is taken by two of them.
THEOREM QueriesTakenOnce == Spec => []TakenOnce
<1>1. OwnInv => TakenOnce
  BY DEF OwnInv
<1>2. QED
  BY <1>1, OwnAlways, PTL

\* The outputs that the caller merges after the joins hold nothing but results of
\* queries that their own thread took, each under the id of its query.
THEOREM ResultsBelongToTaker == Spec => []ResultsAreOwn
<1>1. OwnInv => ResultsAreOwn
  BY DEF OwnInv
<1>2. QED
  BY <1>1, OwnAlways, PTL
=============================================================================
