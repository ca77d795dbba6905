-------------------------- MODULE AnytimeAPIProofs --------------------------
(***************************************************************************)
(* That the query objects of the threads agree with the session, that the  *)
(* budget stays what it was set to and what can end a session that has     *)
(* loaded an index, for any limits, directories and arguments.  The        *)
(* invariant that is inductive also says that there are no objects before  *)
(* there is an index: that is what makes the guards of set_top_k() and     *)
(* set_accumulator_width() enough.                                         *)
(***************************************************************************)
EXTENDS AnytimeAPI, TLAPS

IInv ==
  /\ TypeOK
  /\ ObjectsAgree
  /\ index = None => \A t \in Thread : thread_local_data[t] = None

\* Zero is the number of a thread, since search() of one query uses it.
LEMMA ThreadZero == 0 \in Thread /\ Thread \subseteq Nat
<1>1. 0 \in 0 .. 1 - 1
  OBVIOUS
<1>2. 0 \in Thread
  BY <1>1 DEF Thread
<1>3. ASSUME NEW t \in Thread PROVE t \in Nat
  <2>1. PICK n \in ThreadCounts \cup {1} : t \in 0 .. n - 1
    BY DEF Thread
  <2>2. n \in Nat
    BY APIAssumption
  <2>3. QED
    BY <2>1, <2>2
<1>4. QED
  BY <1>2, <1>3

\* What read_index() makes is an index.
LEMMA ReadIndexIsIndex ==
  ASSUME NEW d \in Directories
  PROVE  read_index(d) \in Indexes /\ read_index(d) # None
<1>1. d.keys \in Nat /\ d.postings \in BOOLEAN /\ d.vocab \in BOOLEAN
  BY APIAssumption
<1>2. read_index(d) \in Indexes
  BY <1>1 DEF read_index, Indexes
<1>3. QED
  BY <1>2, APIAssumption

\* The query object for an index has the type of one.
LEMMA ObjectTyped ==
  ASSUME TypeOK, NEW i \in Indexes
  PROVE  Object(i) \in Objects
<1>1. top_k \in Nat /\ accumulator_width \in Nat
  BY APIAssumption DEF TypeOK
<1>2. i.documents \in Nat
  BY DEF Indexes
<1>3. QED
  BY <1>1, <1>2 DEF Object, Objects

\* A share of a natural number is one.
LEMMA Share ==
  ASSUME NEW n \in Nat, NEW percent \in Nat
  PROVE  (n * percent) \div 100 \in Nat
<1>1. n * percent \in Nat
  OBVIOUS
<1>2. \A m \in Nat : m \div 100 \in Nat
  OBVIOUS
<1>3. QED
  BY <1>1, <1>2

\* What get_thread_local_data() does: nothing for a thread that has its entry, and else
\* it makes the object or throws.
LEMMA EntryKinds ==
  ASSUME NEW i, NEW t, NEW entry \in get_thread_local_data(i, t)
  PROVE  \/ entry[2] = "nothing" /\ thread_local_data[t] # None
         \/ entry[2] = "nothing" /\ entry[1] = Object(i) /\ Fits(i)
         \/ entry[2] = "memory" /\ entry[1] \in {None, Half}
         \/ entry[2] = "width" /\ entry[1] = Half /\ ~Fits(i)
<1>1. CASE thread_local_data[t] # None
  BY <1>1 DEF get_thread_local_data
<1>2. CASE thread_local_data[t] = None
  <2>1. entry \in {<< None, "memory" >>, << Half, "memory" >>,
                   IF Fits(i) THEN << Object(i), "nothing" >> ELSE << Half, "width" >>}
    BY <1>2 DEF get_thread_local_data
  <2>2. CASE entry \in {<< None, "memory" >>, << Half, "memory" >>}
    BY <2>2
  <2>3. CASE Fits(i) /\ entry = << Object(i), "nothing" >>
    BY <2>3
  <2>4. CASE ~Fits(i) /\ entry = << Half, "width" >>
    BY <2>4
  <2>5. QED
    BY <2>1, <2>2, <2>3, <2>4
<1>3. QED
  BY <1>1, <1>2

\* What has gone wrong is never forgotten.
LEMMA NotedGrows ==
  ASSUME TypeOK, NEW threw \in Causes \cup {"nothing"}, Noted(threw)
  PROVE  /\ trouble' \subseteq Causes /\ trouble \subseteq trouble'
         /\ threw # "nothing" => threw \in trouble'
BY DEF TypeOK, Noted

\* The constructor.
LEMMA InitInv == Init => IInv
<1>1. ASSUME Init PROVE TypeOK
  <2>1. 10 \in 0 .. MAX_TOP_K /\ 0 \in 0 .. MAX_WIDTH /\ MAX_SIZE \in Nat
    BY APIAssumption
  <2>2. thread_local_data \in [Thread -> Objects \cup {None, Half}]
    BY <1>1 DEF Init
  <2>3. trouble \subseteq Causes /\ asked \in Nat \cup {None}
    BY <1>1, <2>1 DEF Init
  <2>4. QED
    BY <1>1, <2>1, <2>2, <2>3 DEF Init, TypeOK, Errors
<1>2. ASSUME Init PROVE \A t \in Thread : thread_local_data[t] = None
  BY <1>2 DEF Init
<1>3. QED
  BY <1>1, <1>2 DEF IInv, ObjectsAgree

\* A call that returns an error and nothing else.
LEMMA RefuseInv ==
  ASSUME IInv, NEW e \in Errors, Refuse(e)
  PROVE  IInv'
<1>1. TypeOK'
  BY DEF IInv, TypeOK, Refuse, budget, settings, objects, history
<1>2. ObjectsAgree' /\ (index = None => \A t \in Thread : thread_local_data[t] = None)'
  BY DEF IInv, ObjectsAgree, Object, Refuse, settings, objects
<1>3. QED
  BY <1>1, <1>2 DEF IInv

\* The process ends, and what it leaves is not followed further.
LEMMA EndsInv ==
  ASSUME IInv, NEW cause \in Causes \cup {"nothing"}, EndsBy(cause)
  PROVE  IInv'
<1>1. trouble' \subseteq Causes
  BY NotedGrows DEF EndsBy, IInv
<1>2. TypeOK'
  BY <1>1 DEF IInv, TypeOK, EndsBy, budget, settings, objects
<1>3. ObjectsAgree' /\ (index = None => \A t \in Thread : thread_local_data[t] = None)'
  BY DEF IInv, ObjectsAgree, Object, EndsBy, settings, objects
<1>4. QED
  BY <1>2, <1>3 DEF IInv

\* What the settings may be changed to while there is no index.
LEMMA SettingInv ==
  ASSUME IInv, index = None, UNCHANGED objects, TypeOK'
  PROVE  IInv'
BY DEF IInv, ObjectsAgree, objects

\* A change of the budget.
LEMMA BudgetInv ==
  ASSUME IInv, UNCHANGED << objects, settings >>, TypeOK'
  PROVE  IInv'
BY DEF IInv, ObjectsAgree, Object, objects, settings
-----------------------------------------------------------------------------
\* load_index(), which runs only when there are no objects and makes that of thread 0.
LEMMA LoadInv ==
  ASSUME IInv, NEW version \in 1 .. 3, NEW d \in Directories, load_index(version, d)
  PROVE  IInv'
<1> DEFINE i == read_index(d)
<1>1. i \in Indexes /\ i # None
  BY ReadIndexIsIndex
<1>2. CASE \E e \in Errors : Refuse(e)
  BY <1>2, RefuseInv
<1>3. CASE /\ index = None /\ index' = i
           /\ \E entry \in get_thread_local_data(i, 0) :
                /\ thread_local_data' = [thread_local_data EXCEPT ![0] = entry[1]]
                /\ Noted(entry[2])
                /\ error' = IF entry[2] = "nothing" THEN "OK" ELSE "FAIL"
                /\ loaded' = (entry[2] = "nothing")
           /\ UNCHANGED << budget, settings, precomputed_minimum_rsv_table, alive, asked >>
  <2>1. PICK entry \in get_thread_local_data(i, 0) :
              /\ thread_local_data' = [thread_local_data EXCEPT ![0] = entry[1]]
              /\ Noted(entry[2])
              /\ error' = IF entry[2] = "nothing" THEN "OK" ELSE "FAIL"
              /\ loaded' = (entry[2] = "nothing")
    BY <1>3
  <2>2. thread_local_data[0] = None
    BY <1>3, ThreadZero DEF IInv
  <2>3. /\ entry[1] \in {Object(i), None, Half}
        /\ entry[2] \in Causes \cup {"nothing"}
    BY <2>2, EntryKinds DEF Causes
  <2>4. loaded' \in BOOLEAN /\ error' \in Errors
    BY <2>1 DEF Errors
  <2>5. Object(i) \in Objects /\ Object(i)' = Object(i)
    BY <1>1, <1>3, ObjectTyped DEF IInv, Object, settings
  <2>6. trouble' \subseteq Causes
    BY <2>1, <2>3, NotedGrows DEF IInv
  <2>7. thread_local_data' \in [Thread -> Objects \cup {None, Half}]
    BY <2>1, <2>3, <2>5 DEF IInv, TypeOK
  <2>8. TypeOK'
    <3>1. UNCHANGED << postings_to_process, postings_to_process_min,
                       relative_postings_to_process, top_k, accumulator_width,
                       which_query_parser, precomputed_minimum_rsv_table, alive, asked >>
      BY <1>3 DEF budget, settings
    <3>2. QED
      BY <1>1, <1>3, <2>4, <2>6, <2>7, <3>1 DEF IInv, TypeOK
  <2>9. ASSUME NEW t \in Thread, thread_local_data'[t] \notin {None, Half}
        PROVE  thread_local_data'[t] = Object(i)
    <3>1. thread_local_data[t] = None
      BY <1>3 DEF IInv
    <3>2. thread_local_data'[t] = IF t = 0 THEN entry[1] ELSE thread_local_data[t]
      BY <2>1 DEF IInv, TypeOK
    <3>3. QED
      BY <2>3, <2>9, <3>1, <3>2
  <2>10. ObjectsAgree'
    BY <1>1, <1>3, <2>5, <2>9 DEF ObjectsAgree, Object
  <2>11. QED
    BY <1>1, <1>3, <2>8, <2>10 DEF IInv
<1>4. CASE /\ index = None
           /\ index' \in {None, [documents |-> 0, complete |-> FALSE],
                          [documents |-> d.keys, complete |-> FALSE]}
           /\ error' \in {"FAIL", "TOO_MANY_DOCUMENTS"}
           /\ Noted("memory") \/ trouble' = trouble
           /\ UNCHANGED << budget, settings, precomputed_minimum_rsv_table,
                           thread_local_data, alive, loaded, asked >>
  <2>1. d.keys \in Nat
    BY APIAssumption
  <2>2. index' \in Indexes \cup {None}
    <3>1. \A n \in Nat : [documents |-> n, complete |-> FALSE] \in Indexes
      BY DEF Indexes
    <3>2. QED
      BY <1>4, <2>1, <3>1
  <2>3. TypeOK'
    <3>1. trouble' \subseteq Causes
      BY <1>4, NotedGrows DEF IInv, TypeOK, Causes
    <3>2. QED
      BY <1>4, <2>2, <3>1 DEF IInv, TypeOK, Errors, budget, settings
  <2>4. \A t \in Thread : thread_local_data'[t] = None
    BY <1>4 DEF IInv
  <2>5. QED
    BY <2>3, <2>4 DEF IInv, ObjectsAgree
<1>5. QED
  <2>1. {"INDEX_ALREADY_LOADED", "BAD_INDEX_VERSION"} \subseteq Errors
    BY DEF Errors
  <2>2. QED
    BY <1>2, <1>3, <1>4, <2>1 DEF load_index, history

\* A search that is answered: the objects that it makes are for the session as it is.
LEMMA AnsweredInv ==
  ASSUME IInv, index # None, NEW n \in Nat, NEW total \in Nat, Answered(n, total)
  PROVE  IInv'
<1>1. index \in Indexes /\ index' = index
  BY DEF IInv, TypeOK, Answered
<1>2. Object(index) \in Objects
  BY <1>1, ObjectTyped DEF IInv
<1>3. Object(index)' = Object(index)
  BY <1>1 DEF Object, Answered, settings
<1>4. thread_local_data' \in [Thread -> Objects \cup {None, Half}]
  BY <1>2 DEF Answered, IInv, TypeOK
<1>5. postings_to_process' \in Nat
  BY Share DEF Answered, BudgetAfter, IInv, TypeOK
<1>6. TypeOK'
  <2>1. UNCHANGED << postings_to_process_min, relative_postings_to_process, top_k,
                     accumulator_width, which_query_parser, precomputed_minimum_rsv_table,
                     alive, trouble, loaded, asked >>
    BY DEF Answered, settings, history
  <2>2. error' \in Errors
    BY DEF Answered, Errors
  <2>3. QED
    BY <1>1, <1>4, <1>5, <2>1, <2>2 DEF IInv, TypeOK
<1>7. ASSUME NEW t \in Thread, thread_local_data'[t] \notin {None, Half}
      PROVE  thread_local_data'[t] = Object(index)
  BY <1>7 DEF Answered, IInv, ObjectsAgree
<1>8. QED
  BY <1>1, <1>3, <1>6, <1>7 DEF IInv, ObjectsAgree

\* A search whose thread 0 cannot have its object.
LEMMA ExceptionInv ==
  ASSUME IInv, index # None, Exception
  PROVE  IInv'
<1>0. PICK threw \in get_thread_local_data(index, 0) :
             /\ threw[2] # "nothing" /\ Noted(threw[2])
             /\ thread_local_data' = [thread_local_data EXCEPT ![0] = threw[1]]
  BY DEF Exception
<1>1. PICK entry \in {None, Half} :
             thread_local_data' = [thread_local_data EXCEPT ![0] = entry]
  BY <1>0, EntryKinds
<1>2. thread_local_data' \in [Thread -> Objects \cup {None, Half}]
  BY <1>1 DEF IInv, TypeOK
<1>3. trouble' \subseteq Causes
  <2>1. threw[2] \in Causes
    BY <1>0, EntryKinds DEF Causes
  <2>2. QED
    BY <1>0, <2>1, NotedGrows DEF IInv
<1>4. TypeOK'
  BY <1>2, <1>3 DEF Exception, IInv, TypeOK, Errors, budget, settings
<1>5. index' = index /\ Object(index)' = Object(index)
  BY DEF Exception, Object, settings
<1>6. ASSUME NEW t \in Thread, thread_local_data'[t] \notin {None, Half}
      PROVE  thread_local_data'[t] = Object(index)
  <2>1. thread_local_data'[t] = thread_local_data[t]
    BY <1>1, <1>6 DEF IInv, TypeOK
  <2>2. QED
    BY <1>6, <2>1 DEF IInv, ObjectsAgree
<1>7. QED
  BY <1>4, <1>5, <1>6 DEF IInv, ObjectsAgree

\* A search that ends the process.
LEMMA EndedInv ==
  ASSUME IInv, NEW n, Terminate(n) \/ Undefined(n)
  PROVE  IInv'
<1>1. CASE Terminate(n)
  <2>1. PICK t \in 0 .. n - 1 : \E entry \in get_thread_local_data(index, t) :
               entry[2] # "nothing" /\ EndsBy(entry[2])
    BY <1>1 DEF Terminate
  <2>2. PICK entry \in get_thread_local_data(index, t) :
               entry[2] # "nothing" /\ EndsBy(entry[2])
    BY <2>1
  <2>3. entry[2] \in Causes
    BY <2>2, EntryKinds DEF Causes
  <2>4. QED
    BY <2>2, <2>3, EndsInv
<1>2. CASE Undefined(n)
  <2>1. \E cause \in {"nothing", "race", "promote"} : EndsBy(cause)
    BY <1>2 DEF Undefined
  <2>2. QED
    BY <2>1, EndsInv DEF Causes
<1>3. QED
  BY <1>1, <1>2

\* The searches.
LEMMA SearchInv ==
  ASSUME IInv, NEW n \in Nat, NEW total \in Nat,
         search_list(n, total) \/ search(total) \/ search_empty
  PROVE  IInv'
<1>1. 1 \in Nat
  OBVIOUS
<1>2. CASE index = None
  <2>1. Refuse("NO_INDEX")
    BY <1>2 DEF search_list, search, search_empty
  <2>2. "NO_INDEX" \in Errors
    BY DEF Errors
  <2>3. QED
    BY <2>1, <2>2, RefuseInv
<1>3. CASE index # None
  <2>1. \/ \E m \in {1, n} : Answered(m, total) \/ Undefined(m) \/ Terminate(m)
        \/ Exception
        \/ EndsBy("empty")
    BY <1>3 DEF search_list, search, search_empty
  <2>2. CASE \E m \in {1, n} : Answered(m, total)
    BY <1>1, <1>3, <2>2, AnsweredInv
  <2>3. CASE \E m \in {1, n} : Undefined(m) \/ Terminate(m)
    BY <2>3, EndedInv
  <2>4. CASE Exception
    BY <1>3, <2>4, ExceptionInv
  <2>5. CASE EndsBy("empty")
    BY <2>5, EndsInv DEF Causes
  <2>6. QED
    BY <2>1, <2>2, <2>3, <2>4, <2>5
<1>4. QED
  BY <1>2, <1>3
-----------------------------------------------------------------------------
\* The calls that set the budget.
LEMMA BudgetCallsInv ==
  ASSUME IInv, NEW percent \in Nat, NEW count \in Nat,
         \/ set_postings_to_process_proportion(percent)
         \/ set_postings_to_process_proportion_minimum(percent)
         \/ set_postings_to_process_relative(percent)
         \/ set_postings_to_process(count)
         \/ set_postings_to_process_minimum(count)
  PROVE  IInv'
<1>1. CASE Refuse("NO_INDEX")
  BY <1>1, RefuseInv DEF Errors
<1>2. CASE ~Refuse("NO_INDEX")
  <2>1. error' = "OK" /\ UNCHANGED << settings, objects, alive, trouble, loaded >>
    BY <1>2 DEF set_postings_to_process_proportion,
       set_postings_to_process_proportion_minimum, set_postings_to_process_relative,
       set_postings_to_process, set_postings_to_process_minimum, SetBudget, history
  <2>2. index # None => (index.documents * percent) \div 100 \in Nat
    BY Share DEF IInv, TypeOK, Indexes
  <2>3. /\ postings_to_process' \in Nat /\ postings_to_process_min' \in Nat
        /\ relative_postings_to_process' \in Nat
        /\ asked' \in Nat \cup {None}
    BY <1>2, <2>2 DEF IInv, TypeOK, set_postings_to_process_proportion,
       set_postings_to_process_proportion_minimum, set_postings_to_process_relative,
       set_postings_to_process, set_postings_to_process_minimum, SetBudget, history
  <2>4. TypeOK'
    BY <2>1, <2>3 DEF IInv, TypeOK, Errors, settings, objects
  <2>5. QED
    BY <2>1, <2>4, BudgetInv
<1>3. QED
  BY <1>1, <1>2

\* The calls that set k and the width, which are refused once there is an index, and
\* the choice of a parser, which no object depends on.
LEMMA SettingCallsInv ==
  ASSUME IInv, NEW k \in Nat, NEW width \in Nat, NEW parser \in {"query", "raw"},
         set_top_k(k) \/ set_accumulator_width(width) \/ use_parser(parser)
  PROVE  IInv'
<1>1. MAX_TOP_K \in Nat /\ MAX_WIDTH \in Nat
  BY APIAssumption
<1>2. CASE \E e \in {"INDEX_ALREADY_LOADED", "TOO_LARGE"} : Refuse(e)
  BY <1>2, RefuseInv DEF Errors
<1>3. CASE /\ set_top_k(k) \/ set_accumulator_width(width)
           /\ ~ \E e \in {"INDEX_ALREADY_LOADED", "TOO_LARGE"} : Refuse(e)
  <2>1. index = None /\ UNCHANGED << objects, budget, history, which_query_parser >>
    BY <1>3 DEF set_top_k, set_accumulator_width
  <2>2. error' = "OK" /\ top_k' \in 0 .. MAX_TOP_K /\ accumulator_width' \in 0 .. MAX_WIDTH
    BY <1>1, <1>3 DEF set_top_k, set_accumulator_width, IInv, TypeOK
  <2>3. TypeOK'
    BY <2>1, <2>2 DEF IInv, TypeOK, Errors, budget, objects, history
  <2>4. QED
    BY <2>1, <2>3, SettingInv
<1>4. CASE use_parser(parser)
  <2>1. TypeOK'
    BY <1>4 DEF use_parser, IInv, TypeOK, Errors, budget, objects, history
  <2>2. QED
    BY <1>4, <2>1 DEF use_parser, IInv, ObjectsAgree, Object, objects
<1>5. QED
  BY <1>2, <1>3, <1>4 DEF set_top_k, set_accumulator_width

\* load_oracle_scores().
LEMMA OracleInv ==
  ASSUME IInv, load_oracle_scores
  PROVE  IInv'
<1>1. CASE EndsBy("nothing")
  BY <1>1, EndsInv
<1>2. CASE /\ precomputed_minimum_rsv_table' \in {"empty", "scores", "deleted"}
           /\ error' \in {"OK", "FAIL"} /\ (Noted("nothing") \/ Noted("memory"))
           /\ UNCHANGED << budget, settings, index, thread_local_data, alive, loaded, asked >>
  <2>1. trouble' \subseteq Causes
    BY <1>2, NotedGrows DEF IInv, Causes
  <2>2. TypeOK'
    BY <1>2, <2>1 DEF IInv, TypeOK, Errors, budget, settings
  <2>3. QED
    BY <1>2, <2>2 DEF IInv, ObjectsAgree, Object, settings
<1>3. QED
  BY <1>1, <1>2 DEF load_oracle_scores

\* IInv holds throughout a session.
LEMMA SessionInv == Spec => []IInv
<1>1. IInv /\ [Next]_vars => IInv'
  <2> SUFFICES ASSUME IInv, [Next]_vars
               PROVE  IInv'
    OBVIOUS
  <2>0. /\ Percents \subseteq Nat /\ Counts \subseteq Nat /\ Ks \subseteq Nat
        /\ Widths \subseteq Nat /\ ThreadCounts \subseteq Nat /\ Totals \subseteq Nat
        /\ 0 \in Nat /\ "query" \in {"query", "raw"}
    BY APIAssumption
  <2>1. CASE UNCHANGED vars
    BY <2>1 DEF vars, budget, settings, objects, history, IInv, TypeOK, ObjectsAgree, Object
  <2>2. ASSUME NEW version \in 1 .. 3, NEW d \in Directories, load_index(version, d)
        PROVE  IInv'
    BY <2>2, LoadInv
  <2>3. ASSUME NEW percent \in Percents,
               \/ set_postings_to_process_proportion(percent)
               \/ set_postings_to_process_proportion_minimum(percent)
               \/ set_postings_to_process_relative(percent)
        PROVE  IInv'
    BY <2>0, <2>3, BudgetCallsInv
  <2>4. ASSUME NEW count \in Counts,
               set_postings_to_process(count) \/ set_postings_to_process_minimum(count)
        PROVE  IInv'
    BY <2>0, <2>4, BudgetCallsInv
  <2>5. ASSUME NEW k \in Ks, set_top_k(k) PROVE IInv'
    BY <2>0, <2>5, SettingCallsInv
  <2>6. ASSUME NEW width \in Widths, set_accumulator_width(width) PROVE IInv'
    BY <2>0, <2>6, SettingCallsInv
  <2>7. ASSUME NEW parser \in {"query", "raw"}, use_parser(parser) PROVE IInv'
    BY <2>0, <2>7, SettingCallsInv
  <2>8. ASSUME NEW n \in ThreadCounts, NEW total \in Totals, search_list(n, total)
        PROVE  IInv'
    BY <2>0, <2>8, SearchInv
  <2>9. ASSUME NEW total \in Totals, search(total) PROVE IInv'
    BY <2>0, <2>9, SearchInv
  <2>10. CASE search_empty
    BY <2>0, <2>10, SearchInv
  <2>11. QED
    BY <2>1, <2>2, <2>3, <2>4, <2>5, <2>6, <2>7, <2>8, <2>9, <2>10, OracleInv DEF Next
<1>2. QED
  BY InitInv, <1>1, PTL DEF Spec

\* Whatever calls a caller makes, and whichever allocations fail, the query object of
\* every thread is for the index, the k and the width of the session, and k is never
\* more than an object has room for.
THEOREM SessionAgrees == Spec => [](TypeOK /\ ObjectsAgree)
<1>1. IInv => TypeOK /\ ObjectsAgree
  BY DEF IInv
<1>2. QED
  BY <1>1, SessionInv, PTL
-----------------------------------------------------------------------------
\* A search changes the budget only if there is a relative one, and while there is one
\* the budget last set is not what a caller asked for.
BudgetKept == asked # None => relative_postings_to_process = 100 /\ postings_to_process = asked

\* Whichever of set_postings_to_process() and set_postings_to_process_proportion() was
\* called last holds for every search from then on, as long as no relative budget is set.
THEOREM LastBudgetStays == Spec => []LastBudgetHolds
<1>1. Init => BudgetKept
  BY DEF Init, BudgetKept
<1>2. BudgetKept /\ [Next]_vars => BudgetKept'
  <2> SUFFICES ASSUME BudgetKept, [Next]_vars PROVE BudgetKept'
    OBVIOUS
  <2> USE DEF BudgetKept
  <2>1. CASE UNCHANGED << budget, asked >>
    BY <2>1 DEF budget
  <2>2. CASE \E n : SetBudget(n)
    BY <2>2 DEF SetBudget
  <2>3. ASSUME NEW percent, set_postings_to_process_relative(percent) PROVE BudgetKept'
    BY <2>3 DEF set_postings_to_process_relative
  <2>4. ASSUME NEW n, NEW total, Answered(n, total) PROVE BudgetKept'
    BY <2>4 DEF Answered, BudgetAfter, history
  <2>5. ASSUME NEW percent, set_postings_to_process_proportion_minimum(percent)
        PROVE  BudgetKept'
    BY <2>5 DEF set_postings_to_process_proportion_minimum, Refuse, budget, history
  <2>6. ASSUME NEW count, set_postings_to_process_minimum(count) PROVE BudgetKept'
    BY <2>6 DEF set_postings_to_process_minimum, history
  <2>7. ASSUME NEW version, NEW d, load_index(version, d) PROVE BudgetKept'
    BY <2>1, <2>7 DEF load_index, Refuse, history
  <2>8. CASE load_oracle_scores
    BY <2>1, <2>8 DEF load_oracle_scores, EndsBy
  <2>9. ASSUME NEW k, set_top_k(k) \/ set_accumulator_width(k) \/ use_parser(k)
        PROVE  BudgetKept'
    BY <2>1, <2>9 DEF set_top_k, set_accumulator_width, use_parser, Refuse, history
  <2>10. ASSUME NEW n, NEW total, search_list(n, total) \/ search(total) \/ search_empty
         PROVE  BudgetKept'
    <3>1. \/ Refuse("NO_INDEX") \/ Exception \/ EndsBy("empty")
          \/ \E m : Answered(m, total) \/ Terminate(m) \/ Undefined(m)
      BY <2>10 DEF search_list, search, search_empty
    <3>2. CASE Refuse("NO_INDEX") \/ Exception \/ EndsBy("empty")
      BY <2>1, <3>2 DEF Refuse, Exception, EndsBy, history
    <3>3. CASE \E m : Terminate(m) \/ Undefined(m)
      BY <2>1, <3>3 DEF Terminate, Undefined, EndsBy
    <3>4. QED
      BY <2>4, <3>1, <3>2, <3>3
  <2>11. CASE UNCHANGED vars
    BY <2>1, <2>11 DEF vars, history
  <2>12. ASSUME NEW n, set_postings_to_process(n) \/ set_postings_to_process_proportion(n)
         PROVE  BudgetKept'
    BY <2>1, <2>2, <2>12 DEF set_postings_to_process, set_postings_to_process_proportion,
       Refuse, history
  <2>13. QED
    BY <2>3, <2>5, <2>6, <2>7, <2>8, <2>9, <2>10, <2>11, <2>12 DEF Next
<1>3. BudgetKept => LastBudgetHolds
  BY DEF BudgetKept, LastBudgetHolds
<1>4. QED
  BY <1>1, <1>2, <1>3, PTL DEF Spec
-----------------------------------------------------------------------------
\* Why a width that does not fit cannot end a session with a loaded index:
\* get_thread_local_data() has succeeded for that index and that width, which no
\* setter can change any more, so when it fails again it is for want of memory.
SafeInv ==
  /\ loaded => index # None /\ Fits(index)
  /\ precomputed_minimum_rsv_table = "deleted" => "memory" \in trouble
  /\ \A t \in Thread :
       thread_local_data[t] = Half =>
         index # None /\ ("memory" \in trouble \/ ~Fits(index))
  /\ LoadedIsSafe

\* load_index().
LEMMA LoadSafe ==
  ASSUME IInv, SafeInv, alive, NEW version, NEW d \in Directories, load_index(version, d)
  PROVE  SafeInv'
<1> DEFINE i == read_index(d)
<1>0. i # None /\ 0 \in Thread
  BY ReadIndexIsIndex, ThreadZero
<1> HIDE DEF i
<1>1. CASE \E e : Refuse(e)
  BY <1>1 DEF Refuse, SafeInv, LoadedIsSafe, Fits, settings, objects, history
<1>2. CASE /\ index = None /\ index' = i
           /\ \E entry \in get_thread_local_data(i, 0) :
                /\ thread_local_data' = [thread_local_data EXCEPT ![0] = entry[1]]
                /\ Noted(entry[2])
                /\ loaded' = (entry[2] = "nothing")
           /\ UNCHANGED << budget, settings, precomputed_minimum_rsv_table, alive, asked >>
  <2>1. PICK entry \in get_thread_local_data(i, 0) :
          /\ thread_local_data' = [thread_local_data EXCEPT ![0] = entry[1]]
          /\ Noted(entry[2])
          /\ loaded' = (entry[2] = "nothing")
    BY <1>2
  <2>2. \A t \in Thread : thread_local_data[t] = None
    BY <1>2 DEF IInv
  <2>3. Fits(i)' <=> Fits(i)
    BY <1>2 DEF Fits, settings, i
  <2>4. trouble \subseteq trouble'
    BY <2>1 DEF Noted
  <2>5. \/ entry[2] = "nothing" /\ entry[1] = Object(i) /\ Fits(i)
        \/ entry[2] = "memory"
        \/ entry[2] = "width" /\ ~Fits(i)
    BY <1>0, <2>2, EntryKinds
  <2>6. CASE entry[2] \in {"memory", "width"}
    <3>1. ~loaded' /\ ("memory" \in trouble' \/ ~Fits(i))
      BY <2>1, <2>5, <2>6 DEF Noted
    <3>2. QED
      BY <1>0, <1>2, <2>3, <2>4, <3>1 DEF SafeInv, LoadedIsSafe
  <2>7. CASE entry[2] = "nothing" /\ Fits(i) /\ entry[1] = Object(i)
    <3>1. Object(i) # Half
      BY APIAssumption, ReadIndexIsIndex, ObjectTyped DEF IInv, i
    <3>2. \A t \in Thread : thread_local_data'[t] # Half
      BY <1>0, <2>1, <2>2, <2>7, <3>1, APIAssumption DEF IInv, TypeOK
    <3>3. index' # None /\ Fits(index)'
      BY <1>0, <1>2, <2>3, <2>7 DEF Fits
    <3>4. QED
      BY <1>2, <2>4, <3>2, <3>3 DEF SafeInv, LoadedIsSafe
  <2>8. QED
    BY <2>5, <2>6, <2>7
<1>3. CASE /\ index = None
           /\ Noted("memory") \/ trouble' = trouble
           /\ UNCHANGED << budget, settings, precomputed_minimum_rsv_table, thread_local_data,
                           alive, loaded >>
  <2>1. trouble \subseteq trouble'
    BY <1>3 DEF Noted
  <2>2. ~loaded /\ \A t \in Thread : thread_local_data[t] = None
    BY <1>3 DEF SafeInv, IInv
  <2>3. QED
    BY <1>3, <2>1, <2>2, APIAssumption DEF SafeInv, LoadedIsSafe
<1> QED
  BY <1>1, <1>2, <1>3 DEF load_index, history, i

\* A call that leaves the objects, the width and the history alone.
LEMMA QuietSafe ==
  ASSUME SafeInv, UNCHANGED << objects, accumulator_width, alive, trouble, loaded >>
  PROVE  SafeInv'
BY DEF SafeInv, LoadedIsSafe, Fits, objects

\* The setters: the width changes only when there is no index, and then nothing is
\* loaded and no thread has an object.
LEMMA SettingSafe ==
  ASSUME SafeInv, NEW k, NEW width,
         set_top_k(k) \/ set_accumulator_width(width)
  PROVE  SafeInv'
<1>1. CASE UNCHANGED << objects, accumulator_width, history >>
  BY <1>1, QuietSafe DEF history
<1>2. CASE index = None /\ UNCHANGED << objects, history >>
  BY <1>2 DEF SafeInv, LoadedIsSafe, objects, history
<1>3. QED
  BY <1>1, <1>2 DEF set_top_k, set_accumulator_width, Refuse, settings

\* The end of the process: by one of the four causes, or by an object that was never
\* initialised or a table that was deleted, or before an index was loaded.
LEMMA EndsSafe ==
  ASSUME SafeInv, NEW cause, EndsBy(cause),
         \/ cause \in {"memory", "empty", "race", "promote"}
         \/ precomputed_minimum_rsv_table = "deleted"
         \/ \E t \in Thread : thread_local_data[t] = Half
         \/ ~loaded
  PROVE  SafeInv'
<1>1. trouble \subseteq trouble' /\ (cause # "nothing" => cause \in trouble')
  BY DEF EndsBy, Noted
<1>2. UNCHANGED << index, accumulator_width, precomputed_minimum_rsv_table,
                   thread_local_data, loaded >>
  BY DEF EndsBy, settings, objects
<1>3. loaded => trouble' \cap {"memory", "empty", "race", "promote"} # {}
  BY <1>1 DEF SafeInv
<1>4. QED
  BY <1>1, <1>2, <1>3 DEF SafeInv, LoadedIsSafe, Fits

\* get_thread_local_data() throws in a search: loaded says for which reason.
LEMMA ThrewSafe ==
  ASSUME SafeInv, NEW t, NEW entry \in get_thread_local_data(index, t),
         entry[2] # "nothing"
  PROVE  entry[2] = "memory" \/ (entry[2] = "width" /\ ~loaded /\ ~Fits(index))
BY EntryKinds DEF SafeInv

\* Searches.
LEMMA SearchSafe ==
  ASSUME IInv, SafeInv, alive, NEW n \in ThreadCounts \cup {1}, NEW total,
         search_list(n, total) \/ search(total) \/ search_empty
  PROVE  SafeInv'
<1>0. 0 .. n - 1 \subseteq Thread /\ 0 \in Thread /\ 0 .. 0 \subseteq Thread
  BY ThreadZero DEF Thread
<1>1. CASE \E e : Refuse(e)
  BY <1>1, QuietSafe DEF Refuse, settings, history
<1>2. ASSUME index # None, NEW m \in ThreadCounts \cup {1}, Answered(m, total)
      PROVE  SafeInv'
  <2>1. index \in Indexes /\ Object(index) # Half
    BY <1>2, ObjectTyped, APIAssumption DEF IInv, TypeOK
  <2>2. \A t \in Thread : thread_local_data'[t] = Half => thread_local_data[t] = Half
    BY <1>2, <2>1 DEF Answered
  <2>3. QED
    BY <1>2, <2>2 DEF Answered, SafeInv, LoadedIsSafe, Fits, settings, history
<1>3. CASE index # None /\ Exception
  <2>1. PICK entry \in get_thread_local_data(index, 0) :
               entry[2] # "nothing" /\ Noted(entry[2])
    BY <1>3 DEF Exception
  <2>2. entry[2] = "memory" \/ (~loaded /\ ~Fits(index))
    BY <2>1, ThrewSafe
  <2>3. UNCHANGED << index, accumulator_width, precomputed_minimum_rsv_table, alive, loaded >>
    BY <1>3 DEF Exception, settings
  <2>4. trouble \subseteq trouble' /\ ("memory" \in trouble' \/ ~Fits(index))
    BY <2>1, <2>2 DEF Noted
  <2>5. QED
    BY <1>3, <2>3, <2>4 DEF SafeInv, LoadedIsSafe, Fits
<1>4. CASE index # None /\ Terminate(n)
  <2>1. PICK t \in 0 .. n - 1 : \E entry \in get_thread_local_data(index, t) :
               entry[2] # "nothing" /\ EndsBy(entry[2])
    BY <1>4 DEF Terminate
  <2>2. PICK entry \in get_thread_local_data(index, t) :
               entry[2] # "nothing" /\ EndsBy(entry[2])
    BY <2>1
  <2>3. entry[2] = "memory" \/ ~loaded
    BY <2>2, ThrewSafe
  <2>4. QED
    BY <2>2, <2>3, EndsSafe
<1>5. ASSUME NEW m \in {1, n}, Undefined(m)
      PROVE  SafeInv'
  <2>1. 0 .. m - 1 \subseteq Thread
    BY <1>0
  <2>2. \E cause : /\ EndsBy(cause)
                   /\ \/ cause \in {"race", "promote"}
                      \/ precomputed_minimum_rsv_table = "deleted"
                      \/ \E t \in Thread : thread_local_data[t] = Half
    BY <1>5, <2>1 DEF Undefined
  <2>3. QED
    BY <2>2, EndsSafe
<1>6. CASE EndsBy("empty")
  BY <1>6, EndsSafe
<1>7. QED
  BY <1>1, <1>2, <1>3, <1>4, <1>5, <1>6 DEF search_list, search, search_empty

\* A process ends, once an index has been loaded, only for want of memory, by a search
\* for the empty string, by two threads in one map or by promote() of a document that is
\* not in the heap: never because the width of the accumulators did not fit.
THEOREM LoadedSessionIsSafe == Spec => []LoadedIsSafe
<1>1. Init => SafeInv
  BY APIAssumption DEF Init, SafeInv, LoadedIsSafe
<1>2. IInv /\ SafeInv /\ [Next]_vars => SafeInv'
  <2> SUFFICES ASSUME IInv, SafeInv, [Next]_vars PROVE SafeInv'
    OBVIOUS
  <2>1. CASE UNCHANGED vars
    BY <2>1, QuietSafe DEF vars, settings, history
  <2>2. ASSUME alive, NEW version \in 1 .. 3, NEW d \in Directories, load_index(version, d)
        PROVE  SafeInv'
    BY <2>2, LoadSafe
  <2>3. CASE load_oracle_scores
    <3>1. CASE precomputed_minimum_rsv_table = "deleted" /\ EndsBy("nothing")
      BY <3>1, EndsSafe
    <3>2. CASE /\ \/ precomputed_minimum_rsv_table' \in {"empty", "scores"} /\ Noted("nothing")
                  \/ precomputed_minimum_rsv_table' = "deleted" /\ Noted("memory")
               /\ UNCHANGED << settings, index, thread_local_data, alive, loaded >>
      <4>1. /\ trouble \subseteq trouble'
            /\ precomputed_minimum_rsv_table' = "deleted" => "memory" \in trouble'
        BY <3>2 DEF Noted
      <4>2. QED
        BY <3>2, <4>1 DEF SafeInv, LoadedIsSafe, Fits, settings
    <3>3. QED
      BY <2>3, <3>1, <3>2 DEF load_oracle_scores
  <2>4. ASSUME NEW percent \in Percents,
               \/ set_postings_to_process_proportion(percent)
               \/ set_postings_to_process_proportion_minimum(percent)
               \/ set_postings_to_process_relative(percent)
        PROVE  SafeInv'
    BY <2>4, QuietSafe DEF set_postings_to_process_proportion, SetBudget, Refuse, settings,
         history, set_postings_to_process_proportion_minimum, set_postings_to_process_relative
  <2>5. ASSUME NEW count \in Counts,
               set_postings_to_process(count) \/ set_postings_to_process_minimum(count)
        PROVE  SafeInv'
    BY <2>5, QuietSafe DEF set_postings_to_process, SetBudget, set_postings_to_process_minimum,
         settings, history
  <2>6. ASSUME NEW k \in Ks, set_top_k(k) PROVE SafeInv'
    BY <2>6, SettingSafe
  <2>7. ASSUME NEW width \in Widths, set_accumulator_width(width) PROVE SafeInv'
    BY <2>7, SettingSafe
  <2>8. ASSUME NEW parser \in {"query", "raw"}, use_parser(parser) PROVE SafeInv'
    BY <2>8, QuietSafe DEF use_parser, history
  <2>9. ASSUME alive, NEW n \in ThreadCounts, NEW total \in Totals, search_list(n, total)
        PROVE  SafeInv'
    BY <2>9, SearchSafe
  <2>10. ASSUME alive, NEW total \in Totals, search(total) PROVE SafeInv'
    BY <2>10, SearchSafe
  <2>11. CASE alive /\ search_empty
    BY <2>11, SearchSafe
  <2>12. QED
    BY <2>1, <2>2, <2>3, <2>4, <2>5, <2>6, <2>7, <2>8, <2>9, <2>10, <2>11 DEF Next
<1>3. SafeInv => LoadedIsSafe
  BY DEF SafeInv
<1>4. QED
  BY <1>1, <1>2, <1>3, SessionInv, PTL DEF Spec
=============================================================================
