---------------------------- MODULE AnytimeQuery ----------------------------
(***************************************************************************)
(* How JASS_anytime_api::anytime() (anytime/JASS_anytime_api.cpp) resolves *)
(* a query, Score-at-a-Time: the impact segments of all its terms, highest *)
(* impact first, until the budget of postings is used up or, with an       *)
(* oracle, the heap is full.  The heap is that of QueryHeap.               *)
(*                                                                         *)
(* A query is what its terms have in the index: for each term the impact   *)
(* that it has in each document (times its frequency in the query), 0 if   *)
(* it is not in the document.  A segment is a term and one of its impacts. *)
(***************************************************************************)
EXTENDS QueryHeap, FiniteSetsExt, Sequences, Functions

CONSTANTS
  Terms,       \* the terms of a query; their number is query_terms_count
  Predictions, \* the scores of the oracle's table, each a uint32_t
  Budgets,     \* values of postings_to_process
  Minimums     \* values of postings_to_process_min

ASSUME QueryAssumption ==
  /\ IsFiniteSet(Terms) /\ Predictions \subseteq Nat
  /\ Budgets \subseteq Nat /\ Minimums \subseteq Nat

VARIABLES
  query,               \* the impact of each term in each document; asked repeatedly
  segment_order,       \* the segments, sorted
  header,              \* the segment of the loop, from 1
  buffer,              \* its documents that are still to be processed
  postings_processed,
  postings_to_process,
  postings_to_process_min,
  rounds_down,         \* how the double arithmetic of the scaling comes out
  at                   \* where anytime() is

settings == << postings_to_process, postings_to_process_min, rounds_down >>
anytime_vars == << vars, query, segment_order, header, buffer, postings_processed,
                   settings, at >>
-----------------------------------------------------------------------------
\* get_segment_list(): the segments of a term, and the sum of the largest impacts.
DocsOf(q, s) == {d \in Docs : q[s.term][d] = s.impact}

Segments(q) == {s \in [term : Terms, impact : Impacts] : DocsOf(q, s) # {}}

segment_frequency(q, s) == Cardinality(DocsOf(q, s))

largest_possible_rsv(q) == SumFunction([t \in Terms |-> Max(Range(q[t]))])

\* The comparison of std::sort: high impacts first, short segments first.
Before(q, r, s) ==
  \/ r.impact > s.impact
  \/ r.impact = s.impact /\ segment_frequency(q, r) < segment_frequency(q, s)

Orders(q) ==
  {o \in Injection(1 .. Cardinality(Segments(q)), Segments(q)) :
     \A i \in 1 .. Len(o) - 1 : ~Before(q, o[i + 1], o[i])}

\* Scaling that adds one without making room for it: one per term.
ImpactNoRoom(q, impact) ==
  LET largest == largest_possible_rsv(q)
  IN  IF largest <= MAX_RSV THEN impact ELSE ((impact * MAX_RSV) \div largest) + 1

\* The impact of a segment, scaled down if the largest possible score would not
\* fit an accumulator.  impact / largest * room is computed in doubles: where it
\* is a whole number it may come out just below.
Impact(q, impact) ==
  LET largest == largest_possible_rsv(q)
      room == impact * (MAX_RSV - Cardinality(Terms))
      exact == room % largest = 0 /\ room > 0
  IN  IF largest <= MAX_RSV THEN impact
      ELSE (room \div largest) + (IF exact /\ rounds_down THEN 0 ELSE 1)

AnytimeInit ==
  /\ accumulators = [d \in Docs |-> 0]
  /\ heap = {} /\ root = NoDocument /\ needed_for_top_k = top_k
  /\ top_k_lower_bound = 1 /\ heap_entry_point = 1 /\ from = 0
  /\ phase = "sorted" /\ oracle = 1 /\ lost = FALSE
  /\ query \in [Terms -> [Docs -> {0} \cup Impacts]]
  /\ segment_order = << >> /\ header = 1 /\ buffer = {}
  /\ postings_processed = 0
  /\ postings_to_process \in Budgets
  /\ postings_to_process_min \in Minimums
  /\ rounds_down \in BOOLEAN
  /\ at = "idle"

\* The heap is rewound without the oracle's score.
StartNoBound(rsv_at_k) ==
  /\ at = "idle"
  /\ segment_order' \in Orders(query)
  /\ rewind(IF rsv_at_k = 0 THEN 1 ELSE rsv_at_k, 1)
  /\ header' = 1 /\ buffer' = {} /\ postings_processed' = 0
  /\ at' = "segments"
  /\ UNCHANGED << query, settings >>

\* A query is parsed, its segments are sorted, and its heap is rewound with the
\* oracle's score (0 if it does not know the query), at least 1, as an ACCUMULATOR_TYPE:
\* a score that is too wide loses its high bits.
Start(rsv_at_k) ==
  /\ at = "idle"
  /\ segment_order' \in Orders(query)
  /\ LET bound == IF rsv_at_k = 0 THEN 1 ELSE rsv_at_k
     IN  rewind(bound, bound % (MAX_RSV + 1))
  /\ header' = 1 /\ buffer' = {} /\ postings_processed' = 0
  /\ at' = "segments"
  /\ UNCHANGED << query, settings >>

\* The budget test that asks only whether it is used up already.
InBudgetYet(s) == postings_processed < postings_to_process

InBudget(s) == postings_processed + segment_frequency(query, s) <= postings_to_process

\* The head of the loop: is there a segment, and does it fit the budget?
NextSegment ==
  /\ at = "segments"
  /\ IF header > Len(segment_order) THEN
       at' = "resolved" /\ UNCHANGED << buffer, postings_processed >>
     ELSE LET s == segment_order[header]
          IN  IF InBudget(s)
              THEN /\ postings_processed' = postings_processed + segment_frequency(query, s)
                   /\ buffer' = DocsOf(query, s)
                   /\ at' = "postings"
              ELSE at' = "resolved" /\ UNCHANGED << buffer, postings_processed >>
  /\ UNCHANGED << vars, query, segment_order, header, settings >>

\* One document of decode_with_writer()'s loop, which Done ends.
Posting ==
  /\ at = "postings" /\ buffer # {}
  /\ LET d == Min(buffer)
         done == needed_for_top_k = 1 /\ needed_for_top_k' = 0 /\ top_k_lower_bound # 1
     IN  /\ add_rsv(d, Impact(query, segment_order[header].impact))
         /\ buffer' = IF done THEN {} ELSE buffer \ {d}
  /\ UNCHANGED << query, segment_order, header, postings_processed, settings, at >>

size == top_k - needed_for_top_k

FullHeap == /\ oracle > 1 /\ size >= top_k
            /\ postings_processed >= postings_to_process_min

\* The end of the loop's body.
EndSegment ==
  /\ at = "postings" /\ buffer = {} /\ ~lost
  /\ IF FullHeap THEN at' = "resolved" /\ UNCHANGED header
                 ELSE at' = "segments" /\ header' = header + 1
  /\ UNCHANGED << vars, query, segment_order, buffer, postings_processed, settings >>

TopUp ==
  /\ at = "resolved"
  /\ top_up \/ TopUpStep
  /\ UNCHANGED << query, segment_order, header, buffer, postings_processed, settings,
                  at >>

\* sort(), and the results are exported.
Finish ==
  /\ at = "resolved"
  /\ sort
  /\ at' = "idle"
  /\ UNCHANGED << query, segment_order, header, buffer, postings_processed, settings >>

AnytimeNext ==
  \/ \E rsv_at_k \in Predictions \cup {0} : Start(rsv_at_k)
  \/ NextSegment \/ Posting \/ EndSegment \/ TopUp \/ Finish

AnytimeSpec == AnytimeInit /\ [][AnytimeNext]_anytime_vars
-----------------------------------------------------------------------------
\* The score of a document in the first n segments, and in all of them.
ScoreIn(d, n) ==
  SumFunction([i \in 1 .. n |-> IF d \in DocsOf(query, segment_order[i])
                                THEN Impact(query, segment_order[i].impact) ELSE 0])

Score == [d \in Docs |-> ScoreIn(d, Len(segment_order))]

\* The best of the documents with a score, as many as fit.
BestOf(score) ==
  LET found == {d \in Docs : score[d] > 0}
      Rank(d) == Cardinality({e \in found : Less(score, d, e)})
  IN  {d \in found : Rank(d) < top_k}

Finished == at = "idle" /\ phase = "sorted"

\* The scaling of the impacts keeps every accumulator within its width, with the
\* impacts of all terms added up, and makes no impact zero: the heap takes a
\* document that it sees for the first time to have had a score below its bound.
ScoresFit ==
  at = "postings" /\ buffer # {} =>
    LET impact == Impact(query, segment_order[header].impact)
    IN  impact > 0 /\ accumulators[Min(buffer)] + impact <= MAX_RSV

\* The oracle did not end the query: there was none, or top_up() was needed.
NotStopped == oracle = 1 \/ from = documents

\* What the heap was given of the oracle's score.
Bound == oracle % (MAX_RSV + 1)

\* The results of a query that no oracle stops are the top k of the highest impact
\* segments that fit the budget: all segments before the one that the loop ended
\* at, each whole, and no part of another.  (A bound that is cut to 0 lets nothing in.)
AnytimeTopK ==
  Finished /\ NotStopped /\ Bound # 0 =>
    /\ postings_processed <= postings_to_process
    /\ heap = BestOf([d \in Docs |-> ScoreIn(d, header - 1)])
    /\ header <= Len(segment_order) =>
         postings_processed + segment_frequency(query, segment_order[header])
           > postings_to_process

\* An oracle that stops a query leaves k documents, each of which has at least the
\* oracle's score, or what an accumulator can hold of it, in the whole index.
OracleIsSafe ==
  Finished /\ ~NotStopped => size = top_k /\ \A d \in heap : Score[d] >= Bound

\* An oracle that knows the score of the k-th document does not change which
\* documents are found, if no other document reaches it and the budget allows.
OracleKeepsTopK ==
  Finished /\ oracle > 1 /\ (~NotStopped \/ header > Len(segment_order)) =>
    (Cardinality({d \in Docs : Score[d] >= oracle}) = top_k => heap = BestOf(Score))

\* "Any documents scoring less than rsv will not be allowed to enter the heap and so will
\* not be in the results list for the given query".
BelowOracleLeftOut == Finished => \A d \in heap : accumulators[d] >= oracle
=============================================================================
