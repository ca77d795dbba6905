-------------------------- MODULE AnytimeQueryProofs --------------------------
(***************************************************************************)
(* What anytime() returns, for every query, number of documents, k and     *)
(* budget: the accumulators hold the scores of the segments processed and  *)
(* nothing else, none of them overflows, and so the documents in the heap  *)
(* (QueryHeapProofs) are the results that the query promises.              *)
(***************************************************************************)
EXTENDS AnytimeQuery, QueryHeapProofs, InductionTheorems

\* What segment i adds to the score of d.
Gain(d, i) == IF d \in DocsOf(query, segment_order[i])
              THEN Impact(query, segment_order[i].impact) ELSE 0

\* What the segment that is being processed has added to the score of d.
Current(d) == IF at = "postings" /\ d \notin buffer THEN Gain(d, header) ELSE 0

\* The segments of a query: each at most once.
OrderTyped ==
  /\ segment_order \in Seq(Segments(query))
  /\ \A i, j \in 1 .. Len(segment_order) : segment_order[i] = segment_order[j] => i = j

\* Types, and where the loop over the segments is.
AnytimeTyped ==
  /\ query \in [Terms -> [Docs -> {0} \cup Impacts]]
  /\ rounds_down \in BOOLEAN
  /\ OrderTyped
  /\ header \in 1 .. Len(segment_order) + 1
  /\ accumulators \in [Docs -> 0 .. MAX_RSV]
  /\ at \in {"idle", "segments", "postings", "resolved"}
  /\ buffer \subseteq Docs
  /\ at # "postings" => buffer = {}
  /\ at = "postings" => /\ header <= Len(segment_order)
                        /\ buffer \subseteq DocsOf(query, segment_order[header])
  /\ at \in {"segments", "postings"} => phase = "adding"
  /\ at = "resolved" => phase \in {"adding", "topup"}
  /\ at = "idle" => phase = "sorted"

\* No accumulator has more than the segments processed have added.
Bounded ==
  /\ at \in {"segments", "postings"} =>
       \A d \in Docs : accumulators[d] <= ScoreIn(d, header - 1) + Current(d)
  /\ \A d \in Docs : accumulators[d] <= Score[d]

\* The oracle has ended the query.
OracleStopped == \/ phase = "adding" /\ Done
                 \/ phase = "sorted" /\ ~NotStopped

\* Until an oracle ends the query each accumulator has what the segments processed
\* have added, and the loop ends at the first segment that the budget does not allow.
Exact ==
  /\ \A d \in Docs : accumulators[d] = ScoreIn(d, header - 1) + Current(d)
  /\ at \in {"resolved", "idle"} /\ header <= Len(segment_order) =>
       postings_processed + segment_frequency(query, segment_order[header])
         > postings_to_process

-----------------------------------------------------------------------------
\* The impacts of a query.
Queries == [Terms -> [Docs -> {0} \cup Impacts]]

\* A function on an interval has a largest value.
LEMMA LargestExists ==
  ASSUME NEW n \in Nat, NEW f \in [0 .. n -> Nat]
  PROVE  \E i \in 0 .. n : \A j \in 0 .. n : f[j] <= f[i]
<1> DEFINE T == {m \in Nat : m <= n => \E i \in 0 .. m : \A j \in 0 .. m : f[j] <= f[i]}
<1>1. 0 \in T
  OBVIOUS
<1>2. ASSUME NEW m \in T PROVE m + 1 \in T
  <2> SUFFICES ASSUME m + 1 <= n
               PROVE  \E i \in 0 .. m + 1 : \A j \in 0 .. m + 1 : f[j] <= f[i]
    BY <1>2
  <2>1. PICK i \in 0 .. m : \A j \in 0 .. m : f[j] <= f[i]
    OBVIOUS
  <2>2. /\ f[i] \in Nat /\ f[m + 1] \in Nat /\ i \in 0 .. m + 1 /\ m + 1 \in 0 .. m + 1
        /\ \A j \in 0 .. m + 1 : j = m + 1 \/ j \in 0 .. m
        /\ \A j \in 0 .. m + 1 : f[j] \in Nat
    OBVIOUS
  <2>3. CASE f[i] <= f[m + 1]
    <3>1. \A j \in 0 .. m + 1 : f[j] <= f[m + 1]
      BY <2>1, <2>2, <2>3
    <3> QED
      BY <2>2, <3>1
  <2>4. CASE f[m + 1] <= f[i]
    <3>1. \A j \in 0 .. m + 1 : f[j] <= f[i]
      BY <2>1, <2>2, <2>4
    <3> QED
      BY <2>2, <3>1
  <2> QED
    BY <2>2, <2>3, <2>4
<1> HIDE DEF T
<1>3. T = Nat
  BY <1>1, <1>2, NatSetInduction DEF T
<1>4. n \in T
  BY <1>3
<1> QED
  BY <1>4 DEF T

\* The largest impact of a term: no document has more.
LEMMA LargestImpact ==
  ASSUME NEW q \in Queries, NEW t \in Terms, documents > 0
  PROVE  /\ Max(Range(q[t])) \in Nat
         /\ \A d \in Docs : q[t][d] <= Max(Range(q[t]))
<1>1. documents - 1 \in Nat /\ Docs = 0 .. documents - 1
  BY HeapAssumption DEF Docs
<1>2. q[t] \in [Docs -> Nat]
  <2>1. q[t] \in [Docs -> {0} \cup Impacts] /\ {0} \cup Impacts \subseteq Nat
    BY HeapAssumption DEF Queries
  <2> QED
    BY <2>1
<1>3. PICK i \in Docs : \A j \in Docs : q[t][j] <= q[t][i]
  BY <1>1, <1>2, LargestExists
<1>4. Range(q[t]) = {q[t][d] : d \in Docs}
  BY <1>2 DEF Range
<1>5. /\ q[t][i] \in Range(q[t]) /\ \A y \in Range(q[t]) : q[t][i] >= y
      /\ Range(q[t]) \subseteq Nat
  BY <1>2, <1>3, <1>4
<1>6. Max(Range(q[t])) \in Range(q[t]) /\ \A y \in Range(q[t]) : Max(Range(q[t])) >= y
  BY <1>5 DEF Max
<1> QED
  BY <1>2, <1>4, <1>5, <1>6

\* A query has finitely many segments, and documents in each of them.
LEMMA SegmentsFinite ==
  ASSUME NEW q \in Queries
  PROVE  IsFiniteSet(Segments(q))
<1> DEFINE P == {p \in Terms \X Docs : q[p[1]][p[2]] \in Impacts}
           g == [p \in P |-> [term |-> p[1], impact |-> q[p[1]][p[2]]]]
<1>1. IsFiniteSet(P)
  BY QueryAssumption, HeapFinite, FS_Product, FS_Subset
<1>2. ASSUME NEW p \in P PROVE g[p] \in Segments(q)
  <2>1. p[1] \in Terms /\ p[2] \in Docs /\ q[p[1]][p[2]] \in Impacts
    OBVIOUS
  <2>2. g[p] \in [term : Terms, impact : Impacts] /\ p[2] \in DocsOf(q, g[p])
    BY <2>1 DEF DocsOf
  <2> QED
    BY <2>2 DEF Segments
<1>3. ASSUME NEW s \in Segments(q) PROVE \E p \in P : g[p] = s
  <2>1. PICK d \in Docs : q[s.term][d] = s.impact
    BY DEF Segments, DocsOf
  <2>2. s \in [term : Terms, impact : Impacts]
    BY DEF Segments
  <2>3. << s.term, d >> \in P /\ g[<< s.term, d >>] = s
    BY <2>1, <2>2
  <2> QED
    BY <2>3
<1>4. g \in Surjection(P, Segments(q))
  BY <1>2, <1>3 DEF Surjection
<1> QED
  BY <1>1, <1>4, FS_Surjection

\* std::sort has each segment at most once.
LEMMA OrdersTyped ==
  ASSUME NEW q \in Queries, NEW o \in Orders(q)
  PROVE  /\ o \in Seq(Segments(q))
         /\ \A i, j \in 1 .. Len(o) : o[i] = o[j] => i = j
<1> DEFINE n == Cardinality(Segments(q))
<1>1. n \in Nat
  BY SegmentsFinite, FS_CardinalityType
<1>2. o \in [1 .. n -> Segments(q)] /\ \A i, j \in 1 .. n : o[i] = o[j] => i = j
  BY DEF Orders, Injection, IsInjective
<1> HIDE DEF n
<1>3. o \in Seq(Segments(q)) /\ Len(o) = n
  BY <1>1, <1>2
<1> QED
  BY <1>2, <1>3

\* The integer arithmetic of the scaling.
LEMMA ScaleArithmetic ==
  ASSUME NEW x \in Nat, NEW m \in Nat, x <= m, NEW c \in Nat, NEW L \in Nat \ {0}
  PROVE  /\ x * c \in Nat /\ (x * c) \div L \in Nat
         /\ (x * c) % L = 0 /\ x * c > 0 => (x * c) \div L > 0
         /\ L * ((x * c) \div L) <= c * m
<1>1. x * c \in Nat /\ x * c <= c * m
  <2>1. m - x \in Nat /\ c * (m - x) \in Nat
    OBVIOUS
  <2>2. c * (x + (m - x)) = c * x + c * (m - x)
    BY <2>1, Distribute
  <2>3. x + (m - x) = m /\ c * x = x * c
    OBVIOUS
  <2> QED
    BY <2>1, <2>2, <2>3
<1>2. PICK r \in Nat : r = x * c
  BY <1>1
<1>3. r \div L \in Nat /\ (r \div L) * L <= r /\ r < (r \div L) * L + L
  OBVIOUS
<1>4. r % L = 0 /\ r > 0 => r \div L > 0
  <2>1. r < L => r % L = r
    OBVIOUS
  <2>2. r \div L = 0 => r < L
    BY <1>3
  <2> QED
    BY <1>3, <2>1, <2>2
<1>5. L * (r \div L) <= r
  BY <1>3
<1> QED
  BY <1>1, <1>2, <1>3, <1>4, <1>5

\* The sum of the largest impacts.
LEMMA LargestPossible ==
  ASSUME NEW q \in Queries, documents > 0
  PROVE  /\ largest_possible_rsv(q) \in Nat
         /\ largest_possible_rsv(q)
              = SumFunctionOnSet([t \in Terms |-> Max(Range(q[t]))], Terms)
<1> DEFINE f == [t \in Terms |-> Max(Range(q[t]))]
<1>1. \A t \in Terms : f[t] \in Nat
  BY LargestImpact
<1>2. DOMAIN f = Terms
  OBVIOUS
<1>3. largest_possible_rsv(q) = SumFunctionOnSet(f, Terms)
  BY <1>2 DEF largest_possible_rsv, SumFunction
<1> HIDE DEF f
<1>4. SumFunctionOnSet(f, Terms) \in Nat
  BY <1>1, QueryAssumption, SumMonotone
<1> QED
  BY <1>3, <1>4 DEF f

\* An impact is never scaled to nothing, and not to more than its share.
LEMMA ImpactScaled ==
  ASSUME NEW q \in Queries, NEW t \in Terms, NEW d \in Docs, q[t][d] # 0,
         Cardinality(Terms) <= MAX_RSV
  PROVE  /\ Impact(q, q[t][d]) \in Nat \ {0}
         /\ largest_possible_rsv(q) <= MAX_RSV => Impact(q, q[t][d]) = q[t][d]
         /\ largest_possible_rsv(q) > MAX_RSV =>
              largest_possible_rsv(q) * Impact(q, q[t][d])
                <= (MAX_RSV - Cardinality(Terms)) * Max(Range(q[t])) + largest_possible_rsv(q)
<1>1. documents > 0
  BY HeapAssumption DEF Docs
<1>2. PICK x \in Nat \ {0} : x = q[t][d]
  BY HeapAssumption DEF Queries
<1>3. PICK L \in Nat : L = largest_possible_rsv(q)
  BY <1>1, LargestPossible
<1>4. PICK m \in Nat : m = Max(Range(q[t])) /\ x <= m
  BY <1>1, <1>2, LargestImpact
<1>5. PICK c \in Nat : c = MAX_RSV - Cardinality(Terms)
  BY HeapAssumption, QueryAssumption, FS_CardinalityType
<1>6. CASE L <= MAX_RSV
  BY <1>2, <1>3, <1>6, HeapAssumption DEF Impact
<1>7. CASE L > MAX_RSV
  <2>1. L \in Nat \ {0}
    BY <1>7, HeapAssumption
  <2>2. PICK k \in Nat : /\ k = (x * c) \div L
                         /\ (x * c) % L = 0 /\ x * c > 0 => k > 0
                         /\ L * k <= c * m
    BY <1>4, <2>1, ScaleArithmetic
  <2>3. Impact(q, x) = k \/ (Impact(q, x) = k + 1)
    BY <1>3, <1>5, <1>7, <2>2, HeapAssumption DEF Impact
  <2>4. Impact(q, x) = k => k > 0
    BY <1>3, <1>5, <1>7, <2>2, HeapAssumption DEF Impact
  <2>5. L * (k + 1) = L * k + L * 1 /\ L * 1 = L
    BY Distribute
  <2>6. /\ L * k \in Nat /\ c * m \in Nat
    OBVIOUS
  <2>7. L * (k + 1) <= c * m + L /\ L * k <= c * m + L
    <3>1. \A lk, cm \in Nat : lk <= cm => lk + L <= cm + L /\ lk <= cm + L
      OBVIOUS
    <3> QED
      BY <2>2, <2>5, <2>6, <3>1
  <2>8. L * Impact(q, x) <= c * m + L
    BY <2>3, <2>7
  <2> QED
    BY <1>2, <1>3, <1>4, <1>5, <1>7, <2>3, <2>4, <2>8, HeapAssumption
<1> QED
  BY <1>6, <1>7, HeapAssumption

\* A common factor does not matter.
LEMMA CancelFactor ==
  ASSUME NEW a \in Nat, NEW b \in Nat, NEW L \in Nat \ {0}, L * a <= L * b
  PROVE  a <= b
<1> SUFFICES ASSUME b + 1 <= a PROVE FALSE
  OBVIOUS
<1>1. a - (b + 1) \in Nat /\ L * (a - (b + 1)) \in Nat
  OBVIOUS
<1>2. /\ L * ((b + 1) + (a - (b + 1))) = L * (b + 1) + L * (a - (b + 1))
      /\ L * (b + 1) = L * b + L * 1
  BY <1>1, Distribute
<1>3. (b + 1) + (a - (b + 1)) = a /\ L * 1 = L /\ L * b \in Nat
  OBVIOUS
<1> QED
  BY <1>1, <1>2, <1>3

\* What each term adds to the score of d, all its segments processed.
TermGains(d) == [t \in Terms |-> IF query[t][d] = 0 THEN 0 ELSE Impact(query, query[t][d])]

\* The impacts of all terms of a document fit an accumulator.
LEMMA TermsFit ==
  ASSUME query \in Queries, NEW d \in Docs, Cardinality(Terms) <= MAX_RSV
  PROVE  /\ \A t \in Terms : TermGains(d)[t] \in Nat
         /\ SumFunctionOnSet(TermGains(d), Terms) \in Nat
         /\ SumFunctionOnSet(TermGains(d), Terms) <= MAX_RSV
<1> DEFINE f == TermGains(d)
           m == [t \in Terms |-> Max(Range(query[t]))]
<1>0. documents > 0
  BY HeapAssumption DEF Docs
<1>1. PICK L \in Nat : L = largest_possible_rsv(query) /\ L = SumFunctionOnSet(m, Terms)
  BY <1>0, LargestPossible
<1>2. PICK n \in Nat : n = Cardinality(Terms) /\ IsFiniteSet(Terms)
  BY QueryAssumption, FS_CardinalityType
<1>3. PICK c \in Nat : c = MAX_RSV - n
  BY <1>2, HeapAssumption
<1>4. ASSUME NEW t \in Terms
      PROVE  /\ f[t] \in Nat /\ m[t] \in Nat
             /\ L <= MAX_RSV => 1 * f[t] <= 1 * m[t] + 0
             /\ L > MAX_RSV => L * f[t] <= c * m[t] + L
  <2>1. m[t] = Max(Range(query[t])) /\ m[t] \in Nat /\ query[t][d] <= m[t]
    BY <1>0, LargestImpact
  <2>2. CASE query[t][d] = 0
    <3>1. f[t] = 0
      BY <2>2 DEF TermGains
    <3>2. L * 0 = 0 /\ c * m[t] \in Nat
      BY <2>1
    <3> QED
      BY <2>1, <3>1, <3>2
  <2>3. CASE query[t][d] # 0
    <3>1. f[t] = Impact(query, query[t][d])
      BY <2>3 DEF TermGains
    <3> HIDE DEF f, m
    <3>2. /\ f[t] \in Nat \ {0}
          /\ largest_possible_rsv(query) <= MAX_RSV => f[t] = query[t][d]
          /\ largest_possible_rsv(query) > MAX_RSV =>
               largest_possible_rsv(query) * f[t]
                 <= (MAX_RSV - Cardinality(Terms)) * m[t] + largest_possible_rsv(query)
      BY <2>1, <2>3, <3>1, ImpactScaled
    <3>3. /\ L <= MAX_RSV => f[t] = query[t][d]
          /\ L > MAX_RSV => L * f[t] <= c * m[t] + L
      BY <1>1, <1>2, <1>3, <3>2
    <3> QED
      BY <2>1, <3>2, <3>3
  <2> QED
    BY <2>2, <2>3
<1> HIDE DEF f, m
<1>5. PICK s \in Nat : s = SumFunctionOnSet(f, Terms)
  BY <1>2, <1>4, SumMonotone
<1>6. CASE L <= MAX_RSV
  <2>1. 1 * s <= 1 * L + 0 * n
    BY <1>1, <1>2, <1>4, <1>5, <1>6, SumScaled
  <2>2. s <= L
    BY <2>1
  <2> QED
    BY <1>4, <1>5, <1>6, <2>2, HeapAssumption DEF f
<1>7. CASE L > MAX_RSV
  <2>1. L * s <= c * L + L * n
    BY <1>1, <1>2, <1>4, <1>5, <1>7, SumScaled
  <2>2. L * (c + n) = L * c + L * n /\ c * L = L * c /\ c + n = MAX_RSV
    BY <1>3, Distribute, HeapAssumption
  <2>3. L * s <= L * MAX_RSV /\ L \in Nat \ {0}
    BY <1>7, <2>1, <2>2, HeapAssumption
  <2>4. s <= MAX_RSV
    BY <2>3, CancelFactor, HeapAssumption
  <2> QED
    BY <1>4, <1>5, <2>4 DEF f
<1> QED
  BY <1>6, <1>7, HeapAssumption
-----------------------------------------------------------------------------
\* What a segment adds to a score.
LEMMA GainFacts ==
  ASSUME query \in Queries, OrderTyped, Cardinality(Terms) <= MAX_RSV,
         NEW d \in Docs, NEW i \in 1 .. Len(segment_order)
  PROVE  /\ segment_order[i].term \in Terms /\ Gain(d, i) \in Nat
         /\ d \in DocsOf(query, segment_order[i]) =>
              /\ segment_order[i] = [term   |-> segment_order[i].term,
                                     impact |-> query[segment_order[i].term][d]]
              /\ Gain(d, i) = TermGains(d)[segment_order[i].term]
              /\ Gain(d, i) > 0
<1> DEFINE s == segment_order[i]
<1>1. s \in Segments(query)
  BY DEF OrderTyped
<1>2. s \in [term : Terms, impact : Impacts] /\ s.impact # 0
  BY <1>1, HeapAssumption DEF Segments
<1>3. s.term \in Terms /\ s = [term |-> s.term, impact |-> s.impact]
  BY <1>2
<1> HIDE DEF s
<1>4. CASE d \notin DocsOf(query, s)
  <2>1. Gain(d, i) = 0
    BY <1>4 DEF Gain, s
  <2> QED
    BY <1>3, <1>4, <2>1 DEF s
<1>5. CASE d \in DocsOf(query, s)
  <2>1. query[s.term][d] = s.impact
    BY <1>5 DEF DocsOf
  <2>2. Gain(d, i) = Impact(query, query[s.term][d])
    BY <1>5, <2>1 DEF Gain, s
  <2>3. Gain(d, i) \in Nat \ {0}
    BY <1>2, <1>3, <2>1, <2>2, ImpactScaled
  <2>4. Gain(d, i) = TermGains(d)[s.term]
    BY <1>2, <1>3, <2>1, <2>2 DEF TermGains
  <2> QED
    BY <1>3, <2>1, <2>3, <2>4 DEF s
<1> QED
  BY <1>4, <1>5

\* The gains of a document, segment by segment.
Gains(d) == [i \in 1 .. Len(segment_order) |-> Gain(d, i)]

\* A score is the sum of the gains.
LEMMA ScoreIsSum ==
  ASSUME query \in Queries, OrderTyped, NEW d \in Docs, NEW n \in 0 .. Len(segment_order)
  PROVE  ScoreIn(d, n) = SumFunctionOnSet(Gains(d), 1 .. n)
<1> DEFINE f == [i \in 1 .. n |-> Gain(d, i)]
<1>1. ScoreIn(d, n) = SumFunctionOnSet(f, 1 .. n)
  <2>1. DOMAIN f = 1 .. n
    OBVIOUS
  <2>2. ScoreIn(d, n) = SumFunction(f)
    BY DEF ScoreIn, Gain
  <2> HIDE DEF f
  <2> QED
    BY <2>1, <2>2 DEF SumFunction
<1>2. Len(segment_order) \in Nat /\ n \in Int
  BY DEF OrderTyped
<1>3. \A i \in 1 .. n : f[i] = Gains(d)[i]
  BY <1>2 DEF Gains
<1>4. IsFiniteSet(1 .. n)
  BY <1>2, FS_Interval
<1> HIDE DEF f
<1> QED
  BY <1>1, <1>3, <1>4, SumSame

\* A score begins with nothing, grows with each segment by what that one adds, and is
\* at most the score in the whole index.
LEMMA ScoreFacts ==
  ASSUME query \in Queries, OrderTyped, Cardinality(Terms) <= MAX_RSV,
         NEW d \in Docs, NEW n \in 0 .. Len(segment_order)
  PROVE  /\ ScoreIn(d, 0) = 0
         /\ ScoreIn(d, n) \in Nat /\ ScoreIn(d, n) <= Score[d] /\ Score[d] \in Nat
         /\ n < Len(segment_order) => ScoreIn(d, n + 1) = ScoreIn(d, n) + Gain(d, n + 1)
<1> DEFINE N == Len(segment_order)
<1>1. N \in Nat /\ n \in Nat /\ n <= N /\ 0 \in 0 .. N /\ N \in 0 .. N
  BY DEF OrderTyped
<1>2. ASSUME NEW i \in 1 .. N PROVE Gains(d)[i] \in Nat /\ Gains(d)[i] = Gain(d, i)
  <2>1. Gain(d, i) \in Nat
    BY GainFacts
  <2> QED
    BY <2>1 DEF Gains
<1>3. IsFiniteSet(1 .. N) /\ IsFiniteSet(1 .. n)
  BY <1>1, FS_Interval
<1>4. ScoreIn(d, 0) = 0
  <2>1. 1 .. 0 = {}
    OBVIOUS
  <2>2. ScoreIn(d, 0) = SumFunctionOnSet(Gains(d), 1 .. 0)
    BY <1>1, ScoreIsSum
  <2> QED
    BY <2>1, <2>2, SumEmpty
<1>5. ScoreIn(d, n) = SumFunctionOnSet(Gains(d), 1 .. n)
  BY ScoreIsSum
<1>6. Score[d] = SumFunctionOnSet(Gains(d), 1 .. N)
  BY <1>1, ScoreIsSum DEF Score
<1> HIDE DEF N
<1>7. 1 .. n \in SUBSET (1 .. N) /\ 1 .. N \in SUBSET (1 .. N)
  BY <1>1
<1>8. ScoreIn(d, n) \in Nat /\ ScoreIn(d, n) <= Score[d] /\ Score[d] \in Nat
  <2>1. PICK f : f = Gains(d)
    OBVIOUS
  <2>2. \A i \in 1 .. N : f[i] \in Nat
    BY <1>2, <2>1
  <2>3. /\ SumFunctionOnSet(f, 1 .. n) \in Nat
        /\ SumFunctionOnSet(f, 1 .. n) <= SumFunctionOnSet(f, 1 .. N)
        /\ SumFunctionOnSet(f, 1 .. N) \in Nat
    BY <1>3, <1>7, <2>2, SumMonotone
  <2> QED
    BY <1>5, <1>6, <2>1, <2>3
<1>9. ASSUME n < N PROVE ScoreIn(d, n + 1) = ScoreIn(d, n) + Gain(d, n + 1)
  <2>1. /\ n + 1 \in 0 .. N /\ n + 1 \in 1 .. N /\ n + 1 \notin 1 .. n
        /\ 1 .. n + 1 = (1 .. n) \cup {n + 1}
    BY <1>1, <1>9
  <2>2. PICK f, S, x : f = Gains(d) /\ S = 1 .. n /\ x = n + 1
    OBVIOUS
  <2>3. IsFiniteSet(S) /\ x \notin S /\ \A y \in S \cup {x} : f[y] \in Int
    BY <1>2, <1>3, <1>7, <2>1, <2>2
  <2>4. SumFunctionOnSet(f, S \cup {x}) = f[x] + SumFunctionOnSet(f, S)
    BY <2>3, SumAdd
  <2>5. ScoreIn(d, n + 1) = SumFunctionOnSet(Gains(d), 1 .. n + 1)
    BY <2>1, ScoreIsSum DEF N
  <2>6. Gains(d)[n + 1] = Gain(d, n + 1) /\ Gain(d, n + 1) \in Nat
    BY <1>2, <2>1
  <2>7. ScoreIn(d, n + 1) = Gain(d, n + 1) + ScoreIn(d, n)
    BY <1>5, <2>1, <2>2, <2>4, <2>5, <2>6
  <2> QED
    BY <1>8, <2>6, <2>7
<1> QED
  BY <1>4, <1>8, <1>9 DEF N

\* The terms of which the first n segments have had d.
TermsSeen(d, n) ==
  {segment_order[i].term : i \in {j \in 1 .. n : d \in DocsOf(query, segment_order[j])}}

\* A document is in one segment of a term at most, so that its score is the sum of the
\* gains of different terms, and fits an accumulator.
LEMMA ScoreFits ==
  ASSUME query \in Queries, OrderTyped, Cardinality(Terms) <= MAX_RSV, NEW d \in Docs
  PROVE  Score[d] \in Nat /\ Score[d] <= MAX_RSV
<1> DEFINE N == Len(segment_order)
           g == TermGains(d)
           T == {n \in Nat : n <= N =>
                   /\ TermsSeen(d, n) \subseteq Terms
                   /\ ScoreIn(d, n) = SumFunctionOnSet(g, TermsSeen(d, n))}
<1>1. N \in Nat
  BY DEF OrderTyped
<1>2. 0 \in T
  <2>1. TermsSeen(d, 0) = {}
    BY DEF TermsSeen
  <2>2. ScoreIn(d, 0) = 0
    BY <1>1, ScoreFacts
  <2> QED
    BY <2>1, <2>2, SumEmpty
<1>3. ASSUME NEW n \in T PROVE n + 1 \in T
  <2> SUFFICES ASSUME n + 1 <= N
               PROVE  /\ TermsSeen(d, n + 1) \subseteq Terms
                      /\ ScoreIn(d, n + 1) = SumFunctionOnSet(g, TermsSeen(d, n + 1))
    BY <1>3
  <2>1. /\ n \in 0 .. N /\ n + 1 \in 1 .. N /\ n < N /\ n \in Nat
        /\ TermsSeen(d, n) \subseteq Terms
        /\ ScoreIn(d, n) = SumFunctionOnSet(g, TermsSeen(d, n))
    BY <1>1, <1>3
  <2>2. ScoreIn(d, n + 1) = ScoreIn(d, n) + Gain(d, n + 1) /\ ScoreIn(d, n) \in Nat
    BY <2>1, ScoreFacts
  <2>3. CASE d \notin DocsOf(query, segment_order[n + 1])
    <3>1. Gain(d, n + 1) = 0
      BY <2>3 DEF Gain
    <3>2. \A j \in 1 .. n + 1 : d \in DocsOf(query, segment_order[j]) => j \in 1 .. n
      BY <2>1, <2>3
    <3>3. TermsSeen(d, n + 1) = TermsSeen(d, n)
      BY <2>1, <3>2 DEF TermsSeen
    <3> QED
      BY <2>1, <2>2, <3>1, <3>3
  <2>4. CASE d \in DocsOf(query, segment_order[n + 1])
    <3> DEFINE t == segment_order[n + 1].term
    <3>1. t \in Terms /\ Gain(d, n + 1) = g[t] /\ Gain(d, n + 1) \in Nat
      BY <2>1, <2>4, GainFacts
    <3>2. TermsSeen(d, n + 1) = TermsSeen(d, n) \cup {t}
      BY <2>1, <2>4 DEF TermsSeen
    <3>3. t \notin TermsSeen(d, n)
      <4> SUFFICES ASSUME NEW j \in 1 .. n, d \in DocsOf(query, segment_order[j]),
                          segment_order[j].term = t
                   PROVE  FALSE
        BY DEF TermsSeen
      <4>1. j \in 1 .. N /\ j # n + 1
        BY <1>1, <2>1
      <4>2. segment_order[j] = [term |-> t, impact |-> query[t][d]]
        BY <4>1, GainFacts
      <4>3. segment_order[n + 1] = [term |-> t, impact |-> query[t][d]]
        BY <2>1, <2>4, GainFacts
      <4>4. segment_order[j] = segment_order[n + 1]
        BY <4>2, <4>3
      <4> QED
        BY <2>1, <4>1, <4>4 DEF OrderTyped
    <3> HIDE DEF t
    <3>4. \A y \in TermsSeen(d, n) \cup {t} : g[y] \in Int
      BY <2>1, <3>1, TermsFit
    <3>5. IsFiniteSet(TermsSeen(d, n))
      BY <2>1, QueryAssumption, FS_Subset
    <3> HIDE DEF g
    <3>6. SumFunctionOnSet(g, TermsSeen(d, n) \cup {t})
            = g[t] + SumFunctionOnSet(g, TermsSeen(d, n))
      BY <3>3, <3>4, <3>5, SumAdd
    <3>7. SumFunctionOnSet(g, TermsSeen(d, n + 1))
            = g[t] + SumFunctionOnSet(g, TermsSeen(d, n))
      BY <3>2, <3>6, Zenon
    <3>8. TermsSeen(d, n + 1) \subseteq Terms
      BY <2>1, <3>1, <3>2
    <3>9. ScoreIn(d, n + 1) = g[t] + ScoreIn(d, n)
      BY <2>2, <3>1
    <3> QED
      BY <2>1, <3>7, <3>8, <3>9
  <2> QED
    BY <2>3, <2>4
<1> HIDE DEF T
<1>4. T = Nat
  BY <1>2, <1>3, NatSetInduction DEF T
<1>5. TermsSeen(d, N) \subseteq Terms /\ ScoreIn(d, N) = SumFunctionOnSet(g, TermsSeen(d, N))
  <2>1. N \in T
    BY <1>1, <1>4
  <2> QED
    BY <1>1, <2>1 DEF T
<1>6. Score[d] = ScoreIn(d, N)
  BY DEF Score
<1>7. /\ \A t \in Terms : g[t] \in Nat
      /\ SumFunctionOnSet(g, Terms) \in Nat /\ SumFunctionOnSet(g, Terms) <= MAX_RSV
  BY TermsFit
<1> HIDE DEF N, g
<1>8. /\ SumFunctionOnSet(g, TermsSeen(d, N)) \in Nat
      /\ SumFunctionOnSet(g, TermsSeen(d, N)) <= SumFunctionOnSet(g, Terms)
  BY <1>5, <1>7, QueryAssumption, SumMonotone
<1> QED
  BY <1>5, <1>6, <1>7, <1>8, HeapAssumption
-----------------------------------------------------------------------------
\* The state of the scores.
score_vars == << query, segment_order, rounds_down >>

\* The scores of a query depend on its segments only.
LEMMA ScoresKept ==
  ASSUME UNCHANGED score_vars, NEW d, NEW n
  PROVE  /\ Gain(d, n)' = Gain(d, n)
         /\ ScoreIn(d, n)' = ScoreIn(d, n)
         /\ OrderTyped' = OrderTyped
         /\ Score' = Score
<1>1. query' = query /\ segment_order' = segment_order /\ rounds_down' = rounds_down
  BY DEF score_vars
<1>2. Gain(d, n)' = Gain(d, n)
  BY <1>1 DEF Gain, Impact, DocsOf, largest_possible_rsv
<1>3. ScoreIn(d, n)' = ScoreIn(d, n)
  BY <1>1 DEF ScoreIn, Impact, DocsOf, largest_possible_rsv
<1>4. OrderTyped' = OrderTyped
  BY <1>1 DEF OrderTyped, Segments, DocsOf
<1>5. Score' = Score
  BY <1>1 DEF Score, ScoreIn, Impact, DocsOf, largest_possible_rsv
<1> QED
  BY <1>2, <1>3, <1>4, <1>5

\* The invariant behind ScoresFit.
FitInv == AnytimeTyped /\ Bounded

\* The documents of a segment are processed in order, each once.
LEMMA FirstPosting ==
  ASSUME NEW B \in SUBSET Docs, B # {}
  PROVE  Min(B) \in B
<1>1. B \in SUBSET Nat
  BY HeapAssumption DEF Docs
<1>2. PICK x \in B : \A y \in B : ~(<< y, x >> \in OpToRel(<, Nat))
  BY <1>1, NatLessThanWellFounded, WFMin
<1>3. \A y \in B : ~(y < x)
  BY <1>1, <1>2 DEF OpToRel
<1>4. \A y \in B : x <= y
  BY <1>1, <1>3
<1> QED
  BY <1>4 DEF Min

\* The scores of the segments of a query.
ScoresSane ==
  query \in Queries /\ OrderTyped /\ Cardinality(Terms) <= MAX_RSV =>
    \A d \in Docs : ScoreIn(d, 0) = 0 /\ Score[d] \in Nat

\* It holds in every state, and so in the next.
LEMMA NextScoresSane == ScoresSane'
<1>1. ScoresSane
  <2> SUFFICES ASSUME query \in Queries, OrderTyped, Cardinality(Terms) <= MAX_RSV,
                      NEW d \in Docs
               PROVE  ScoreIn(d, 0) = 0 /\ Score[d] \in Nat
    BY DEF ScoresSane
  <2>1. 0 \in 0 .. Len(segment_order)
    BY DEF OrderTyped
  <2> QED
    BY <2>1, ScoreFacts, ScoreFits
<1> QED
  BY <1>1, PTL

\* Before the first query there are no scores.
LEMMA FitInit ==
  ASSUME AnytimeInit, Cardinality(Terms) <= MAX_RSV
  PROVE  FitInv
<1> USE DEF AnytimeInit
<1>1. OrderTyped /\ Len(segment_order) = 0
  BY DEF OrderTyped
<1>2. AnytimeTyped
  BY <1>1, HeapAssumption DEF AnytimeTyped
<1>3. query \in Queries
  BY DEF Queries
<1>4. \A d \in Docs : Score[d] \in Nat
  BY <1>1, <1>3, ScoreFits
<1>5. Bounded
  BY <1>4 DEF Bounded
<1> QED
  BY <1>2, <1>5 DEF FitInv

\* A query begins with its heap rewound.
LEMMA FitStart ==
  ASSUME FitInv, Cardinality(Terms) <= MAX_RSV, NEW rsv_at_k, Start(rsv_at_k)
  PROVE  FitInv'
<1>1. /\ query' = query /\ query \in Queries /\ rounds_down' = rounds_down
      /\ rounds_down \in BOOLEAN
      /\ segment_order' \in Orders(query) /\ header' = 1 /\ buffer' = {} /\ at' = "segments"
      /\ phase' = "adding" /\ accumulators' = [d \in Docs |-> 0]
  BY DEF FitInv, AnytimeTyped, Queries, Start, rewind, settings
<1>2. OrderTyped' /\ Len(segment_order') \in Nat
  BY <1>1, OrdersTyped DEF OrderTyped
<1>3. AnytimeTyped'
  BY <1>1, <1>2, HeapAssumption DEF AnytimeTyped, Queries
<1>4. query' \in Queries
  BY <1>1
<1>5. ASSUME NEW d \in Docs
      PROVE  /\ accumulators'[d] = 0 /\ Score'[d] \in Nat
             /\ ScoreIn(d, header - 1)' = 0 /\ Current(d)' = 0
  <2>1. Score'[d] \in Nat /\ ScoreIn(d, 0)' = 0
    BY <1>2, <1>4, NextScoresSane DEF ScoresSane
  <2> QED
    BY <1>1, <2>1 DEF Current
<1>6. Bounded'
  BY <1>5 DEF Bounded
<1> QED
  BY <1>3, <1>6 DEF FitInv

\* Where the loop over the segments is, and what the next segment adds.
LEMMA LoopFacts ==
  ASSUME AnytimeTyped, Cardinality(Terms) <= MAX_RSV, NEW d \in Docs
  PROVE  /\ query \in Queries /\ OrderTyped /\ Len(segment_order) \in Nat /\ header \in Nat
         /\ accumulators[d] \in Nat
         /\ ScoreIn(d, header - 1) \in Nat /\ ScoreIn(d, header - 1) <= Score[d]
         /\ Score[d] \in Nat /\ Score[d] <= MAX_RSV
         /\ header <= Len(segment_order) =>
              /\ ScoreIn(d, header) = ScoreIn(d, header - 1) + Gain(d, header)
              /\ ScoreIn(d, header) <= Score[d]
              /\ Gain(d, header) \in Nat
              /\ d \in DocsOf(query, segment_order[header]) =>
                   /\ Gain(d, header) = Impact(query, segment_order[header].impact)
                   /\ Gain(d, header) > 0
              /\ d \notin DocsOf(query, segment_order[header]) => Gain(d, header) = 0
<1>1. /\ query \in Queries /\ OrderTyped /\ Len(segment_order) \in Nat /\ header \in Nat
      /\ accumulators[d] \in Nat /\ header >= 1 /\ header <= Len(segment_order) + 1
  BY HeapAssumption DEF AnytimeTyped, Queries, OrderTyped
<1>2. Score[d] \in Nat /\ Score[d] <= MAX_RSV
  BY <1>1, ScoreFits
<1>3. PICK n \in Nat : n = header - 1 /\ header = n + 1 /\ n \in 0 .. Len(segment_order)
  BY <1>1
<1>4. /\ ScoreIn(d, n) \in Nat /\ ScoreIn(d, n) <= Score[d]
      /\ n < Len(segment_order) => ScoreIn(d, n + 1) = ScoreIn(d, n) + Gain(d, n + 1)
  BY <1>1, <1>3, ScoreFacts
<1>5. ASSUME header <= Len(segment_order)
      PROVE  /\ ScoreIn(d, n + 1) <= Score[d]
             /\ Gain(d, n + 1) \in Nat
             /\ d \in DocsOf(query, segment_order[n + 1]) => Gain(d, n + 1) > 0
  <2>1. n + 1 \in 0 .. Len(segment_order) /\ n + 1 \in 1 .. Len(segment_order)
    BY <1>1, <1>3, <1>5
  <2>2. ScoreIn(d, n + 1) <= Score[d]
    BY <1>1, <2>1, ScoreFacts
  <2>3. Gain(d, n + 1) \in Nat
    BY <1>1, <2>1, GainFacts
  <2>4. d \in DocsOf(query, segment_order[n + 1]) => Gain(d, n + 1) > 0
    BY <1>1, <2>1, GainFacts
  <2> QED
    BY <2>2, <2>3, <2>4
<1>6. /\ d \in DocsOf(query, segment_order[header]) =>
           Gain(d, header) = Impact(query, segment_order[header].impact)
      /\ d \notin DocsOf(query, segment_order[header]) => Gain(d, header) = 0
  BY DEF Gain
<1>7. header <= Len(segment_order) => n < Len(segment_order)
  BY <1>1, <1>3
<1>8. ScoreIn(d, header - 1) = ScoreIn(d, n)
  BY <1>3
<1> HIDE DEF Gain
<1> QED
  BY <1>1, <1>2, <1>3, <1>4, <1>5, <1>6, <1>7, <1>8

\* The head of the loop.
LEMMA FitNextSegment ==
  ASSUME FitInv, Cardinality(Terms) <= MAX_RSV, NextSegment
  PROVE  FitInv'
<1>1. /\ at = "segments" /\ UNCHANGED << vars, query, segment_order, header, rounds_down >>
      /\ UNCHANGED score_vars /\ AnytimeTyped /\ Bounded
  BY DEF NextSegment, settings, score_vars, FitInv
<1>2. \/ at' = "resolved" /\ buffer' = {}
      \/ /\ header <= Len(segment_order) /\ at' = "postings"
         /\ buffer' = DocsOf(query, segment_order[header])
  BY <1>1 DEF NextSegment, AnytimeTyped, OrderTyped
<1>3. UNCHANGED << accumulators, phase >> /\ OrderTyped'
  BY <1>1, ScoresKept DEF vars, AnytimeTyped
<1>4. AnytimeTyped'
  BY <1>1, <1>2, <1>3 DEF AnytimeTyped, DocsOf
<1>5. ASSUME NEW d \in Docs, at' = "postings"
      PROVE  accumulators'[d] <= ScoreIn(d, header - 1)' + Current(d)'
  <2>1. PICK h : h = header
    OBVIOUS
  <2>2. ScoreIn(d, h - 1)' = ScoreIn(d, h - 1) /\ Gain(d, h)' = Gain(d, h)
    BY <1>1, ScoresKept
  <2>3. accumulators[d] <= ScoreIn(d, h - 1) + 0
    BY <1>1, <2>1 DEF Bounded, Current
  <2>4. Current(d)' = 0
    <3>1. d \notin buffer' => Gain(d, h) = 0
      BY <1>2, <1>5, <2>1 DEF Gain
    <3> QED
      BY <1>1, <2>1, <2>2, <3>1 DEF Current
  <2> QED
    BY <1>1, <1>3, <2>1, <2>2, <2>3, <2>4
<1>6. Bounded'
  <2>1. Score' = Score
    BY <1>1, ScoresKept
  <2> QED
    BY <1>1, <1>2, <1>3, <1>5, <2>1 DEF Bounded
<1> QED
  BY <1>4, <1>6 DEF FitInv

\* What a posting does to the accumulators: the first document of the buffer gains the
\* impact of the segment.
LEMMA PostingFacts ==
  ASSUME AnytimeTyped, Cardinality(Terms) <= MAX_RSV, Posting
  PROVE  \E d \in buffer :
           /\ d \in Docs /\ d = Min(buffer)
           /\ Impact(query, segment_order[header].impact) = Gain(d, header)
           /\ add_rsv(d, Gain(d, header)) /\ Gain(d, header) \in Nat \ {0}
           /\ accumulators' = [accumulators EXCEPT ![d] = @ + Gain(d, header)]
           /\ accumulators' \in [Docs -> 0 .. MAX_RSV]
           /\ buffer' \subseteq buffer \ {d}
           /\ phase' = phase
<1>1. buffer # {} /\ at = "postings" /\ buffer \in SUBSET Docs
  BY DEF Posting, AnytimeTyped
<1>2. PICK d \in buffer : d = Min(buffer) /\ d \in Docs
  BY <1>1, FirstPosting
<1>3. /\ header <= Len(segment_order) /\ d \in DocsOf(query, segment_order[header])
  BY <1>1, <1>2 DEF AnytimeTyped
<1>4. /\ Impact(query, segment_order[header].impact) = Gain(d, header)
      /\ Gain(d, header) \in Nat \ {0} /\ accumulators[d] \in Nat
  <2>1. Gain(d, header) \in Nat /\ Gain(d, header) > 0 /\ accumulators[d] \in Nat
    BY <1>2, <1>3, LoopFacts
  <2>2. Impact(query, segment_order[header].impact) = Gain(d, header)
    BY <1>3 DEF Gain
  <2> QED
    BY <2>1, <2>2
<1>5. add_rsv(d, Gain(d, header)) /\ buffer' \subseteq buffer \ {d}
  BY <1>2, <1>4 DEF Posting
<1>6. PICK g \in Nat : g = Gain(d, header)
  BY <1>4
<1>7. /\ accumulators' = [accumulators EXCEPT ![d] = accumulators[d] + g]
      /\ accumulators[d] + g <= MAX_RSV
      /\ phase' = phase
  BY <1>5, <1>6 DEF add_rsv, Ignore, Fill, Push, Promote
<1>8. accumulators' \in [Docs -> 0 .. MAX_RSV]
  BY <1>2, <1>4, <1>7, HeapAssumption DEF AnytimeTyped
<1> QED
  BY <1>2, <1>4, <1>5, <1>6, <1>7, <1>8

\* One document of a segment.
LEMMA FitPosting ==
  ASSUME FitInv, Cardinality(Terms) <= MAX_RSV, Posting
  PROVE  FitInv'
<1>1. /\ at = "postings" /\ UNCHANGED << at, query, segment_order, header, rounds_down >>
      /\ UNCHANGED score_vars /\ AnytimeTyped /\ Bounded
  BY DEF Posting, settings, score_vars, FitInv
<1>2. PICK h \in Nat : h = header /\ h <= Len(segment_order)
  BY <1>1 DEF AnytimeTyped, OrderTyped
<1>3. PICK d \in buffer :
        /\ d \in Docs /\ Gain(d, h) \in Nat \ {0}
        /\ accumulators' = [accumulators EXCEPT ![d] = @ + Gain(d, h)]
        /\ accumulators' \in [Docs -> 0 .. MAX_RSV]
        /\ buffer' \subseteq buffer \ {d}
        /\ phase' = phase
  BY <1>1, <1>2, PostingFacts
<1>4. OrderTyped'
  BY <1>1, ScoresKept DEF AnytimeTyped
<1>5. AnytimeTyped'
  BY <1>1, <1>3, <1>4 DEF AnytimeTyped, DocsOf
<1>6. ASSUME NEW e \in Docs
      PROVE  /\ accumulators'[e] <= ScoreIn(e, header - 1)' + Current(e)'
             /\ accumulators'[e] <= Score'[e]
  <2>1. /\ ScoreIn(e, h - 1)' = ScoreIn(e, h - 1) /\ Gain(e, h)' = Gain(e, h)
        /\ Score' = Score
    BY <1>1, ScoresKept
  <2>2. /\ ScoreIn(e, h - 1) \in Nat /\ Gain(e, h) \in Nat /\ accumulators[e] \in Nat
        /\ ScoreIn(e, h - 1) + Gain(e, h) <= Score[e] /\ Score[e] \in Nat
    BY <1>1, <1>2, LoopFacts
  <2>3. accumulators[e] <= ScoreIn(e, h - 1) + (IF e \in buffer THEN 0 ELSE Gain(e, h))
    BY <1>1, <1>2 DEF Bounded, Current
  <2>4. Current(e)' = IF e \in buffer' THEN 0 ELSE Gain(e, h)
    BY <1>1, <1>2, <2>1 DEF Current
  <2>5. e \in buffer' => e \in buffer /\ e # d
    BY <1>3
  <2>6. accumulators'[e] = IF e = d THEN accumulators[e] + Gain(e, h) ELSE accumulators[e]
    BY <1>1, <1>3 DEF AnytimeTyped
  <2>7. accumulators'[e] <= ScoreIn(e, h - 1) + (IF e \in buffer' THEN 0 ELSE Gain(e, h))
    BY <1>3, <2>2, <2>3, <2>5, <2>6
  <2>8. accumulators'[e] <= Score[e]
    <3>1. accumulators'[e] \in Nat
      BY <1>3, HeapAssumption
    <3> QED
      BY <2>2, <2>7, <3>1
  <2>9. ScoreIn(e, header - 1)' = ScoreIn(e, h - 1)
    BY <1>1, <1>2, <2>1
  <2> QED
    BY <2>1, <2>4, <2>7, <2>8, <2>9
<1>7. Bounded'
  BY <1>6 DEF Bounded
<1> QED
  BY <1>5, <1>7 DEF FitInv

\* The end of the loop's body.
LEMMA FitEndSegment ==
  ASSUME FitInv, Cardinality(Terms) <= MAX_RSV, EndSegment
  PROVE  FitInv'
<1>1. /\ at = "postings" /\ buffer = {}
      /\ UNCHANGED << vars, query, segment_order, buffer, rounds_down >>
      /\ UNCHANGED score_vars /\ AnytimeTyped /\ Bounded
  BY DEF EndSegment, settings, score_vars, FitInv
<1>2. \/ at' = "resolved" /\ header' = header
      \/ at' = "segments" /\ header' = header + 1
  BY DEF EndSegment
<1>3. UNCHANGED << accumulators, phase >> /\ OrderTyped' /\ Score' = Score
  BY <1>1, ScoresKept DEF vars, AnytimeTyped
<1>4. PICK h \in Nat : h = header /\ h <= Len(segment_order)
  BY <1>1 DEF AnytimeTyped, OrderTyped
<1>5. header' \in 1 .. Len(segment_order') + 1
  BY <1>1, <1>2, <1>4 DEF AnytimeTyped, OrderTyped
<1>6. AnytimeTyped'
  BY <1>1, <1>2, <1>3, <1>5 DEF AnytimeTyped, DocsOf
<1>7. ASSUME NEW d \in Docs, at' = "segments"
      PROVE  accumulators'[d] <= ScoreIn(d, header - 1)' + Current(d)'
  <2>1. ScoreIn(d, h)' = ScoreIn(d, h)
    BY <1>1, ScoresKept
  <2>2. ScoreIn(d, h) \in Nat /\ ScoreIn(d, h) = ScoreIn(d, h - 1) + Gain(d, h)
    BY <1>1, <1>4, LoopFacts
  <2>3. accumulators[d] <= ScoreIn(d, h - 1) + Gain(d, h)
    BY <1>1, <1>4 DEF Bounded, Current
  <2>4. header' - 1 = h /\ Current(d)' = 0
    BY <1>2, <1>4, <1>7 DEF Current
  <2> QED
    BY <1>3, <2>1, <2>2, <2>3, <2>4
<1>8. Bounded'
  BY <1>1, <1>2, <1>3, <1>7 DEF Bounded
<1> QED
  BY <1>6, <1>8 DEF FitInv

\* The rest of a query, and steps that change nothing of it, leave the scores alone.
LEMMA FitRest ==
  ASSUME FitInv, Cardinality(Terms) <= MAX_RSV, TopUp \/ Finish \/ UNCHANGED anytime_vars
  PROVE  FitInv'
<1>1. /\ UNCHANGED << query, segment_order, header, buffer, rounds_down, accumulators >>
      /\ UNCHANGED score_vars /\ AnytimeTyped /\ Bounded
  BY DEF TopUp, Finish, top_up, TopUpStep, sort, anytime_vars, vars, settings, score_vars, FitInv
<1>2. \/ at = "resolved" /\ at' = "resolved" /\ phase' = "topup"
      \/ at = "resolved" /\ at' = "idle" /\ phase' = "sorted"
      \/ at' = at /\ phase' = phase
  BY DEF TopUp, Finish, top_up, TopUpStep, sort, anytime_vars, vars
<1>3. OrderTyped' /\ Score' = Score
  BY <1>1, ScoresKept DEF AnytimeTyped
<1>4. AnytimeTyped'
  BY <1>1, <1>2, <1>3 DEF AnytimeTyped, DocsOf
<1>5. ASSUME NEW d \in Docs, at' \in {"segments", "postings"}
      PROVE  accumulators'[d] <= ScoreIn(d, header - 1)' + Current(d)'
  <2>1. PICK h : h = header
    OBVIOUS
  <2>2. ScoreIn(d, h - 1)' = ScoreIn(d, h - 1) /\ Gain(d, h)' = Gain(d, h) /\ at' = at
    BY <1>1, <1>2, <1>5, ScoresKept
  <2>3. ScoreIn(d, header - 1)' = ScoreIn(d, header - 1) /\ Current(d)' = Current(d)
    BY <1>1, <2>1, <2>2 DEF Current
  <2> QED
    BY <1>1, <1>5, <2>2, <2>3 DEF Bounded
<1>6. Bounded'
  BY <1>1, <1>3, <1>5 DEF Bounded
<1> QED
  BY <1>4, <1>6 DEF FitInv

\* Every step keeps the scores within their bounds.
LEMMA FitNext ==
  ASSUME FitInv, Cardinality(Terms) <= MAX_RSV, [AnytimeNext]_anytime_vars
  PROVE  FitInv'
BY FitStart, FitNextSegment, FitPosting, FitEndSegment, FitRest DEF AnytimeNext

\* A posting fits its accumulator.
LEMMA FitSafe ==
  ASSUME FitInv, Cardinality(Terms) <= MAX_RSV
  PROVE  ScoresFit
<1> SUFFICES ASSUME at = "postings", buffer # {}
             PROVE  LET impact == Impact(query, segment_order[header].impact)
                    IN  impact > 0 /\ accumulators[Min(buffer)] + impact <= MAX_RSV
  BY DEF ScoresFit
<1>1. AnytimeTyped /\ Bounded /\ buffer \in SUBSET Docs
  BY DEF FitInv, AnytimeTyped
<1>2. PICK d \in buffer : d = Min(buffer) /\ d \in Docs
  BY <1>1, FirstPosting
<1>3. header <= Len(segment_order) /\ d \in DocsOf(query, segment_order[header])
  BY <1>1, <1>2 DEF AnytimeTyped
<1>4. /\ Gain(d, header) = Impact(query, segment_order[header].impact)
      /\ Gain(d, header) \in Nat /\ Gain(d, header) > 0
      /\ ScoreIn(d, header - 1) \in Nat /\ accumulators[d] \in Nat
      /\ ScoreIn(d, header - 1) + Gain(d, header) <= Score[d]
      /\ Score[d] \in Nat /\ Score[d] <= MAX_RSV
  BY <1>1, <1>2, <1>3, LoopFacts
<1>5. accumulators[d] <= ScoreIn(d, header - 1) + 0
  BY <1>1, <1>2 DEF Bounded, Current
<1>6. accumulators[d] + Gain(d, header) <= MAX_RSV
  BY <1>4, <1>5, HeapAssumption
<1> QED
  BY <1>2, <1>4, <1>6

\* For every query of at most as many terms as an accumulator can count: the scaling of
\* the impacts makes none of them zero and lets no accumulator overflow, whatever the
\* order of the segments, the budget and the oracle.
THEOREM ScoresAlwaysFit ==
  ASSUME Cardinality(Terms) <= MAX_RSV
  PROVE  AnytimeSpec => []ScoresFit
<1>1. AnytimeInit => FitInv
  BY FitInit
<1>2. FitInv /\ [AnytimeNext]_anytime_vars => FitInv'
  BY FitNext
<1>3. FitInv => ScoresFit
  BY FitSafe
<1> QED
  BY <1>1, <1>2, <1>3, PTL DEF AnytimeSpec
-----------------------------------------------------------------------------
\* What the heap holds while postings are added reaches the bound that rewind() was given,
\* and so it does when the oracle has ended the query.
Reached == heap \subseteq Docs /\ \A d \in heap : accumulators[d] >= Bound

StopInv ==
  /\ FitInv
  /\ oracle \in Nat /\ Bound \in Nat /\ top_k_lower_bound \in Nat
  /\ phase = "adding" => from = 0 /\ top_k_lower_bound >= Bound /\ Reached
  /\ phase = "sorted" /\ ~NotStopped => needed_for_top_k = 0 /\ Reached

\* An oracle's score modulo the width of an accumulator is a number.
LEMMA BoundTyped ==
  ASSUME NEW b \in Nat
  PROVE  b % (MAX_RSV + 1) \in Nat
BY HeapAssumption

\* A query begins with an empty heap.
LEMMA StopStart ==
  ASSUME StopInv, Cardinality(Terms) <= MAX_RSV, NEW rsv_at_k \in Predictions \cup {0},
         Start(rsv_at_k)
  PROVE  StopInv'
<1>1. FitInv'
  BY FitStart DEF StopInv
<1>2. PICK b \in Nat : rewind(b, b % (MAX_RSV + 1))
  BY QueryAssumption DEF Start
<1>3. b % (MAX_RSV + 1) \in Nat
  BY BoundTyped
<1>4. /\ oracle' = b /\ top_k_lower_bound' = b % (MAX_RSV + 1) /\ heap' = {}
      /\ phase' = "adding" /\ from' = 0
  BY <1>2 DEF rewind
<1> QED
  BY <1>1, <1>3, <1>4 DEF StopInv, Reached, Bound

\* One document of a segment enters the heap only with the lower bound or more, and the
\* bound only rises.
LEMMA StopPosting ==
  ASSUME StopInv, Cardinality(Terms) <= MAX_RSV, Posting
  PROVE  StopInv'
<1>1. FitInv' /\ AnytimeTyped
  BY FitPosting DEF StopInv, FitInv
<1>2. PICK d \in buffer :
        /\ d \in Docs /\ add_rsv(d, Gain(d, header)) /\ Gain(d, header) \in Nat \ {0}
        /\ accumulators' = [accumulators EXCEPT ![d] = @ + Gain(d, header)]
        /\ accumulators' \in [Docs -> 0 .. MAX_RSV]
  BY <1>1, PostingFacts
<1>3. PICK a : a = accumulators' /\ a \in [Docs -> Nat]
  BY <1>2, HeapAssumption
<1>4. /\ phase = "adding" /\ phase' = "adding" /\ from' = from /\ oracle' = oracle
      /\ Bound' = Bound /\ Bound \in Nat /\ from = 0 /\ heap \subseteq Docs
      /\ top_k_lower_bound \in Nat /\ top_k_lower_bound >= Bound
  BY <1>2 DEF add_rsv, Ignore, Fill, Push, Promote, StopInv, Reached, Bound
<1>5. \A e \in heap : a[e] >= Bound
  <2>1. ASSUME NEW e \in heap PROVE a[e] >= Bound
    <3>1. accumulators[e] \in Nat /\ accumulators[e] >= Bound
      BY <1>1, <1>4, HeapAssumption DEF StopInv, Reached, AnytimeTyped
    <3>2. a[e] = accumulators[e] \/ a[e] = accumulators[e] + Gain(d, header)
      BY <1>1, <1>2, <1>3, <1>4 DEF AnytimeTyped
    <3> QED
      BY <1>2, <1>4, <3>1, <3>2
  <2> QED
    BY <2>1
<1>6. \/ heap' = heap /\ top_k_lower_bound' = top_k_lower_bound
      \/ /\ a[d] >= top_k_lower_bound /\ heap' \subseteq heap \cup {d}
         /\ \/ top_k_lower_bound' = top_k_lower_bound
            \/ \E r \in heap' : top_k_lower_bound' = a[r]
  <2>1. a = [accumulators EXCEPT ![d] = accumulators[d] + Gain(d, header)]
    BY <1>2, <1>3
  <2> HIDE DEF Gain
  <2>2. \/ Ignore
        \/ a[d] >= top_k_lower_bound /\ (Fill(a, d) \/ Push(a, d) \/ Promote(a, d))
    BY <1>2, <2>1 DEF add_rsv
  <2> QED
    BY <2>2 DEF Ignore, Fill, Push, Promote
<1>7. CASE heap' = heap /\ top_k_lower_bound' = top_k_lower_bound
  BY <1>1, <1>3, <1>4, <1>5, <1>7 DEF StopInv, Reached
<1>8. CASE /\ a[d] >= top_k_lower_bound /\ heap' \subseteq heap \cup {d}
           /\ \/ top_k_lower_bound' = top_k_lower_bound
              \/ \E r \in heap' : top_k_lower_bound' = a[r]
  <2>1. a[d] >= Bound /\ heap' \subseteq Docs
    BY <1>2, <1>3, <1>4, <1>8
  <2>2. \A e \in heap' : a[e] >= Bound
    BY <1>5, <1>8, <2>1
  <2>3. top_k_lower_bound' \in Nat /\ top_k_lower_bound' >= Bound
    BY <1>3, <1>4, <1>8, <2>1, <2>2
  <2> QED
    BY <1>1, <1>3, <1>4, <2>1, <2>2, <2>3 DEF StopInv, Reached
<1> QED
  BY <1>6, <1>7, <1>8

\* The steps that add nothing: sort() after an oracle has ended the query finds its heap
\* full, and after top_up() the oracle has not ended it.
LEMMA StopRest ==
  ASSUME StopInv, Cardinality(Terms) <= MAX_RSV,
         NextSegment \/ EndSegment \/ TopUp \/ Finish \/ UNCHANGED anytime_vars
  PROVE  StopInv'
<1>1. FitInv'
  BY FitNextSegment, FitEndSegment, FitRest DEF StopInv
<1>2. CASE UNCHANGED vars
  BY <1>1, <1>2 DEF vars, StopInv, Reached, Bound, NotStopped
<1>3. CASE TopUp
  <2>1. /\ phase' = "topup" /\ UNCHANGED << oracle, top_k_lower_bound >>
    BY <1>3 DEF TopUp, top_up, TopUpStep
  <2> QED
    BY <1>1, <2>1 DEF StopInv, Bound
<1>4. CASE Finish
  <2>1. /\ phase' = "sorted"
        /\ UNCHANGED << accumulators, heap, needed_for_top_k, top_k_lower_bound, from, oracle >>
        /\ \/ phase = "adding" /\ (oracle = 1 \/ needed_for_top_k = 0)
           \/ phase = "topup" /\ from = documents
    BY <1>4 DEF Finish, sort
  <2>2. ~NotStopped' => phase = "adding" /\ needed_for_top_k = 0
    BY <2>1 DEF NotStopped
  <2> QED
    BY <1>1, <2>1, <2>2 DEF StopInv, Reached, Bound
<1> QED
  BY <1>2, <1>3, <1>4 DEF NextSegment, EndSegment, anytime_vars

\* For every query of at most as many terms as an accumulator can count, every oracle,
\* also one whose scores do not fit an accumulator, and every minimum number of postings:
\* an oracle stops a query only with k documents that reach its score, or what was left
\* of it, in the whole index.
THEOREM OracleStopsSafely ==
  ASSUME Cardinality(Terms) <= MAX_RSV
  PROVE  AnytimeSpec => []OracleIsSafe
<1>1. AnytimeInit => StopInv
  <2> SUFFICES ASSUME AnytimeInit PROVE StopInv
    OBVIOUS
  <2>1. FitInv
    BY FitInit
  <2>2. oracle = 1 /\ heap = {} /\ phase = "sorted" /\ top_k_lower_bound = 1
    BY DEF AnytimeInit
  <2>3. Bound \in Nat
    BY <2>2, BoundTyped DEF Bound
  <2> QED
    BY <2>1, <2>2, <2>3 DEF StopInv, NotStopped
<1>2. StopInv /\ [AnytimeNext]_anytime_vars => StopInv'
  BY StopStart, StopPosting, StopRest DEF AnytimeNext
<1>3. StopInv => OracleIsSafe
  <2> SUFFICES ASSUME StopInv, Finished, ~NotStopped
               PROVE  size = top_k /\ \A d \in heap : Score[d] >= Bound
    BY DEF OracleIsSafe
  <2>1. size = top_k
    BY HeapAssumption DEF StopInv, Finished, size
  <2>2. ASSUME NEW d \in heap PROVE Score[d] >= Bound
    <3>1. d \in Docs /\ Bound \in Nat /\ accumulators[d] >= Bound /\ accumulators[d] <= Score[d]
      BY DEF StopInv, Finished, Reached, FitInv, Bounded
    <3>2. accumulators[d] \in Nat /\ Score[d] \in Nat
      BY <3>1, LoopFacts DEF StopInv, FitInv
    <3> QED
      BY <3>1, <3>2
  <2> QED
    BY <2>1, <2>2
<1> QED
  BY <1>1, <1>2, <1>3, PTL DEF AnytimeSpec
-----------------------------------------------------------------------------
\* BestOf() is the one set of at most k documents found that are better than all others
\* and leave no place free as long as there are others.
LEMMA BestOfIs ==
  ASSUME NEW score \in [Docs -> Nat], NEW S \in SUBSET {d \in Docs : score[d] > 0},
         Cardinality(S) <= top_k,
         \A d \in Docs : score[d] > 0 /\ d \notin S => \A e \in S : Less(score, d, e),
         Cardinality(S) < top_k => S = {d \in Docs : score[d] > 0}
  PROVE  S = BestOf(score)
<1> DEFINE found == {d \in Docs : score[d] > 0}
           Better(d) == {e \in found : Less(score, d, e)}
<1>1. \A d, e \in Docs : Less(score, d, e) => ~Less(score, e, d) /\ d # e
  <2> SUFFICES ASSUME NEW d \in Docs, NEW e \in Docs, Less(score, d, e)
               PROVE  ~Less(score, e, d) /\ d # e
    OBVIOUS
  <2>1. d \in Int /\ e \in Int /\ score[d] \in Int /\ score[e] \in Int
    BY HeapAssumption DEF Docs
  <2> QED
    BY <2>1 DEF Less
<1>2. \A R \in SUBSET Docs : IsFiniteSet(R) /\ Cardinality(R) \in Nat
  BY HeapFinite
<1>3. BestOf(score) = {d \in found : Cardinality(Better(d)) < top_k}
  BY DEF BestOf
<1>4. ASSUME NEW d \in S PROVE Cardinality(Better(d)) < top_k
  <2>1. Better(d) \in SUBSET (S \ {d})
    BY <1>1
  <2>2. IsFiniteSet(S) /\ Cardinality(S) \in Nat
    BY <1>2
  <2>3. IsFiniteSet(S \ {d}) /\ Cardinality(S \ {d}) = Cardinality(S) - 1
    BY <2>2, FS_RemoveElement
  <2>4. Cardinality(Better(d)) <= Cardinality(S \ {d}) /\ Cardinality(Better(d)) \in Nat
    BY <1>2, <2>1, <2>3, FS_Subset
  <2> QED
    BY <2>2, <2>3, <2>4, HeapAssumption
<1>5. ASSUME NEW d \in found, d \notin S PROVE ~(Cardinality(Better(d)) < top_k)
  <2>1. S \in SUBSET Better(d)
    BY <1>5
  <2>2. Better(d) \in SUBSET Docs
    OBVIOUS
  <2>3. IsFiniteSet(Better(d)) /\ Cardinality(Better(d)) \in Nat /\ Cardinality(S) \in Nat
    BY <1>2, <2>2
  <2>4. Cardinality(S) <= Cardinality(Better(d))
    BY <2>1, <2>3, FS_Subset
  <2>5. ~(Cardinality(S) < top_k)
    BY <1>5
  <2> QED
    BY <2>3, <2>4, <2>5, HeapAssumption
<1> QED
  BY <1>3, <1>4, <1>5

\* How anytime() is used: no more terms than an accumulator can count, scores of the
\* oracle that fit an accumulator, and a minimum number of postings only without an oracle.
PlainUse ==
  /\ Cardinality(Terms) <= MAX_RSV
  /\ 1 <= MAX_RSV /\ Predictions \subseteq 0 .. MAX_RSV
  /\ Minimums \subseteq {0} \/ Predictions \subseteq {0, 1}

\* The inductive invariant.
QueryInv ==
  /\ Inv
  /\ FitInv
  /\ postings_processed \in Nat /\ postings_to_process \in Nat
  /\ postings_processed <= postings_to_process
  /\ postings_to_process_min \in Minimums /\ oracle \in Predictions \cup {1}
  /\ at = "segments" \/ buffer # {} => ~Done
  /\ ~OracleStopped => Exact

\* Before the first query.
LEMMA QueryInit ==
  ASSUME AnytimeInit, PlainUse
  PROVE  QueryInv
<1> USE DEF AnytimeInit
<1>1. FitInv /\ AnytimeTyped
  BY FitInit DEF PlainUse, FitInv
<1>2. TypeOK
  <2>1. /\ needed_for_top_k \in 0 .. top_k /\ from \in 0 .. documents
        /\ accumulators \in [Docs -> 0 .. MAX_RSV] /\ top_k_lower_bound \in Nat
        /\ heap_entry_point \in Nat /\ oracle \in Nat
    BY HeapAssumption
  <2> QED
    BY <2>1 DEF TypeOK
<1>3. PlacesCounted
  BY FS_EmptySet, HeapAssumption DEF PlacesCounted
<1>4. Found = {}
  BY DEF Found
<1>5. Best
  BY <1>4, HeapAssumption DEF Best
<1>6. Inv
  BY <1>2, <1>3, <1>5 DEF Inv
<1>7. Exact
  <2>1. Len(segment_order) = 0
    OBVIOUS
  <2>2. ASSUME NEW d \in Docs PROVE accumulators[d] = ScoreIn(d, header - 1) + Current(d)
    <3>1. query \in Queries /\ OrderTyped /\ 0 \in 0 .. Len(segment_order)
      BY <1>1 DEF AnytimeTyped, Queries
    <3>2. ScoreIn(d, 0) = 0
      BY <3>1, ScoreFacts DEF PlainUse
    <3>3. header - 1 = 0 /\ Current(d) = 0
      BY DEF Current
    <3> QED
      BY <3>2, <3>3
  <2> QED
    BY <2>1, <2>2 DEF Exact
<1> QED
  BY <1>1, <1>6, <1>7, QueryAssumption, HeapAssumption DEF QueryInv, Done

\* A query begins.
LEMMA QueryStart ==
  ASSUME QueryInv, PlainUse, NEW rsv_at_k \in Predictions \cup {0}, Start(rsv_at_k)
  PROVE  QueryInv'
<1>1. PICK b : b = IF rsv_at_k = 0 THEN 1 ELSE rsv_at_k
  OBVIOUS
<1>2. b \in Nat \ {0} /\ b <= MAX_RSV /\ b \in Predictions \cup {1}
  BY <1>1, HeapAssumption DEF PlainUse
<1>3. b % (MAX_RSV + 1) = b
  BY <1>2, HeapAssumption
<1>4. rewind(b, b)
  BY <1>1, <1>3 DEF Start
<1>5. Inv'
  BY <1>2, <1>4, RewindInv DEF QueryInv
<1>6. FitInv' /\ AnytimeTyped'
  BY FitStart DEF PlainUse, QueryInv, FitInv
<1>7. /\ header' = 1 /\ buffer' = {} /\ postings_processed' = 0 /\ at' = "segments"
      /\ postings_to_process' = postings_to_process
      /\ postings_to_process_min' = postings_to_process_min
      /\ needed_for_top_k' = top_k /\ oracle' = b /\ accumulators' = [d \in Docs |-> 0]
  BY <1>4 DEF Start, rewind, settings
<1>8. ~Done'
  BY <1>7, HeapAssumption DEF Done
<1>9. Exact'
  <2>1. ASSUME NEW d \in Docs
        PROVE  accumulators'[d] = ScoreIn(d, header - 1)' + Current(d)'
    <3>1. query' \in Queries /\ OrderTyped'
      BY <1>6 DEF AnytimeTyped, Queries
    <3>2. ScoreIn(d, 0)' = 0
      BY <3>1, NextScoresSane DEF ScoresSane, PlainUse
    <3>3. header' - 1 = 0 /\ Current(d)' = 0 /\ accumulators'[d] = 0
      BY <1>7 DEF Current
    <3> QED
      BY <3>2, <3>3
  <2> QED
    BY <1>7, <2>1 DEF Exact
<1> QED
  BY <1>2, <1>5, <1>6, <1>7, <1>8, <1>9 DEF QueryInv

\* A segment has finitely many documents.
LEMMA FrequencyType ==
  ASSUME NEW q, NEW s
  PROVE  segment_frequency(q, s) \in Nat
BY HeapFinite DEF segment_frequency, DocsOf

\* The head of the loop: the budget is respected, and the loop ends where it would not be.
LEMMA QueryNextSegment ==
  ASSUME QueryInv, PlainUse, NextSegment
  PROVE  QueryInv'
<1>1. /\ at = "segments" /\ UNCHANGED << vars, query, segment_order, header, settings >>
      /\ UNCHANGED score_vars
  BY DEF NextSegment, settings, score_vars
<1>2. Inv' /\ oracle' = oracle /\ needed_for_top_k' = needed_for_top_k
      /\ accumulators' = accumulators /\ phase' = phase
  BY <1>1, NextInv DEF QueryInv, vars
<1>3. FitInv' /\ AnytimeTyped /\ AnytimeTyped'
  BY FitNextSegment DEF PlainUse, QueryInv, FitInv
<1>4. PICK h \in Nat : h = header
  BY <1>3 DEF AnytimeTyped, OrderTyped
<1>5. segment_frequency(query, segment_order[h]) \in Nat
  BY FrequencyType
<1>6. \/ at' = "resolved" /\ postings_processed' = postings_processed /\ h > Len(segment_order)
      \/ /\ at' = "resolved" /\ postings_processed' = postings_processed
         /\ ~(postings_processed + segment_frequency(query, segment_order[h])
                <= postings_to_process)
      \/ /\ at' = "postings" /\ h <= Len(segment_order)
         /\ postings_processed' = postings_processed + segment_frequency(query, segment_order[h])
         /\ postings_processed' <= postings_to_process
         /\ buffer' = DocsOf(query, segment_order[h])
  BY <1>1, <1>3, <1>4 DEF NextSegment, InBudget, AnytimeTyped, OrderTyped
<1>7. /\ postings_processed' \in Nat /\ postings_to_process' \in Nat
      /\ postings_processed' <= postings_to_process'
      /\ postings_to_process_min' = postings_to_process_min
  BY <1>1, <1>5, <1>6 DEF QueryInv, settings
<1>8. ~Done /\ ~Done' /\ phase = "adding"
  BY <1>1, <1>2, <1>3 DEF QueryInv, Done, AnytimeTyped
<1>9. Exact
  BY <1>8 DEF QueryInv, OracleStopped
<1>10. Exact'
  <2>1. ASSUME NEW d \in Docs
        PROVE  accumulators'[d] = ScoreIn(d, header - 1)' + Current(d)'
    <3>1. ScoreIn(d, h - 1)' = ScoreIn(d, h - 1) /\ Gain(d, h)' = Gain(d, h)
      BY <1>1, ScoresKept
    <3>2. accumulators[d] = ScoreIn(d, h - 1) + 0
      BY <1>1, <1>4, <1>9 DEF Exact, Current
    <3>3. Current(d)' = 0
      <4>1. at' = "postings" /\ d \notin buffer' => Gain(d, h) = 0
        BY <1>6 DEF Gain
      <4> QED
        BY <1>1, <1>4, <3>1, <4>1 DEF Current
    <3> QED
      BY <1>1, <1>2, <1>4, <3>1, <3>2, <3>3
  <2>2. ASSUME at' \in {"resolved", "idle"}, header' <= Len(segment_order')
        PROVE  postings_processed' + segment_frequency(query', segment_order'[header'])
                 > postings_to_process'
    <3>1. /\ header' = h /\ segment_order' = segment_order /\ query' = query
          /\ postings_to_process' = postings_to_process
          /\ Len(segment_order) \in Nat
      BY <1>1, <1>3, <1>4 DEF settings, AnytimeTyped, OrderTyped
    <3>2. postings_processed \in Nat /\ postings_to_process \in Nat
      BY DEF QueryInv
    <3> QED
      BY <1>5, <1>6, <2>2, <3>1, <3>2
  <2> QED
    BY <2>1, <2>2 DEF Exact, segment_frequency, DocsOf
<1> QED
  BY <1>2, <1>3, <1>7, <1>8, <1>10 DEF QueryInv

\* The heap fills under an oracle exactly when Done is thrown.
LEMMA DoneThrown ==
  ASSUME Inv, ~Done, NEW d \in Docs, NEW score \in Nat \ {0}, add_rsv(d, score)
  PROVE  Done' <=> needed_for_top_k = 1 /\ needed_for_top_k' = 0 /\ top_k_lower_bound # 1
<1>1. /\ phase = "adding" /\ oracle' = oracle /\ oracle \in Nat
      /\ needed_for_top_k \in Nat
  BY HeapAssumption DEF Inv, add_rsv, TypeOK
<1>2. needed_for_top_k > 0 => top_k_lower_bound = oracle
  BY <1>1 DEF Inv, Adding
<1>3. \/ needed_for_top_k' = needed_for_top_k
      \/ needed_for_top_k > 0 /\ needed_for_top_k' = needed_for_top_k - 1
  BY DEF add_rsv, Ignore, Fill, Push, Promote
<1> QED
  BY <1>1, <1>2, <1>3 DEF Done

\* One document of a segment.
LEMMA QueryPosting ==
  ASSUME QueryInv, PlainUse, Posting
  PROVE  QueryInv'
<1>1. /\ at = "postings" /\ UNCHANGED << query, segment_order, header, at >>
      /\ postings_processed' = postings_processed
      /\ postings_to_process' = postings_to_process
      /\ postings_to_process_min' = postings_to_process_min
      /\ UNCHANGED score_vars /\ buffer # {} /\ Inv /\ ~Done
  BY DEF Posting, settings, score_vars, QueryInv
<1>2. FitInv' /\ AnytimeTyped /\ AnytimeTyped'
  BY FitPosting DEF PlainUse, QueryInv, FitInv
<1>3. PICK h \in Nat : h = header /\ h <= Len(segment_order)
  BY <1>1, <1>2 DEF AnytimeTyped, OrderTyped
<1>4. PICK d \in buffer :
        /\ d \in Docs /\ d = Min(buffer)
        /\ add_rsv(d, Gain(d, h)) /\ Gain(d, h) \in Nat \ {0}
        /\ accumulators' = [accumulators EXCEPT ![d] = @ + Gain(d, h)]
        /\ phase' = phase
  BY <1>2, <1>3, PostingFacts DEF PlainUse
<1>5. Inv'
  BY <1>1, <1>4, AddInv
<1>6. Done' <=> needed_for_top_k = 1 /\ needed_for_top_k' = 0 /\ top_k_lower_bound # 1
  BY <1>1, <1>4, DoneThrown
<1>7. buffer' = IF Done' THEN {} ELSE buffer \ {d}
  BY <1>4, <1>6 DEF Posting
<1>8. oracle' = oracle /\ phase = "adding" /\ phase' = "adding"
  BY <1>4 DEF add_rsv
<1>9. Exact
  BY <1>1, <1>8 DEF QueryInv, OracleStopped
<1>10. ASSUME ~Done' PROVE Exact'
  <2>1. ASSUME NEW e \in Docs
        PROVE  accumulators'[e] = ScoreIn(e, header - 1)' + Current(e)'
    <3>1. ScoreIn(e, h - 1)' = ScoreIn(e, h - 1) /\ Gain(e, h)' = Gain(e, h)
      BY <1>1, ScoresKept, Zenon
    <3>2. ScoreIn(e, h - 1) \in Nat /\ Gain(e, h) \in Nat
      BY <1>2, <1>3, LoopFacts DEF PlainUse
    <3>3. accumulators[e] = ScoreIn(e, h - 1) + (IF e \in buffer THEN 0 ELSE Gain(e, h))
      BY <1>1, <1>3, <1>9 DEF Exact, Current
    <3>4. Current(e)' = IF e \in buffer /\ e # d THEN 0 ELSE Gain(e, h)
      BY <1>1, <1>3, <1>7, <1>10, <3>1 DEF Current
    <3>5. accumulators'[e] = IF e = d THEN accumulators[e] + Gain(e, h) ELSE accumulators[e]
      BY <1>2, <1>4 DEF AnytimeTyped
    <3>6. accumulators'[e] = ScoreIn(e, h - 1) + (IF e \in buffer /\ e # d THEN 0 ELSE Gain(e, h))
      BY <1>4, <3>2, <3>3, <3>5
    <3> QED
      BY <1>1, <1>3, <3>1, <3>4, <3>6
  <2> QED
    BY <1>1, <2>1 DEF Exact
<1> QED
  BY <1>1, <1>2, <1>5, <1>7, <1>8, <1>10 DEF QueryInv, OracleStopped

\* The end of the loop's body: a full heap under an oracle ends the query.
LEMMA QueryEndSegment ==
  ASSUME QueryInv, PlainUse, EndSegment
  PROVE  QueryInv'
<1>1. /\ at = "postings" /\ buffer = {} /\ buffer' = {}
      /\ UNCHANGED << vars, query, segment_order >>
      /\ postings_processed' = postings_processed
      /\ postings_to_process' = postings_to_process
      /\ postings_to_process_min' = postings_to_process_min
      /\ UNCHANGED score_vars
  BY DEF EndSegment, settings, score_vars
<1>2. Inv /\ Inv' /\ oracle' = oracle /\ needed_for_top_k' = needed_for_top_k
      /\ accumulators' = accumulators /\ phase' = phase
  BY <1>1, NextInv DEF QueryInv, vars
<1>3. FitInv' /\ AnytimeTyped /\ AnytimeTyped'
  BY FitEndSegment DEF PlainUse, QueryInv, FitInv
<1>4. PICK h \in Nat : h = header /\ h <= Len(segment_order)
  BY <1>1, <1>3 DEF AnytimeTyped, OrderTyped
<1>5. phase = "adding" /\ (Done' <=> Done)
  BY <1>1, <1>2, <1>3 DEF AnytimeTyped, Done
<1>6. CASE Done
  <2>1. /\ oracle > 1 /\ size >= top_k /\ postings_processed \in Nat
        /\ postings_to_process_min = 0
    <3>1. oracle \in Nat /\ oracle >= 1 /\ oracle # 1 /\ needed_for_top_k = 0
      BY <1>2, <1>6 DEF Inv, TypeOK, Done
    <3>2. postings_to_process_min = 0 /\ postings_processed \in Nat
      BY <3>1 DEF QueryInv, PlainUse
    <3> QED
      BY <3>1, <3>2, HeapAssumption DEF size
  <2>2. at' = "resolved"
    BY <2>1 DEF EndSegment, FullHeap
  <2> QED
    BY <1>1, <1>2, <1>3, <1>5, <1>6, <2>2 DEF QueryInv, OracleStopped
<1>7. CASE ~Done
  <2>1. at' = "segments" /\ header' = h + 1
    <3>1. ~FullHeap
      <4>1. needed_for_top_k \in Nat /\ oracle \in Nat
        BY <1>2, HeapAssumption DEF Inv, TypeOK
      <4> QED
        BY <1>7, <4>1, HeapAssumption DEF FullHeap, size, Done
    <3> QED
      BY <1>4, <3>1 DEF EndSegment
  <2>2. Exact
    BY <1>5, <1>7 DEF QueryInv, OracleStopped
  <2>3. ASSUME NEW d \in Docs
        PROVE  accumulators'[d] = ScoreIn(d, header - 1)' + Current(d)'
    <3>1. ScoreIn(d, h)' = ScoreIn(d, h)
      BY <1>1, ScoresKept, Zenon
    <3>2. ScoreIn(d, h) = ScoreIn(d, h - 1) + Gain(d, h) /\ accumulators[d] \in Nat
      BY <1>3, <1>4, LoopFacts DEF PlainUse
    <3>3. accumulators[d] = ScoreIn(d, h - 1) + Gain(d, h)
      BY <1>1, <1>4, <2>2 DEF Exact, Current
    <3>4. header' - 1 = h /\ Current(d)' = 0
      BY <2>1 DEF Current
    <3> QED
      BY <1>2, <3>1, <3>2, <3>3, <3>4
  <2>4. Exact'
    BY <2>1, <2>3 DEF Exact
  <2> QED
    BY <1>1, <1>2, <1>3, <1>5, <1>7, <2>4 DEF QueryInv
<1> QED
  BY <1>6, <1>7

\* Exact depends on the scores, and on where the loop was left.
LEMMA ExactKept ==
  ASSUME Exact, UNCHANGED score_vars, UNCHANGED << accumulators, header, buffer >>,
         postings_processed' = postings_processed, postings_to_process' = postings_to_process,
         at' = at \/ (at = "resolved" /\ at' = "idle")
  PROVE  Exact'
<1>1. ASSUME NEW d \in Docs
      PROVE  accumulators'[d] = ScoreIn(d, header - 1)' + Current(d)'
  <2>1. PICK h : h = header
    OBVIOUS
  <2>2. ScoreIn(d, h - 1)' = ScoreIn(d, h - 1) /\ Gain(d, h)' = Gain(d, h)
    BY ScoresKept
  <2>3. Current(d)' = Current(d)
    BY <2>1, <2>2 DEF Current
  <2> QED
    BY <2>1, <2>2, <2>3 DEF Exact
<1>2. segment_order' = segment_order /\ query' = query
  BY DEF score_vars
<1>3. segment_frequency(query', segment_order'[header'])
        = segment_frequency(query, segment_order[header])
  BY <1>2
<1> QED
  BY <1>1, <1>2, <1>3 DEF Exact, segment_frequency, DocsOf

\* top_up(), sort(), and steps that change nothing.
LEMMA QueryRest ==
  ASSUME QueryInv, PlainUse, TopUp \/ Finish \/ UNCHANGED anytime_vars
  PROVE  QueryInv'
<1>1. /\ UNCHANGED << query, segment_order, header, buffer, accumulators, oracle >>
      /\ postings_processed' = postings_processed
      /\ postings_to_process' = postings_to_process
      /\ postings_to_process_min' = postings_to_process_min
      /\ UNCHANGED score_vars
  BY DEF TopUp, Finish, top_up, TopUpStep, sort, anytime_vars, vars, settings, score_vars
<1>2. FitInv' /\ AnytimeTyped
  BY FitRest DEF PlainUse, QueryInv, FitInv
<1>3. Inv /\ PlacesCounted /\ heap \in SUBSET Docs
  BY DEF QueryInv, Inv, TypeOK
<1>4. CASE TopUp
  <2>1. /\ at = "resolved" /\ at' = "resolved" /\ phase' = "topup" /\ buffer = {}
        /\ ~OracleStopped
    BY <1>2, <1>4 DEF TopUp, top_up, TopUpStep, AnytimeTyped, OracleStopped, Done
  <2>2. Inv'
    BY <1>3, <1>4, TopUpInv, TopUpStepInv DEF TopUp
  <2>3. Exact'
    BY <1>1, <2>1, ExactKept DEF QueryInv
  <2> QED
    BY <1>1, <1>2, <2>1, <2>2, <2>3 DEF QueryInv
<1>5. CASE Finish
  <2>1. /\ at = "resolved" /\ at' = "idle" /\ phase' = "sorted" /\ buffer = {} /\ sort
        /\ phase \in {"adding", "topup"} /\ from' = from
    BY <1>2, <1>5 DEF Finish, sort, AnytimeTyped
  <2>2. Inv'
    BY <1>3, <2>1, SortInv
  <2>3. ASSUME NotStopped' PROVE ~OracleStopped
    <3> SUFFICES ASSUME phase = "adding", Done PROVE FALSE
      BY <2>1 DEF OracleStopped
    <3>1. Stopped /\ documents = 0
      BY <1>1, <1>3, <2>1, <2>3 DEF Inv, NotStopped, Done, Stopped
    <3>2. heap = {}
      BY <1>3, <3>1 DEF Docs
    <3> QED
      BY <1>3, <3>1, <3>2, FS_EmptySet, HeapAssumption DEF PlacesCounted, Stopped
  <2>4. NotStopped' => Exact'
    BY <1>1, <2>1, <2>3, ExactKept DEF QueryInv
  <2> QED
    BY <1>1, <1>2, <2>1, <2>2, <2>4 DEF QueryInv, OracleStopped
<1>6. CASE UNCHANGED anytime_vars
  <2>1. UNCHANGED vars /\ at' = at
    BY <1>6 DEF anytime_vars
  <2>2. Inv'
    BY <1>3, <2>1, NextInv
  <2>3. (Done' <=> Done) /\ (OracleStopped' <=> OracleStopped)
    BY <2>1 DEF OracleStopped, Done, NotStopped, vars
  <2>4. ~OracleStopped => Exact'
    BY <1>1, <2>1, ExactKept DEF QueryInv
  <2> QED
    BY <1>1, <1>2, <2>1, <2>2, <2>3, <2>4 DEF QueryInv
<1> QED
  BY <1>4, <1>5, <1>6, Zenon

\* Every step preserves the invariant.
LEMMA QueryNext ==
  ASSUME QueryInv, PlainUse, [AnytimeNext]_anytime_vars
  PROVE  QueryInv'
BY QueryStart, QueryNextSegment, QueryPosting, QueryEndSegment, QueryRest DEF AnytimeNext

\* The top k of the accumulators.
LEMMA HeapIsBestOf ==
  ASSUME TypeOK, PlacesCounted, Best, NEW score \in [Docs -> Nat],
         \A d \in Docs : accumulators[d] = score[d]
  PROVE  heap = BestOf(score)
<1>1. IsTopK(heap)
  BY BestIsTopK
<1>2. Found = {d \in Docs : score[d] > 0}
  BY DEF Found
<1>3. heap \in SUBSET {d \in Docs : score[d] > 0}
  BY <1>1, <1>2 DEF IsTopK
<1>4. Cardinality(heap) <= top_k
  BY <1>1 DEF IsTopK
<1>5. \A d \in Docs : score[d] > 0 /\ d \notin heap => \A e \in heap : Less(score, d, e)
  BY <1>1, <1>2, <1>3 DEF IsTopK, Less
<1>6. Cardinality(heap) < top_k => heap = {d \in Docs : score[d] > 0}
  BY <1>1, <1>2 DEF IsTopK
<1> QED
  BY <1>3, <1>4, <1>5, <1>6, BestOfIs

\* The results of a query.
LEMMA QuerySafe ==
  ASSUME QueryInv, PlainUse
  PROVE  AnytimeTopK /\ OracleKeepsTopK
<1>1. /\ Inv /\ TypeOK /\ PlacesCounted /\ heap \in SUBSET Docs
      /\ AnytimeTyped /\ Bounded
      /\ header \in Nat /\ Len(segment_order) \in Nat /\ query \in Queries /\ OrderTyped
      /\ needed_for_top_k \in Nat /\ top_k \in Nat \ {0} /\ oracle \in Nat
  <2>1. Inv /\ TypeOK /\ PlacesCounted /\ AnytimeTyped /\ Bounded
    BY DEF QueryInv, Inv, FitInv
  <2>2. heap \in SUBSET Docs /\ needed_for_top_k \in Nat /\ top_k \in Nat \ {0} /\ oracle \in Nat
    BY <2>1, HeapAssumption DEF TypeOK
  <2>3. OrderTyped /\ query \in Queries
    BY <2>1 DEF AnytimeTyped, Queries
  <2>4. header \in Nat /\ Len(segment_order) \in Nat
    BY <2>1, <2>3 DEF AnytimeTyped, OrderTyped
  <2> QED
    BY <2>1, <2>2, <2>3, <2>4
<1> DEFINE scores == [d \in Docs |-> ScoreIn(d, header - 1)]
<1>2. /\ scores \in [Docs -> Nat] /\ Score \in [Docs -> Nat]
  <2>1. \A d \in Docs : ScoreIn(d, header - 1) \in Nat /\ Score[d] \in Nat
    BY <1>1, LoopFacts DEF PlainUse
  <2>2. Score = [d \in Docs |-> Score[d]]
    BY DEF Score
  <2> QED
    BY <2>1, <2>2, Zenon
<1>3. ASSUME Finished, NotStopped PROVE Exact /\ heap = BestOf(scores)
  <2>1. Exact
    BY <1>3 DEF QueryInv, OracleStopped, Finished
  <2>2. Best
    BY <1>1, <1>3 DEF Inv, NotStopped, Finished
  <2>3. ASSUME NEW d \in Docs PROVE accumulators[d] = scores[d]
    <3>1. accumulators[d] = ScoreIn(d, header - 1) + 0
      BY <1>3, <2>1 DEF Exact, Current, Finished
    <3>2. scores[d] = ScoreIn(d, header - 1) /\ scores[d] \in Nat
      BY <1>2
    <3> QED
      BY <3>1, <3>2
  <2> HIDE DEF scores
  <2> QED
    BY <1>1, <1>2, <2>1, <2>2, <2>3, HeapIsBestOf
<1>4. AnytimeTopK
  BY <1>3 DEF AnytimeTopK, QueryInv, Exact, Finished
<1>5. ASSUME Finished, ~NotStopped
      PROVE  /\ needed_for_top_k = 0 /\ Cardinality(heap) = top_k
             /\ \A d \in heap : Score[d] >= oracle
  <2>1. Stopped
    BY <1>1, <1>5 DEF Inv, NotStopped, Finished
  <2>2. Cardinality(heap) \in Nat
    BY <1>1, HeapFinite, Zenon
  <2>3. ASSUME NEW d \in heap PROVE Score[d] >= oracle
    <3>1. accumulators[d] >= oracle /\ accumulators[d] <= Score[d]
      BY <1>1, <2>1 DEF Stopped, Bounded
    <3>2. accumulators[d] \in Int /\ Score[d] \in Int /\ oracle \in Int
      BY <1>1, <1>2 DEF TypeOK
    <3> QED
      BY <3>1, <3>2
  <2> QED
    BY <1>1, <2>1, <2>2, <2>3 DEF Stopped, PlacesCounted
<1>6. ASSUME Finished, oracle > 1, ~NotStopped \/ header > Len(segment_order),
             Cardinality({d \in Docs : Score[d] >= oracle}) = top_k
      PROVE  heap = BestOf(Score)
  <2>1. CASE NotStopped
    <3>1. header - 1 = Len(segment_order)
      BY <1>1, <1>6, <2>1 DEF AnytimeTyped
    <3>2. scores = Score
      BY <3>1 DEF Score
    <3> QED
      BY <1>3, <1>6, <2>1, <3>2
  <2>2. CASE ~NotStopped
    <3> DEFINE R == {d \in Docs : Score[d] >= oracle}
    <3>1. heap \in SUBSET R /\ Cardinality(heap) = Cardinality(R) /\ IsFiniteSet(R)
      BY <1>1, <1>5, <1>6, <2>2, HeapFinite
    <3>2. heap = R
      BY <3>1, FS_Subset
    <3>3. \A d \in Docs : Score[d] \in Int
      BY <1>2
    <3>4. heap \in SUBSET {d \in Docs : Score[d] > 0}
      BY <1>1, <1>6, <3>2, <3>3
    <3>5. \A d \in Docs : Score[d] > 0 /\ d \notin heap => \A e \in heap : Less(Score, d, e)
      BY <1>1, <3>2, <3>3 DEF Less
    <3>6. Cardinality(heap) = top_k
      BY <1>5, <1>6, <2>2
    <3> QED
      BY <1>1, <1>2, <3>4, <3>5, <3>6, BestOfIs
  <2> QED
    BY <2>1, <2>2
<1>7. OracleKeepsTopK
  BY <1>6 DEF OracleKeepsTopK
<1> QED
  BY <1>4, <1>7, Zenon

\* The invariant holds throughout.
LEMMA QueryAlways ==
  ASSUME PlainUse
  PROVE  AnytimeSpec => []QueryInv
<1>1. AnytimeInit => QueryInv
  BY QueryInit
<1>2. QueryInv /\ [AnytimeNext]_anytime_vars => QueryInv'
  BY QueryNext
<1> QED
  BY <1>1, <1>2, PTL DEF AnytimeSpec

\* For every index, query, k and budget, if the oracle's scores fit an accumulator and no
\* minimum number of postings goes with them: the results of anytime() are the top k of
\* the highest impact segments that fit the budget, unless an oracle stops it.
THEOREM AnytimeIsTopK ==
  ASSUME PlainUse
  PROVE  AnytimeSpec => []AnytimeTopK
<1>1. QueryInv => AnytimeTopK
  BY QuerySafe
<1> QED
  BY <1>1, QueryAlways, PTL

\* An oracle that knows the score of the k-th document does not change the results, under
\* the same assumptions.
THEOREM OracleChangesNothing ==
  ASSUME PlainUse
  PROVE  AnytimeSpec => []OracleKeepsTopK
<1>1. QueryInv => OracleKeepsTopK
  BY QuerySafe
<1> QED
  BY <1>1, QueryAlways, PTL
===============================================================================
