--------------------------- MODULE QueryHeapProofs ---------------------------
(***************************************************************************)
(* The heap of query_heap_clean holds the top k, for every number of       *)
(* documents, every k, all impacts and all oracle scores.                  *)
(***************************************************************************)
EXTENDS QueryHeap, FiniteSetTheorems, TLAPS

\* The heap is the top k of the documents found: what IsTopK says with the
\* number of free places in the place of cardinalities.
Best ==
  /\ heap \subseteq Found
  /\ needed_for_top_k > 0 => heap = Found
  /\ \A d \in Found \ heap : \A e \in heap : Less(accumulators, d, e)

\* While postings are added: a heap with a free place holds every document that
\* has reached the lower bound; a full one holds better documents than all the
\* others, and its root has the lower bound for its score.
Adding ==
  /\ from = 0
  /\ needed_for_top_k > 0 =>
       /\ top_k_lower_bound = oracle
       /\ heap = {d \in Docs : accumulators[d] >= oracle}
  /\ needed_for_top_k = 0 =>
       /\ oracle = 1
       /\ IsRoot(accumulators, heap, root)
       /\ top_k_lower_bound = accumulators[root]
       /\ \A d \in Docs \ heap : \A e \in heap : Less(accumulators, d, e)

\* The documents that top_up() has considered: those that were in the heap when
\* it started, and those that its loop has passed.
Considered == {d \in Docs : accumulators[d] >= oracle \/ (d < from /\ accumulators[d] > 0)}

\* While top_up() runs: the heap is the top k of the documents considered.
ToppingUp ==
  /\ top_k_lower_bound = oracle
  /\ heap \subseteq Considered
  /\ needed_for_top_k > 0 => heap = Considered /\ heap_entry_point = 1
  /\ needed_for_top_k = 0 =>
       /\ IsRoot(accumulators, heap, root)
       /\ heap_entry_point = accumulators[root]
       /\ \A d \in Considered \ heap : \A e \in heap : Less(accumulators, d, e)

\* Once the heap has filled under an oracle.
Stopped ==
  /\ from = 0 /\ needed_for_top_k = 0
  /\ \A d \in heap : accumulators[d] >= oracle

\* The inductive invariant.
Inv ==
  /\ TypeOK
  /\ PlacesCounted
  /\ lost = FALSE
  /\ oracle >= 1
  /\ heap \subseteq Found
  /\ phase = "adding" => IF Done THEN Stopped ELSE Adding
  /\ phase = "topup" => ToppingUp
  /\ phase = "sorted" => IF oracle = 1 \/ from = documents THEN Best ELSE Stopped

\* A heap is finite, and so are its neighbours.
LEMMA HeapFinite ==
  ASSUME NEW S \in SUBSET Docs
  PROVE  IsFiniteSet(S) /\ Cardinality(S) \in Nat
<1>1. IsFiniteSet(Docs)
  BY HeapAssumption, FS_Interval DEF Docs
<1> QED
  BY <1>1, FS_Subset, FS_CardinalityType

\* Taking a free place adds one document.
LEMMA FillCounts ==
  ASSUME NEW S \in SUBSET Docs, NEW d \in Docs, d \notin S
  PROVE  Cardinality(S \cup {d}) = Cardinality(S) + 1
BY HeapFinite, FS_AddElement

\* push_back() keeps the number of documents.
LEMMA PushCounts ==
  ASSUME NEW S \in SUBSET Docs, NEW d \in Docs, d \notin S, NEW r \in S
  PROVE  Cardinality((S \ {r}) \cup {d}) = Cardinality(S)
<1>1. /\ S \ {r} \in SUBSET Docs
      /\ d \notin S \ {r}
  OBVIOUS
<1>2. Cardinality((S \ {r}) \cup {d}) = Cardinality(S \ {r}) + 1
  BY <1>1, FillCounts
<1>3. IsFiniteSet(S) /\ Cardinality(S) \in Nat
  BY HeapFinite
<1>4. Cardinality(S \ {r}) = Cardinality(S) - 1
  BY <1>3, FS_RemoveElement
<1> QED
  BY <1>2, <1>3, <1>4

\* No documents, no heap.
LEMMA InitInv == Init => Inv
<1> SUFFICES ASSUME Init PROVE Inv
  OBVIOUS
<1> USE HeapAssumption DEF Init
<1>0. /\ accumulators \in [Docs -> 0 .. MAX_RSV]
      /\ needed_for_top_k \in 0 .. top_k
      /\ from \in 0 .. documents
      /\ top_k_lower_bound \in Nat /\ heap_entry_point \in Nat /\ oracle \in Nat
  OBVIOUS
<1>1. TypeOK
  BY <1>0 DEF TypeOK
<1>2. PlacesCounted
  BY FS_EmptySet DEF PlacesCounted
<1>3. Adding /\ ~Done
  BY DEF Adding, Done, Docs
<1> QED
  BY <1>1, <1>2, <1>3 DEF Inv

\* Inv is the top k.
LEMMA BestIsTopK ==
  ASSUME TypeOK, PlacesCounted, Best
  PROVE  IsTopK(heap)
<1>1. heap \in SUBSET Docs /\ needed_for_top_k \in 0 .. top_k
  BY DEF TypeOK
<1>2. Cardinality(heap) \in Nat
  BY <1>1, HeapFinite
<1>3. Cardinality(heap) <= top_k /\ (Cardinality(heap) < top_k => needed_for_top_k > 0)
  BY <1>1, <1>2, HeapAssumption DEF PlacesCounted
<1> QED
  BY <1>3 DEF Best, IsTopK

-----------------------------------------------------------------------------
\* rewind() starts an empty heap.
LEMMA RewindInv ==
  ASSUME Inv, NEW rsv_at_k \in Nat \ {0}, rewind(rsv_at_k, rsv_at_k)
  PROVE  Inv'
<1> USE HeapAssumption DEF rewind
<1>0. /\ accumulators' \in [Docs -> 0 .. MAX_RSV]
      /\ needed_for_top_k' \in 0 .. top_k
      /\ from' \in 0 .. documents
      /\ top_k_lower_bound' \in Nat /\ heap_entry_point' \in Nat /\ oracle' \in Nat
      /\ oracle' >= 1
      /\ lost' = FALSE
  BY DEF Inv
<1>1. TypeOK'
  BY <1>0 DEF TypeOK
<1>2. PlacesCounted'
  BY FS_EmptySet DEF PlacesCounted
<1>3. Adding' /\ ~Done'
  BY DEF Adding, Done, Docs
<1> QED
  BY <1>0, <1>1, <1>2, <1>3 DEF Inv

\* What add_rsv() does to the accumulators.
LEMMA Added ==
  ASSUME TypeOK, NEW d \in Docs, NEW score \in Nat \ {0}, add_rsv(d, score)
  PROVE  /\ accumulators' = [accumulators EXCEPT ![d] = accumulators[d] + score]
         /\ accumulators' \in [Docs -> 0 .. MAX_RSV]
         /\ accumulators'[d] = accumulators[d] + score
         /\ accumulators'[d] > accumulators[d]
         /\ \A e \in Docs : e # d => accumulators'[e] = accumulators[e]
<1>1. /\ accumulators \in [Docs -> 0 .. MAX_RSV]
      /\ MAX_RSV \in Nat
  BY HeapAssumption DEF TypeOK
<1>2. accumulators[d] \in Nat /\ accumulators[d] + score \in 0 .. MAX_RSV
  BY <1>1 DEF add_rsv
<1> QED
  BY <1>1, <1>2 DEF add_rsv

\* add_rsv() with a heap that has a free place.
LEMMA FillInv ==
  ASSUME Inv, NEW d \in Docs, NEW score \in Nat \ {0}, add_rsv(d, score),
         needed_for_top_k > 0, accumulators'[d] >= oracle, accumulators[d] < oracle,
         Fill(accumulators', d)
  PROVE  Inv'
<1> DEFINE a == accumulators
           b == accumulators'
<1>1. /\ phase = "adding" /\ Adding /\ TypeOK /\ PlacesCounted /\ lost = FALSE
      /\ oracle >= 1 /\ heap \subseteq Found
      /\ UNCHANGED << heap_entry_point, from, oracle, lost >>
  BY DEF Inv, add_rsv, Fill, Done
<1>2. /\ a \in [Docs -> 0 .. MAX_RSV] /\ b \in [Docs -> 0 .. MAX_RSV]
      /\ b[d] > a[d] /\ \A e \in Docs : e # d => b[e] = a[e]
  BY <1>1, Added DEF TypeOK
<1>3. /\ heap \in SUBSET Docs /\ needed_for_top_k \in 0 .. top_k /\ oracle \in Nat
      /\ from = 0 /\ top_k_lower_bound = oracle
      /\ heap = {e \in Docs : a[e] >= oracle}
      /\ MAX_RSV \in Nat /\ top_k \in Nat /\ documents \in Nat
  BY <1>1, HeapAssumption DEF TypeOK, Adding
<1>4. d \notin heap
  BY <1>2, <1>3
<1>5. heap' = heap \cup {d} /\ needed_for_top_k' = needed_for_top_k - 1
  BY DEF Fill
<1>6. heap' \in SUBSET Docs /\ needed_for_top_k' \in 0 .. top_k
  BY <1>3, <1>5
<1>7. PlacesCounted'
  <2>1. Cardinality(heap') = Cardinality(heap) + 1
    BY <1>3, <1>4, <1>5, FillCounts
  <2>2. Cardinality(heap) \in Nat
    BY <1>3, HeapFinite
  <2> QED
    BY <1>1, <1>3, <1>5, <2>1, <2>2 DEF PlacesCounted
<1>8. \A e \in heap' : b[e] >= oracle
  BY <1>2, <1>3, <1>5
<1>9. \A e \in Docs \ heap' : b[e] < oracle
  BY <1>2, <1>3, <1>5
<1>10. (heap \subseteq Found)'
  BY <1>1, <1>2, <1>3, <1>6, <1>8 DEF Found
<1>11. CASE needed_for_top_k # 1
  <2>1. UNCHANGED << root, top_k_lower_bound, phase >>
    BY <1>11 DEF Fill
  <2>2. TypeOK'
    BY <1>1, <1>2, <1>6, <2>1 DEF TypeOK
  <2>3. heap' = {e \in Docs : b[e] >= oracle}
    BY <1>2, <1>3, <1>6, <1>8, <1>9
  <2>4. needed_for_top_k' > 0
    BY <1>3, <1>5, <1>11
  <2>5. Adding'
    BY <1>1, <1>3, <2>1, <2>3, <2>4 DEF Adding
  <2> QED
    BY <1>1, <1>7, <1>10, <2>1, <2>2, <2>4, <2>5 DEF Inv, Done
<1>12. CASE needed_for_top_k = 1
  <2>1. needed_for_top_k' = 0
    BY <1>5, <1>12
  <2>2. root' \in heap' /\ IsRoot(b, heap', root')
    BY <1>12 DEF Fill
  <2>3. root' \in Docs
    BY <1>6, <2>2
  <2>4. CASE oracle # 1
    <3>1. phase' = phase /\ top_k_lower_bound' = top_k_lower_bound
      BY <1>3, <1>12, <2>4 DEF Fill
    <3>2. TypeOK'
      BY <1>1, <1>2, <1>6, <2>3, <3>1 DEF TypeOK
    <3>3. Stopped' /\ Done'
      BY <1>1, <1>3, <1>8, <2>1, <2>4 DEF Stopped, Done
    <3> QED
      BY <1>1, <1>7, <1>10, <3>1, <3>2, <3>3 DEF Inv
  <2>5. CASE oracle = 1
    <3>1. phase' = phase /\ top_k_lower_bound' = b[root']
      BY <1>3, <1>12, <2>5 DEF Fill
    <3>2. TypeOK'
      <4>1. top_k_lower_bound' \in Nat
        BY <1>2, <1>3, <2>3, <3>1
      <4> QED
        BY <1>1, <1>2, <1>6, <2>3, <3>1, <4>1 DEF TypeOK
    <3>3. \A e \in Docs \ heap' : \A f \in heap' : Less(b, e, f)
      BY <1>2, <1>3, <1>6, <1>8, <1>9 DEF Less
    <3>4. Adding'
      BY <1>1, <1>3, <2>1, <2>2, <2>5, <3>1, <3>3 DEF Adding
    <3> QED
      BY <1>1, <1>7, <1>10, <2>5, <3>1, <3>2, <3>4 DEF Inv, Done
  <2> QED
    BY <2>4, <2>5
<1> QED
  BY <1>11, <1>12

\* add_rsv() when the heap stays as it is.
LEMMA IgnoreInv ==
  ASSUME Inv, ~Done, NEW d \in Docs, NEW score \in Nat \ {0}, add_rsv(d, score), Ignore,
         \/ accumulators'[d] < top_k_lower_bound
         \/ needed_for_top_k > 0 /\ accumulators[d] >= top_k_lower_bound
         \/ needed_for_top_k = 0 /\ KeepOut(accumulators', d, accumulators[d])
  PROVE  Inv'
<1> DEFINE a == accumulators
           b == accumulators'
<1>1. /\ phase = "adding" /\ Adding /\ TypeOK /\ PlacesCounted /\ lost = FALSE
      /\ oracle >= 1 /\ heap \subseteq Found
      /\ UNCHANGED << heap, root, needed_for_top_k, top_k_lower_bound, phase, lost,
                      heap_entry_point, from, oracle >>
  BY DEF Inv, add_rsv, Ignore
<1>2. /\ a \in [Docs -> 0 .. MAX_RSV] /\ b \in [Docs -> 0 .. MAX_RSV]
      /\ b[d] > a[d] /\ \A e \in Docs : e # d => b[e] = a[e]
  BY <1>1, Added DEF TypeOK
<1>3. /\ heap \in SUBSET Docs /\ needed_for_top_k \in 0 .. top_k /\ oracle \in Nat
      /\ MAX_RSV \in Nat /\ top_k \in Nat /\ documents \in Nat
      /\ top_k_lower_bound \in Nat
  BY <1>1, HeapAssumption DEF TypeOK
<1>4. TypeOK'
  BY <1>1, <1>2 DEF TypeOK
<1>5. PlacesCounted'
  BY <1>1 DEF PlacesCounted
<1>6. (heap \subseteq Found)'
  BY <1>1, <1>2, <1>3 DEF Found
<1>7. CASE needed_for_top_k > 0
  <2>1. /\ top_k_lower_bound = oracle
        /\ heap = {e \in Docs : a[e] >= oracle}
    BY <1>1, <1>7 DEF Adding
  <2>2. b[d] < oracle \/ a[d] >= oracle
    BY <1>3, <1>7, <2>1
  <2>3. \A e \in Docs : (b[e] >= oracle) <=> (a[e] >= oracle)
    BY <1>2, <1>3, <2>2
  <2>4. heap' = {e \in Docs : b[e] >= oracle}
    BY <1>1, <2>1, <2>3
  <2>5. Adding'
    BY <1>1, <1>7, <2>1, <2>4 DEF Adding
  <2> QED
    BY <1>1, <1>4, <1>5, <1>6, <2>5 DEF Inv, Done
<1>8. CASE needed_for_top_k = 0
  <2>1. /\ oracle = 1 /\ IsRoot(a, heap, root) /\ top_k_lower_bound = a[root]
        /\ \A e \in Docs \ heap : \A f \in heap : Less(a, e, f)
    BY <1>1, <1>8 DEF Adding
  <2>2. root \in heap /\ root \in Docs
    BY <1>3, <2>1 DEF IsRoot
  <2>3. b[d] < a[root] \/ (b[d] = a[root] /\ d < root)
    BY <1>3, <1>8, <2>1 DEF KeepOut
  <2>4. \A e \in heap : a[root] <= a[e]
    BY <1>2, <1>3, <2>1, <2>2 DEF IsRoot, Less
  <2>5. d \notin heap
    BY <1>2, <1>3, <2>2, <2>3, <2>4
  <2>6. \A e \in heap : b[e] = a[e]
    BY <1>2, <1>3, <2>5
  <2>7. IsRoot(b, heap, root)
    BY <2>1, <2>2, <2>6 DEF IsRoot, Less
  <2>8. \A f \in heap : Less(b, d, f)
    <3>1. Less(b, d, root)
      BY <2>2, <2>3, <2>6 DEF Less
    <3>2. \A f \in heap : f = root \/ Less(b, root, f)
      BY <2>7 DEF IsRoot
    <3>3. d \in Int /\ root \in Int /\ b[d] \in Int /\ b[root] \in Int
      BY <1>2, <1>3, <2>2 DEF Docs
    <3> SUFFICES ASSUME NEW f \in heap PROVE Less(b, d, f)
      OBVIOUS
    <3>4. f \in Int /\ b[f] \in Int
      BY <1>2, <1>3 DEF Docs
    <3>5. CASE f = root
      BY <3>1, <3>5
    <3>6. CASE Less(b, root, f)
      BY <3>1, <3>3, <3>4, <3>6 DEF Less
    <3> QED
      BY <3>2, <3>5, <3>6
  <2>9. \A e \in Docs \ heap : \A f \in heap : Less(b, e, f)
    BY <1>2, <1>3, <2>1, <2>6, <2>8 DEF Less
  <2>10. Adding'
    BY <1>1, <1>8, <2>1, <2>2, <2>6, <2>7, <2>9 DEF Adding
  <2> QED
    BY <1>1, <1>4, <1>5, <1>6, <2>10 DEF Inv, Done
<1> QED
  BY <1>3, <1>7, <1>8

\* add_rsv() when a document enters a full heap and the root leaves it.
LEMMA PushInv ==
  ASSUME Inv, ~Done, NEW d \in Docs, NEW score \in Nat \ {0}, add_rsv(d, score),
         needed_for_top_k = 0, accumulators'[d] >= top_k_lower_bound,
         ~KeepOut(accumulators', d, accumulators[d]),
         WasOut(accumulators', d, accumulators[d]),
         Push(accumulators', d)
  PROVE  Inv'
<1> DEFINE a == accumulators
           b == accumulators'
<1>1. /\ phase = "adding" /\ Adding /\ TypeOK /\ PlacesCounted /\ lost = FALSE
      /\ oracle >= 1 /\ heap \subseteq Found
      /\ UNCHANGED << needed_for_top_k, phase, lost, heap_entry_point, from, oracle >>
  BY DEF Inv, add_rsv, Push
<1>2. /\ a \in [Docs -> 0 .. MAX_RSV] /\ b \in [Docs -> 0 .. MAX_RSV]
      /\ b[d] > a[d] /\ \A e \in Docs : e # d => b[e] = a[e]
  BY <1>1, Added DEF TypeOK
<1>3. /\ heap \in SUBSET Docs /\ oracle \in Nat
      /\ MAX_RSV \in Nat /\ top_k \in Nat /\ documents \in Nat
  BY <1>1, HeapAssumption DEF TypeOK
<1>4. /\ oracle = 1 /\ IsRoot(a, heap, root) /\ top_k_lower_bound = a[root] /\ from = 0
      /\ \A e \in Docs \ heap : \A f \in heap : Less(a, e, f)
  BY <1>1 DEF Adding
<1>5. root \in heap /\ root \in Docs /\ root \in Int /\ d \in Int
  BY <1>3, <1>4 DEF IsRoot, Docs
<1>6. Less(a, d, root) /\ Less(b, root, d) /\ d # root
  BY <1>2, <1>3, <1>4, <1>5 DEF KeepOut, WasOut, Less
<1>7. d \notin heap
  <2>1. a[d] \in Int /\ a[root] \in Int
    BY <1>2, <1>5
  <2>2. ~Less(a, root, d)
    BY <1>5, <1>6, <2>1 DEF Less
  <2> QED
    BY <1>4, <1>6, <2>2 DEF IsRoot
<1>8. heap' = (heap \ {root}) \cup {d} /\ IsRoot(b, heap', root') /\ top_k_lower_bound' = b[root']
  BY DEF Push
<1>9. heap' \in SUBSET Docs /\ root' \in heap' /\ root' \in Docs
  BY <1>3, <1>8 DEF IsRoot
<1>10. top_k_lower_bound' \in Nat
  BY <1>2, <1>3, <1>8, <1>9
<1>11. TypeOK'
  BY <1>1, <1>2, <1>9, <1>10 DEF TypeOK
<1>12. PlacesCounted'
  BY <1>1, <1>3, <1>5, <1>7, <1>8, PushCounts DEF PlacesCounted
<1>13. (heap \subseteq Found)'
  <2>1. \A e \in heap : a[e] > 0
    BY <1>1 DEF Found
  <2>2. \A e \in heap' : b[e] > 0
    BY <1>2, <1>3, <1>8, <2>1
  <2> QED
    BY <1>9, <2>2 DEF Found
<1>14. \A e \in Docs \ heap' : \A f \in heap' : Less(b, e, f)
  <2>1. \A e \in Docs \ heap' : e # d /\ b[e] = a[e] /\ e \in Int
    BY <1>2, <1>8 DEF Docs
  <2>2. \A f \in heap \ {root} : b[f] = a[f] /\ Less(a, root, f) /\ f \in Int /\ f \in Docs
    BY <1>2, <1>3, <1>4, <1>7 DEF IsRoot, Docs
  <2>3. b[root] = a[root]
    BY <1>2, <1>5, <1>6
  <2>4. \A e \in Docs \ heap' : e = root \/ Less(a, e, root)
    BY <1>4, <1>5, <1>8
  <2>5. \A e \in Docs \ heap' : \A f \in heap \ {root} : Less(b, e, f)
    BY <1>2, <1>3, <1>5, <2>1, <2>2, <2>3, <2>4 DEF Less
  <2>6. \A e \in Docs \ heap' : Less(b, e, d)
    BY <1>2, <1>3, <1>5, <1>6, <2>1, <2>3, <2>4 DEF Less
  <2> QED
    BY <1>8, <2>5, <2>6
<1>15. Adding'
  BY <1>1, <1>4, <1>8, <1>14 DEF Adding
<1> QED
  BY <1>1, <1>4, <1>11, <1>12, <1>13, <1>15 DEF Inv, Done

\* add_rsv() when the document is in the heap: it is, indeed.
LEMMA PromoteInv ==
  ASSUME Inv, ~Done, NEW d \in Docs, NEW score \in Nat \ {0}, add_rsv(d, score),
         needed_for_top_k = 0, accumulators'[d] >= top_k_lower_bound,
         ~WasOut(accumulators', d, accumulators[d]),
         Promote(accumulators', d)
  PROVE  Inv'
<1> DEFINE a == accumulators
           b == accumulators'
<1>1. /\ phase = "adding" /\ Adding /\ TypeOK /\ PlacesCounted /\ lost = FALSE
      /\ oracle >= 1 /\ heap \subseteq Found
      /\ UNCHANGED << heap, needed_for_top_k, phase, heap_entry_point, from, oracle >>
  BY DEF Inv, add_rsv, Promote
<1>2. /\ a \in [Docs -> 0 .. MAX_RSV] /\ b \in [Docs -> 0 .. MAX_RSV]
      /\ b[d] > a[d] /\ \A e \in Docs : e # d => b[e] = a[e]
  BY <1>1, Added DEF TypeOK
<1>3. /\ heap \in SUBSET Docs /\ oracle \in Nat
      /\ MAX_RSV \in Nat /\ top_k \in Nat /\ documents \in Nat
  BY <1>1, HeapAssumption DEF TypeOK
<1>4. /\ oracle = 1 /\ IsRoot(a, heap, root) /\ top_k_lower_bound = a[root] /\ from = 0
      /\ \A e \in Docs \ heap : \A f \in heap : Less(a, e, f)
  BY <1>1 DEF Adding
<1>5. root \in heap /\ root \in Docs /\ root \in Int /\ d \in Int
  BY <1>3, <1>4 DEF IsRoot, Docs
<1>6. d = root \/ Less(a, root, d)
  BY <1>2, <1>3, <1>4, <1>5 DEF WasOut, Less
<1>7. d \in heap
  BY <1>2, <1>3, <1>4, <1>5, <1>6 DEF Less
<1>8. lost' = FALSE /\ IsRoot(b, heap, root') /\ top_k_lower_bound' = b[root']
  BY <1>7 DEF Promote
<1>9. root' \in Docs
  BY <1>3, <1>8 DEF IsRoot
<1>10. top_k_lower_bound' \in Nat
  BY <1>2, <1>3, <1>8, <1>9
<1>11. TypeOK'
  BY <1>1, <1>2, <1>8, <1>9, <1>10 DEF TypeOK
<1>12. PlacesCounted'
  BY <1>1 DEF PlacesCounted
<1>13. (heap \subseteq Found)'
  BY <1>1, <1>2, <1>3 DEF Found
<1>14. \A e \in Docs \ heap : \A f \in heap : Less(b, e, f)
  <2>1. \A e \in Docs \ heap : b[e] = a[e]
    BY <1>2, <1>7
  <2>2. \A f \in heap : b[f] >= a[f]
    BY <1>2, <1>3
  <2> QED
    BY <1>2, <1>3, <1>4, <2>1, <2>2 DEF Less
<1>15. Adding'
  BY <1>1, <1>4, <1>8, <1>14 DEF Adding
<1> QED
  BY <1>1, <1>4, <1>8, <1>11, <1>12, <1>13, <1>15 DEF Inv, Done

\* add_rsv().
LEMMA AddInv ==
  ASSUME Inv, ~Done, NEW d \in Docs, NEW score \in Nat \ {0}, add_rsv(d, score)
  PROVE  Inv'
<1> DEFINE old == accumulators[d]
<1>1. TypeOK /\ phase = "adding" /\ Adding
  BY DEF Inv, add_rsv
<1>2. /\ needed_for_top_k \in Nat /\ top_k_lower_bound \in Nat
      /\ (needed_for_top_k > 0 => top_k_lower_bound = oracle)
      /\ old \in Nat
  BY <1>1, HeapAssumption DEF TypeOK, Adding
<1>3. accumulators' = [accumulators EXCEPT ![d] = old + score]
  BY DEF add_rsv
<1>4. CASE accumulators'[d] < top_k_lower_bound /\ Ignore
  BY <1>4, IgnoreInv
<1>5. CASE /\ accumulators'[d] >= top_k_lower_bound /\ needed_for_top_k > 0
           /\ IF old < top_k_lower_bound THEN Fill(accumulators', d) ELSE Ignore
  <2>1. CASE old < top_k_lower_bound
    BY <1>2, <1>5, <2>1, FillInv
  <2>2. CASE ~(old < top_k_lower_bound)
    <3>1. Ignore /\ old >= top_k_lower_bound
      BY <1>2, <1>5, <2>2
    <3> QED
      BY <1>5, <3>1, IgnoreInv
  <2> QED
    BY <2>1, <2>2
<1>6. CASE needed_for_top_k = 0 /\ KeepOut(accumulators', d, old) /\ Ignore
  BY <1>6, IgnoreInv
<1>7. CASE /\ accumulators'[d] >= top_k_lower_bound /\ needed_for_top_k = 0
           /\ ~KeepOut(accumulators', d, old) /\ WasOut(accumulators', d, old)
           /\ Push(accumulators', d)
  BY <1>7, PushInv
<1>8. CASE /\ accumulators'[d] >= top_k_lower_bound /\ needed_for_top_k = 0
           /\ ~WasOut(accumulators', d, old) /\ Promote(accumulators', d)
  BY <1>8, PromoteInv
<1> QED
  BY <1>3, <1>4, <1>5, <1>6, <1>7, <1>8 DEF add_rsv

-----------------------------------------------------------------------------
\* top_up() starts with what reached the oracle's score.
LEMMA TopUpInv ==
  ASSUME Inv, top_up
  PROVE  Inv'
<1>1. /\ Adding /\ TypeOK /\ PlacesCounted /\ needed_for_top_k > 0
      /\ UNCHANGED << accumulators, heap, root, needed_for_top_k, top_k_lower_bound,
                      oracle, lost >>
      /\ phase' = "topup" /\ from' = 0 /\ heap_entry_point' = 1
  BY DEF Inv, top_up, Done
<1>2. TypeOK' /\ PlacesCounted'
  BY <1>1, HeapAssumption DEF TypeOK, PlacesCounted
<1>3. heap' = Considered'
  BY <1>1 DEF Adding, Considered, Docs
<1>4. needed_for_top_k' \in Nat
  BY <1>2, HeapAssumption DEF TypeOK
<1>5. ToppingUp'
  BY <1>1, <1>3, <1>4 DEF ToppingUp, Adding
<1> QED
  BY <1>1, <1>2, <1>5 DEF Inv, Found

\* One document of top_up()'s loop.
LEMMA TopUpStepInv ==
  ASSUME Inv, TopUpStep
  PROVE  Inv'
<1> DEFINE a == accumulators
<1>1. /\ phase = "topup" /\ ToppingUp /\ TypeOK /\ PlacesCounted /\ lost = FALSE
      /\ oracle >= 1 /\ heap \subseteq Found /\ from < documents /\ from' = from + 1
      /\ UNCHANGED << accumulators, top_k_lower_bound, phase, oracle, lost >>
  BY DEF Inv, TopUpStep
<1>2. /\ a \in [Docs -> 0 .. MAX_RSV] /\ heap \in SUBSET Docs /\ oracle \in Nat
      /\ needed_for_top_k \in 0 .. top_k /\ from \in 0 .. documents
      /\ heap_entry_point \in Nat
      /\ MAX_RSV \in Nat /\ top_k \in Nat /\ documents \in Nat
  BY <1>1, HeapAssumption DEF TypeOK
<1>3. from \in Docs /\ from' \in 0 .. documents /\ from \in Int /\ a[from] \in Nat
  BY <1>1, <1>2 DEF Docs
<1>4. top_k_lower_bound = oracle
  BY <1>1 DEF ToppingUp
<1>5. \A d \in Docs : (d \in Considered') <=> (d \in Considered \/ (d = from /\ a[d] > 0))
  BY <1>1, <1>3 DEF Considered, Docs
<1>6. CASE ~Wanted /\ UNCHANGED << heap, root, needed_for_top_k, heap_entry_point >>
  <2>1. TypeOK' /\ PlacesCounted' /\ (heap \subseteq Found)'
    BY <1>1, <1>3, <1>6 DEF TypeOK, PlacesCounted, Found
  <2>2. a[from] < heap_entry_point \/ a[from] >= oracle
    BY <1>2, <1>3, <1>4, <1>6 DEF Wanted
  <2>3. a[from] >= oracle => from \in Considered
    BY <1>3 DEF Considered
  <2>4. CASE needed_for_top_k > 0
    <3>1. heap = Considered /\ heap_entry_point = 1
      BY <1>1, <2>4 DEF ToppingUp
    <3>2. \A d \in Docs : (d \in Considered') <=> (d \in Considered)
      BY <1>3, <1>5, <2>2, <2>3, <3>1
    <3>3. Considered' = Considered
      BY <1>1, <3>2 DEF Considered
    <3>4. ToppingUp'
      BY <1>1, <1>2, <1>6, <2>4, <3>1, <3>3 DEF ToppingUp
    <3> QED
      BY <1>1, <2>1, <3>4 DEF Inv
  <2>5. CASE needed_for_top_k = 0
    <3>1. /\ IsRoot(a, heap, root) /\ heap_entry_point = a[root]
          /\ heap \subseteq Considered
          /\ \A d \in Considered \ heap : \A e \in heap : Less(a, d, e)
      BY <1>1, <2>5 DEF ToppingUp
    <3>2. heap \subseteq Considered'
      BY <1>2, <1>5, <3>1
    <3>3. \A e \in heap : a[root] <= a[e]
      BY <1>2, <3>1 DEF IsRoot, Less
    <3>4. \A d \in Considered' \ heap : \A e \in heap : Less(a, d, e)
      <4> SUFFICES ASSUME NEW d \in Considered', d \notin heap, NEW e \in heap
                   PROVE  Less(a, d, e)
        OBVIOUS
      <4>1. d \in Docs
        BY <1>1 DEF Considered
      <4>2. CASE d \in Considered
        BY <3>1, <4>2
      <4>3. CASE d \notin Considered
        <5>1. d = from /\ a[from] < a[root]
          BY <1>5, <2>2, <2>3, <3>1, <4>1, <4>3
        <5>2. a[root] \in Nat /\ a[e] \in Nat
          BY <1>2, <3>1 DEF IsRoot
        <5> QED
          BY <1>3, <3>3, <5>1, <5>2 DEF Less
      <4> QED
        BY <4>2, <4>3
    <3>5. ToppingUp'
      BY <1>1, <1>2, <1>6, <2>5, <3>1, <3>2, <3>4 DEF ToppingUp
    <3> QED
      BY <1>1, <2>1, <3>5 DEF Inv
  <2> QED
    BY <1>2, <2>4, <2>5
<1>7. CASE Wanted /\ needed_for_top_k > 0
  <2>1. /\ heap' = heap \cup {from} /\ needed_for_top_k' = needed_for_top_k - 1
    BY <1>7 DEF TopUpStep
  <2>2. heap = Considered /\ heap_entry_point = 1
    BY <1>1, <1>7 DEF ToppingUp
  <2>3. a[from] >= 1 /\ a[from] < oracle
    BY <1>4, <1>7, <2>2 DEF Wanted
  <2>4. from \notin heap
    BY <1>2, <1>3, <2>2, <2>3 DEF Considered
  <2>5. heap' \in SUBSET Docs /\ needed_for_top_k' \in 0 .. top_k
    BY <1>2, <1>3, <1>7, <2>1
  <2>6. PlacesCounted'
    <3>1. Cardinality(heap') = Cardinality(heap) + 1
      BY <1>2, <1>3, <2>1, <2>4, FillCounts
    <3>2. Cardinality(heap) \in Nat
      BY <1>2, HeapFinite
    <3> QED
      BY <1>1, <1>2, <2>1, <3>1, <3>2 DEF PlacesCounted
  <2>7. (heap \subseteq Found)'
    BY <1>1, <1>3, <2>1, <2>3 DEF Found
  <2>8. \A d \in Docs : (d \in Considered') <=> (d \in heap')
    BY <1>3, <1>5, <2>1, <2>2, <2>3
  <2>9. Considered' = heap'
    BY <1>1, <2>5, <2>8 DEF Considered
  <2>10. CASE needed_for_top_k # 1
    <3>1. UNCHANGED << root, heap_entry_point >>
      BY <1>7, <2>10 DEF TopUpStep
    <3>2. TypeOK'
      BY <1>1, <1>3, <2>5, <3>1 DEF TypeOK
    <3>3. needed_for_top_k' > 0
      BY <1>2, <1>7, <2>1, <2>10
    <3>4. ToppingUp'
      BY <1>1, <1>4, <2>2, <2>9, <3>1, <3>3 DEF ToppingUp
    <3> QED
      BY <1>1, <2>6, <2>7, <3>2, <3>4 DEF Inv
  <2>11. CASE needed_for_top_k = 1
    <3>1. IsRoot(a, heap', root') /\ heap_entry_point' = a[root']
      BY <1>7, <2>11 DEF TopUpStep
    <3>2. root' \in Docs /\ heap_entry_point' \in Nat
      BY <1>2, <2>5, <3>1 DEF IsRoot
    <3>3. TypeOK'
      BY <1>1, <1>3, <2>5, <3>2 DEF TypeOK
    <3>4. needed_for_top_k' = 0
      BY <2>1, <2>11
    <3>5. ToppingUp'
      BY <1>1, <1>4, <2>9, <3>1, <3>4 DEF ToppingUp
    <3> QED
      BY <1>1, <2>6, <2>7, <3>3, <3>5 DEF Inv
  <2> QED
    BY <2>10, <2>11
<1>8. CASE Wanted /\ needed_for_top_k = 0
  <2>1. /\ heap' = (heap \ {root}) \cup {from} /\ UNCHANGED needed_for_top_k
        /\ IsRoot(a, heap', root') /\ heap_entry_point' = a[root']
    BY <1>8 DEF TopUpStep
  <2>2. /\ IsRoot(a, heap, root) /\ heap_entry_point = a[root]
        /\ heap \subseteq Considered
        /\ \A d \in Considered \ heap : \A e \in heap : Less(a, d, e)
    BY <1>1, <1>8 DEF ToppingUp
  <2>3. root \in heap /\ root \in Docs /\ root \in Int /\ a[root] \in Nat
    BY <1>2, <2>2 DEF IsRoot, Docs
  <2>4. a[from] >= a[root] /\ a[from] < oracle /\ a[root] > 0
    BY <1>1, <1>4, <1>8, <2>2, <2>3 DEF Wanted, Found
  <2>5. from \notin heap
    BY <1>2, <1>3, <2>2, <2>4 DEF Considered
  <2>6. root < from
    BY <1>2, <1>3, <2>2, <2>3, <2>4 DEF Considered
  <2>7. Less(a, root, from)
    BY <1>3, <2>3, <2>4, <2>6 DEF Less
  <2>8. heap' \in SUBSET Docs /\ root' \in Docs /\ heap_entry_point' \in Nat
    <3>1. heap' \in SUBSET Docs
      BY <1>2, <1>3, <2>1
    <3>2. root' \in Docs
      BY <2>1, <3>1 DEF IsRoot
    <3> QED
      BY <1>2, <2>1, <3>1, <3>2
  <2>9. TypeOK'
    BY <1>1, <1>3, <2>1, <2>8 DEF TypeOK
  <2>10. PlacesCounted'
    BY <1>1, <1>2, <1>3, <2>1, <2>3, <2>5, PushCounts DEF PlacesCounted
  <2>11. (heap \subseteq Found)'
    BY <1>1, <1>3, <2>1, <2>3, <2>4 DEF Found
  <2>12. heap' \subseteq Considered'
    BY <1>3, <1>5, <2>1, <2>2, <2>3, <2>4, <2>8
  <2>13. \A d \in Considered' \ heap' : d = root \/ (d \in Considered /\ d \notin heap)
    <3>1. \A d \in Considered' : d \in Docs
      BY <1>1 DEF Considered
    <3> QED
      BY <1>5, <2>1, <3>1
  <2>14. \A d \in Considered' \ heap' : \A e \in heap' : Less(a, d, e)
    <3> SUFFICES ASSUME NEW d \in Considered', d \notin heap', NEW e \in heap'
                 PROVE  Less(a, d, e)
      OBVIOUS
    <3>1. d \in Int /\ a[d] \in Nat
      BY <1>1, <1>2 DEF Considered, Docs
    <3>2. e \in Int /\ a[e] \in Nat
      BY <1>2, <2>8 DEF Docs
    <3>3. d = root \/ Less(a, d, root)
      BY <2>2, <2>3, <2>13
    <3>4. Less(a, root, e)
      BY <2>1, <2>2, <2>7 DEF IsRoot
    <3> QED
      BY <2>3, <3>1, <3>2, <3>3, <3>4 DEF Less
  <2>15. ToppingUp'
    BY <1>1, <1>4, <1>8, <2>1, <2>12, <2>14 DEF ToppingUp
  <2> QED
    BY <1>1, <2>9, <2>10, <2>11, <2>15 DEF Inv
<1> QED
  BY <1>6, <1>7, <1>8 DEF TopUpStep

\* sort() ends a query with the top k, unless an oracle stopped it.
LEMMA SortInv ==
  ASSUME Inv, sort
  PROVE  Inv'
<1>1. /\ TypeOK /\ PlacesCounted /\ lost = FALSE /\ oracle >= 1 /\ heap \subseteq Found
      /\ phase' = "sorted"
      /\ UNCHANGED << accumulators, heap, root, needed_for_top_k, top_k_lower_bound,
                      heap_entry_point, from, oracle, lost >>
  BY DEF Inv, sort
<1>2. /\ accumulators \in [Docs -> 0 .. MAX_RSV] /\ MAX_RSV \in Nat
      /\ needed_for_top_k \in Nat /\ documents \in Nat /\ oracle \in Nat
  BY <1>1, HeapAssumption DEF TypeOK
<1>3. TypeOK' /\ PlacesCounted' /\ (heap \subseteq Found)'
  BY <1>1 DEF TypeOK, PlacesCounted, Found
<1>4. CASE phase = "topup"
  <2>1. ToppingUp /\ from = documents
    BY <1>4 DEF Inv, sort
  <2>2. Considered = Found
    BY <1>1, <1>2, <2>1 DEF Considered, Found, Docs
  <2>3. Best
    BY <1>1, <1>2, <2>1, <2>2 DEF Best, ToppingUp
  <2>4. Best'
    BY <1>1, <2>3 DEF Best, Found
  <2> QED
    BY <1>1, <1>3, <2>1, <2>4 DEF Inv
<1>5. CASE phase = "adding" /\ oracle = 1
  <2>1. Adding
    BY <1>5 DEF Inv, Done
  <2>2. needed_for_top_k > 0 => heap = Found
    BY <1>2, <1>5, <2>1 DEF Adding, Found
  <2>3. Best
    BY <1>1, <1>2, <2>1, <2>2 DEF Best, Adding, Found
  <2>4. Best'
    BY <1>1, <2>3 DEF Best, Found
  <2> QED
    BY <1>1, <1>3, <1>5, <2>4 DEF Inv
<1>6. CASE phase = "adding" /\ oracle # 1
  <2>1. Stopped
    BY <1>6 DEF Inv, sort, Done
  <2>2. Stopped'
    BY <1>1, <2>1 DEF Stopped
  <2>3. CASE from = documents
    <3>1. Docs = {}
      BY <2>1, <2>3 DEF Stopped, Docs
    <3>2. Best'
      BY <1>1, <3>1 DEF Best, Found, TypeOK
    <3> QED
      BY <1>1, <1>3, <2>3, <3>2 DEF Inv
  <2>4. CASE from # documents
    BY <1>1, <1>3, <1>6, <2>2, <2>4 DEF Inv
  <2> QED
    BY <2>3, <2>4
<1> QED
  BY <1>4, <1>5, <1>6 DEF sort

\* Every step preserves the invariant.
LEMMA NextInv ==
  ASSUME Inv, [Next]_vars
  PROVE  Inv'
<1>1. CASE UNCHANGED vars
  BY <1>1 DEF vars, Inv, TypeOK, PlacesCounted, Found, Adding, ToppingUp, Considered,
              Best, IsRoot, Less, Stopped, Done
<1>2. CASE Next
  BY <1>2, HeapAssumption, RewindInv, AddInv, TopUpInv, TopUpStepInv, SortInv DEF Next
<1> QED
  BY <1>1, <1>2

\* What the invariant says of each phase.
LEMMA InvSafe ==
  ASSUME Inv
  PROVE  AlwaysTopK /\ ToppedUpIsTopK /\ StoppedAtOracle /\ PlacesCounted /\ PromotedIsInHeap
<1>1. TypeOK /\ PlacesCounted /\ heap \subseteq Found
  BY DEF Inv
<1>2. AlwaysTopK
  <2> SUFFICES ASSUME oracle = 1 PROVE Best
    BY <1>1, BestIsTopK DEF AlwaysTopK
  <2>1. /\ needed_for_top_k \in Nat /\ accumulators \in [Docs -> 0 .. MAX_RSV]
        /\ MAX_RSV \in Nat
    BY <1>1, HeapAssumption DEF TypeOK
  <2>2. CASE phase = "adding"
    <3>1. Adding
      BY <2>2 DEF Inv, Done
    <3>2. needed_for_top_k > 0 => heap = Found
      BY <2>1, <3>1 DEF Adding, Found
    <3> QED
      BY <1>1, <2>1, <3>1, <3>2 DEF Best, Adding, Found
  <2>3. CASE phase = "topup"
    <3>1. ToppingUp
      BY <2>3 DEF Inv
    <3>2. Considered = Found
      BY <2>1 DEF Considered, Found
    <3> QED
      BY <1>1, <2>1, <3>1, <3>2 DEF Best, ToppingUp
  <2>4. CASE phase = "sorted"
    BY <2>4 DEF Inv
  <2> QED
    BY <1>1, <2>2, <2>3, <2>4 DEF TypeOK
<1>3. ToppedUpIsTopK
  BY <1>1, BestIsTopK DEF Inv, ToppedUpIsTopK
<1>4. StoppedAtOracle
  <2>1. heap \in SUBSET Docs /\ top_k \in Nat
    BY <1>1, HeapAssumption DEF TypeOK
  <2>2. Cardinality(heap) \in Nat
    BY <2>1, HeapFinite
  <2> QED
    BY <1>1, <2>2 DEF Inv, Stopped, StoppedAtOracle, PlacesCounted
<1> QED
  BY <1>1, <1>2, <1>3, <1>4 DEF Inv, PromotedIsInHeap

\* The invariant holds throughout.
LEMMA HeapInv == Spec => []Inv
<1>1. Init => Inv
  BY InitInv
<1>2. Inv /\ [Next]_vars => Inv'
  BY NextInv
<1> QED
  BY <1>1, <1>2, PTL DEF Spec

\* For every number of documents, every k and any postings: without an oracle
\* query_heap_clean has the top k of the scores so far after every add_rsv().
THEOREM HeapIsTopK == Spec => []AlwaysTopK
BY HeapInv, InvSafe, PTL

\* Whatever the oracle's score was, if not 0, top_up() ends with the top k of all the scores.
THEOREM TopUpIsTopK == Spec => []ToppedUpIsTopK
BY HeapInv, InvSafe, PTL

\* promote() is only ever given a document that find() finds in the heap.
THEOREM PromoteFinds == Spec => []PromotedIsInHeap
BY HeapInv, InvSafe, PTL

\* An oracle stops a query only with k documents that reach its score, and at all times
\* needed_for_top_k is the number of free places.
THEOREM StopsAtOracle == Spec => [](StoppedAtOracle /\ PlacesCounted)
BY HeapInv, InvSafe, PTL
=============================================================================
