---------------------------- MODULE IndexPostings ----------------------------
(***************************************************************************)
(* One postings list: how index_postings collects it while documents are   *)
(* indexed, and how it is put in impact order for the serialisers          *)
(* (index_postings.h, index_postings_impact.h).                            *)
(*                                                                         *)
(* A list has the gaps between its documents, which the code holds as      *)
(* variable-byte integers in a dynamic array of bytes, and the term        *)
(* frequencies.  Documents count from 1.                                   *)
(***************************************************************************)
EXTENDS Naturals, Sequences, SequencesExt, FiniteSets

CONSTANTS
  largest_impact,  \* 1024 in the code
  byte_bits        \* the bits of an integer that a byte of its variable-byte form has: 7

ASSUME PostingsAssumption == {largest_impact, byte_bits} \subseteq Nat \ {0}

\* The bytes of a variable-byte integer.
bytes_needed_for(value) ==
  CHOOSE n \in 1 .. 10 :
    value < 2 ^ (byte_bits * n) /\ (n > 1 => value >= 2 ^ (byte_bits * (n - 1)))

EmptyList == [highest_document |-> 0, document_ids |-> << >>, term_frequencies |-> << >>]

\* push_back(document_id, amount): the next document, or more of the last one.
push_back(list, document_id, amount) ==
  IF document_id = list.highest_document
  THEN [list EXCEPT !.term_frequencies[Len(list.term_frequencies)] =
          IF largest_impact - @ > amount THEN @ + amount ELSE largest_impact]
  ELSE [highest_document |-> document_id,
        document_ids     |-> Append(list.document_ids, document_id - list.highest_document),
        term_frequencies |-> Append(list.term_frequencies, amount)]

\* push_back(data): a whole list of gaps and frequencies, into an empty list.
push_back_all(list, data) ==
  [highest_document |-> list.highest_document + FoldLeft(LAMBDA sum, p : sum + p[1], 0, data),
   document_ids     |-> list.document_ids \o [i \in DOMAIN data |-> data[i][1]],
   term_frequencies |-> list.term_frequencies \o
     [i \in DOMAIN data |-> IF data[i][2] < largest_impact THEN data[i][2] ELSE largest_impact]]

\* d1_decode() and the loop at the end of linearize(): the running sums of gaps.
d1_decode(gaps) == [i \in DOMAIN gaps |-> FoldLeft(LAMBDA a, b : a + b, 0, SubSeq(gaps, 1, i))]

d1_encode(ids) == [i \in DOMAIN ids |-> ids[i] - (IF i = 1 THEN 0 ELSE ids[i - 1])]

\* linearize(): the documents and frequencies of a list, none if they do not fit in
\* temporary_size bytes or in length integers.
linearize(list, temporary_size, length) ==
  LET needs == FoldLeft(LAMBDA sum, gap : sum + bytes_needed_for(gap), 0, list.document_ids) IN
  IF Len(list.term_frequencies) > length \/ needs > temporary_size
  THEN [ids |-> << >>, frequencies |-> << >>]
  ELSE [ids |-> d1_decode(list.document_ids), frequencies |-> list.term_frequencies]

\* index_postings_impact::header(): an impact and the postings that have it.
impact_header(score, postings) == [impact |-> score, postings |-> postings]

\* impact_order(): a counting sort on the frequencies.  The postings of an impact come
\* after those of the smaller ones, in document order; a header for each impact that
\* there is, the lowest first.
impact_order(line) ==
  LET tf == line.frequencies
      Before(impact) == Cardinality({k \in DOMAIN tf : tf[k] < impact})
      Times(impact) == Cardinality({k \in DOMAIN tf : tf[k] = impact})
      Place(k) == Before(tf[k]) + Cardinality({j \in 1 .. k : tf[j] = tf[k]})
      postings == [place \in DOMAIN tf |-> line.ids[CHOOSE k \in DOMAIN tf : Place(k) = place]]
      impacts == SelectSeq([i \in 1 .. largest_impact |-> i], LAMBDA i : Times(i) # 0)
  IN  [i \in DOMAIN impacts |->
        impact_header(impacts[i], SubSeq(postings, Before(impacts[i]) + 1,
                                         Before(impacts[i]) + Times(impacts[i])))]
=============================================================================
