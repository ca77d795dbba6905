------------------------------- MODULE Indexer -------------------------------
(***************************************************************************)
(* Building an index and reading it back: index_manager_sequential, the    *)
(* two passes of quantize, a serialiser and a deserialiser, in the order   *)
(* in which JASS_index and ciff_to_JASS call them.                         *)
(*                                                                         *)
(* The documents come one at a time with their terms (JASS_index), or the  *)
(* lists of the terms come first and the documents after them              *)
(* (ciff_to_JASS).                                                         *)
(***************************************************************************)
EXTENDS IndexFile

CONSTANTS
  Terms,           \* naturals, in the order of the strings
  max_documents,   \* bound on the documents that are parsed
  max_postings,    \* bound on the postings that are parsed
  max_count,       \* bound on the count of a token, at most largest_impact
  Lists,           \* the lists of << gap, frequency >> an import may have
  imported,        \* the number of documents of an import
  Formats,         \* the version to write and its alignment: pairs
  score(_, _, _)   \* the ranking function: of documents, document frequency and frequency

ASSUME IndexerAssumption == Terms \subseteq Nat /\ max_count <= largest_impact

VARIABLES
  phase,                \* how far the program is
  highest_document_id,
  primary_key,          \* the keys of the documents, in order
  index,                \* the list of each term that has one, or Nothing
  largest_rsv, smallest_rsv,
  quantised,            \* the quantiser is quantize and not quantize_none
  version, alignment,
  files,                \* what the serialiser wrote
  loaded,               \* what the deserialiser read, or Nothing
  counted               \* history: how often each << term, document >> was added

vars == << phase, highest_document_id, primary_key, index, largest_rsv, smallest_rsv,
           quantised, version, alignment, files, loaded, counted >>

manager_vars == << highest_document_id, primary_key, index, counted >>

\* The smallest positive and the largest double: no score is between 0 and tiny.
tiny == 1
huge == 1000

Init ==
  /\ phase \in {"parse", "import"}
  /\ highest_document_id = 0 /\ primary_key = << >>
  /\ index = [t \in Terms |-> Nothing]
  /\ largest_rsv = tiny /\ smallest_rsv = huge
  /\ quantised = FALSE /\ version = 0 /\ alignment = 1
  /\ files = Nothing /\ loaded = Nothing
  /\ counted = << >>

\* index_manager::begin_document(), to which that of the sequential manager adds the key.
NextDocument == highest_document_id + 1

begin_document ==
  /\ phase = "parse" /\ highest_document_id < max_documents
  /\ highest_document_id' = NextDocument
  /\ primary_key' = Append(primary_key, NextDocument)
  /\ UNCHANGED << phase, index, largest_rsv, smallest_rsv, quantised, version, alignment,
                  files, loaded, counted >>

\* operator[] of the hash table makes an empty list for a new term.
List(t) == IF index[t] = Nothing THEN EmptyList ELSE index[t]

Counted(t, d) == IF << t, d >> \in DOMAIN counted THEN counted[<< t, d >>] ELSE 0

\* term(token): the token's count for the last document.
term(t, count) ==
  /\ phase = "parse" /\ highest_document_id > 0
  /\ Counted(t, highest_document_id) < largest_impact
  /\ << t, highest_document_id >> \in DOMAIN counted \/ Cardinality(DOMAIN counted) < max_postings
  /\ index' = [index EXCEPT ![t] = push_back(List(t), highest_document_id, count)]
  /\ counted' = (<< t, highest_document_id >> :> (Counted(t, highest_document_id) + count))
                @@ counted
  /\ UNCHANGED << phase, highest_document_id, primary_key, largest_rsv, smallest_rsv,
                  quantised, version, alignment, files, loaded >>

\* term(token, postings_list), after the first gap has been made to count from 1.
term_list(t, list) ==
  /\ phase = "import" /\ highest_document_id = 0 /\ index[t] = Nothing
  /\ index' = [index EXCEPT ![t] = push_back_all(List(t), list)]
  /\ LET ids == d1_decode([i \in DOMAIN list |-> list[i][1]]) IN
     counted' = counted @@ [pair \in {<< t, ids[i] >> : i \in DOMAIN ids} |->
                              list[CHOOSE i \in DOMAIN ids : ids[i] = pair[2]][2]]
  /\ UNCHANGED << phase, highest_document_id, primary_key, largest_rsv, smallest_rsv,
                  quantised, version, alignment, files, loaded >>

\* set_primary_keys(): added to the keys that there are.
Keys == primary_key \o [i \in 1 .. imported |-> i]

\* set_primary_keys() and set_document_length_vector().
set_documents ==
  /\ phase = "import" /\ highest_document_id = 0
  /\ primary_key' = Keys
  /\ highest_document_id' = imported
  /\ UNCHANGED << phase, index, largest_rsv, smallest_rsv, quantised, version, alignment,
                  files, loaded, counted >>

-----------------------------------------------------------------------------
\* Not the code: the division without the 1 that rounds it up.
temporary_sizeDown == highest_document_id * (4 \div 7)

\* make_space(): a byte for each document, 4 / 7 + 1 being 1.
temporary_size == highest_document_id * (4 \div 7 + 1)

Line(t) == linearize(index[t], temporary_size, highest_document_id)

Indexed == {t \in Terms : index[t] # Nothing}

\* The score of each posting of a term, as both passes compute it.
Scores(t) ==
  LET line == Line(t) IN
  [i \in DOMAIN line.ids |-> score(highest_document_id, Len(line.ids), line.frequencies[i])]

\* Not the code: a score that is a new largest is not tried as the smallest.
BoundsElse(bounds, scores) ==
  FoldLeft(LAMBDA b, s : IF s > b.largest THEN [b EXCEPT !.largest = s]
                         ELSE IF s < b.smallest THEN [b EXCEPT !.smallest = s] ELSE b,
           bounds, scores)

\* quantize::operator(): the extremes of the scores of one more term.
Bounds(bounds, scores) ==
  FoldLeft(LAMBDA b, s : [smallest |-> IF s < b.smallest THEN s ELSE b.smallest,
                          largest  |-> IF s > b.largest THEN s ELSE b.largest],
           bounds, scores)

\* iterate(quantizer): the first pass, over the terms in the order of the hash table.
\* There is none where the frequencies are the impacts already (quantize_none).
iterate ==
  /\ phase \in {"parse", "import"} /\ highest_document_id > 0
  /\ phase' = "serialise"
  /\ quantised' \in BOOLEAN
  /\ IF quantised'
     THEN \E order \in SetToSeqs(Indexed) :
            LET b == FoldLeft(LAMBDA sofar, t : Bounds(sofar, Scores(t)),
                              [smallest |-> smallest_rsv, largest |-> largest_rsv], order)
            IN  smallest_rsv' = b.smallest /\ largest_rsv' = b.largest
     ELSE UNCHANGED << largest_rsv, smallest_rsv >>
  /\ UNCHANGED << manager_vars, version, alignment, files, loaded >>

\* The impact of a score: the range 1 .. largest_impact, rounded down.  (In doubles a
\* quotient that is whole may come out just below it; that keeps the order too.)  All
\* scores the same make it 0 / 0, which the conversion to an integer turns into 0.
Impact(s) ==
  IF largest_rsv = smallest_rsv THEN 1
  ELSE ((s - smallest_rsv) * (largest_impact - 1)) \div (largest_rsv - smallest_rsv) + 1

\* The list of a term as the quantiser passes it to the serialiser.
Quantised(t) ==
  IF quantised
  THEN [ids |-> Line(t).ids, frequencies |-> [i \in DOMAIN Scores(t) |-> Impact(Scores(t)[i])]]
  ELSE Line(t)

\* serialise_jass_v1::operator(): the postings of a term, its string, and where they are.
SerialiseTerm(format, out, t) ==
  LET ordered == impact_order(Quantised(t)) IN
  [out EXCEPT
    !.postings = IF format[1] = 1 THEN write_postings_v1(@, ordered, format[2])
                 ELSE write_postings_v2(@, ordered),
    !.terms = Write(@, << "string", t >>, string_bytes(t)),
    !.index_key = Append(@, [token |-> t, term |-> out.terms.size,
                             offset |-> out.postings.size, impacts |-> Len(ordered)])]

SerialiseKey(out, key) ==
  [out EXCEPT !.keys = Write(@, << "string", key >>, string_bytes(key)),
              !.primary_key_offsets = Append(@, out.keys.size)]

\* The constructor writes a byte for the codex, so no list is at offset 0.
NewFiles ==
  [postings |-> Write(EmptyFile, << "codex", 0 >>, 1), terms |-> EmptyFile, keys |-> EmptyFile,
   index_key |-> << >>, primary_key_offsets |-> << >>]

\* serialise_index(): iterate(quantizer, outputter), the terms and then the keys with "-"
\* (0 here) first, and finish().
serialise_index ==
  /\ phase = "serialise"
  /\ phase' = "read"
  /\ \E format \in Formats, order \in SetToSeqs(Indexed) :
       LET terms == FoldLeft(LAMBDA out, t : SerialiseTerm(format, out, t), NewFiles, order)
           out == FoldLeft(SerialiseKey, terms, << 0 >> \o primary_key)
       IN  /\ version' = format[1] /\ alignment' = format[2]
           /\ files' = [postings   |-> out.postings,
                        terms      |-> out.terms,
                        vocabulary |-> write_vocabulary(format[1], out.index_key),
                        keys       |-> write_primary_keys(format[1], out.keys,
                                                          out.primary_key_offsets)]
  /\ UNCHANGED << manager_vars, largest_rsv, smallest_rsv, quantised, loaded >>

\* read_index_explicit(): keys, postings, vocabulary; a part that is empty is a failure.
read_index ==
  /\ phase = "read"
  /\ phase' = "open"
  /\ LET keys == read_primary_keys(version, files.keys)
         vocabulary == read_vocabulary(version, files.vocabulary, files.terms)
     IN  loaded' = IF Len(keys) = 0 \/ files.postings.size = 0 \/ Len(vocabulary) = 0
                   THEN Nothing
                   ELSE [keys |-> keys, vocabulary |-> vocabulary]
  /\ UNCHANGED << manager_vars, largest_rsv, smallest_rsv, quantised, version, alignment, files >>

Next ==
  \/ begin_document \/ set_documents \/ iterate \/ serialise_index \/ read_index
  \/ \E t \in Terms, count \in 1 .. max_count : term(t, count)
  \/ \E t \in Terms, list \in Lists : term_list(t, list)

Spec == Init /\ [][Next]_vars

-----------------------------------------------------------------------------
Found(t) == postings_details(loaded.vocabulary, t)

Segments(t) == get_segment_list(version, files.postings, Found(t))

\* What a search sees of a term: << primary key, impact >> of each posting.
Retrieved(t) ==
  UNION {{<< loaded.keys[d + 1], s.impact >> : d \in Decode(files.postings, s)} :
           s \in ToSet(Segments(t).segments)}

\* The documents of a term and its frequency in each, from what was added.
Documents(t) == {d \in 1 .. highest_document_id : << t, d >> \in DOMAIN counted}

Frequency(t, d) == IF Counted(t, d) < largest_impact THEN Counted(t, d) ELSE largest_impact

\* An index that was written is read back whole: it loads if it has a term, every term is
\* found and no other, and its segments have each of its documents once, under the key
\* the document was indexed with and, where nothing is quantised, with its frequency; the
\* extremes and the document frequency that scaling and ranking use are right too
\* (serialise_jass_v*.cpp, deserialised_jass_v*.{h,cpp}, index_postings.h).
RoundTrip ==
  phase = "open" =>
    /\ (loaded = Nothing) <=> (Indexed = {})
    /\ loaded # Nothing =>
         /\ loaded.keys = primary_key
         /\ \A t \in Terms : (Found(t) # Nothing) <=> (Documents(t) # {})
         /\ \A t \in Indexed : \A got \in {Retrieved(t)}, list \in {Segments(t)} :
              /\ {g[1] : g \in got} = Documents(t)
              /\ Cardinality(got) = Cardinality(Documents(t))
              /\ ~quantised => \A g \in got : g[2] = Frequency(t, g[1])
              /\ list.document_frequency = Cardinality(got)
              /\ \A g \in got : list.smallest <= g[2] /\ g[2] <= list.largest
              /\ {list.smallest, list.largest} \subseteq {g[2] : g \in got}

\* The score of a posting, from what was added.
TrueScore(t, d) == score(highest_document_id, Cardinality(Documents(t)), Frequency(t, d))

\* Quantising keeps the order of the scores across the whole index, uses both ends of
\* the range, and leaves no impact that the counting sort has no place for
\* (quantize.h, the two passes).
QuantisedInOrder ==
  (phase = "open" /\ quantised /\ loaded # Nothing) =>
    \A scored \in {UNION {{<< TrueScore(t, g[1]), g[2] >> : g \in Retrieved(t)} : t \in Indexed}} :
        /\ \A a, b \in scored : a[1] < b[1] => a[2] <= b[2]
        /\ \A a \in scored : a[2] \in 1 .. largest_impact
        /\ (\E a, b \in scored : a[1] # b[1]) =>
             {1, largest_impact} \subseteq {a[2] : a \in scored}

\* linearize() has room: no list is taken for an empty one because its variable-byte
\* integers do not fit in the byte for each document that make_space() reserves
\* (index_manager_sequential.h, index_postings.h).
ListsFit ==
  phase = "serialise" => \A t \in Indexed : Line(t).ids # << >>

\* Each segment starts on a boundary of the alignment asked for.
Aligned(t) == \A s \in ToSet(Segments(t).segments) : s.offset % alignment = 0

\* A version 1 index has its segments on the boundaries the codecs need
\* (serialise_jass_v1.cpp, the padding before and between the segments).
SegmentsAligned ==
  (phase = "open" /\ version = 1 /\ loaded # Nothing) => \A t \in Indexed : Aligned(t)
=============================================================================
