------------------------------ MODULE IndexFile ------------------------------
(***************************************************************************)
(* The four files of an index, as serialise_jass_v1 and serialise_jass_v2  *)
(* write them and deserialised_jass_v1 and deserialised_jass_v2 read them. *)
(*                                                                         *)
(* A file is its size in bytes, the offsets at which something starts, and *)
(* what starts there: << kind, value >>, a number, a header, a string or a *)
(* compressed segment.  A read of a kind of thing at an offset where none  *)
(* starts gives Nothing, or 0 for a number.                                *)
(***************************************************************************)
EXTENDS IndexPostings, TLC

CONSTANTS
  took(_),          \* the bytes the encoder makes of a segment of so many integers
  string_bytes(_),  \* the bytes of a term or primary key, with its '\0'
  Nothing

\* A file is what its last flush() leaves: how file::write() fills a buffer of 10MB and
\* empties it is not told apart.
EmptyFile == [size |-> 0, starts |-> << >>, at |-> << >>]

Write(file, what, bytes) ==
  IF bytes = 0 THEN file
  ELSE [size   |-> file.size + bytes,
        starts |-> Append(file.starts, file.size),
        at     |-> file.at @@ (file.size :> what)]

WriteAll(file, writes) == FoldLeft(LAMBDA f, w : Write(f, w[1], w[2]), file, writes)

\* What a pointer into the mapped file finds.
Read(file, kind, offset) ==
  IF offset \in DOMAIN file.at /\ file.at[offset][1] = kind THEN file.at[offset][2]
  ELSE Nothing

ReadNumber(file, offset) ==
  IF Read(file, "number", offset) = Nothing THEN 0 ELSE Read(file, "number", offset)

\* allocator::realign()
realign(size, boundary) == IF size % boundary = 0 THEN 0 ELSE boundary - (size % boundary)

\* Not the code: segments that follow one another without padding.
PaddedNever(bytes, alignment) == bytes

\* The bytes of a version 1 segment with its padding.
Padded(bytes, alignment) == bytes + realign(bytes, alignment)

\* What the encoder is given of a segment: gaps, and documents from 0.
Encoded(segment) ==
  [i \in DOMAIN segment.postings |->
    IF i = 1 THEN segment.postings[1] - 1 ELSE d1_encode(segment.postings)[i]]

offset_size == 8   \* sizeof(uint64_t)
header_size == 22  \* sizeof(segment_header_on_disk)

\* serialise_jass_v1::write_postings(): pointers to the headers, the headers with the
\* highest impact first, a header of zeros, padding, the segments, each padded.
write_postings_v1(file, ordered, alignment) ==
  LET n == Len(ordered)
      segments == Reverse(ordered)
      headers_at == file.size + n * offset_size
      unaligned == headers_at + (n + 1) * header_size
      wastage == realign(unaligned, alignment)
      Took(i) == took(Len(segments[i].postings))
      Start(i) == FoldLeft(LAMBDA sum, j : sum + Padded(Took(j), alignment),
                           unaligned + wastage, [j \in 1 .. i - 1 |-> j])
      Header(i) == [impact |-> segments[i].impact, offset |-> Start(i),
                    end |-> Start(i) + Took(i), frequency |-> Len(segments[i].postings)]
  IN  WriteAll(file,
        [i \in 1 .. n |-> << << "number", headers_at + (i - 1) * header_size >>, offset_size >>]
        \o [i \in 1 .. n |-> << << "header", Header(i) >>, header_size >>]
        \o << << << "zero", 0 >>, header_size >>, << << "zero", 0 >>, wastage >> >>
        \o [i \in 1 .. n |->
             << << "segment", Encoded(segments[i]) >>, Padded(Took(i), alignment) >>])

\* Not the code: the headers between are not counted.
NextLocationShort(location, segment_bytes, header_bytes) == location + segment_bytes

\* The distance to the next segment, whose header is written before the last one's.
NextLocation(location, segment_bytes, header_bytes) == location + segment_bytes + header_bytes

\* serialise_jass_v2::write_postings(): the headers, the highest impact first, then the
\* segments, the lowest first.  A header is variable-byte integers, one of which is the
\* distance from its own end to its segment.
write_postings_v2(file, ordered) ==
  LET n == Len(ordered)
      Took(i) == took(Len(ordered[i].postings))
      Fields(i, location) == << ordered[i].impact, location, Took(i), Len(ordered[i].postings) >>
      Bytes(fields) == FoldLeft(LAMBDA sum, v : sum + bytes_needed_for(v), 0, fields)
      headers == FoldLeft(LAMBDA done, i :
                   LET last == IF i = 1 THEN << >> ELSE done[i - 1]
                       location == IF i = 1 THEN 0
                                   ELSE NextLocation(last[2], Took(i - 1), Bytes(last))
                   IN  Append(done, Fields(i, location)),
                   << >>, [i \in 1 .. n |-> i])
      numbers == FlattenSeq(Reverse(headers))
  IN  WriteAll(file,
        [k \in DOMAIN numbers |-> << << "number", numbers[k] >>, bytes_needed_for(numbers[k]) >>]
        \o [i \in 1 .. n |-> << << "segment", Encoded(ordered[i]) >>, Took(i) >>])

NoHeader == [impact |-> 0, offset |-> 0, end |-> 0, frequency |-> 0]

\* deserialised_jass_v1::get_segment_list(), for a query term frequency of 1.
get_segment_list_v1(file, metadata) ==
  [i \in 1 .. metadata.impacts |->
    LET header == Read(file, "header", ReadNumber(file, metadata.offset + (i - 1) * offset_size))
    IN
    IF header = Nothing THEN NoHeader ELSE header]

\* deserialised_jass_v2::get_segment_list(): reads on from integer to integer, four to a
\* header; the segment is at a distance from the end of its header.
get_segment_list_v2(file, metadata) ==
  LET integers == FoldLeft(LAMBDA done, k :
                    LET at == IF k = 1 THEN metadata.offset ELSE Last(done).end
                        value == ReadNumber(file, at)
                    IN  Append(done, [value |-> value, end |-> at + bytes_needed_for(value)]),
                    << >>, [k \in 1 .. 4 * metadata.impacts |-> k])
      Field(i, k) == integers[4 * (i - 1) + k]
      Start(i) == Field(i, 2).value + Field(i, 4).end
  IN  [i \in 1 .. metadata.impacts |->
        [impact |-> Field(i, 1).value, offset |-> Start(i),
         end |-> Start(i) + Field(i, 3).value, frequency |-> Field(i, 4).value]]

\* The rest of get_segment_list(): the extremes, taken from the first and the last
\* segment, and the document frequency.
get_segment_list(version, file, metadata) ==
  LET segments == IF version = 1 THEN get_segment_list_v1(file, metadata)
                  ELSE get_segment_list_v2(file, metadata)
      first == segments[1].impact
      last == segments[Len(segments)].impact
  IN  [segments |-> segments,
       smallest |-> IF first > last THEN last ELSE first,
       largest  |-> IF first > last THEN first ELSE last,
       document_frequency |-> FoldLeft(LAMBDA sum, s : sum + s.frequency, 0, segments)]

\* The documents of a segment as decode_with_writer() gives them: running sums, from 0.
Decode(file, header) ==
  LET gaps == Read(file, "segment", header.offset) IN
  IF header.end - header.offset # took(header.frequency) \/ gaps = Nothing THEN {}
  ELSE ToSet(d1_decode(SubSeq(gaps, 1, header.frequency)))

-----------------------------------------------------------------------------
\* serialise_vocabulary_pointers(): << term string, postings, impacts >>, by term.
write_vocabulary(version, index_key) ==
  LET sorted == SortSeq(index_key, LAMBDA a, b : a.token < b.token)
      numbers == FlattenSeq([i \in DOMAIN sorted |->
                   << sorted[i].term, sorted[i].offset, sorted[i].impacts >>])
  IN  WriteAll(EmptyFile, [k \in DOMAIN numbers |->
        << << "number", numbers[k] >>,
           IF version = 1 THEN offset_size ELSE bytes_needed_for(numbers[k]) >>])

\* read_vocabulary(): version 1 by the size of the file, version 2 to its end.
read_vocabulary(version, vocabulary, terms) ==
  LET entries == IF version = 1 THEN vocabulary.size \div (3 * offset_size)
                 ELSE Len(vocabulary.starts) \div 3
      Field(i, k) == IF version = 1 THEN ReadNumber(vocabulary, offset_size * (3 * (i - 1) + k))
                     ELSE ReadNumber(vocabulary, vocabulary.starts[3 * (i - 1) + k + 1])
  IN  [i \in 1 .. entries |->
        [term    |-> Read(terms, "string", Field(i, 0)),
         offset  |-> Field(i, 1),
         impacts |-> Field(i, 2)]]

\* postings_details(): std::lower_bound() in the vocabulary, then the test for equality.
postings_details(vocabulary_list, term) ==
  LET places == {i \in DOMAIN vocabulary_list : ~(vocabulary_list[i].term < term)} IN
  IF places = {} THEN Nothing
  ELSE LET found == vocabulary_list[CHOOSE i \in places : \A j \in places : i <= j] IN
       IF found.term = term THEN found ELSE Nothing

\* serialise_primary_keys(), after the keys themselves.
write_primary_keys(version, file, offsets) ==
  LET documents == Len(offsets) - 1
      table == IF version = 1
               THEN [i \in 1 .. documents |-> << << "number", offsets[i + 1] >>, offset_size >>]
               ELSE << >>
  IN  WriteAll(file, Append(table, << << "number", documents >>, offset_size >>))

\* read_primary_keys(): version 1 through the table of offsets; version 2 takes what
\* follows each '\0' but the last for a key, and so skips the first string.
read_primary_keys(version, file) ==
  LET documents == ReadNumber(file, file.size - offset_size)
      table == file.size - (documents * offset_size + offset_size)
      keys == SelectSeq(file.starts, LAMBDA o : 0 < o /\ o < file.size - offset_size)
  IN  IF version = 1
      THEN [id \in 1 .. documents |->
             Read(file, "string", ReadNumber(file, table + (id - 1) * offset_size))]
      ELSE [i \in DOMAIN keys |-> Read(file, "string", keys[i])]
=============================================================================
