------------------------------ MODULE MCIndexer ------------------------------
(***************************************************************************)
(* Small instances of what JASS_index does: it reads documents from a file *)
(* (InstreamDocument), makes an index of them (Indexer) and has integers   *)
(* compressed (Codec).  Each behaviour is one of the three.                *)
(***************************************************************************)
EXTENDS Indexer

\* With 2 bits in a byte, a length takes one or two bytes and a distance up to three.
took_of(n) == 2 * n + 1

bytes_of(s) == s + 2

\* A term of every document scores nothing, as with the inverse document frequency of
\* BM25; even numbers leave room for tiny.
score_of(documents, frequency, tf) == 2 * tf * (documents - frequency)

\* Gaps of one and of two bytes, and a list with three impacts.
lists == {<< << 1, 1 >> >>, << << 2, 4 >>, << 4, 2 >> >>, << << 5, 1 >>, << 1, 3 >> >>,
          << << 1, 2 >>, << 1, 3 >>, << 1, 1 >>, << 3, 2 >> >>}

formats == {<< 1, 1 >>, << 1, 16 >>, << 2, 16 >>}
-----------------------------------------------------------------------------
CONSTANTS Sizes, Files

VARIABLES stage, format, file, buffer_size, source, buffer, buffer_used, documents, finished

reader_vars == << format, file, buffer_size, source, buffer, buffer_used, documents, finished >>

Part(gap, text, key) == [gap |-> gap, text |-> text, key |-> key]

\* Two documents with keys, one of them between blanks, and one without a key.
trec_documents ==
  {<< << "<", "D", "[", "a", "]", "<", "/" >>, << "a" >> >>,
   << << "<", "D", "x", "[", " ", "b", " ", "]", "<", "/" >>, << "b" >> >>,
   << << "<", "D", "x", "<", "/" >>, << "Unknown" >> >>}

\* Between them is nothing, something like a tag, or more than a small buffer holds.
trec_parts ==
  {Part(gap, d[1], d[2]) : gap \in {<< >>, << "x", "<" >>, << "/", "x", "x", "x", "x" >>},
                           d \in trec_documents}

\* The file may end there, between two documents, or within one.
trec_files ==
  [parts : UNION {[1 .. n -> trec_parts] : n \in 0 .. 3},
   tail : {<< >>, << "x", "<" >>, << "<", "D", "[", "c", "]", "<" >>}]

\* In the other format only the first document can have something before it, and only the
\* last can do without an end of line.
fasta_documents ==
  {<< << ">", "a", "newline", "x", "newline" >>, << ">", "a" >> >>,
   << << ">", "b", " ", ">", "newline", "x", "newline", "x", "x", "newline" >>,
      << ">", "b", " ", ">" >> >>,
   << << ">", "c", " ", "newline" >>, << ">", "c" >> >>}

fasta_parts(i) ==
  {Part(gap, d[1], d[2]) : gap \in IF i = 1 THEN {<< >>, << "x", "newline" >>} ELSE {<< >>},
                           d \in fasta_documents}

fasta_last == Part(<< >>, << ">", "d", "newline", "x" >>, << ">", "d" >>)

fasta_files ==
  LET whole == {p \in UNION {[1 .. n -> UNION {fasta_parts(i) : i \in 1 .. n}] : n \in 0 .. 3} :
                  \A i \in DOMAIN p : p[i] \in fasta_parts(i)}
  IN  [parts : whole \union {Append(p, fasta_last) : p \in whole}, tail : {<< >>}]

all_files == [trec |-> trec_files, fasta |-> fasta_files]

Reader == INSTANCE InstreamDocument WITH
  document_start_tag <- << "<", "D" >>, document_end_tag <- << "<", "/" >>,
  primary_key_start_tag <- << "[" >>, primary_key_end_tag <- << "]" >>,
  Blanks <- {" ", "newline"}

-----------------------------------------------------------------------------
CONSTANTS Codecs, Runs(_), max_runs, Rooms, ample_room, simd_words

ASSUME CodecAssumption ==
  /\ max_runs \in Nat \ {0} /\ simd_words \in Nat \ {0}
  /\ Rooms \subseteq Nat /\ ample_room \in Rooms

VARIABLES codec, integers, left, room, encoded, decoded, code_phase

code_vars == << codec, integers, left, room, encoded, decoded, code_phase >>

Coder == INSTANCE MCCodec WITH source <- integers, phase <- code_phase

runs(c) == Coder!runs(c)
-----------------------------------------------------------------------------
\* The reader and the codec when the behaviour is one of another.
NoCode == codec = "variable_byte" /\ room = ample_room /\ Coder!Init

NoFile ==
  /\ format = "trec" /\ file = [parts |-> << >>, tail |-> << >>]
  /\ \A s \in Sizes : buffer_size <= s

AnyInit ==
  \/ stage = "read" /\ Init /\ phase = "parse" /\ Reader!Init /\ NoCode
  \/ stage = "index" /\ Init /\ Reader!Init /\ NoFile /\ NoCode
  \/ stage = "code" /\ Init /\ phase = "parse" /\ Reader!Init /\ NoFile /\ Coder!Init

AnyNext ==
  \/ stage = "read" /\ Reader!Next /\ UNCHANGED << stage, vars, code_vars >>
  \/ stage = "index" /\ Next /\ UNCHANGED << stage, reader_vars, code_vars >>
  \/ stage = "code" /\ Coder!Next /\ UNCHANGED << stage, vars, reader_vars >>

AnySpec == AnyInit /\ [][AnyNext]_<< stage, vars, reader_vars, code_vars >>
-----------------------------------------------------------------------------
\* Wherever the reads of the file cut it, instream_document_trec and
\* instream_document_fasta give every document of the file whole, once, in order and with
\* its own key, up to the first that the buffer cannot hold.
EveryDocumentRead == Reader!EveryDocumentRead

\* What a codec of compress_integer has encoded it decodes, for every sequence in its
\* domain, however that is spread over rows, blocks and words, and whatever room there is.
CodecRoundTrip == Coder!RoundTrip

\* A codec gives up in a large buffer only on an integer that it has no row for.
RefusesOnlyTooWide == Coder!RefusesOnlyTooWide

\* The packed codecs never take more words than the greedy ones.
PackedNeverLonger == Coder!PackedNeverLonger

\* A small buffer is never overrun, and changes nothing but whether a codec accepts.
RoomOnlyRefuses == Coder!RoomOnlyRefuses
=============================================================================
