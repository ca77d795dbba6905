-------------------------- MODULE InstreamDocument --------------------------
(***************************************************************************)
(* The streams that JASS_index takes documents from: instream_document_trec*)
(* and instream_document_fasta.  Both look for the ends of a document in a *)
(* buffer; when one is not there they move what is left to the front of the*)
(* buffer, fill it up once, and look again.  A document, a tag or the text *)
(* between two documents may be cut anywhere by the end of the buffer.     *)
(*                                                                         *)
(* Offsets count from 0, as in the code; `buffer` is what lies before      *)
(* buffer_end.  A text is a sequence of characters, of which only the tags *)
(* and the blanks matter.                                                  *)
(***************************************************************************)
EXTENDS Integers, Sequences, SequencesExt

CONSTANTS
  Files,                          \* the files of each format, as their parts
  Sizes,                          \* the sizes of the buffer
  document_start_tag, document_end_tag, primary_key_start_tag, primary_key_end_tag,
  Blanks                          \* what isspace() accepts; the end of a line is one

VARIABLES
  format, file,
  buffer_size, source,            \* source: what instream_file has not given out yet
  buffer, buffer_used,
  documents,                      \* what JASS_index has been given, in order
  finished                        \* it has been given an empty document

vars == << format, file, buffer_size, source, buffer, buffer_used, documents, finished >>

(***************************************************************************)
(* A file is documents, each with the text before it, and what follows     *)
(* the last of them.                                                       *)
(***************************************************************************)
Text(f) == FlattenSeq([i \in DOMAIN f.parts |-> f.parts[i].gap \o f.parts[i].text]) \o f.tail

Init ==
  /\ format \in DOMAIN Files /\ file \in Files[format]
  /\ buffer_size \in Sizes /\ source = Text(file)
  /\ buffer = << >> /\ buffer_used = 0
  /\ documents = << >> /\ finished = FALSE

(* std::search() in text[first .. last - 1]: the first place of the tag, or last. *)
search(text, first, last, tag) ==
  LET places == {i \in first .. last - Len(tag) : SubSeq(text, i + 1, i + Len(tag)) = tag}
  IN  IF places = {} THEN last ELSE Min(places)

(***************************************************************************)
(* What both readers do.  A state s is the buffer and the rest of the      *)
(* source.                                                                 *)
(***************************************************************************)
(* instream_file::read() gives what is asked for, or what there is. *)
fetch(s) ==
  LET bytes == Min({buffer_size - Len(s.buffer), Len(s.source)})
  IN  [buffer |-> s.buffer \o SubSeq(s.source, 1, bytes),
       source |-> SubSeq(s.source, bytes + 1, Len(s.source))]

(* A refill that forgets what has not been read. *)
RefillFresh(s, unread) == fetch([s EXCEPT !.buffer = << >>])

Refill(s, unread) == fetch([s EXCEPT !.buffer = SubSeq(@, unread + 1, Len(@))])

(* Look for the tag at or behind `skip` characters of the unread ones.  If it is not there
   look again with more from the source; `unread` has become 0 then. *)
Locate(s, unread, skip, tag) ==
  LET at == search(s.buffer, unread + skip, Len(s.buffer), tag)
      more == Refill(s, unread)
  IN  IF at # Len(s.buffer)
      THEN [s |-> s, unread |-> unread, at |-> at, moved |-> FALSE]
      ELSE [s |-> more, unread |-> 0, at |-> search(more.buffer, skip, Len(more.buffer), tag),
            moved |-> TRUE]

Missing(found) == found.at = Len(found.s.buffer)

(* The blanks at both ends of text[first .. last - 1] are not part of the key. *)
Trimmed(text, first, last) ==
  SubSeq(text, Min({i \in first .. Len(text) : i = Len(text) \/ text[i + 1] \notin Blanks}) + 1,
               Max({i \in 0 .. last : i = 0 \/ text[i] \notin Blanks}))

Unknown == << "Unknown" >>

Took(s, used) ==
  /\ buffer' = s.buffer /\ source' = s.source /\ buffer_used' = used
  /\ UNCHANGED << format, file, buffer_size >>

NoDocument(s, used) == Took(s, used) /\ finished' = TRUE /\ UNCHANGED documents

Document(s, used, contents, primary_key) ==
  /\ Took(s, used)
  /\ documents' = Append(documents, [contents |-> contents, primary_key |-> primary_key])
  /\ UNCHANGED finished
-----------------------------------------------------------------------------
trec_key(contents) ==
  LET start == search(contents, 0, Len(contents), primary_key_start_tag)
      first == start + Len(primary_key_start_tag)
      last  == search(contents, first, Len(contents), primary_key_end_tag)
  IN  IF start = Len(contents) \/ last = Len(contents) THEN Unknown
      ELSE Trimmed(contents, first, last)

(* instream_document_trec::read(), called until it gives an empty document. *)
read_trec ==
  /\ format = "trec" /\ ~finished
  /\ LET start == Locate([buffer |-> buffer, source |-> source], buffer_used, 0,
                         document_start_tag)
         end   == Locate(start.s, start.at, 0, document_end_tag)
         past  == end.at + Len(document_end_tag)
         contents == SubSeq(end.s.buffer, end.unread + 1, past)
     IN  \/ Missing(start) /\ NoDocument(start.s, 0)
         \/ /\ ~Missing(start) /\ Missing(end)
            /\ NoDocument(end.s, IF start.moved THEN Len(document_start_tag) ELSE buffer_used)
         \/ /\ ~Missing(start) /\ ~Missing(end)
            /\ Document(end.s, past, contents, trec_key(contents))

(* The key is the first line, the sign in front of it included.  The line has an end, and a
   buffer holds at least that. *)
fasta_key(contents) ==
  Trimmed(contents, 0, search(contents, 1, Len(contents), << "newline" >>) + 1)

(* instream_document_fasta::read().  A document ends before the sign that begins the next
   one, or with the buffer. *)
read_fasta ==
  /\ format = "fasta" /\ ~finished
  /\ LET start == Locate([buffer |-> buffer, source |-> source], buffer_used, 0, << ">" >>)
         end   == Locate(start.s, start.at, 1, << "newline", ">" >>)
         last  == IF Missing(end) THEN end.at - 1 ELSE end.at
         contents == SubSeq(end.s.buffer, end.unread + 1, last + 1)
     IN  \/ Missing(start) /\ NoDocument(start.s, 0)
         \/ ~Missing(start) /\ Document(end.s, last, contents, fasta_key(contents))

Next == read_trec \/ read_fasta

Spec == Init /\ [][Next]_vars
-----------------------------------------------------------------------------
Fits(part) ==
  /\ Len(part.gap) + Len(IF format = "trec" THEN document_start_tag ELSE << ">" >>) <= buffer_size
  /\ Len(part.text) <= buffer_size

(* How many documents come before the first that the buffer cannot hold. *)
Readable ==
  LET first == SelectInSeq(file.parts, LAMBDA part : ~Fits(part))
  IN  IF first = 0 THEN Len(file.parts) ELSE first - 1

\* Wherever the reads of the file cut it, instream_document_trec and instream_document_fasta
\* give every document of the file whole, once, in order and with its own key, up to the
\* first that is larger than the buffer or farther away than the buffer is long;
\* and they report the end of the file no sooner.
EveryDocumentRead ==
  /\ \A i \in 1 .. Min({Len(documents), Readable}) :
       documents[i] = [contents |-> file.parts[i].text, primary_key |-> file.parts[i].key]
  /\ finished => Len(documents) >= Readable
  /\ format = "trec" \/ Readable = Len(file.parts) => Len(documents) <= Readable
=============================================================================
