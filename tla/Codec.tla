------------------------------- MODULE Codec -------------------------------
(***************************************************************************)
(* A caller of a compress_integer: it collects a sequence of integers, has *)
(* it encoded into a buffer, and has what is in the buffer decoded into an *)
(* array.  The serialisers, the query engine and the unit tests all do     *)
(* this.  Room and lengths are counted in the codec's own words: four or   *)
(* eight bytes, a selector with its bytes for Nybble-8 and Lyck-16, one    *)
(* byte for Variable Byte.                                                 *)
(***************************************************************************)
EXTENDS EliasCodecs

CONSTANTS
  Codecs,          \* the names of the codecs tried
  Runs(_),         \* the runs << n, value >> a codec's input is made of
  max_runs,        \* bound: runs in a sequence
  Rooms,           \* the room there may be in the buffer
  ample_room,      \* room for every sequence
  simd_words       \* payload words of a block of Elias gamma SIMD

VARIABLES codec, source, left, room, encoded, decoded, phase
vars == << codec, source, left, room, encoded, decoded, phase >>

(***************************************************************************)
(* The virtual functions of compress_integer.                              *)
(***************************************************************************)
(* The codecs that write a stream of bits and do not look at the room. *)
Streams == {"elias_gamma", "elias_delta"}

encode(c, integers, space) ==
  CASE c = "simple_9"            -> encode_simple_9(integers, space)
    [] c = "simple_16"           -> encode_simple_16(integers, space)
    [] c = "simple_8b"           -> encode_simple_8b(integers, space)
    [] c = "simple_9_packed"     -> encode_simple_9_packed(integers, space)
    [] c = "simple_16_packed"    -> encode_simple_16_packed(integers, space)
    [] c = "simple_8b_packed"    -> encode_simple_8b_packed(integers, space)
    [] c = "relative_10"         -> encode_relative_10(integers, space)
    [] c = "carryover_12"        -> encode_carryover_12(integers, space)
    [] c = "nybble_8"            -> encode_nybble_8(integers, space)
    [] c = "lyck_16"             -> encode_lyck_16(integers, space)
    [] c = "variable_byte"       -> encode_variable_byte(integers, space)
    [] c = "elias_gamma"         -> << encode_elias_gamma(integers) >>
    [] c = "elias_delta"         -> << encode_elias_delta(integers) >>
    [] c = "elias_gamma_simd"    -> encode_elias_gamma_simd(simd_words, integers, space)
    [] c = "elias_gamma_simd_vb" -> encode_elias_gamma_simd_vb(simd_words, integers, space)

decode(c, words, n) ==
  CASE c = "simple_9"            -> decode_simple_9(words, n)
    [] c = "simple_16"           -> decode_simple_16(words, n)
    [] c = "simple_8b"           -> decode_simple_8b(words, n)
    [] c = "simple_9_packed"     -> decode_simple_9_packed(words, n)
    [] c = "simple_16_packed"    -> decode_simple_16_packed(words, n)
    [] c = "simple_8b_packed"    -> decode_simple_8b_packed(words, n)
    [] c = "relative_10"         -> decode_relative_10(words, n)
    [] c = "carryover_12"        -> decode_carryover_12(words, n)
    [] c = "nybble_8"            -> decode_nybble_8(words, n)
    [] c = "lyck_16"             -> decode_lyck_16(words, n)
    [] c = "variable_byte"       -> decode_variable_byte(words, n)
    [] c = "elias_gamma"         -> decode_elias_gamma(words[1], n)
    [] c = "elias_delta"         -> decode_elias_delta(words[1], n)
    [] c = "elias_gamma_simd"    -> decode_elias_gamma_simd(simd_words, words, n)
    [] c = "elias_gamma_simd_vb" -> decode_elias_gamma_simd_vb(words[1], n)

(***************************************************************************)
(* The caller.                                                             *)
(***************************************************************************)
Init ==
  /\ codec \in Codecs /\ room \in Rooms
  /\ source = << >> /\ left = max_runs
  /\ encoded = << >> /\ decoded = << >>
  /\ phase = "collecting"

Collect(n, value) ==
  /\ phase = "collecting" /\ left > 0
  /\ source' = source \o [i \in 1 .. n |-> value]
  /\ left' = left - 1
  /\ UNCHANGED << codec, room, encoded, decoded, phase >>

Encode ==
  /\ phase = "collecting" /\ source # << >>
  /\ encoded' = encode(codec, source, room)
  /\ phase' = "encoded"
  /\ UNCHANGED << codec, source, left, room, decoded >>

(* Zero bytes is the sign of failure: nothing is decoded. *)
Decode ==
  /\ phase = "encoded" /\ encoded # << >>
  /\ decoded' = decode(codec, encoded, Len(source))
  /\ phase' = "decoded"
  /\ UNCHANGED << codec, source, left, room, encoded >>

Next ==
  \/ \E run \in Runs(codec) : Collect(run[1], run[2])
  \/ Encode
  \/ Decode

Spec == Init /\ [][Next]_vars

(***************************************************************************)
(* Properties.                                                             *)
(***************************************************************************)
(* What encode accepts, decode gives back: the property the unit tests of  *)
(* every codec assert of their sequences.  Relative-10 does not have it    *)
(* for 24 ones, nor gamma SIMD VB for a buffer a little too small.         *)
AcceptedIsDecoded == phase = "decoded" => IsPrefix(source, decoded)

(* The sequences the other codecs have it for.  The first two rows of      *)
(* Simple-8b and the Elias codes have no zero.  The packed codecs do not   *)
(* look at the width of the last integer, Carryover-12 accepts a first     *)
(* integer of 30 bits that its decoder reads 28 bits of, and Lyck-16 takes *)
(* integers of uneven width together.                                      *)
NoZero == {"simple_8b", "simple_8b_packed", "elias_gamma", "elias_delta"}
Only28 == {"simple_9_packed", "simple_16_packed", "carryover_12"}
LyckWidth(value) == Min({w \in {2, 4, 8, 16, 32} : ceiling_log2(value) <= w})

InDomain(c, integers) ==
  /\ c \in NoZero => \A i \in DOMAIN integers : integers[i] # {}
  /\ c \in Only28 => \A i \in DOMAIN integers : ceiling_log2(integers[i]) <= 28
  /\ c = "lyck_16" =>
       \A i, j \in DOMAIN integers : LyckWidth(integers[i]) = LyckWidth(integers[j])

(* The integers decoded are those encoded, for every sequence in the       *)
(* codec's domain that encode accepts, whatever rows, blocks, carried bits *)
(* and word boundaries it is spread over, and whatever room there is: only *)
(* gamma SIMD VB needs a large buffer.                                     *)
RoundTrip ==
  InDomain(codec, source) /\ (codec = "elias_gamma_simd_vb" => room = ample_room)
    => AcceptedIsDecoded

(* The widest integer a codec has a row for. *)
Widest(c) ==
  CASE c \in {"simple_9", "simple_9_packed", "simple_16", "simple_16_packed",
              "relative_10", "carryover_12"}     -> 28
    [] c = "nybble_8"                            -> 8
    [] c = "lyck_16"                             -> 16
    [] OTHER                                     -> 32

(* encode gives up in a large buffer only on an integer that is too wide:  *)
(* its tables, selectors and transitions leave no sequence without a row.  *)
RefusesOnlyTooWide ==
  phase = "encoded" /\ room = ample_room /\ encoded = << >>
    => \E i \in DOMAIN source : ceiling_log2(source[i]) > Widest(codec)

(* The packed codecs, and the greedy ones they improve on. *)
Unpacked == [simple_9_packed |-> "simple_9", simple_16_packed |-> "simple_16",
             simple_8b_packed |-> "simple_8b"]

(* The packed codecs, which look for the fewest words from the end of the  *)
(* sequence, never take more words than the greedy ones, which take the    *)
(* row with the most integers from its start.                              *)
PackedNeverLonger ==
  phase = "encoded" /\ codec \in DOMAIN Unpacked /\ encoded # << >>
      /\ InDomain(codec, source)
    => Len(encoded) <= Len(encode(Unpacked[codec], source, ample_room))

(* The words of the buffer that are written to. *)
Taken(c, words) ==
  IF c = "elias_gamma_simd" THEN Len(words) * (simd_words + 1) ELSE Len(words)

ChecksRoom(c, integers) ==
  /\ c \notin Streams \cup {"elias_gamma_simd_vb"}
  /\ c \in DOMAIN Unpacked => Len(integers) > 1

(* A small buffer is never overrun, and only makes encode fail: what it    *)
(* accepts is what it would have written with more room, and it accepts    *)
(* whatever leaves a word free.  The stream codecs do not look at the room *)
(* and the packed ones do not for a single integer; gamma SIMD VB leaves   *)
(* out a tail that does not fit.                                           *)
RoomOnlyRefuses ==
  phase = "encoded" /\ ChecksRoom(codec, source)
    => LET unbounded == encode(codec, source, ample_room)
       IN  /\ encoded # << >> => Taken(codec, encoded) <= room /\ encoded = unbounded
           /\ Taken(codec, unbounded) < room => encoded = unbounded
=============================================================================
