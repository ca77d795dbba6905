---------------------------- MODULE EliasCodecs ----------------------------
(***************************************************************************)
(* The Elias codecs: gamma and delta, which write a stream of bits, gamma  *)
(* SIMD, which writes columns of integers of equal width and carries the   *)
(* high bits of a column that does not fit over to the next block, and     *)
(* gamma SIMD VB, which widens the last column of a block instead and ends *)
(* with Variable Byte.  Integers and words are the bit sets of Bits.       *)
(***************************************************************************)
EXTENDS SimpleCodecs

(***************************************************************************)
(* A stream is the set of its one bits and the number of bits written so   *)
(* far.  encode adds to both with a 64-bit or at the byte of the position; *)
(* decode loads the stream a 64-bit word at a time.  Past its end there    *)
(* are the zeros encode has set its buffer to.                             *)
(***************************************************************************)
EmptyStream == [bits |-> {}, into |-> 0]

WriteBits(stream, value, n) ==
  [bits |-> stream.bits \cup {stream.into + b : b \in value}, into |-> stream.into + n]

(* ((n & ~(1 << unary)) << 1) + 1, after unary zeros. *)
WriteUnary(stream, value, unary) ==
  WriteBits(WriteBits(stream, {}, unary),
            ShiftLeft(value \ {unary}, 1, 32) \cup {0}, unary + 1)

WriteGamma(stream, value) == WriteUnary(stream, value, floor_log2(value))

encode_elias_gamma(source) == FoldLeft(WriteGamma, EmptyStream, source)

WriteDelta(stream, value) ==
  LET n == floor_log2(value) + 1
  IN  WriteBits(WriteUnary(stream, Bits(n), floor_log2(Bits(n))), value \ {n - 1}, n - 1)

encode_elias_delta(source) == FoldLeft(WriteDelta, EmptyStream, source)

(* The decoder: the next word to load, the unread bits of the current one, *)
(* how many they are, and what it has read.                                *)
Start == [source |-> 0, value |-> {}, remaining |-> 0, unary |-> 0, decoded |-> {}]

Word(stream, k) == Field(stream.bits, 64 * k, 64)

(* The zeros before the next one bit, which may be in the next word. *)
ReadUnary(stream, d) ==
  IF d.value # {}
  THEN LET zeros == Min(d.value)
       IN  [d EXCEPT !.unary = zeros, !.value = ShiftRight(@, zeros),
                     !.remaining = @ - zeros]
  ELSE LET word == Word(stream, d.source)
           zeros == IF word = {} THEN 64 ELSE Min(word)
       IN  [d EXCEPT !.unary = d.remaining + zeros, !.value = ShiftRight(word, zeros),
                     !.remaining = 64 - zeros, !.source = @ + 1]

(* With one bit too few taken from the next word. *)
ReadBinaryShort(stream, d) ==
  IF d.remaining > d.unary
  THEN [d EXCEPT !.decoded = ShiftRight(Low(d.value, d.unary + 1), 1) \cup {d.unary},
                 !.remaining = @ - (d.unary + 1),
                 !.value = ShiftRight(@, d.unary + 1)]
  ELSE LET word == Word(stream, d.source)
           used == d.unary - d.remaining
       IN  [d EXCEPT !.decoded =
                        ShiftRight(d.value \cup ShiftLeft(Low(word, used), d.remaining, 64), 1)
                          \cup {d.unary},
                     !.remaining = 64 - used, !.value = ShiftRight(word, used),
                     !.source = @ + 1]

(* The unary + 1 bits after them, the first of which is dropped. *)
ReadBinary(stream, d) ==
  IF d.remaining > d.unary
  THEN [d EXCEPT !.decoded = ShiftRight(Low(d.value, d.unary + 1), 1) \cup {d.unary},
                 !.remaining = @ - (d.unary + 1),
                 !.value = ShiftRight(@, d.unary + 1)]
  ELSE LET word == Word(stream, d.source)
           used == (d.unary - d.remaining) + 1
       IN  [d EXCEPT !.decoded =
                        ShiftRight(d.value \cup ShiftLeft(Low(word, used), d.remaining, 64), 1)
                          \cup {d.unary},
                     !.remaining = 64 - used, !.value = ShiftRight(word, used),
                     !.source = @ + 1]

ReadGamma(stream, d) == ReadBinary(stream, ReadUnary(stream, d))

(* Delta: the length has been read; binary bits are taken, one more than   *)
(* were written, into the place of the one bit that was not written.       *)
ReadValue(stream, d) ==
  LET binary == Number(d.decoded)
  IN  IF d.remaining >= binary
      THEN [d EXCEPT !.decoded = Low(d.value, binary) \cup {binary - 1},
                     !.remaining = @ - (binary - 1),
                     !.value = ShiftRight(@, binary - 1)]
      ELSE LET word == Word(stream, d.source)
               used == (binary - d.remaining) - 1
           IN  [d EXCEPT !.decoded =
                            Low(d.value \cup ShiftLeft(Low(word, used + 1), d.remaining, 64), 32)
                              \cup {binary - 1},
                         !.remaining = 64 - used, !.value = ShiftRight(word, used),
                         !.source = @ + 1]

ReadDelta(stream, d) == ReadValue(stream, ReadGamma(stream, d))

RECURSIVE DecodeGamma(_, _, _)
DecodeGamma(stream, d, n) ==
  IF n = 0 THEN << >>
  ELSE LET next == ReadGamma(stream, d)
       IN  << next.decoded >> \o DecodeGamma(stream, next, n - 1)

RECURSIVE DecodeDelta(_, _, _)
DecodeDelta(stream, d, n) ==
  IF n = 0 THEN << >>
  ELSE LET next == ReadDelta(stream, d)
       IN  << next.decoded >> \o DecodeDelta(stream, next, n - 1)

decode_elias_gamma(stream, n) == DecodeGamma(stream, Start, n)
decode_elias_delta(stream, n) == DecodeDelta(stream, Start, n)

(***************************************************************************)
(* Gamma SIMD.  A block is a selector and words payload words, each of 32  *)
(* bits.  A column is one integer for each payload word; the selector has  *)
(* a one bit at the last bit of each column.  words is 16 in the code.     *)
(***************************************************************************)
PayloadWidth == 32

(* The integer in a column for a payload word, padded with zeros. *)
ValueAt(words, array, slice, word) ==
  LET index == slice * words + word
  IN  IF index <= Len(array) THEN array[index] ELSE {}

ColumnWidth(words, array, slice) ==
  Max({1} \cup {ceiling_log2(ValueAt(words, array, slice, w)) : w \in 1 .. words})

(* The columns from slice on.  carryover is the number of high bits of the *)
(* first column that are in the block before; ends are the last bits of    *)
(* the columns in the block so far.                                        *)
RECURSIVE Columns(_, _, _, _, _, _, _)
Columns(words, array, slice, carryover, remaining, payload, ends) ==
  LET actual_max_width == ColumnWidth(words, array, slice)
      max_width == actual_max_width - carryover
      cumulative_shift == PayloadWidth - remaining
      placed == [w \in 1 .. words |->
                   LET value == ValueAt(words, array, slice, w)
                   IN  payload[w] \cup
                         IF carryover = 0 THEN ShiftLeft(value, cumulative_shift, PayloadWidth)
                         ELSE Low(value, actual_max_width - carryover)]
      high == [w \in 1 .. words |->
                 Low(placed[w], cumulative_shift) \cup
                   ShiftLeft(ShiftRight(ValueAt(words, array, slice, w),
                                        actual_max_width - remaining),
                             cumulative_shift, PayloadWidth)]
      extended == ends \cup {(cumulative_shift + max_width) - 1}
  IN  IF max_width > remaining
      THEN [selector |-> ends, payload |-> high, encoded |-> slice * words,
            carryover |-> remaining]
      ELSE IF max_width = remaining \/ (slice + 1) * words >= Len(array)
      THEN [selector |-> extended, payload |-> placed,
            encoded |-> Min({(slice + 1) * words, Len(array)}), carryover |-> 0]
      ELSE Columns(words, array, slice + 1, 0, remaining - max_width, placed, extended)

RECURSIVE SimdBlocks(_, _, _, _, _)
SimdBlocks(words, array, carryover, blocks, room) ==
  LET block == Columns(words, array, 0, carryover, PayloadWidth, [w \in 1 .. words |-> {}], {})
      written == Append(blocks, [selector |-> block.selector, payload |-> block.payload])
      rest == SubSeq(array, block.encoded + 1, Len(array))
  IN  IF (Len(blocks) + 1) * (words + 1) + 1 > room THEN << >>
      ELSE IF rest = << >> THEN written
      ELSE SimdBlocks(words, rest, block.carryover, written, room)

encode_elias_gamma_simd(words, source, room) == SimdBlocks(words, source, 0, << >>, room)

(* The columns of the blocks.  high_bits is what is left of the payload    *)
(* when the selector has run out: the high bits of the next column.        *)
RECURSIVE SimdIntegers(_, _, _, _)
SimdIntegers(blocks, selector, payload, high_bits) ==
  IF selector = {}
  THEN IF blocks = << >> THEN << >>
       ELSE SimdIntegers(Tail(blocks), Head(blocks).selector, Head(blocks).payload, payload)
  ELSE LET width == Min(selector) + 1
       IN  [w \in DOMAIN payload |->
              Low(payload[w], width) \cup ShiftLeft(high_bits[w], width, PayloadWidth)]
             \o SimdIntegers(blocks, ShiftRight(selector, width),
                             [w \in DOMAIN payload |-> ShiftRight(payload[w], width)],
                             [w \in DOMAIN payload |-> {}])

decode_elias_gamma_simd(words, blocks, n) ==
  SimdIntegers(blocks, {}, [w \in 1 .. words |-> {}], [w \in 1 .. words |-> {}])

(***************************************************************************)
(* Gamma SIMD VB.  A word with the length of the Variable Byte tail, the   *)
(* blocks, and the tail.                                                   *)
(***************************************************************************)
VbSize(integers) ==
  Cardinality({p \in (DOMAIN integers) \X (1 .. 5) : p[2] <= bytes_needed(integers[p[1]])})

(* The last column of the block takes the bits that are left over. *)
Widened(ends) == (ends \ {Max(ends)}) \cup {PayloadWidth - 1}

(* The block from slice on, and the integers that are for the tail.  An    *)
(* incomplete last column goes to the tail; if that is shorter, everything *)
(* since the start of the block does, and there is no block.               *)
RECURSIVE VbBlock(_, _, _, _, _, _)
VbBlock(words, array, slice, remaining, payload, ends) ==
  LET max_width == ColumnWidth(words, array, slice)
      cumulative_shift == PayloadWidth - remaining
      elements == Len(array) - slice * words
      column == SubSeq(array, slice * words + 1, Len(array))
      placed == [w \in 1 .. words |->
                   payload[w] \cup ShiftLeft(ValueAt(words, array, slice, w),
                                             cumulative_shift, PayloadWidth)]
      extended == ends \cup {(cumulative_shift + max_width) - 1}
      Block(selector, contents, rest, tail) ==
        [blocks |-> << [selector |-> selector, payload |-> contents] >>,
         rest |-> rest, tail |-> tail]
  IN  IF max_width > remaining THEN Block(Widened(ends), payload, column, << >>)
      ELSE IF elements > words
      THEN VbBlock(words, array, slice + 1, remaining - max_width, placed, extended)
      ELSE IF elements = words THEN Block(Widened(extended), placed, << >>, << >>)
      ELSE IF VbSize(array) < words * 4 + VbSize(column)
      THEN [blocks |-> << >>, rest |-> << >>, tail |-> array]
      ELSE Block(Widened(ends), payload, << >>, column)

(* The room for the tail is counted in words from the start of the block,  *)
(* and taken for a number of bytes; a tail that does not fit is left out.  *)
RECURSIVE VbBlocks(_, _, _, _)
VbBlocks(words, array, blocks, room) ==
  LET block == VbBlock(words, array, 0, PayloadWidth, [w \in 1 .. words |-> {}], {})
      used == 1 + Len(blocks) * (words + 1)
      written == blocks \o block.blocks
  IN  IF used + words + 2 > room THEN << >>
      ELSE IF block.rest # << >> THEN VbBlocks(words, block.rest, written, room)
      ELSE << [blocks |-> written,
               tail |-> encode_variable_byte(block.tail, room - used)] >>

encode_elias_gamma_simd_vb(words, source, room) == VbBlocks(words, source, << >>, room)

RECURSIVE BlockColumns(_, _)
BlockColumns(selector, payload) ==
  IF selector = {} THEN << >>
  ELSE LET width == Min(selector) + 1
       IN  [w \in DOMAIN payload |-> Low(payload[w], width)]
             \o BlockColumns(ShiftRight(selector, width),
                             [w \in DOMAIN payload |-> ShiftRight(payload[w], width)])

decode_elias_gamma_simd_vb(encoding, n) ==
  FoldLeft(LAMBDA decoded, block : decoded \o BlockColumns(block.selector, block.payload),
           << >>, encoding.blocks)
    \o decompress(encoding.tail, {})
=============================================================================
