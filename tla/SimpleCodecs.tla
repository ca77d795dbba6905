---------------------------- MODULE SimpleCodecs ----------------------------
(***************************************************************************)
(* The word-aligned integer codecs: Simple-9, Simple-16 and Simple-8b,     *)
(* greedy and packed, Relative-10, Carryover-12, Nybble-8, Lyck-16 and     *)
(* Variable Byte.  A codec is a pair of operators: encode takes the        *)
(* integers and the room in the destination and gives the words written,   *)
(* or <<>> where the code returns 0; decode takes the words and the number *)
(* of integers to decode.  Integers and words are the bit sets of Bits.    *)
(***************************************************************************)
EXTENDS Bits, SequencesExt

(***************************************************************************)
(* The Simple family.  A row says how wide each integer of a word is; its  *)
(* number is the selector.  The code has the rows as four tables: the      *)
(* shifts, the number of integers, and, for the encoder, which rows can    *)
(* hold an integer of some width at some offset, and which rows are full   *)
(* at an offset.  The last two follow from the widths.                     *)
(***************************************************************************)
Row(n, bits) == [i \in 1 .. n |-> bits]

simple_9 ==
  [rows |-> << Row(28, 1), Row(14, 2), Row(9, 3), Row(7, 4), Row(5, 5),
               Row(4, 7), Row(3, 9), Row(2, 14), Row(1, 28) >>,
   width |-> 32, implied |-> 0]

simple_16 ==
  [rows |-> << Row(28, 1), Row(7, 2) \o Row(14, 1),
               Row(7, 1) \o Row(7, 2) \o Row(7, 1), Row(14, 1) \o Row(7, 2),
               Row(14, 2), Row(1, 4) \o Row(8, 3),
               Row(1, 3) \o Row(4, 4) \o Row(3, 3), Row(7, 4),
               Row(4, 5) \o Row(2, 4), Row(2, 4) \o Row(4, 5),
               Row(3, 6) \o Row(2, 5), Row(2, 5) \o Row(3, 6),
               Row(4, 7), Row(1, 10) \o Row(2, 9), Row(2, 14), Row(1, 28) >>,
   width |-> 32, implied |-> 0]

(* The first two rows have no payload: their integers are decoded as 1. *)
simple_8b ==
  [rows |-> << Row(240, 1), Row(120, 1), Row(60, 1), Row(30, 2), Row(20, 3),
               Row(15, 4), Row(12, 5), Row(10, 6), Row(8, 7), Row(7, 8),
               Row(6, 10), Row(5, 12), Row(4, 15), Row(3, 20), Row(2, 30),
               Row(1, 60) >>,
   width |-> 64, implied |-> 2]

(* The bits before the i-th integer of a row. *)
ShiftOf(row, i) ==
  MapThenSumSet(LAMBDA bits : bits * Cardinality({j \in 1 .. (i - 1) : row[j] = bits}),
                {row[j] : j \in DOMAIN row})

(* The integers from at on fill the row, and each fits in its place. *)
Fits(row, source, at) ==
  /\ at + Len(row) - 1 <= Len(source)
  /\ \A i \in 1 .. Len(row) : ceiling_log2(source[at + i - 1]) <= row[i]

(* A word: the integers at their shifts, above the four bits of the        *)
(* selector.                                                               *)
PackWord(codec, selector, source, at) ==
  LET row == codec.rows[selector]
      payload == UNION {ShiftLeft(source[at + i - 1], ShiftOf(row, i), codec.width) :
                           i \in {j \in 1 .. Len(row) : at + j - 1 <= Len(source)}}
  IN  (IF selector <= codec.implied THEN {} ELSE ShiftLeft(payload, 4, codec.width))
        \cup Bits(selector - 1)

(* The words for the blocks, without a look at the room there is. *)
WriteBlocksUnchecked(codec, blocks, source, room) ==
  IF \E i \in DOMAIN blocks : blocks[i][1] = 0 THEN << >>
  ELSE [i \in DOMAIN blocks |-> PackWord(codec, blocks[i][1], source, blocks[i][2])]

(* The words for the blocks << selector, at >>, or 0 bytes if a block has  *)
(* no row or the destination is full.                                      *)
WriteBlocks(codec, blocks, source, room) ==
  IF Len(blocks) > room \/ \E i \in DOMAIN blocks : blocks[i][1] = 0
  THEN << >>
  ELSE [i \in DOMAIN blocks |-> PackWord(codec, blocks[i][1], source, blocks[i][2])]

(* The row with the most integers among those that can be filled. *)
FirstRow(codec, source, at) ==
  LET fitting == {r \in DOMAIN codec.rows : Fits(codec.rows[r], source, at)}
  IN  IF fitting = {} THEN 0 ELSE Min(fitting)

RECURSIVE GreedyBlocks(_, _, _)
GreedyBlocks(codec, source, at) ==
  IF at > Len(source) THEN << >>
  ELSE LET r == FirstRow(codec, source, at)
       IN  << << r, at >> >> \o
             (IF r = 0 THEN << >>
              ELSE GreedyBlocks(codec, source, at + Len(codec.rows[r])))

encode_simple(codec, source, room) ==
  WriteBlocks(codec, GreedyBlocks(codec, source, 1), source, room)

RECURSIVE decode_simple(_, _, _)
decode_simple(codec, words, n) ==
  IF n <= 0 \/ words = << >> THEN << >>
  ELSE LET selector == Number(Low(Head(words), 4)) + 1
           row == codec.rows[selector]
           value == ShiftRight(Head(words), 4)
       IN  [i \in 1 .. Len(row) |->
              IF selector <= codec.implied THEN {0}
              ELSE Field(value, ShiftOf(row, i), row[i])]
             \o decode_simple(codec, Tail(words), n - Len(row))

(* The three classes. *)
encode_simple_9(source, room) == encode_simple(simple_9, source, room)
decode_simple_9(words, n) == decode_simple(simple_9, words, n)

encode_simple_16(source, room) == encode_simple(simple_16, source, room)
decode_simple_16(words, n) == decode_simple(simple_16, words, n)

encode_simple_8b(source, room) == encode_simple(simple_8b, source, room)
decode_simple_8b(words, n) == decode_simple(simple_8b, words, n)

(***************************************************************************)
(* The packed variants choose rows from the last integer backwards.  plan  *)
(* holds, for each position after at, the number of words from there to    *)
(* the end and the row to use there.  The last position counts as no word. *)
(***************************************************************************)
LastPlan(codec) == << [blocks |-> 0, mask |-> Len(codec.rows)] >>

Unplanned == [blocks |-> 99999, mask |-> 0]

(* With the comparison of the number of words the wrong way round. *)
BestRowMost(codec, source, at, plan) ==
  LET fitting == {r \in DOMAIN codec.rows : Fits(codec.rows[r], source, at)}
      ending == {r \in fitting : at + Len(codec.rows[r]) > Len(source)}
      blocks_needed(r) == plan[Len(codec.rows[r])].blocks + 1
      most == Max({blocks_needed(r) : r \in fitting})
  IN  IF fitting = {} THEN Unplanned
      ELSE IF ending # {} THEN [blocks |-> 1, mask |-> Max(ending)]
      ELSE [blocks |-> most, mask |-> Min({r \in fitting : blocks_needed(r) = most})]

(* The row for position at: the last of those that end the sequence, or    *)
(* the first of those with the fewest words after them.                    *)
BestRow(codec, source, at, plan) ==
  LET fitting == {r \in DOMAIN codec.rows : Fits(codec.rows[r], source, at)}
      ending == {r \in fitting : at + Len(codec.rows[r]) > Len(source)}
      blocks_needed(r) == plan[Len(codec.rows[r])].blocks + 1
      fewest == Min({blocks_needed(r) : r \in fitting})
  IN  IF fitting = {} THEN Unplanned
      ELSE IF ending # {} THEN [blocks |-> 1, mask |-> Max(ending)]
      ELSE [blocks |-> fewest, mask |-> Min({r \in fitting : blocks_needed(r) = fewest})]

RECURSIVE Plan(_, _, _, _)
Plan(codec, source, at, plan) ==
  IF at = 0 THEN plan
  ELSE LET best == BestRow(codec, source, at, plan)
       IN  IF best = Unplanned THEN << >>
           ELSE Plan(codec, source, at - 1, << best >> \o plan)

RECURSIVE PlannedBlocks(_, _, _)
PlannedBlocks(codec, plan, at) ==
  IF at > Len(plan) THEN << >>
  ELSE << << plan[at].mask, at >> >> \o
         PlannedBlocks(codec, plan, at + Len(codec.rows[plan[at].mask]))

(* *source > 1 << (width - 4), for a sequence of one integer. *)
AboveOneWord(codec, value) ==
  /\ ceiling_log2(value) > codec.width - 4
  /\ value # {codec.width - 4}

encode_packed(codec, source, room) ==
  IF source = << >> THEN << >>
  ELSE IF Len(source) = 1
       THEN IF AboveOneWord(codec, source[1]) THEN << >>
            ELSE << PackWord(codec, Len(codec.rows), source, 1) >>
  ELSE LET plan == Plan(codec, source, Len(source) - 1, LastPlan(codec))
       IN  IF plan = << >> THEN << >>
           ELSE WriteBlocks(codec, PlannedBlocks(codec, plan, 1), source, room)

(* The three classes; each decodes as its greedy variant does. *)
encode_simple_9_packed(source, room) == encode_packed(simple_9, source, room)
decode_simple_9_packed(words, n) == decode_simple(simple_9, words, n)

encode_simple_16_packed(source, room) == encode_packed(simple_16, source, room)
decode_simple_16_packed(words, n) == decode_simple(simple_16, words, n)

encode_simple_8b_packed(source, room) == encode_packed(simple_8b, source, room)
decode_simple_8b_packed(words, n) == decode_simple(simple_8b, words, n)

(***************************************************************************)
(* Relative-10.  The first word is a Simple-9 word with its row number in  *)
(* the high four bits; every later word has 30 bits of payload, and its    *)
(* high two bits choose its row relative to the row of the word before.    *)
(* The code's tables bits_to_use and table_row follow from the rows.       *)
(***************************************************************************)
simple9_table ==
  << Row(1, 28), Row(2, 14), Row(3, 9), Row(4, 7), Row(5, 5),
     Row(7, 4), Row(9, 3), Row(14, 2), Row(28, 1) >>

relative10_rows ==
  << Row(1, 30), Row(2, 15), Row(3, 10), Row(4, 7), Row(5, 6),
     Row(6, 5), Row(7, 4), Row(10, 3), Row(15, 2), Row(30, 1) >>

transfer_array ==
  << << 3, 2, 1, 0, 0, 0, 0, 0, 0, 0 >>, << 3, 2, 1, 0, 0, 0, 0, 0, 0, 0 >>,
     << 3, 2, 1, 0, 0, 0, 0, 0, 0, 0 >>, << 3, 3, 2, 1, 0, 0, 0, 0, 0, 0 >>,
     << 3, 3, 3, 2, 1, 0, 0, 0, 0, 0 >>, << 3, 3, 3, 3, 2, 1, 0, 0, 0, 0 >>,
     << 3, 3, 3, 3, 3, 2, 1, 0, 0, 0 >>, << 3, 3, 3, 3, 3, 3, 2, 1, 0, 0 >>,
     << 3, 3, 3, 3, 3, 3, 3, 2, 1, 0 >>, << 3, 3, 3, 3, 3, 3, 3, 2, 1, 0 >> >>

relative_row ==
  << << 3, 2, 1, 0 >>, << 3, 2, 1, 0 >>, << 3, 2, 1, 0 >>, << 4, 3, 2, 0 >>,
     << 5, 4, 3, 0 >>, << 6, 5, 4, 0 >>, << 7, 6, 5, 0 >>, << 8, 7, 6, 0 >>,
     << 9, 8, 7, 0 >>, << 9, 8, 7, 0 >> >>

(* The width of the narrowest row that holds an integer, or 64. *)
bits_to_use(rows, value) ==
  LET wide == {rows[r][1] : r \in {q \in DOMAIN rows : rows[q][1] >= ceiling_log2(value)}}
  IN  IF wide = {} THEN 64 ELSE Min(wide)

(* How many integers from at on fit together into limit bits; 0 if one of  *)
(* those looked at is too large.                                           *)
RECURSIVE TermsFrom(_, _, _, _, _, _)
TermsFrom(rows, limit, source, at, term, needed) ==
  IF term = limit \/ at + term > Len(source) THEN term
  ELSE LET bits == bits_to_use(rows, source[at + term])
           widest == Max({bits, needed})
       IN  IF bits > limit THEN 0
           ELSE IF widest * (term + 1) > limit THEN term
           ELSE TermsFrom(rows, limit, source, at, term + 1, widest)

(* The last row that takes no more integers than that. *)
table_row(rows, terms) == Max({r \in DOMAIN rows : Len(rows[r]) <= terms})

PackRow(row, source, at) ==
  UNION {ShiftLeft(source[at + i - 1], row[1] * (i - 1), 32) : i \in 1 .. Len(row)}

(* The words after those of words, the last of which has the given row. *)
RECURSIVE RelativeWords(_, _, _, _, _)
RelativeWords(source, at, row, words, room) ==
  LET terms == TermsFrom(relative10_rows, 30, source, at, 0, 0)
      r == transfer_array[row][table_row(relative10_rows, terms)]
      next == relative_row[row][r + 1] + 1
      word == ShiftLeft(Bits(r), 30, 32) \cup PackRow(relative10_rows[next], source, at)
  IN  IF at > Len(source) THEN words
      ELSE IF Len(words) = room \/ terms = 0 THEN << >>
      ELSE RelativeWords(source, at + Len(relative10_rows[next]), next,
                         Append(words, word), room)

encode_relative_10(source, room) ==
  LET terms == TermsFrom(simple9_table, 28, source, 1, 0, 0)
      row == table_row(simple9_table, terms)
      word == ShiftLeft(Bits(row - 1), 28, 32) \cup PackRow(simple9_table[row], source, 1)
  IN  IF source = << >> \/ room = 0 \/ terms = 0 THEN << >>
      ELSE RelativeWords(source, 1 + Len(simple9_table[row]), row, << word >>, room)

(* The decoder's shift for the i-th integer of a row.  The fourth of the   *)
(* ten integers of three bits is taken from bit 8.                         *)
RelativeShift(row, i) ==
  IF row = 8 /\ i = 4 THEN 8 ELSE relative10_rows[row][1] * (i - 1)

RECURSIVE RelativeIntegers(_, _, _)
RelativeIntegers(words, row, n) ==
  IF n <= 0 \/ words = << >> THEN << >>
  ELSE LET next == relative_row[row][Number(ShiftRight(Head(words), 30)) + 1] + 1
           widths == relative10_rows[next]
       IN  [i \in DOMAIN widths |-> Field(Head(words), RelativeShift(next, i), widths[i])]
             \o RelativeIntegers(Tail(words), next, n - Len(widths))

decode_relative_10(words, n) ==
  LET row == Number(ShiftRight(Head(words), 28)) + 1
      widths == simple9_table[row]
  IN  [i \in DOMAIN widths |-> Field(Head(words), widths[1] * (i - 1), widths[1])]
        \o RelativeIntegers(Tail(words), row, n - Len(widths))

(***************************************************************************)
(* Carryover-12.  A selector says how many bits an integer has, how many   *)
(* integers there are, whether the two bits that choose the next selector  *)
(* are in this word (its high bits) or in the next one (its low bits), and *)
(* which selectors these two bits choose from.                             *)
(***************************************************************************)
Selector(bits, integers, next_selector, new_selector) ==
  [bits |-> bits, integers |-> integers, next_selector |-> next_selector,
   new_selector |-> new_selector]

transition_table ==
  << Selector(1, 30, FALSE, << 0, 1, 2, 11 >>), Selector(2, 15, FALSE, << 0, 1, 2, 11 >>),
     Selector(3, 10, FALSE, << 1, 2, 3, 11 >>), Selector(4, 7, TRUE, << 14, 15, 16, 23 >>),
     Selector(5, 6, FALSE, << 3, 4, 5, 11 >>), Selector(6, 5, FALSE, << 4, 5, 6, 11 >>),
     Selector(7, 4, TRUE, << 17, 18, 19, 23 >>), Selector(9, 3, TRUE, << 18, 19, 20, 23 >>),
     Selector(10, 3, FALSE, << 7, 8, 9, 11 >>), Selector(14, 2, TRUE, << 20, 21, 22, 23 >>),
     Selector(15, 2, FALSE, << 8, 9, 10, 11 >>), Selector(28, 1, TRUE, << 17, 20, 22, 23 >>),
     Selector(1, 32, FALSE, << 0, 1, 2, 11 >>), Selector(2, 16, FALSE, << 0, 1, 2, 11 >>),
     Selector(3, 10, TRUE, << 13, 14, 15, 23 >>), Selector(4, 8, FALSE, << 2, 3, 4, 11 >>),
     Selector(5, 6, TRUE, << 15, 16, 17, 23 >>), Selector(6, 5, TRUE, << 16, 17, 18, 23 >>),
     Selector(7, 4, TRUE, << 17, 18, 19, 23 >>), Selector(8, 4, FALSE, << 6, 7, 8, 11 >>),
     Selector(10, 3, TRUE, << 19, 20, 21, 23 >>), Selector(15, 2, TRUE, << 20, 21, 22, 23 >>),
     Selector(16, 2, FALSE, << 8, 9, 10, 11 >>), Selector(30, 1, TRUE, << 17, 20, 22, 23 >>) >>

(* The first word holds one integer. *)
FirstSelector == 23

(* The integers from used + 1 on that there are fit the trial selector. *)
Packs(trial, source, used) ==
  \A i \in 1 .. trial.integers :
     used + i <= Len(source) => ceiling_log2(source[used + i]) <= trial.bits

(* With the fourth selector never tried. *)
FirstTrialOfThree(new_selector, source, used) ==
  LET packing == {s \in 0 .. 2 : Packs(transition_table[new_selector[s + 1] + 1], source, used)}
  IN  IF packing = {} THEN 4 ELSE Min(packing)

(* The first of the four selectors that packs, or 4.  Each is wider than   *)
(* the one before it.                                                      *)
FirstTrial(new_selector, source, used) ==
  LET packing == {s \in 0 .. 3 : Packs(transition_table[new_selector[s + 1] + 1], source, used)}
  IN  IF packing = {} THEN 4 ELSE Min(packing)

(* The words after those of words, whose last one has the selector         *)
(* current.  At least one is written, whatever is left to encode.          *)
RECURSIVE CarryoverWords(_, _, _, _, _)
CarryoverWords(source, used, current, words, room) ==
  LET from == transition_table[current + 1]
      selector == FirstTrial(from.new_selector, source, used)
      trial == from.new_selector[selector + 1]
      to == transition_table[trial + 1]
      word == UNION {ShiftLeft(source[used + i], to.bits * (i - 1), 32) :
                        i \in {j \in 1 .. to.integers : used + j <= Len(source)}}
      last == Len(words)
      written ==
        IF from.next_selector
        THEN Append([words EXCEPT ![last] = @ \cup ShiftLeft(Bits(selector), 30, 32)], word)
        ELSE Append(words, ShiftLeft(word, 2, 32) \cup Bits(selector))
  IN  IF last = room \/ selector = 4 THEN << >>
      ELSE IF used + to.integers >= Len(source) THEN written
      ELSE CarryoverWords(source, used + to.integers, trial, written, room)

encode_carryover_12(source, room) ==
  IF \/ source = << >> \/ room = 0
     \/ ceiling_log2(source[1]) > transition_table[FirstSelector + 1].bits
  THEN << >>
  ELSE CarryoverWords(source, 1, FirstSelector, << source[1] >>, room)

(* The decoder's mask: selector 23 is decoded as 28 bits. *)
MaskBits(selector) ==
  IF selector = 23 THEN 28 ELSE transition_table[selector + 1].bits

RECURSIVE CarryoverIntegers(_, _, _, _)
CarryoverIntegers(words, selector, payload, n) ==
  IF n <= 0 THEN << >>
  ELSE LET from == transition_table[selector + 1]
           integers == [i \in 1 .. from.integers |->
                          Field(payload, from.bits * (i - 1), MaskBits(selector))]
           rest == Tail(words)
       IN  integers \o
             (IF rest = << >> THEN << >>
              ELSE IF from.next_selector
              THEN CarryoverIntegers(rest,
                     from.new_selector[Number(ShiftRight(Head(words), 30)) + 1],
                     Head(rest), n - from.integers)
              ELSE CarryoverIntegers(rest,
                     from.new_selector[Number(Low(Head(rest), 2)) + 1],
                     ShiftRight(Head(rest), 2), n - from.integers))

decode_carryover_12(words, n) ==
  CarryoverIntegers(words, FirstSelector, Head(words), n)

(***************************************************************************)
(* The codecs that write bytes.  Nybble-8 and Lyck-16 write a selector and *)
(* then one or two bytes of integers of equal width, the first one in the  *)
(* high bits; the selector and these bytes are one word here.  A width is  *)
(* chosen by how many integers were taken: Nybble-8 takes two only if both *)
(* have four bits, Lyck-16 takes as many as have 16 bits between them.     *)
(***************************************************************************)
PackHigh(source, n, width) ==
  UNION {ShiftLeft(source[i], (width \div n) * (n - i), width) : i \in 1 .. n}

UnpackHigh(word, n, width) ==
  [i \in 1 .. n |-> Field(word, (width \div n) * (n - i), width \div n)]

nybble_8_takes(source) ==
  IF Len(source) >= 2 /\ \A i \in 1 .. 2 : ceiling_log2(source[i]) <= 4 THEN 2
  ELSE IF ceiling_log2(source[1]) <= 8 THEN 1
  ELSE 0

bits_needed(value) == Max({ceiling_log2(value), 1})

(* How many integers have 16 bits between them; 0 if one of those looked   *)
(* at has more than 16.                                                    *)
RECURSIVE Together(_, _, _)
Together(source, n, cumulative) ==
  IF n = 16 \/ n = Len(source) THEN n
  ELSE LET bits == bits_needed(source[n + 1])
       IN  IF bits > 16 THEN 0
           ELSE IF cumulative + bits > 16 THEN n
           ELSE Together(source, n + 1, cumulative + bits)

lyck_16_takes(source) ==
  LET together == Together(source, 0, 0)
  IN  Max({n \in {0, 1, 2, 4, 8} : n <= together})

RECURSIVE ByteWords(_, _, _, _)
ByteWords(width, source, words, room) ==
  IF source = << >> THEN words
  ELSE LET n == IF width = 8 THEN nybble_8_takes(source) ELSE lyck_16_takes(source)
       IN  IF Len(words) = room \/ n = 0 THEN << >>
           ELSE ByteWords(width, SubSeq(source, n + 1, Len(source)),
                          Append(words, << n, PackHigh(source, n, width) >>), room)

encode_nybble_8(source, room) == ByteWords(8, source, << >>, room)
encode_lyck_16(source, room) == ByteWords(16, source, << >>, room)

RECURSIVE ByteIntegers(_, _)
ByteIntegers(width, words) ==
  IF words = << >> THEN << >>
  ELSE UnpackHigh(Head(words)[2], Head(words)[1], width) \o ByteIntegers(width, Tail(words))

decode_nybble_8(words, n) == ByteIntegers(8, words)
decode_lyck_16(words, n) == ByteIntegers(16, words)

(***************************************************************************)
(* Variable Byte: seven bits to a byte, the high ones first, and a one in  *)
(* the high bit of the last byte of each integer.                          *)
(***************************************************************************)
bytes_needed(value) == Max({(ceiling_log2(value) + 6) \div 7, 1})

compress_into(value) ==
  LET n == bytes_needed(value)
  IN  [i \in 1 .. n |-> Field(value, 7 * (n - i), 7) \cup (IF i = n THEN {7} ELSE {})]

RECURSIVE VariableBytes(_, _, _)
VariableBytes(source, bytes, room) ==
  IF source = << >> THEN bytes
  ELSE IF Len(bytes) + bytes_needed(Head(source)) > room THEN << >>
  ELSE VariableBytes(Tail(source), bytes \o compress_into(Head(source)), room)

encode_variable_byte(source, room) == VariableBytes(source, << >>, room)

(* decompress_into, until the bytes run out: decoded holds the bits of the *)
(* bytes of an integer read so far.                                        *)
RECURSIVE decompress(_, _)
decompress(bytes, decoded) ==
  IF bytes = << >> THEN << >>
  ELSE LET value == ShiftLeft(decoded, 7, 32) \cup Low(Head(bytes), 7)
       IN  IF 7 \in Head(bytes)
           THEN << value >> \o decompress(Tail(bytes), {})
           ELSE decompress(Tail(bytes), value)

decode_variable_byte(bytes, n) == decompress(bytes, {})
=============================================================================
