-------------------- MODULE AccumulatorCounterInterleaved --------------------
(***************************************************************************)
(* accumulator_counter_interleaved                                         *)
(* (source/accumulator_counter_interleaved.h): accumulator_counter with    *)
(* the flags kept next to the accumulators, a cache line ("chunk") of      *)
(* accumulators followed by their flags.  init() clears flags only, so it  *)
(* starts from query number 1 and leaves the accumulators as they are.     *)
(***************************************************************************)
EXTENDS Integers

CONSTANTS
  NUMBER_OF_ACCUMULATORS,  \* the most accumulators the object is built for
  Elements,                \* the values of ELEMENT
  max_clean_id,            \* the largest query number
  accumulators_per_chunk   \* accumulators in a cache line

min_clean_id == 0

VARIABLES
  COUNTER_BITSIZE,         \* the template parameter, 8 or 4; fixed
  number_of_accumulators, number_of_chunks, clean_id,
  accumulator_chunk,   \* the chunks, each with accumulators and flags
  result               \* what the last operation returned

vars == << COUNTER_BITSIZE, number_of_accumulators, number_of_chunks, clean_id,
           accumulator_chunk, result >>

\* How many chunks n accumulators need.
Chunks(n) == (n + accumulators_per_chunk - 1) \div accumulators_per_chunk

clean_flag_bytes == IF COUNTER_BITSIZE = 8 THEN accumulators_per_chunk
                    ELSE accumulators_per_chunk \div 2 + (accumulators_per_chunk % 2)

Base == max_clean_id + 1
Bytes == 0 .. (IF COUNTER_BITSIZE = 8 THEN Base ELSE Base * Base) - 1
Parts == 0 .. accumulators_per_chunk - 1

chunk == [accumulator : [Parts -> Elements],
          clean_flag : [0 .. clean_flag_bytes - 1 -> Bytes]]

\* Where accumulator number which is.
ChunkOf(which) == which \div accumulators_per_chunk
PartOf(which) == which % accumulators_per_chunk

FlagByte(part) == IF COUNTER_BITSIZE = 8 THEN part ELSE part \div 2

CleanFlag(which) ==
  LET part == PartOf(which)
      byte == accumulator_chunk[ChunkOf(which)].clean_flag[FlagByte(part)]
  IN  CASE COUNTER_BITSIZE = 8 -> byte
        [] COUNTER_BITSIZE = 4 /\ part % 2 = 0 -> byte % Base
        [] OTHER -> byte \div Base

WithFlag(byte, part, id) ==
  CASE COUNTER_BITSIZE = 8 -> id
    [] COUNTER_BITSIZE = 4 /\ part % 2 = 0 -> Base * (byte \div Base) + id
    [] OTHER -> Base * id + (byte % Base)

\* chunk::rewind()
Rewound(c) == [c EXCEPT !.clean_flag = [b \in 0 .. clean_flag_bytes - 1 |-> min_clean_id]]

\* A loop that stops one chunk early.
RewoundShort(count) ==
  [i \in DOMAIN accumulator_chunk |->
     IF i < count - 1 THEN Rewound(accumulator_chunk[i]) ELSE accumulator_chunk[i]]

RewoundUpTo(count) ==
  [i \in DOMAIN accumulator_chunk |->
     IF i < count THEN Rewound(accumulator_chunk[i]) ELSE accumulator_chunk[i]]

\* The object starts as whatever memory it is built in; that all of it starts
\* with the same rubbish bounds the number of initial states.
Init ==
  /\ COUNTER_BITSIZE \in {4, 8}
  /\ number_of_accumulators = 0
  /\ number_of_chunks = 0
  /\ clean_id = min_clean_id + 1
  /\ \E v \in Elements, b \in Bytes :
       accumulator_chunk = [i \in 0 .. Chunks(NUMBER_OF_ACCUMULATORS) - 1 |->
                              [accumulator |-> [p \in Parts |-> v],
                               clean_flag |-> [p \in 0 .. clean_flag_bytes - 1 |-> b]]]
  /\ result = << >>

\* init(n)
init(n) ==
  /\ number_of_accumulators' = n
  /\ number_of_chunks' = Chunks(n)
  /\ clean_id' = min_clean_id + 1
  /\ accumulator_chunk' = RewoundUpTo(Chunks(n))
  /\ UNCHANGED << COUNTER_BITSIZE, result >>

\* get_value(which)
GetValue(which) ==
  IF CleanFlag(which) # clean_id THEN 0
  ELSE accumulator_chunk[ChunkOf(which)].accumulator[PartOf(which)]

get_value(which) ==
  /\ which < number_of_accumulators
  /\ result' = << GetValue(which) >>
  /\ UNCHANGED << COUNTER_BITSIZE, number_of_accumulators, number_of_chunks, clean_id,
                  accumulator_chunk >>

\* operator[](which) with chunk::allocate_accumulator(), through whose reference
\* the caller writes v.
subscript(which, v) ==
  LET part == PartOf(which)
  IN  /\ which < number_of_accumulators
      /\ result' = << GetValue(which) >>
      /\ accumulator_chunk' =
           [accumulator_chunk EXCEPT
              ![ChunkOf(which)].accumulator[part] = v,
              ![ChunkOf(which)].clean_flag[FlagByte(part)] =
                 IF CleanFlag(which) = clean_id THEN @ ELSE WithFlag(@, part, clean_id)]
      /\ UNCHANGED << COUNTER_BITSIZE, number_of_accumulators, number_of_chunks, clean_id >>

\* rewind()
rewind ==
  /\ IF clean_id = max_clean_id
     THEN /\ accumulator_chunk' = RewoundUpTo(number_of_chunks)
          /\ clean_id' = min_clean_id + 1
     ELSE clean_id' = clean_id + 1 /\ UNCHANGED accumulator_chunk
  /\ UNCHANGED << COUNTER_BITSIZE, number_of_accumulators, number_of_chunks, result >>

Numbers == 0 .. NUMBER_OF_ACCUMULATORS - 1

Next ==
  \/ \E n \in 0 .. NUMBER_OF_ACCUMULATORS : init(n)
  \/ \E which \in Numbers : get_value(which)
  \/ \E which \in Numbers, v \in Elements : subscript(which, v)
  \/ rewind

Spec == Init /\ [][Next]_vars
-----------------------------------------------------------------------------
\* Types, and query numbers that stay above the number of a reset flag: that is
\* why the accumulators need not be cleared.
TypeOK ==
  /\ COUNTER_BITSIZE \in {4, 8}
  /\ number_of_accumulators \in 0 .. NUMBER_OF_ACCUMULATORS
  /\ number_of_chunks = Chunks(number_of_accumulators)
  /\ clean_id \in min_clean_id + 1 .. max_clean_id
  /\ accumulator_chunk \in [0 .. Chunks(NUMBER_OF_ACCUMULATORS) - 1 -> chunk]

\* The interleaved counters implement the plain array.
Array == INSTANCE AccumulatorArray WITH
  size <- number_of_accumulators,
  value <- [d \in Numbers |-> IF d < number_of_accumulators THEN GetValue(d) ELSE 0],
  result <- result

ImplementsArray == Array!ASpec
=============================================================================
