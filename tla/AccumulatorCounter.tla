-------------------------- MODULE AccumulatorCounter --------------------------
(***************************************************************************)
(* accumulator_counter (source/accumulator_counter.h): every accumulator   *)
(* has a clean flag that holds the number of the query that last used it.  *)
(* rewind() takes the next query number, so nothing is cleared until the   *)
(* numbers run out and all flags are reset.  With 4-bit numbers two flags  *)
(* share a byte.                                                           *)
(***************************************************************************)
EXTENDS Integers

CONSTANTS
  NUMBER_OF_ACCUMULATORS,  \* the size of the arrays inside the object
  Elements,                \* the values of ELEMENT
  max_clean_id             \* the largest query number (0xFF or 0x0F)

min_clean_id == 0

VARIABLES
  COUNTER_BITSIZE,         \* the template parameter, 8 or 4; fixed
  number_of_accumulators,  \* what the user asked for
  clean_id,                \* the number of the current query
  clean_flag,              \* the bytes that hold the flags
  accumulator,             \* the memory
  result                   \* what the last operation returned

vars == << COUNTER_BITSIZE, number_of_accumulators, clean_id, clean_flag, accumulator,
           result >>

Cells == 0 .. NUMBER_OF_ACCUMULATORS - 1

\* A flag byte: one number, or a low and a high one.
Base == max_clean_id + 1
Bytes == 0 .. (IF COUNTER_BITSIZE = 8 THEN Base ELSE Base * Base) - 1

\* The byte that holds the flag of an accumulator, the flag in it, and the byte
\* with that flag replaced.
FlagByte(which) == IF COUNTER_BITSIZE = 8 THEN which ELSE which \div 2

FlagOf(byte, which) ==
  CASE COUNTER_BITSIZE = 8 -> byte
    [] COUNTER_BITSIZE = 4 /\ which % 2 = 0 -> byte % Base
    [] OTHER -> byte \div Base

WithFlag(byte, which, id) ==
  CASE COUNTER_BITSIZE = 8 -> id
    [] COUNTER_BITSIZE = 4 /\ which % 2 = 0 -> Base * (byte \div Base) + id
    [] OTHER -> Base * id + (byte % Base)

CleanFlag(which) == FlagOf(clean_flag[FlagByte(which)], which)

\* The object starts as whatever memory it is built in.
Init ==
  /\ COUNTER_BITSIZE \in {4, 8}
  /\ number_of_accumulators = 0
  /\ clean_id = min_clean_id
  /\ clean_flag \in [Cells -> Bytes]
  /\ accumulator \in [Cells -> Elements]
  /\ result = << >>

\* init(n)
init(n) ==
  /\ number_of_accumulators' = n
  /\ clean_id' = min_clean_id
  /\ clean_flag' = [c \in Cells |-> IF c < n THEN min_clean_id ELSE clean_flag[c]]
  /\ accumulator' = [c \in Cells |-> IF c < n THEN 0 ELSE accumulator[c]]
  /\ UNCHANGED << COUNTER_BITSIZE, result >>

\* get_value(which)
GetValue(which) == IF CleanFlag(which) # clean_id THEN 0 ELSE accumulator[which]

get_value(which) ==
  /\ which < number_of_accumulators
  /\ result' = << GetValue(which) >>
  /\ UNCHANGED << COUNTER_BITSIZE, number_of_accumulators, clean_id, clean_flag,
                  accumulator >>

\* operator[](which), through whose reference the caller writes v.
subscript(which, v) ==
  /\ which < number_of_accumulators
  /\ result' = << GetValue(which) >>
  /\ accumulator' = [accumulator EXCEPT ![which] = v]
  /\ clean_flag' = IF CleanFlag(which) = clean_id THEN clean_flag
                   ELSE [clean_flag EXCEPT ![FlagByte(which)] =
                           WithFlag(@, which, clean_id)]
  /\ UNCHANGED << COUNTER_BITSIZE, number_of_accumulators, clean_id >>

\* The number of flag bytes in use.
UsedBytes(n) == IF COUNTER_BITSIZE = 8 THEN n ELSE (n + 1) \div 2

\* A rewind() that starts the numbers again without resetting the flags.
rewindNoReset ==
  /\ clean_id' = IF clean_id = max_clean_id THEN min_clean_id + 1 ELSE clean_id + 1
  /\ UNCHANGED << COUNTER_BITSIZE, clean_flag, number_of_accumulators, accumulator,
                  result >>

\* rewind()
rewind ==
  /\ IF clean_id = max_clean_id
     THEN /\ clean_flag' = [c \in Cells |-> IF c < UsedBytes(number_of_accumulators)
                                            THEN min_clean_id ELSE clean_flag[c]]
          /\ clean_id' = min_clean_id + 1
     ELSE clean_id' = clean_id + 1 /\ UNCHANGED clean_flag
  /\ UNCHANGED << COUNTER_BITSIZE, number_of_accumulators, accumulator, result >>

Next ==
  \/ \E n \in 0 .. NUMBER_OF_ACCUMULATORS : init(n)
  \/ \E which \in Cells : get_value(which)
  \/ \E which \in Cells, v \in Elements : subscript(which, v)
  \/ rewind

Spec == Init /\ [][Next]_vars
-----------------------------------------------------------------------------
\* Types: the query number never passes the largest one its bits can hold.
TypeOK ==
  /\ COUNTER_BITSIZE \in {4, 8}
  /\ number_of_accumulators \in 0 .. NUMBER_OF_ACCUMULATORS
  /\ clean_id \in min_clean_id .. max_clean_id
  /\ clean_flag \in [Cells -> Bytes]
  /\ accumulator \in [Cells -> Elements]

\* The counters implement the plain array: a score of one query is never seen
\* by a later one, also when the query numbers have started again.
Array == INSTANCE AccumulatorArray WITH
  size <- number_of_accumulators,
  value <- [d \in Cells |-> IF d < number_of_accumulators THEN GetValue(d) ELSE 0],
  result <- result

ImplementsArray == Array!ASpec
=============================================================================
