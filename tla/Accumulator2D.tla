---------------------------- MODULE Accumulator2D ----------------------------
(***************************************************************************)
(* accumulator_2d (source/accumulator_2d.h): the accumulators as a table   *)
(* of rows with one dirty flag per row.  rewind() only marks the rows      *)
(* dirty; operator[] clears a dirty row before it returns a reference into *)
(* it, and get_value() reads a dirty row as zero without clearing it.      *)
(* This is the default build, without USE_QUERY_IDS.                       *)
(***************************************************************************)
EXTENDS Integers

CONSTANTS
  NUMBER_OF_ACCUMULATORS,  \* the size of the arrays inside the object
  Elements,                \* the values of ELEMENT
  PowersOfTwo              \* the widths that 1 << shift can give

ASSUME TableAssumption ==
  /\ NUMBER_OF_ACCUMULATORS \in Nat
  /\ 0 \in Elements
  /\ PowersOfTwo \subseteq Nat \ {0}

VARIABLES
  number_of_accumulators,            \* what the user asked for
  width,                             \* accumulators in a row
  number_of_dirty_flags,             \* rows
  number_of_accumulators_allocated,  \* rows * width
  dirty_flag,                        \* TRUE: the row reads as zero
  accumulator,                       \* the memory
  ready,                             \* init() has returned
  result                             \* what the last operation returned

table_vars == << number_of_accumulators, width, number_of_dirty_flags,
                 number_of_accumulators_allocated, dirty_flag, accumulator, ready, result >>

shape == << number_of_accumulators, width, number_of_dirty_flags,
            number_of_accumulators_allocated, ready >>

maximum_number_of_dirty_flags == NUMBER_OF_ACCUMULATORS
maximum_number_of_accumulators_allocated ==
  NUMBER_OF_ACCUMULATORS + NUMBER_OF_ACCUMULATORS \div 2

Flags == 0 .. maximum_number_of_dirty_flags - 1
Cells == 0 .. maximum_number_of_accumulators_allocated - 1

\* The object starts as whatever memory it is built in.
TableInit ==
  /\ number_of_accumulators = 0
  /\ width = 1
  /\ number_of_dirty_flags = 0
  /\ number_of_accumulators_allocated = 0
  /\ dirty_flag \in [Flags -> BOOLEAN]
  /\ accumulator \in [Cells -> Elements]
  /\ ready = FALSE
  /\ result = << >>

\* element >> shift
which_dirty_flag(element) == element \div width

\* The default width is the largest power of two no larger than the square root
\* of the number of accumulators (1 when there are none).
Widths(n, preferred) ==
  IF preferred # 0
  THEN {preferred}
  ELSE {w \in PowersOfTwo : w * w <= (IF n = 0 THEN 1 ELSE n) /\ n < 4 * w * w}

\* Rows that round down miss the last, partial one.
RowsDown(n, w) == n \div w

\* Enough rows for all accumulators.
Rows(n, w) == (n + w - 1) \div w

\* init(n, preferred): preferred is 0 or a width, at least 2.  It throws if the table would
\* not fit in the arrays, and the object is then not used.
init(n, preferred) ==
  \E w \in Widths(n, preferred) :
    /\ number_of_accumulators' = n
    /\ width' = w
    /\ number_of_dirty_flags' = Rows(n, w)
    /\ number_of_accumulators_allocated' = w * Rows(n, w)
    /\ ready' = ( /\ Rows(n, w) <= maximum_number_of_dirty_flags
                  /\ w * Rows(n, w) <= maximum_number_of_accumulators_allocated )
    /\ dirty_flag' = [f \in Flags |-> (ready' /\ f < Rows(n, w)) \/ dirty_flag[f]]
    /\ UNCHANGED << accumulator, result >>

\* get_value(which)
GetValue(which) == IF dirty_flag[which_dirty_flag(which)] THEN 0 ELSE accumulator[which]

get_value(which) ==
  /\ ready /\ which < number_of_accumulators
  /\ result' = << GetValue(which) >>
  /\ UNCHANGED << shape, dirty_flag, accumulator >>

\* memset() that clears one accumulator of the row only.
CleanedOne(flags) ==
  [c \in Cells |->
     IF \E f \in flags : dirty_flag[f] /\ c = f * width THEN 0 ELSE accumulator[c]]

\* The memory after the dirty ones of the given rows have been cleared with
\* memset(&accumulator[0] + f * width, 0, width).
Cleaned(flags) ==
  [c \in Cells |->
     IF \E f \in flags : dirty_flag[f] /\ f * width <= c /\ c < f * width + width
     THEN 0 ELSE accumulator[c]]

\* operator[](which), through whose reference the caller writes v.
subscript(which, v) ==
  LET f == which_dirty_flag(which)
  IN  /\ ready /\ which < number_of_accumulators
      /\ result' = << Cleaned({f})[which] >>
      /\ accumulator' = [Cleaned({f}) EXCEPT ![which] = v]
      /\ dirty_flag' = [dirty_flag EXCEPT ![f] = FALSE]
      /\ UNCHANGED shape

\* operator[] of a SIMD register: the flags of all lanes are gathered, the dirty
\* rows are cleared with clean_flagset(), and then all lanes are gathered.  Two
\* lanes stand for the register; the caller scatters the new values.
subscript_lanes(which, other, v, w) ==
  LET flags == {which_dirty_flag(which), which_dirty_flag(other)}
  IN  /\ ready /\ which # other
      /\ which < number_of_accumulators /\ other < number_of_accumulators
      /\ result' = << Cleaned(flags)[which], Cleaned(flags)[other] >>
      /\ accumulator' = [Cleaned(flags) EXCEPT ![which] = v, ![other] = w]
      /\ dirty_flag' = [f \in Flags |-> f \notin flags /\ dirty_flag[f]]
      /\ UNCHANGED shape

\* rewind()
rewind_table ==
  /\ ready
  /\ dirty_flag' = [f \in Flags |-> f < number_of_dirty_flags \/ dirty_flag[f]]
  /\ UNCHANGED << shape, accumulator, result >>

\* The accumulator numbers: init() accepts any number that fits in the array.
Numbers == Cells

TableNext ==
  \/ \E n \in 0 .. maximum_number_of_accumulators_allocated + 1,
        preferred \in {0} \cup (PowersOfTwo \ {1}) : init(n, preferred)
  \/ \E which \in Numbers : get_value(which)
  \/ \E which \in Numbers, v \in Elements : subscript(which, v)
  \/ \E which, other \in Numbers, v, w \in Elements : subscript_lanes(which, other, v, w)
  \/ rewind_table

TableSpec == TableInit /\ [][TableNext]_table_vars
-----------------------------------------------------------------------------
\* Types.  What init() computes fits the arrays whenever init() returns.
TableTypeOK ==
  /\ number_of_accumulators \in Nat
  /\ width \in Nat \ {0}
  /\ number_of_dirty_flags \in Nat
  /\ number_of_accumulators_allocated \in Nat
  /\ dirty_flag \in [Flags -> BOOLEAN]
  /\ accumulator \in [Cells -> Elements]
  /\ ready \in BOOLEAN

\* Every accumulator the user asked for has a dirty flag and lies in a row that
\* is wholly inside the array: no access, and no memset() of a row, leaves the
\* object, whatever number of accumulators and width init() accepted.
RowsInside ==
  ready => /\ number_of_dirty_flags <= maximum_number_of_dirty_flags
           /\ \A d \in 0 .. number_of_accumulators - 1 :
                LET f == which_dirty_flag(d)
                IN  /\ f < number_of_dirty_flags
                    /\ f * width <= d /\ d < f * width + width
                    /\ f * width + width <= maximum_number_of_accumulators_allocated

\* The table implements the plain array: clearing lazily, a row at a time, is
\* never seen through get_value() or operator[], in any sequence of queries.
Array == INSTANCE AccumulatorArray WITH
  NUMBER_OF_ACCUMULATORS <- maximum_number_of_accumulators_allocated,
  size <- IF ready THEN number_of_accumulators ELSE 0,
  value <- [d \in Numbers |-> IF ready /\ d < number_of_accumulators
                              THEN GetValue(d) ELSE 0],
  result <- result

ImplementsArray == Array!ASpec
=============================================================================
