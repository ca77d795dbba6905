----------------------------- MODULE ArrayProofs -----------------------------
(***************************************************************************)
(* The two arrays of JASS.                                                 *)
(*                                                                         *)
(* accumulator_2d: the lazily cleared table behaves as a plain array of    *)
(* accumulators, for every size of the object, every width of a row and    *)
(* every sequence of calls.                                                *)
(*                                                                         *)
(* dynamic_array: push_back() never writes over an element, nor outside a  *)
(* chunk, for any number of threads, size of chunk and growth.             *)
(***************************************************************************)
EXTENDS Accumulator2D, DynamicArray, TLAPS

-----------------------------------------------------------------------------
(***************************************************************************)
(* accumulator_2d.                                                         *)
(***************************************************************************)

\* What init() leaves behind when it returns.
Shape ==
  ready => /\ number_of_dirty_flags = Rows(number_of_accumulators, width)
           /\ number_of_dirty_flags <= maximum_number_of_dirty_flags
           /\ width * number_of_dirty_flags <= maximum_number_of_accumulators_allocated

Inv == TableTypeOK /\ Shape
-----------------------------------------------------------------------------
\* A quotient and what it leaves over.
LEMMA DivBounds ==
  ASSUME NEW x \in Nat, NEW w \in Nat \ {0}
  PROVE  /\ x \div w \in Nat
         /\ (x \div w) * w <= x /\ x < (x \div w) * w + w
  OBVIOUS

\* Multiplication is monotone.
LEMMA TimesMonotone ==
  ASSUME NEW a \in Nat, NEW b \in Nat, NEW w \in Nat, a <= b
  PROVE  a * w <= b * w
  OBVIOUS

\* A cell belongs to the row that which_dirty_flag() computes, and to no other.
LEMMA OneRow ==
  ASSUME NEW x \in Nat, NEW f \in Nat, NEW w \in Nat \ {0}
  PROVE  (f * w <= x /\ x < f * w + w) <=> (x \div w = f)
<1> DEFINE q == x \div w
<1>1. q \in Nat /\ q * w <= x /\ x < q * w + w
  BY DivBounds
<1> HIDE DEF q
<1>2. CASE q + 1 <= f
  <2>1. (q + 1) * w <= f * w
    BY <1>1, <1>2, TimesMonotone
  <2>2. (q + 1) * w = q * w + w
    BY <1>1
  <2> QED
    BY <1>1, <1>2, <2>1, <2>2 DEF q
<1>3. CASE f + 1 <= q
  <2>1. (f + 1) * w <= q * w
    BY <1>1, <1>3, TimesMonotone
  <2>2. (f + 1) * w = f * w + w
    OBVIOUS
  <2> QED
    BY <1>1, <1>3, <2>1, <2>2 DEF q
<1>4. CASE q = f
  BY <1>1, <1>4 DEF q
<1> QED
  BY <1>1, <1>2, <1>3, <1>4

\* Rounding up gives every accumulator a row, and the rows hold them all.
LEMMA EnoughRows ==
  ASSUME NEW n \in Nat, NEW w \in Nat \ {0}
  PROVE  /\ Rows(n, w) \in Nat
         /\ n <= w * Rows(n, w)
         /\ \A d \in Nat : d < n => d \div w < Rows(n, w)
<1> DEFINE r == (n + w - 1) \div w
<1>1. n + w - 1 \in Nat
  OBVIOUS
<1>2. r \in Nat /\ n + w - 1 < r * w + w
  BY <1>1, DivBounds
<1>3. Rows(n, w) = r
  BY DEF Rows
<1> HIDE DEF r
<1>4. r * w = w * r /\ r * w \in Nat
  BY <1>2
<1>5. n <= w * r
  BY <1>2, <1>4
<1>6. ASSUME NEW d \in Nat, d < n, r <= d \div w
      PROVE  FALSE
  <2>1. d \div w \in Nat /\ (d \div w) * w <= d
    BY DivBounds
  <2>2. r * w <= (d \div w) * w
    BY <1>2, <1>6, <2>1, TimesMonotone
  <2> QED
    BY <1>2, <1>4, <1>5, <1>6, <2>1, <2>2
<1>7. \A d \in Nat : d \div w \in Nat
  BY DivBounds
<1> QED
  BY <1>2, <1>3, <1>5, <1>6, <1>7

\* A row below the last one ends inside the table.
LEMMA RowEnds ==
  ASSUME NEW f \in Nat, NEW r \in Nat, NEW w \in Nat \ {0}, f < r
  PROVE  f * w + w <= w * r
<1>1. (f + 1) * w <= r * w
  BY TimesMonotone
<1>2. (f + 1) * w = f * w + w /\ r * w = w * r
  OBVIOUS
<1> QED
  BY <1>1, <1>2
-----------------------------------------------------------------------------
\* Widths are positive whether the caller prefers one or not.
LEMMA WidthPositive ==
  ASSUME NEW n \in Nat, NEW preferred \in {0} \cup PowersOfTwo, NEW w \in Widths(n, preferred)
  PROVE  w \in Nat \ {0}
  BY TableAssumption DEF Widths

\* The object is built without a table.
LEMMA InitInv == TableInit => Inv
<1> SUFFICES ASSUME TableInit
             PROVE  Inv
  OBVIOUS
<1>1. TableTypeOK
  <2>1. /\ number_of_accumulators \in Nat /\ width \in Nat \ {0}
        /\ number_of_dirty_flags \in Nat /\ number_of_accumulators_allocated \in Nat
    BY DEF TableInit
  <2>2. /\ dirty_flag \in [Flags -> BOOLEAN] /\ accumulator \in [Cells -> Elements]
        /\ ready \in BOOLEAN
    BY DEF TableInit
  <2> QED
    BY <2>1, <2>2 DEF TableTypeOK
<1>2. Shape
  BY DEF TableInit, Shape
<1> QED
  BY <1>1, <1>2 DEF Inv

\* The sizes of the arrays.
LEMMA MemorySizes ==
  /\ maximum_number_of_dirty_flags \in Nat
  /\ maximum_number_of_accumulators_allocated \in Nat
  BY TableAssumption DEF maximum_number_of_dirty_flags,
     maximum_number_of_accumulators_allocated

\* Where the flag of an accumulator is, once init() has returned.
LEMMA FlagFacts ==
  ASSUME Inv, ready, NEW d \in Cells, d < number_of_accumulators
  PROVE  /\ which_dirty_flag(d) \in Flags
         /\ which_dirty_flag(d) < number_of_dirty_flags
         /\ \A f \in Nat : (f * width <= d /\ d < f * width + width)
                            <=> (which_dirty_flag(d) = f)
<1>1. /\ d \in Nat /\ width \in Nat \ {0} /\ number_of_accumulators \in Nat
      /\ number_of_dirty_flags = Rows(number_of_accumulators, width)
      /\ number_of_dirty_flags \in Nat
      /\ number_of_dirty_flags <= maximum_number_of_dirty_flags
  BY MemorySizes DEF Inv, TableTypeOK, Shape, Cells
<1>2. d \div width \in Nat /\ d \div width < number_of_dirty_flags
  BY <1>1, DivBounds, EnoughRows
<1>3. \A f \in Nat : (f * width <= d /\ d < f * width + width) <=> (d \div width = f)
  BY <1>1, OneRow
<1> QED
  BY <1>1, <1>2, <1>3, MemorySizes DEF which_dirty_flag, Flags

\* Clearing some rows leaves a cell as it was, or clears it with its dirty row.
LEMMA CleanedFacts ==
  ASSUME Inv, ready, NEW flags \in SUBSET Flags, NEW d \in Cells,
         d < number_of_accumulators
  PROVE  Cleaned(flags)[d] = IF which_dirty_flag(d) \in flags
                             THEN GetValue(d) ELSE accumulator[d]
<1>1. \A f \in flags : f \in Nat
  BY MemorySizes DEF Flags
<1>2. (\E f \in flags : dirty_flag[f] /\ f * width <= d /\ d < f * width + width)
        <=> (which_dirty_flag(d) \in flags /\ dirty_flag[which_dirty_flag(d)])
  BY <1>1, FlagFacts
<1> QED
  BY <1>2 DEF Cleaned, GetValue

\* What clearing leaves in the memory are elements.
LEMMA CleanedType ==
  ASSUME Inv, NEW flags \in SUBSET Flags
  PROVE  Cleaned(flags) \in [Cells -> Elements]
  BY TableAssumption DEF Inv, TableTypeOK, Cleaned

\* Every operation keeps the shape of the table.
LEMMA NextInv == Inv /\ [TableNext]_table_vars => Inv'
<1> SUFFICES ASSUME Inv, [TableNext]_table_vars
             PROVE  Inv'
  OBVIOUS
<1>1. ASSUME NEW n \in 0 .. maximum_number_of_accumulators_allocated + 1,
             NEW preferred \in {0} \cup PowersOfTwo, init(n, preferred)
      PROVE  Inv'
  <2>1. PICK w \in Widths(n, preferred) :
          /\ number_of_accumulators' = n /\ width' = w
          /\ number_of_dirty_flags' = Rows(n, w)
          /\ number_of_accumulators_allocated' = w * Rows(n, w)
          /\ ready' = ( /\ Rows(n, w) <= maximum_number_of_dirty_flags
                        /\ w * Rows(n, w) <= maximum_number_of_accumulators_allocated )
          /\ dirty_flag' = [f \in Flags |-> (ready' /\ f < Rows(n, w)) \/ dirty_flag[f]]
          /\ UNCHANGED << accumulator, result >>
    BY <1>1 DEF init
  <2>2. n \in Nat /\ w \in Nat \ {0}
    BY MemorySizes, WidthPositive
  <2>3. Rows(n, w) \in Nat /\ w * Rows(n, w) \in Nat
    <3>1. Rows(n, w) \in Nat
      BY <2>2, EnoughRows
    <3> QED
      BY <2>2, <3>1
  <2>4. dirty_flag' \in [Flags -> BOOLEAN] /\ ready' \in BOOLEAN
    BY <2>1 DEF Inv, TableTypeOK
  <2> QED
    BY <2>1, <2>2, <2>3, <2>4 DEF Inv, TableTypeOK, Shape
<1>2. ASSUME NEW which \in Numbers, get_value(which)
      PROVE  Inv'
  BY <1>2 DEF get_value, shape, Inv, TableTypeOK, Shape
<1>3. ASSUME NEW which \in Numbers, NEW v \in Elements, subscript(which, v)
      PROVE  Inv'
  <2> DEFINE f == which_dirty_flag(which)
  <2>1. /\ ready /\ which \in Cells /\ which < number_of_accumulators
        /\ accumulator' = [Cleaned({f}) EXCEPT ![which] = v]
        /\ dirty_flag' = [dirty_flag EXCEPT ![f] = FALSE]
        /\ UNCHANGED shape
    BY <1>3 DEF subscript, Numbers
  <2>2. f \in Flags
    BY <2>1, FlagFacts
  <2>3. Cleaned({f}) \in [Cells -> Elements]
    BY <2>2, CleanedType
  <2> HIDE DEF f
  <2> QED
    BY <2>1, <2>2, <2>3 DEF shape, Inv, TableTypeOK, Shape
<1>4. ASSUME NEW which \in Numbers, NEW other \in Numbers, NEW v \in Elements,
             NEW w \in Elements, subscript_lanes(which, other, v, w)
      PROVE  Inv'
  <2> DEFINE flags == {which_dirty_flag(which), which_dirty_flag(other)}
  <2>1. /\ ready /\ which \in Cells /\ other \in Cells
        /\ which < number_of_accumulators /\ other < number_of_accumulators
        /\ accumulator' = [Cleaned(flags) EXCEPT ![which] = v, ![other] = w]
        /\ dirty_flag' = [f \in Flags |-> f \notin flags /\ dirty_flag[f]]
        /\ UNCHANGED shape
    BY <1>4 DEF subscript_lanes, Numbers
  <2>2. flags \in SUBSET Flags
    BY <2>1, FlagFacts
  <2>3. Cleaned(flags) \in [Cells -> Elements]
    BY <2>2, CleanedType
  <2> HIDE DEF flags
  <2>4. dirty_flag' \in [Flags -> BOOLEAN]
    BY <2>1 DEF Inv, TableTypeOK
  <2> QED
    BY <2>1, <2>3, <2>4 DEF shape, Inv, TableTypeOK, Shape
<1>5. CASE rewind_table
  <2>1. dirty_flag' \in [Flags -> BOOLEAN]
    BY <1>5 DEF rewind_table, Inv, TableTypeOK
  <2> QED
    BY <1>5, <2>1 DEF rewind_table, shape, Inv, TableTypeOK, Shape
<1>6. CASE UNCHANGED table_vars
  BY <1>6 DEF table_vars, Inv, TableTypeOK, Shape
<1> QED
  BY <1>1, <1>2, <1>3, <1>4, <1>5, <1>6 DEF TableNext

\* No access to an accumulator that init() accepted, and no clearing of its row,
\* leaves the arrays of the object.
THEOREM TableInside == TableSpec => []RowsInside
<1>1. ASSUME Inv
      PROVE  RowsInside
  <2> SUFFICES ASSUME ready, NEW d \in 0 .. number_of_accumulators - 1
               PROVE  /\ number_of_dirty_flags <= maximum_number_of_dirty_flags
                      /\ which_dirty_flag(d) < number_of_dirty_flags
                      /\ which_dirty_flag(d) * width <= d
                      /\ d < which_dirty_flag(d) * width + width
                      /\ which_dirty_flag(d) * width + width
                           <= maximum_number_of_accumulators_allocated
    BY <1>1 DEF RowsInside, Inv, Shape
  <2>1. /\ number_of_accumulators \in Nat /\ width \in Nat \ {0} /\ d \in Nat
        /\ number_of_dirty_flags \in Nat /\ d < number_of_accumulators
        /\ number_of_dirty_flags = Rows(number_of_accumulators, width)
        /\ number_of_dirty_flags <= maximum_number_of_dirty_flags
        /\ width * number_of_dirty_flags <= maximum_number_of_accumulators_allocated
    BY <1>1 DEF Inv, TableTypeOK, Shape
  <2>2. d \div width \in Nat /\ d \div width < number_of_dirty_flags
    BY <2>1, DivBounds, EnoughRows
  <2>3. (d \div width) * width <= d /\ d < (d \div width) * width + width
    BY <2>1, DivBounds
  <2>4. (d \div width) * width + width <= width * number_of_dirty_flags
    BY <2>1, <2>2, RowEnds
  <2>5. /\ width * number_of_dirty_flags \in Nat
        /\ (d \div width) * width + width \in Nat
    BY <2>1, <2>2
  <2> QED
    BY <2>1, <2>2, <2>3, <2>4, <2>5, MemorySizes DEF which_dirty_flag
<1> QED
  BY <1>1, InitInv, NextInv, PTL DEF TableSpec
-----------------------------------------------------------------------------
\* The array that the table stands for.
Value == [d \in Numbers |-> IF ready /\ d < number_of_accumulators THEN GetValue(d) ELSE 0]
TableSize == IF ready THEN number_of_accumulators ELSE 0

\* The initial table stands for the initial array, and every operation on the
\* table is the operation of the same name on the array: queries cannot tell
\* the lazily cleared table from an array that rewind() clears.
THEOREM TableIsArray == TableSpec => ImplementsArray
<1>1. TableInit => Array!AInit
  BY DEF TableInit, Array!AInit, Array!Zeros, Array!Numbers, Numbers, Cells
<1>2. Inv /\ Inv' /\ [TableNext]_table_vars => [Array!ANext]_(Array!avars)
  <2> SUFFICES ASSUME Inv, Inv', [TableNext]_table_vars
               PROVE  Array!ANext \/ UNCHANGED Array!avars
    OBVIOUS
  <2>0. /\ Array!Numbers = Numbers /\ Numbers = Cells
        /\ Array!Zeros = [d \in Numbers |-> 0]
    BY DEF Array!Numbers, Array!Zeros, Numbers, Cells
  <2>1. ASSUME NEW n \in 0 .. maximum_number_of_accumulators_allocated + 1,
               NEW preferred \in {0} \cup PowersOfTwo, init(n, preferred)
        PROVE  Array!AResize
    <3>1. PICK w \in Widths(n, preferred) :
            /\ number_of_accumulators' = n /\ width' = w
            /\ number_of_dirty_flags' = Rows(n, w)
            /\ dirty_flag' = [f \in Flags |-> (ready' /\ f < Rows(n, w)) \/ dirty_flag[f]]
            /\ UNCHANGED result
      BY <2>1 DEF init
    <3>2. n \in Nat /\ w \in Nat \ {0}
      BY MemorySizes, WidthPositive
    <3>3. TableSize' \in 0 .. maximum_number_of_accumulators_allocated
      <4>1. CASE ready'
        <5>1. Rows(n, w) \in Nat /\ n <= w * Rows(n, w)
          BY <3>2, EnoughRows
        <5>2. w * Rows(n, w) <= maximum_number_of_accumulators_allocated
          BY <3>1, <4>1 DEF Inv, Shape
        <5>3. w * Rows(n, w) \in Nat
          BY <3>2, <5>1
        <5> QED
          BY <3>1, <3>2, <4>1, <5>1, <5>2, <5>3, MemorySizes DEF TableSize
      <4>2. CASE ~ready'
        BY <4>2, MemorySizes DEF TableSize
      <4> QED
        BY <4>1, <4>2
    <3>4. ASSUME NEW d \in Numbers, ready', d < number_of_accumulators'
          PROVE  GetValue(d)' = 0
      <4>1. /\ which_dirty_flag(d)' \in Flags
            /\ which_dirty_flag(d)' < number_of_dirty_flags'
        <5>1. d \in Nat /\ d < n
          BY <3>1, <3>4 DEF Numbers, Cells
        <5>2. d \div w \in Nat /\ d \div w < Rows(n, w) /\ Rows(n, w) \in Nat
          BY <3>2, <5>1, DivBounds, EnoughRows
        <5>3. Rows(n, w) <= maximum_number_of_dirty_flags
          BY <3>1, <3>4 DEF Inv, Shape
        <5> QED
          BY <3>1, <5>2, <5>3, MemorySizes DEF which_dirty_flag, Flags
      <4>2. dirty_flag'[which_dirty_flag(d)']
        BY <3>1, <3>4, <4>1
      <4> QED
        BY <4>2 DEF GetValue
    <3>5. Value' = [d \in Numbers |-> 0]
      BY <3>4 DEF Value
    <3> QED
      BY <3>1, <3>3, <3>5, <2>0 DEF Array!AResize, TableSize, Value
  <2>2. ASSUME NEW which \in Numbers, get_value(which)
        PROVE  Array!AGet(which)
    <3>1. ready /\ which < number_of_accumulators /\ result' = << GetValue(which) >>
      BY <2>2 DEF get_value
    <3>2. Value[which] = GetValue(which) /\ TableSize = number_of_accumulators
      BY <3>1 DEF Value, TableSize
    <3>3. UNCHANGED << TableSize, Value >>
      BY <2>2 DEF get_value, shape, Value, TableSize, GetValue, which_dirty_flag
    <3> QED
      BY <3>1, <3>2, <3>3 DEF Array!AGet, Value, TableSize
  <2>3. ASSUME NEW which \in Numbers, NEW v \in Elements, subscript(which, v)
        PROVE  Array!ASet(which, v)
    <3> DEFINE f == which_dirty_flag(which)
    <3>1. /\ ready /\ which < number_of_accumulators
          /\ result' = << Cleaned({f})[which] >>
          /\ accumulator' = [Cleaned({f}) EXCEPT ![which] = v]
          /\ dirty_flag' = [dirty_flag EXCEPT ![f] = FALSE]
          /\ UNCHANGED shape
      BY <2>3 DEF subscript
    <3>2. f \in Flags
      BY <3>1, <2>0, FlagFacts
    <3>3. Cleaned({f})[which] = GetValue(which) /\ Cleaned({f}) \in [Cells -> Elements]
      BY <3>1, <3>2, <2>0, CleanedFacts, CleanedType
    <3>4. ASSUME NEW d \in Numbers, d < number_of_accumulators
          PROVE  GetValue(d)' = IF d = which THEN v ELSE GetValue(d)
      <4>1. which_dirty_flag(d)' = which_dirty_flag(d)
        BY <3>1 DEF shape, which_dirty_flag
      <4>2. which_dirty_flag(d) \in Flags
        BY <3>1, <3>4, <2>0, FlagFacts
      <4>3. Cleaned({f})[d] = IF which_dirty_flag(d) = f THEN GetValue(d) ELSE accumulator[d]
        BY <3>1, <3>2, <3>4, <2>0, CleanedFacts
      <4>4. accumulator'[d] = IF d = which THEN v ELSE Cleaned({f})[d]
        BY <3>1, <3>3, <2>0
      <4>5. dirty_flag'[which_dirty_flag(d)]
              = IF which_dirty_flag(d) = f THEN FALSE ELSE dirty_flag[which_dirty_flag(d)]
        BY <3>1, <4>2 DEF Inv, TableTypeOK
      <4>6. GetValue(d)' = IF dirty_flag'[which_dirty_flag(d)] THEN 0 ELSE accumulator'[d]
        BY <4>1 DEF GetValue
      <4>7. CASE which_dirty_flag(d) = f
        BY <4>3, <4>4, <4>5, <4>6, <4>7
      <4>8. CASE which_dirty_flag(d) # f
        BY <4>3, <4>4, <4>5, <4>6, <4>8 DEF GetValue
      <4> QED
        BY <4>7, <4>8
    <3>5. Value' = [Value EXCEPT ![which] = v] /\ Value[which] = GetValue(which)
      BY <3>1, <3>4 DEF Value, shape
    <3>6. TableSize' = TableSize /\ which < TableSize
      BY <3>1 DEF TableSize, shape
    <3> QED
      BY <3>1, <3>3, <3>5, <3>6 DEF Array!ASet, Value, TableSize
  <2>4. ASSUME NEW which \in Numbers, NEW other \in Numbers, NEW v \in Elements,
               NEW w \in Elements, subscript_lanes(which, other, v, w)
        PROVE  Array!ASetLanes(which, other, v, w)
    <3> DEFINE flags == {which_dirty_flag(which), which_dirty_flag(other)}
    <3>1. /\ ready /\ which < number_of_accumulators /\ other < number_of_accumulators
          /\ which # other
          /\ result' = << Cleaned(flags)[which], Cleaned(flags)[other] >>
          /\ accumulator' = [Cleaned(flags) EXCEPT ![which] = v, ![other] = w]
          /\ dirty_flag' = [f \in Flags |-> f \notin flags /\ dirty_flag[f]]
          /\ UNCHANGED shape
      BY <2>4 DEF subscript_lanes
    <3>2. flags \in SUBSET Flags
      BY <3>1, <2>0, FlagFacts
    <3>3. /\ Cleaned(flags)[which] = GetValue(which)
          /\ Cleaned(flags)[other] = GetValue(other)
          /\ Cleaned(flags) \in [Cells -> Elements]
      BY <3>1, <3>2, <2>0, CleanedFacts, CleanedType
    <3> HIDE DEF flags
    <3>4. ASSUME NEW d \in Numbers, d < number_of_accumulators
          PROVE  GetValue(d)' = IF d = which THEN v ELSE IF d = other THEN w ELSE GetValue(d)
      <4>1. which_dirty_flag(d)' = which_dirty_flag(d)
        BY <3>1 DEF shape, which_dirty_flag
      <4>2. which_dirty_flag(d) \in Flags
        BY <3>1, <3>4, <2>0, FlagFacts
      <4>3. Cleaned(flags)[d] = IF which_dirty_flag(d) \in flags
                                THEN GetValue(d) ELSE accumulator[d]
        BY <3>1, <3>2, <3>4, <2>0, CleanedFacts
      <4>4. accumulator'[d] = IF d = which THEN v ELSE IF d = other THEN w
                              ELSE Cleaned(flags)[d]
        BY <3>1, <3>3, <2>0
      <4>5. dirty_flag'[which_dirty_flag(d)]
              <=> which_dirty_flag(d) \notin flags /\ dirty_flag[which_dirty_flag(d)]
        BY <3>1, <4>2
      <4>6. GetValue(d)' = IF dirty_flag'[which_dirty_flag(d)] THEN 0 ELSE accumulator'[d]
        BY <4>1 DEF GetValue
      <4>a. (d = which \/ d = other) => which_dirty_flag(d) \in flags
        BY DEF flags
      <4>7. CASE which_dirty_flag(d) \in flags
        BY <4>3, <4>4, <4>5, <4>6, <4>7
      <4>8. CASE which_dirty_flag(d) \notin flags
        BY <4>3, <4>4, <4>5, <4>6, <4>8, <4>a DEF GetValue
      <4> QED
        BY <4>7, <4>8
    <3>5. /\ Value' = [Value EXCEPT ![which] = v, ![other] = w]
          /\ Value[which] = GetValue(which) /\ Value[other] = GetValue(other)
      BY <3>1, <3>4 DEF Value, shape
    <3>6. TableSize' = TableSize /\ which < TableSize /\ other < TableSize
      BY <3>1 DEF TableSize, shape
    <3> QED
      BY <3>1, <3>3, <3>5, <3>6 DEF Array!ASetLanes, Value, TableSize
  <2>5. ASSUME rewind_table
        PROVE  Array!ARewind
    <3>1. /\ ready /\ UNCHANGED << shape, accumulator, result >>
          /\ dirty_flag' = [f \in Flags |-> f < number_of_dirty_flags \/ dirty_flag[f]]
      BY <2>5 DEF rewind_table
    <3>2. ASSUME NEW d \in Numbers, d < number_of_accumulators
          PROVE  GetValue(d)' = 0
      <4>1. /\ which_dirty_flag(d) \in Flags
            /\ which_dirty_flag(d) < number_of_dirty_flags
            /\ which_dirty_flag(d)' = which_dirty_flag(d)
        BY <3>1, <3>2, <2>0, FlagFacts DEF shape, which_dirty_flag
      <4> QED
        BY <3>1, <4>1 DEF GetValue
    <3>3. Value' = [d \in Numbers |-> 0] /\ TableSize' = TableSize
      BY <3>1, <3>2 DEF Value, TableSize, shape
    <3> QED
      BY <3>1, <3>3, <2>0 DEF Array!ARewind, Value, TableSize
  <2>6. CASE UNCHANGED table_vars
    BY <2>6 DEF table_vars, Array!avars, GetValue, which_dirty_flag
  <2> QED
    BY <2>0, <2>1, <2>2, <2>3, <2>4, <2>5, <2>6 DEF TableNext, Array!ANext
<1> QED
  BY <1>1, <1>2, InitInv, NextInv, PTL DEF TableSpec, ImplementsArray, Array!ASpec

-----------------------------------------------------------------------------
(***************************************************************************)
(* dynamic_array.  used counts up past every slot that was taken.  The     *)
(* store that sets it back to allocated comes after it has been there, so  *)
(* it takes no slot of the chunk back.                                     *)
(***************************************************************************)

Holding == {"slot", "write", "full", "grow", "cas", "link"}

ArrayTyped ==
  /\ chunks \in Chunks /\ tail \in 1 .. chunks
  /\ allocated \in [Chunks -> Nat] /\ used \in [Chunks -> Nat]
  /\ DOMAIN data = Chunks
  /\ push_at \in [Pushers -> {"idle", "tail"} \cup Holding]
  /\ DOMAIN last = Pushers /\ DOMAIN slot = Pushers /\ DOMAIN another = Pushers

\* The chunk that a thread has.
LastKnown ==
  \A t \in Pushers :
    /\ push_at[t] \in Holding => last[t] \in 1 .. chunks
    /\ push_at[t] \in {"cas", "link"} => another[t] \in 1 .. chunks
    /\ push_at[t] = "write" => slot[t] \in Nat
    /\ push_at[t] = "full" => used[last[t]] >= allocated[last[t]]

\* A chunk that was not allocated is empty.
UnmadeEmpty == \A n \in Chunks : n > chunks => used[n] = 0

\* What was written lies in the chunk and below used.
WrittenBelow ==
  \A n \in Chunks : \A s \in DOMAIN data[n] : s \in Nat /\ s < used[n] /\ s < allocated[n]

\* What was taken does.
TakenBelow ==
  \A t \in Pushers : push_at[t] = "write" => slot[t] < used[last[t]]

\* The inductive invariant.
ArrayInv == ArrayTyped /\ LastKnown /\ UnmadeEmpty /\ WrittenBelow /\ TakenBelow /\ SlotsAreOwn

\* The empty array.
LEMMA ArrayInitInv == ArrayInit => ArrayInv
<1> SUFFICES ASSUME ArrayInit PROVE ArrayInv
  OBVIOUS
<1> USE ArrayAssumption DEF ArrayInit, Chunks, head
<1>1. ArrayTyped
  <2>1. allocated \in [Chunks -> Nat]
    OBVIOUS
  <2> QED
    BY <2>1 DEF ArrayTyped
<1>2. LastKnown /\ UnmadeEmpty /\ TakenBelow /\ SlotsAreOwn
  BY DEF LastKnown, UnmadeEmpty, TakenBelow, SlotsAreOwn, Holding
<1>3. WrittenBelow
  <2>1. \A n \in Chunks : DOMAIN data[n] = {}
    OBVIOUS
  <2> QED
    BY <2>1 DEF WrittenBelow
<1> QED
  BY <1>1, <1>2, <1>3 DEF ArrayInv

\* Every step keeps the invariant.
LEMMA ArrayNextInv ==
  ASSUME ArrayInv, [ArrayNext]_array_vars
  PROVE  ArrayInv'
<1> USE ArrayAssumption
<1>0. ArrayTyped /\ LastKnown /\ UnmadeEmpty /\ WrittenBelow /\ TakenBelow /\ SlotsAreOwn
  BY DEF ArrayInv
<1>1. ASSUME NEW t \in Pushers, push_back(t) \/ LoadTail(t) \/ CasTail(t) \/ Join(t)
      PROVE  ArrayInv'
  <2>0. UNCHANGED << allocated, used, data, chunks, slot >>
    BY <1>1 DEF push_back, LoadTail, CasTail, Join, array, locals
  <2>1. /\ \A u \in Pushers \ {t} : push_at'[u] = push_at[u] /\ last'[u] = last[u] /\ another'[u] = another[u]
        /\ push_at'[t] \in {"tail", "slot", "link"}
        /\ push_at' \in [Pushers -> {"idle", "tail"} \cup Holding]
    BY <1>0, <1>1 DEF push_back, LoadTail, CasTail, Join, PushTo, ArrayTyped, locals, array, Holding
  <2>2. tail' \in 1 .. chunks /\ DOMAIN last' = Pushers /\ DOMAIN another' = Pushers
    BY <1>0, <1>1 DEF push_back, LoadTail, CasTail, Join, ArrayTyped, LastKnown, locals, array
  <2>3. /\ push_at'[t] \in Holding => last'[t] \in 1 .. chunks
        /\ push_at'[t] \in {"cas", "link"} => another'[t] \in 1 .. chunks
    BY <1>0, <1>1 DEF push_back, LoadTail, CasTail, Join, PushTo, ArrayTyped, LastKnown, locals, array, Holding
  <2>4. ArrayTyped'
    BY <1>0, <2>0, <2>1, <2>2 DEF ArrayTyped
  <2>5. LastKnown'
    BY <1>0, <2>0, <2>1, <2>3 DEF LastKnown
  <2>6. UnmadeEmpty' /\ WrittenBelow' /\ TakenBelow'
    BY <1>0, <2>0, <2>1 DEF UnmadeEmpty, WrittenBelow, TakenBelow
  <2>7. SlotsAreOwn'
    BY <1>0, <2>0, <2>1 DEF SlotsAreOwn
  <2> QED
    BY <2>4, <2>5, <2>6, <2>7 DEF ArrayInv
<1>2. ASSUME NEW t \in Pushers, TakeSlot(t)
      PROVE  ArrayInv'
  <2> DEFINE n == last[t]  s == used[n]
  <2>0. /\ push_at[t] = "slot" /\ slot' = [slot EXCEPT ![t] = s]
        /\ used' = [used EXCEPT ![n] = used[n] + 1]
        /\ push_at' = [push_at EXCEPT ![t] = IF s < allocated[n] THEN "write" ELSE "full"]
        /\ UNCHANGED << tail, allocated, data, chunks, last, another >>
    BY <1>2 DEF TakeSlot, PushTo
  <2>1. n \in 1 .. chunks /\ n \in Chunks /\ s \in Nat /\ allocated[n] \in Nat
    BY <1>0, <2>0 DEF LastKnown, ArrayTyped, Holding, Chunks
  <2>2. /\ used'[n] = s + 1 /\ \A m \in Chunks : m # n => used'[m] = used[m]
        /\ used' \in [Chunks -> Nat]
    BY <1>0, <2>0, <2>1 DEF ArrayTyped
  <2>3. /\ slot'[t] = s /\ push_at'[t] = IF s < allocated[n] THEN "write" ELSE "full"
        /\ \A u \in Pushers \ {t} : slot'[u] = slot[u] /\ push_at'[u] = push_at[u]
    BY <1>0, <2>0 DEF ArrayTyped
  <2>4. ArrayTyped'
    <3>1. push_at' \in [Pushers -> {"idle", "tail"} \cup Holding]
      BY <1>0, <2>0 DEF ArrayTyped, Holding
    <3>2. DOMAIN slot' = Pushers
      BY <1>0, <2>0 DEF ArrayTyped
    <3> QED
      BY <1>0, <2>0, <2>2, <3>1, <3>2 DEF ArrayTyped
  <2>5. LastKnown'
    <3> SUFFICES ASSUME NEW u \in Pushers
                 PROVE  /\ push_at'[u] \in Holding => last[u] \in 1 .. chunks
                        /\ push_at'[u] \in {"cas", "link"} => another[u] \in 1 .. chunks
                        /\ push_at'[u] = "write" => slot'[u] \in Nat
                        /\ push_at'[u] = "full" => used'[last[u]] >= allocated[last[u]]
      BY <2>0 DEF LastKnown
    <3>1. CASE u = t
      BY <2>1, <2>2, <2>3, <3>1
    <3>2. CASE u # t
      <4>1. push_at[u] = "full" => last[u] \in Chunks /\ used[last[u]] \in Nat /\ allocated[last[u]] \in Nat
        BY <1>0 DEF LastKnown, ArrayTyped, Holding, Chunks
      <4> QED
        BY <1>0, <2>1, <2>2, <2>3, <3>2, <4>1 DEF LastKnown
    <3> QED
      BY <3>1, <3>2
  <2>6. UnmadeEmpty' /\ WrittenBelow'
    <3>1. \A m \in Chunks : used[m] \in Nat /\ used'[m] \in Nat /\ used[m] <= used'[m]
      BY <1>0, <2>1, <2>2 DEF ArrayTyped
    <3>2. UnmadeEmpty'
      <4>1. \A m \in Chunks : m > chunks => m # n
        BY <1>0, <2>1 DEF ArrayTyped, Chunks
      <4> QED
        BY <1>0, <2>0, <2>2, <4>1 DEF UnmadeEmpty
    <3>3. WrittenBelow'
      BY <1>0, <2>0, <3>1 DEF WrittenBelow
    <3> QED
      BY <3>2, <3>3
  <2>7. TakenBelow'
    <3> SUFFICES ASSUME NEW u \in Pushers, push_at'[u] = "write" PROVE slot'[u] < used'[last[u]]
      BY <2>0 DEF TakenBelow
    <3>1. CASE u = t
      BY <2>1, <2>2, <2>3, <3>1
    <3>2. CASE u # t
      <4>1. last[u] \in Chunks /\ slot[u] \in Nat /\ slot[u] < used[last[u]] /\ used[last[u]] \in Nat
        BY <1>0, <2>3, <3>2 DEF LastKnown, TakenBelow, ArrayTyped, Holding, Chunks
      <4> QED
        BY <2>1, <2>2, <2>3, <3>2, <4>1
    <3> QED
      BY <3>1, <3>2
  <2>8. SlotsAreOwn'
    <3>1. s \notin DOMAIN data[n]
      BY <1>0, <2>1 DEF WrittenBelow
    <3>2. \A u \in Pushers \ {t} : push_at[u] = "write" => << last[u], slot[u] >> # << n, s >>
      BY <1>0, <2>1 DEF TakenBelow, LastKnown
    <3>3. push_at'[t] = "write" => s < allocated[n]
      BY <2>3
    <3> QED
      BY <1>0, <2>0, <2>3, <3>1, <3>2, <3>3 DEF SlotsAreOwn
  <2> QED
    BY <2>4, <2>5, <2>6, <2>7, <2>8 DEF ArrayInv

<1>3. ASSUME NEW t \in Pushers, Write(t)
      PROVE  ArrayInv'
  <2> DEFINE n == last[t]  s == slot[t]
  <2>0. /\ push_at[t] = "write" /\ push_at' = [push_at EXCEPT ![t] = "idle"]
        /\ data' = [data EXCEPT ![n] =
                      [x \in DOMAIN data[n] \cup {s} |-> IF x = s THEN element[t] ELSE data[n][x]]]
        /\ last' = [last EXCEPT ![t] = None] /\ slot' = [slot EXCEPT ![t] = None]
        /\ another' = [another EXCEPT ![t] = None]
        /\ UNCHANGED << tail, allocated, used, chunks >>
    BY <1>3 DEF Write, PushTo
  <2>1. n \in Chunks /\ s \in Nat /\ s < used[n] /\ s < allocated[n]
    BY <1>0, <2>0 DEF LastKnown, TakenBelow, SlotsAreOwn, Holding, Chunks, ArrayTyped
  <2>2. /\ DOMAIN data'[n] = DOMAIN data[n] \cup {s}
        /\ \A m \in Chunks : m # n => data'[m] = data[m]
        /\ DOMAIN data' = Chunks
    BY <1>0, <2>0, <2>1 DEF ArrayTyped
  <2>3. /\ push_at'[t] = "idle"
        /\ \A u \in Pushers \ {t} : /\ push_at'[u] = push_at[u] /\ last'[u] = last[u] /\ slot'[u] = slot[u]
                                    /\ another'[u] = another[u]
    BY <1>0, <2>0 DEF ArrayTyped
  <2>4. ArrayTyped'
    BY <1>0, <2>0, <2>2 DEF ArrayTyped, Holding
  <2>5. LastKnown' /\ UnmadeEmpty' /\ TakenBelow'
    BY <1>0, <2>0, <2>3 DEF LastKnown, UnmadeEmpty, TakenBelow, Holding
  <2>6. WrittenBelow'
    BY <1>0, <2>0, <2>1, <2>2 DEF WrittenBelow
  <2>7. SlotsAreOwn'
    <3> SUFFICES ASSUME NEW u \in Pushers, push_at'[u] = "write"
                 PROVE  /\ slot'[u] < allocated'[last'[u]]
                        /\ slot'[u] \notin DOMAIN data'[last'[u]]
                        /\ \A v \in Pushers \ {u} : push_at'[v] = "write" =>
                             << last'[v], slot'[v] >> # << last'[u], slot'[u] >>
      BY DEF SlotsAreOwn
    <3>1. u # t /\ push_at[u] = "write" /\ last'[u] = last[u] /\ slot'[u] = slot[u]
      BY <2>3
    <3>2. << last[u], slot[u] >> # << n, s >> /\ slot[u] \notin DOMAIN data[last[u]] /\ last[u] \in Chunks
      BY <1>0, <2>0, <3>1 DEF SlotsAreOwn, LastKnown, Holding, ArrayTyped, Chunks
    <3>3. slot[u] \notin DOMAIN data'[last[u]]
      BY <2>2, <3>2
    <3> QED
      BY <1>0, <2>0, <2>3, <3>1, <3>3 DEF SlotsAreOwn
  <2> QED
    BY <2>4, <2>5, <2>6, <2>7 DEF ArrayInv
<1>4. ASSUME NEW t \in Pushers, Cap(t)
      PROVE  ArrayInv'
  <2> DEFINE n == last[t]
  <2>0. /\ push_at[t] = "full" /\ push_at' = [push_at EXCEPT ![t] = "grow"]
        /\ used' = [used EXCEPT ![n] = allocated[n]]
        /\ UNCHANGED << tail, allocated, data, chunks, last, slot, another >>
    BY <1>4 DEF Cap, PushTo, locals
  <2>1. /\ n \in 1 .. chunks /\ n \in Chunks /\ allocated[n] \in Nat /\ used[n] \in Nat
        /\ used[n] >= allocated[n]
    BY <1>0, <2>0 DEF LastKnown, Holding, Chunks, ArrayTyped
  <2>2. /\ used'[n] = allocated[n] /\ \A m \in Chunks : m # n => used'[m] = used[m]
        /\ used' \in [Chunks -> Nat]
    BY <1>0, <2>0, <2>1 DEF ArrayTyped
  <2>3. push_at'[t] = "grow" /\ \A u \in Pushers \ {t} : push_at'[u] = push_at[u]
    BY <1>0, <2>0 DEF ArrayTyped
  <2>4. ArrayTyped'
    BY <1>0, <2>0, <2>2 DEF ArrayTyped, Holding
  <2>5. LastKnown'
    <3>1. \A u \in Pushers : push_at'[u] = "full" => used'[last[u]] >= allocated[last[u]]
      <4> SUFFICES ASSUME NEW u \in Pushers, push_at'[u] = "full"
                   PROVE  used'[last[u]] >= allocated[last[u]]
        OBVIOUS
      <4>1. push_at[u] = "full"
        BY <2>3
      <4>2. last[u] \in Chunks /\ used[last[u]] >= allocated[last[u]]
        BY <1>0, <4>1 DEF LastKnown, Holding, Chunks, ArrayTyped
      <4>3. used'[last[u]] = used[last[u]] \/ last[u] = n
        BY <2>2, <4>2
      <4> QED
        BY <2>1, <2>2, <4>2, <4>3
    <3>2. \A u \in Pushers : /\ push_at'[u] \in Holding => last[u] \in 1 .. chunks
                             /\ push_at'[u] \in {"cas", "link"} => another[u] \in 1 .. chunks
                             /\ push_at'[u] = "write" => slot[u] \in Nat
      BY <1>0, <2>1, <2>3 DEF LastKnown
    <3> QED
      BY <2>0, <3>1, <3>2 DEF LastKnown
  <2>6. UnmadeEmpty'
    <3>1. \A m \in Chunks : m > chunks => m # n
      BY <1>0, <2>1 DEF ArrayTyped, Chunks
    <3> QED
      BY <1>0, <2>0, <2>2, <3>1 DEF UnmadeEmpty
  <2>7. WrittenBelow'
    BY <1>0, <2>0, <2>1, <2>2 DEF WrittenBelow
  <2>8. TakenBelow'
    <3> SUFFICES ASSUME NEW u \in Pushers, push_at'[u] = "write" PROVE slot[u] < used'[last[u]]
      BY <2>0 DEF TakenBelow
    <3>1. u # t /\ push_at[u] = "write"
      BY <2>3
    <3>2. last[u] \in Chunks /\ slot[u] < used[last[u]] /\ slot[u] < allocated[last[u]]
      BY <1>0, <3>1 DEF TakenBelow, SlotsAreOwn, LastKnown, Holding, Chunks, ArrayTyped
    <3> QED
      BY <2>2, <3>2
  <2>9. SlotsAreOwn'
    BY <1>0, <2>0, <2>3 DEF SlotsAreOwn
  <2> QED
    BY <2>4, <2>5, <2>6, <2>7, <2>8, <2>9 DEF ArrayInv
<1>5. ASSUME NEW t \in Pushers, Grow(t)
      PROVE  ArrayInv'
  <2> DEFINE n == chunks + 1
  <2>0. /\ push_at[t] = "grow" /\ push_at' = [push_at EXCEPT ![t] = "cas"] /\ chunks < max_chunks /\ chunks' = n
        /\ allocated' = [allocated EXCEPT ![n] = (allocated[last[t]] * growth) \div 10]
        /\ another' = [another EXCEPT ![t] = n]
        /\ UNCHANGED << tail, used, data, last, slot >>
    BY <1>5 DEF Grow, PushTo
  <2>1. chunks \in Nat /\ n \in Chunks /\ n \in Nat /\ used[n] = 0
    BY <1>0, <2>0 DEF ArrayTyped, UnmadeEmpty, Chunks
  <2>2. (allocated[last[t]] * growth) \div 10 \in Nat
    <3>1. allocated[last[t]] \in Nat
      BY <1>0, <2>0 DEF LastKnown, Holding, ArrayTyped, Chunks
    <3>2. allocated[last[t]] * growth \in Nat
      BY <3>1
    <3> QED
      BY <3>2
  <2>3. allocated' \in [Chunks -> Nat] /\ \A m \in Chunks : m # n => allocated'[m] = allocated[m]
    BY <1>0, <2>0, <2>1, <2>2 DEF ArrayTyped
  <2>4. DOMAIN data[n] = {}
    BY <1>0, <2>1 DEF WrittenBelow
  <2>5. /\ push_at'[t] = "cas" /\ another'[t] = n
        /\ \A u \in Pushers \ {t} : push_at'[u] = push_at[u] /\ another'[u] = another[u]
    BY <1>0, <2>0 DEF ArrayTyped
  <2>6. ArrayTyped'
    <3>1. push_at' \in [Pushers -> {"idle", "tail"} \cup Holding] /\ DOMAIN another' = Pushers
      BY <1>0, <2>0 DEF ArrayTyped, Holding
    <3>2. chunks' \in Chunks /\ tail' \in 1 .. chunks'
      BY <1>0, <2>0, <2>1 DEF ArrayTyped, Chunks
    <3> QED
      BY <1>0, <2>0, <2>3, <3>1, <3>2 DEF ArrayTyped
  <2>7. \A u \in Pushers : push_at[u] \in Holding => /\ last[u] \in Chunks /\ last[u] # n
                                                /\ last[u] \in 1 .. n
                                                /\ allocated'[last[u]] = allocated[last[u]]
    BY <1>0, <2>1, <2>3 DEF LastKnown, Chunks, ArrayTyped
  <2>8. LastKnown'
    <3> SUFFICES ASSUME NEW u \in Pushers
                 PROVE  /\ push_at'[u] \in Holding => last[u] \in 1 .. n
                        /\ push_at'[u] \in {"cas", "link"} => another'[u] \in 1 .. n
                        /\ push_at'[u] = "write" => slot[u] \in Nat
                        /\ push_at'[u] = "full" => used[last[u]] >= allocated'[last[u]]
      BY <2>0 DEF LastKnown
    <3>1. CASE u = t
      BY <2>0, <2>1, <2>5, <2>7, <3>1 DEF Holding
    <3>2. CASE u # t
      BY <1>0, <2>1, <2>5, <2>7, <3>2 DEF LastKnown, Holding
    <3> QED
      BY <3>1, <3>2
  <2>9. UnmadeEmpty'
    BY <1>0, <2>0, <2>1 DEF UnmadeEmpty, Chunks
  <2>10. WrittenBelow'
    BY <1>0, <2>0, <2>1, <2>3, <2>4 DEF WrittenBelow
  <2>11. TakenBelow'
    BY <1>0, <2>0, <2>5 DEF TakenBelow
  <2>12. SlotsAreOwn'
    <3>1. \A u \in Pushers : push_at'[u] = "write" => push_at[u] = "write" /\ allocated'[last[u]] = allocated[last[u]]
      BY <2>5, <2>7 DEF Holding
    <3> QED
      BY <1>0, <2>0, <3>1 DEF SlotsAreOwn
  <2> QED
    BY <2>6, <2>8, <2>9, <2>10, <2>11, <2>12 DEF ArrayInv
<1>6. CASE UNCHANGED array_vars
  <2>1. UNCHANGED << tail, allocated, used, data, chunks, push_at, last, slot, another >>
    BY <1>6 DEF array_vars, array, locals
  <2>2. ArrayTyped' /\ LastKnown' /\ UnmadeEmpty' /\ WrittenBelow' /\ TakenBelow'
    BY <1>0, <2>1 DEF ArrayTyped, LastKnown, UnmadeEmpty, WrittenBelow, TakenBelow
  <2>3. SlotsAreOwn'
    BY <1>0, <2>1 DEF SlotsAreOwn
  <2> QED
    BY <2>2, <2>3 DEF ArrayInv
<1> QED
  BY <1>1, <1>2, <1>3, <1>4, <1>5, <1>6 DEF ArrayNext, PushStep

\* push_back() writes into the chunk, and to a slot that no other call has taken or written,
\* whatever the threads, the sizes of the chunks and their growth.
THEOREM PushIsSafe == ArraySpec => []SlotsAreOwn
<1>0. ArrayInit => ArrayInv
  BY ArrayInitInv
<1>1. ArrayInv /\ [ArrayNext]_array_vars => ArrayInv'
  BY ArrayNextInv
<1>2. ArrayInv => SlotsAreOwn
  BY DEF ArrayInv
<1> QED
  BY <1>0, <1>1, <1>2, PTL DEF ArraySpec
=============================================================================
