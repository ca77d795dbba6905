--------------------------- MODULE AccumulatorArray ---------------------------
(***************************************************************************)
(* What every accumulator class of JASS promises a query: an array with    *)
(* one accumulator per document in which everything reads as zero after    *)
(* init() and after rewind(), and in which an accumulator changes only     *)
(* when its own reference is written through.                              *)
(***************************************************************************)
EXTENDS Integers

CONSTANTS
  NUMBER_OF_ACCUMULATORS,  \* the most accumulators a class can manage
  Elements                 \* the values of ELEMENT

VARIABLES
  size,     \* how many accumulators init() was asked for
  value,    \* the value of each accumulator
  result    \* the values that the last operation returned, one per lane

avars == << size, value, result >>

Numbers == 0 .. NUMBER_OF_ACCUMULATORS - 1
Zeros == [d \in Numbers |-> 0]

AInit == size = 0 /\ value = Zeros /\ result = << >>

\* init(): the accumulators read as zero.
AResize == /\ size' \in 0 .. NUMBER_OF_ACCUMULATORS
           /\ value' = Zeros /\ UNCHANGED result

\* get_value(d)
AGet(d) == d < size /\ result' = << value[d] >> /\ UNCHANGED << size, value >>

\* operator[](d), and the caller's write through the reference.
ASet(d, v) == /\ d < size
              /\ result' = << value[d] >>
              /\ value' = [value EXCEPT ![d] = v]
              /\ UNCHANGED size

\* operator[] of two lanes, and the scatter of the caller.
ASetLanes(d, e, v, w) ==
  /\ d < size /\ e < size /\ d # e
  /\ result' = << value[d], value[e] >>
  /\ value' = [value EXCEPT ![d] = v, ![e] = w]
  /\ UNCHANGED size

\* rewind()
ARewind == value' = Zeros /\ UNCHANGED << size, result >>

ANext ==
  \/ AResize
  \/ ARewind
  \/ \E d \in Numbers : AGet(d)
  \/ \E d \in Numbers, v \in Elements : ASet(d, v)
  \/ \E d, e \in Numbers, v, w \in Elements : ASetLanes(d, e, v, w)

ASpec == AInit /\ [][ANext]_avars
=============================================================================
