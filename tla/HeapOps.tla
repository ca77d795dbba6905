------------------------------- MODULE HeapOps -------------------------------
(***************************************************************************)
(* The algorithms of source/heap.h on an array with indexes 0 .. size - 1. *)
(* The elements are accumulator pointers, compared as pointer_box compares *)
(* them (source/pointer_box.h): by what they point to, then by address.    *)
(* value is the memory they point into.                                    *)
(***************************************************************************)
EXTENDS Integers

LessThan(value, x, y) == value[x] < value[y] \/ (value[x] = value[y] /\ x < y)

AtMost(value, x, y) == ~LessThan(value, y, x)

left_of(position) == 2 * position + 1
right_of(position) == 2 * position + 2

Swapped(array, i, j) == [array EXCEPT ![i] = array[j], ![j] = array[i]]

RECURSIVE heapify(_, _, _, _)
heapify(value, array, size, position) ==
  LET left == left_of(position)
      right == right_of(position)
      smaller == IF left < size /\ LessThan(value, array[left], array[position])
                 THEN left ELSE position
      smallest == IF right < size /\ LessThan(value, array[right], array[smaller])
                  THEN right ELSE smaller
  IN  IF smallest = position THEN array
      ELSE heapify(value, Swapped(array, position, smallest), size, smallest)

\* make_heap() from the last element that has a child down to the first.
RECURSIVE HeapifyFrom(_, _, _, _)
HeapifyFrom(value, array, size, position) ==
  IF position < 0 THEN array
  ELSE HeapifyFrom(value, heapify(value, array, size, position), size, position - 1)

make_heap(value, array, size) == HeapifyFrom(value, array, size, (size \div 2) - 1)

\* insert_from() that follows the left child whenever there is one.
RECURSIVE insert_fromLeft(_, _, _, _, _)
insert_fromLeft(value, array, size, key, position) ==
  LET left == left_of(position)
  IN  IF left < size /\ LessThan(value, array[left], key)
      THEN insert_fromLeft(value, [array EXCEPT ![position] = array[left]], size, key, left)
      ELSE [array EXCEPT ![position] = key]

\* Move the smaller child up into the hole until the key fits.
RECURSIVE insert_from(_, _, _, _, _)
insert_from(value, array, size, key, position) ==
  LET left == left_of(position)
      right == right_of(position)
      Up(child) == insert_from(value, [array EXCEPT ![position] = array[child]], size, key, child)
      Here == [array EXCEPT ![position] = key]
  IN  IF left < size /\ right < size
      THEN IF AtMost(value, key, array[left]) /\ AtMost(value, key, array[right]) THEN Here
           ELSE IF LessThan(value, array[left], array[right]) THEN Up(left) ELSE Up(right)
      ELSE IF left < size /\ LessThan(value, array[left], key) THEN Up(left) ELSE Here

push_back(value, array, size, key) == insert_from(value, array, size, key, 0)

\* The first position that holds key, or -1.
find(array, size, key) ==
  LET at == {p \in 0 .. size - 1 : array[p] = key}
  IN  IF at = {} THEN -1 ELSE CHOOSE p \in at : \A q \in at : p <= q

promote(value, array, size, key, position) == insert_from(value, array, size, key, position)
=============================================================================
