-------------------------------- MODULE Bits --------------------------------
(***************************************************************************)
(* Unsigned machine integers as the sets of the positions of their one     *)
(* bits: the integer 5 is {0, 2}, a 32-bit word is a subset of 0..31.  Or  *)
(* is union, shifting is translation, and the bits that C++ shifts out of  *)
(* a word are cut off.  Integers of 32 bits and words of 64 bits, which    *)
(* TLC cannot count with, are small sets.                                  *)
(***************************************************************************)
EXTENDS Naturals, Sequences, FiniteSets, FiniteSetsExt

(* n one bits: (1 << n) - 1. *)
Ones(n) == 0 .. (n - 1)

(* v << n in a word of the given width. *)
ShiftLeft(v, n, width) == {b + n : b \in v} \cap Ones(width)

(* v >> n. *)
ShiftRight(v, n) == {b - n : b \in {c \in v : c >= n}}

(* v & ((1 << n) - 1). *)
Low(v, n) == {b \in v : b < n}

(* (v >> shift) & ((1 << n) - 1). *)
Field(v, shift, n) == Low(ShiftRight(v, shift), n)

(* A selector as bits, and the bits of a selector as a number. *)
Bits(n) == {b \in 0 .. 7 : (n \div (2^b)) % 2 = 1}
Number(v) == MapThenSumSet(LAMBDA b : 2^b, v)

(* The number of bits an integer needs (0 for 0), whatever its name says;  *)
(* and the position of its highest one bit (0 for 0).                      *)
ceiling_log2(v) == IF v = {} THEN 0 ELSE Max(v) + 1
floor_log2(v) == IF v = {} THEN 0 ELSE Max(v)
=============================================================================
