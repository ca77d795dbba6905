------------------------------ MODULE MCCodec ------------------------------
(***************************************************************************)
(* Small instances of Codec for TLC.  A run is a number of copies of an    *)
(* integer of some width, chosen so that sequences of a few runs fill rows *)
(* exactly, leave them short by one, cross the codecs' word boundaries,    *)
(* and go one bit beyond the widest row.                                   *)
(***************************************************************************)
EXTENDS Codec, TLC

(* An integer of the given width whose bits differ from its neighbours'. *)
Value(width) == {b \in 0 .. (width - 1) : b = width - 1 \/ b % 3 = 0}

RunsOf(counts, widths) == {<< n, Value(w) >> : n \in counts, w \in widths}

runs(c) ==
  CASE c \in {"simple_9", "simple_16", "simple_9_packed", "simple_16_packed"} ->
         RunsOf({1, 7}, {0, 2, 4, 9, 28, 29}) \cup RunsOf({20}, {1})
    [] c \in {"simple_8b", "simple_8b_packed"} ->
         RunsOf({1, 7}, {0, 1, 8, 32}) \cup RunsOf({59}, {1})
    [] c \in {"relative_10", "carryover_12"} ->
         RunsOf({1, 6}, {0, 3, 5, 10, 16, 28, 31}) \cup RunsOf({24}, {1})
    [] c \in {"nybble_8", "lyck_16", "variable_byte"} ->
         RunsOf({1, 3}, {0, 2, 4, 5, 8, 15, 32})
    [] OTHER ->
         RunsOf({1, 2, 5}, {0, 1, 15, 17, 32})
=============================================================================
