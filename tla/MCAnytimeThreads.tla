-------------------------- MODULE MCAnytimeThreads --------------------------
(***************************************************************************)
(* Two or three threads over a short list of queries.                      *)
(***************************************************************************)
EXTENDS AnytimeThreads, TLC

\* Three queries with ids of their own.
OwnIds == << "q1", "q2", "q3" >>

\* The sizes of the segments of each query, and their sums.
Sizes == << << 1, 2 >>, << 2 >>, << >> >>
Totals == << 3, 2, 0 >>
=============================================================================
