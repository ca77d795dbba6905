--------------------------- MODULE MCAnytimeQuery ---------------------------
(***************************************************************************)
(* Every query of two terms over two documents, with an oracle, and with a *)
(* minimum number of postings or without one.                              *)
(***************************************************************************)
EXTENDS AnytimeQuery
=============================================================================
