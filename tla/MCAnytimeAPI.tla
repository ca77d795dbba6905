---------------------------- MODULE MCAnytimeAPI ----------------------------
(***************************************************************************)
(* A session with a complete index of two documents, one that lacks its    *)
(* postings, no index at all and one of more documents than there may be;  *)
(* the width 1 is too small for two documents.  Searches have none, one or *)
(* two threads.                                                            *)
(***************************************************************************)
EXTENDS AnytimeAPI

MCDirectories ==
  {[keys |-> 2, postings |-> TRUE, vocab |-> TRUE],
   [keys |-> 2, postings |-> FALSE, vocab |-> TRUE],
   [keys |-> 0, postings |-> FALSE, vocab |-> FALSE],
   [keys |-> 4, postings |-> TRUE, vocab |-> TRUE]}
MCMisfits == {<< 2, 1 >>, << 4, 1 >>, << 4, 0 >>, << 4, 2 >>}
=============================================================================
