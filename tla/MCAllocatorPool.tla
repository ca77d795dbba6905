--------------------------- MODULE MCAllocatorPool ---------------------------
(***************************************************************************)
(* Small instances of AllocatorPool: a chunk holds four bytes after a      *)
(* one-byte header unless a larger block is asked for, and the runtime has *)
(* room for only a few chunks, so that freed addresses come back.          *)
(***************************************************************************)
EXTENDS AllocatorPool
=============================================================================
