---------------------------- MODULE AllocatorPool ----------------------------
(***************************************************************************)
(* allocator_pool (source/allocator_pool.{h,cpp}): a pool allocator that   *)
(* any number of threads call without a lock.  Memory comes from the C     *)
(* runtime in chunks that are linked through next_chunk; malloc() bumps    *)
(* the chunk_at pointer of the newest chunk with a compare-and-swap, and   *)
(* add_chunk() pushes a new chunk with another one.                        *)
(*                                                                         *)
(* A chunk is identified by its address, so that an address the runtime    *)
(* gives out again after dealloc() is the same pointer to the algorithm.   *)
(* Every action is one access to shared memory by one thread.              *)
(***************************************************************************)
EXTENDS Integers, FiniteSets, FiniteSetsExt

CONSTANTS
  Threads,      \* the threads that call the pool
  Bases,        \* the addresses the C runtime may return
  NULL,         \* the null pointer
  Header,       \* sizeof(allocator_pool::chunk)
  block_size,   \* the size of a chunk's data unless a request is larger
  Sizes,        \* the sizes callers ask for
  Alignments,   \* the alignments callers ask for
  MaxCalls      \* bound on the calls to malloc() between two rewind()s

ASSUME PoolAssumption ==
  /\ Bases \subseteq Nat
  /\ NULL \notin Bases
  /\ Header \in Nat
  /\ block_size \in Nat
  /\ Sizes \subseteq Nat
  /\ Alignments \subseteq Nat \ {0}

VARIABLES
  current_chunk,  \* the top of the list of chunks
  chunk,          \* the header of the chunk at each address
  live,           \* the addresses of the chunks the C runtime has given out
  used,           \* bytes handed to callers
  allocated,      \* bytes taken from the C runtime
  pc,             \* where each thread is inside malloc()
  arg,            \* the parameters of the call each thread is in
  top_chunk,      \* malloc()'s local chunk
  top_of_stack,   \* malloc()'s local top_of_stack
  chain,          \* add_chunk()'s local chain
  blocks,         \* what callers were given since the last rewind()
  calls,          \* number of calls to malloc() since the last rewind()
  running         \* FALSE once malloc() has called exit()

vars == << current_chunk, chunk, live, used, allocated, pc, arg, top_chunk,
           top_of_stack, chain, blocks, calls, running >>

\* The instructions of malloc() and of add_chunk() that touch shared memory.
Idle == "idle"
PCs == {Idle, "read_chunk", "read_at", "cas_at", "count_used",
        "alloc", "load_next", "cas_chunk", "count_allocated"}

ChunkType == [chunk_at : Nat, chunk_end : Nat, next_chunk : Bases \cup {NULL},
              chunk_size : Nat]

\* Memory that holds no chunk, and the parameters when there is no call.
Blank == [chunk_at |-> 0, chunk_end |-> 0, next_chunk |-> NULL, chunk_size |-> 0]
NoCall == [bytes |-> 0, alignment |-> 1]

BlockType == [start : Nat, bytes : Nat, alignment : Nat, in : Bases]

\* A chunk that add_chunk() has allocated and not yet published.
Building(t) == pc[t] \in {"load_next", "cas_chunk"}

AllIdle == \A t \in Threads : pc[t] = Idle

\* The unused bytes before the next multiple of boundary.
realign(address, boundary) ==
  IF address % boundary = 0 THEN 0 ELSE boundary - (address % boundary)

\* Alignment 1 never asks realign() for padding.
Padding(address, alignment) ==
  IF alignment = 1 THEN 0 ELSE realign(address, alignment)

\* The address just past the block that thread t wants to carve off.
NewTop(t) ==
  top_of_stack[t] + arg[t].bytes + Padding(top_of_stack[t], arg[t].alignment)

\* The chunks on the list that starts at current_chunk.
Chain ==
  LET Closed(S) == \A c \in S : chunk[c].next_chunk \in S \cup {NULL}
  IN  IF current_chunk = NULL THEN {}
      ELSE CHOOSE S \in SUBSET live :
             /\ current_chunk \in S /\ Closed(S)
             /\ \A R \in SUBSET S : current_chunk \in R /\ Closed(R) => R = S

Init ==
  /\ current_chunk = NULL
  /\ chunk = [c \in Bases |-> Blank]
  /\ live = {}
  /\ used = 0
  /\ allocated = 0
  /\ pc = [t \in Threads |-> Idle]
  /\ arg = [t \in Threads |-> NoCall]
  /\ top_chunk = [t \in Threads |-> NULL]
  /\ top_of_stack = [t \in Threads |-> 0]
  /\ chain = [t \in Threads |-> NULL]
  /\ blocks = {}
  /\ calls = 0
  /\ running = TRUE

-----------------------------------------------------------------------------
\* malloc(bytes, alignment) is called.
Malloc(t, bytes, alignment) ==
  /\ running /\ pc[t] = Idle /\ calls < MaxCalls
  /\ arg' = [arg EXCEPT ![t] = [bytes |-> bytes, alignment |-> alignment]]
  /\ pc' = [pc EXCEPT ![t] = "read_chunk"]
  /\ calls' = calls + 1
  /\ UNCHANGED << current_chunk, chunk, live, used, allocated, top_chunk,
                  top_of_stack, chain, blocks, running >>

\* chunk = current_chunk; with no chunk at all one must be added.
ReadChunk(t) ==
  /\ running /\ pc[t] = "read_chunk"
  /\ top_chunk' = [top_chunk EXCEPT ![t] = current_chunk]
  /\ pc' = [pc EXCEPT ![t] = IF current_chunk = NULL THEN "alloc" ELSE "read_at"]
  /\ UNCHANGED << current_chunk, chunk, live, used, allocated, arg,
                  top_of_stack, chain, blocks, calls, running >>

\* A test that forgets the padding.
ReadAtNoPadding(t) ==
  /\ running /\ pc[t] = "read_at"
  /\ LET at == chunk[top_chunk[t]].chunk_at
     IN  /\ top_of_stack' = [top_of_stack EXCEPT ![t] = at]
         /\ pc' = [pc EXCEPT ![t] = IF at + arg[t].bytes > chunk[top_chunk[t]].chunk_end
                                   THEN "alloc" ELSE "cas_at"]
  /\ UNCHANGED << current_chunk, chunk, live, used, allocated, arg, top_chunk,
                  chain, blocks, calls, running >>

\* top_of_stack = chunk->chunk_at, and the test against chunk_end.
ReadAt(t) ==
  /\ running /\ pc[t] = "read_at"
  /\ LET at == chunk[top_chunk[t]].chunk_at
         end == at + arg[t].bytes + Padding(at, arg[t].alignment)
     IN  /\ top_of_stack' = [top_of_stack EXCEPT ![t] = at]
         /\ pc' = [pc EXCEPT ![t] =
                     IF end > chunk[top_chunk[t]].chunk_end THEN "alloc" ELSE "cas_at"]
  /\ UNCHANGED << current_chunk, chunk, live, used, allocated, arg, top_chunk,
                  chain, blocks, calls, running >>

\* A CAS that does not compare: the pointer moves whoever moved it meanwhile.
CasAtBlind(t) ==
  /\ running /\ pc[t] = "cas_at"
  /\ chunk' = [chunk EXCEPT ![top_chunk[t]].chunk_at = NewTop(t)]
  /\ blocks' = blocks \cup
       {[start |-> NewTop(t) - arg[t].bytes, bytes |-> arg[t].bytes,
         alignment |-> arg[t].alignment, in |-> top_chunk[t]]}
  /\ pc' = [pc EXCEPT ![t] = "count_used"]
  /\ UNCHANGED << current_chunk, live, used, allocated, arg, top_chunk,
                  top_of_stack, chain, calls, running >>

\* A loop that tries the CAS again without reading chunk_at again.
CasAtNoReload(t) ==
  /\ running /\ pc[t] = "cas_at"
  /\ IF chunk[top_chunk[t]].chunk_at = top_of_stack[t]
     THEN /\ chunk' = [chunk EXCEPT ![top_chunk[t]].chunk_at = NewTop(t)]
          /\ blocks' = blocks \cup
               {[start |-> NewTop(t) - arg[t].bytes, bytes |-> arg[t].bytes,
                 alignment |-> arg[t].alignment, in |-> top_chunk[t]]}
          /\ pc' = [pc EXCEPT ![t] = "count_used"]
     ELSE UNCHANGED << chunk, blocks, pc >>
  /\ UNCHANGED << current_chunk, live, used, allocated, arg, top_chunk,
                  top_of_stack, chain, calls, running >>

\* The CAS on chunk_at.  On success the caller owns the block; otherwise the
\* loop starts again from current_chunk.
CasAt(t) ==
  /\ running /\ pc[t] = "cas_at"
  /\ IF chunk[top_chunk[t]].chunk_at = top_of_stack[t]
     THEN /\ chunk' = [chunk EXCEPT ![top_chunk[t]].chunk_at = NewTop(t)]
          /\ blocks' = blocks \cup
               {[start |-> NewTop(t) - arg[t].bytes, bytes |-> arg[t].bytes,
                 alignment |-> arg[t].alignment, in |-> top_chunk[t]]}
          /\ pc' = [pc EXCEPT ![t] = "count_used"]
     ELSE /\ pc' = [pc EXCEPT ![t] = "read_chunk"]
          /\ UNCHANGED << chunk, blocks >>
  /\ UNCHANGED << current_chunk, live, used, allocated, arg, top_chunk,
                  top_of_stack, chain, calls, running >>

\* used += bytes, and malloc() returns.
CountUsed(t) ==
  /\ running /\ pc[t] = "count_used"
  /\ used' = used + arg[t].bytes
  /\ pc' = [pc EXCEPT ![t] = Idle]
  /\ arg' = [arg EXCEPT ![t] = NoCall]
  /\ top_chunk' = [top_chunk EXCEPT ![t] = NULL]
  /\ top_of_stack' = [top_of_stack EXCEPT ![t] = 0]
  /\ UNCHANGED << current_chunk, chunk, live, allocated, chain, blocks, calls,
                  running >>

-----------------------------------------------------------------------------
\* The bytes add_chunk() asks the C runtime for.
Request(t) ==
  (IF block_size > arg[t].bytes THEN block_size ELSE arg[t].bytes) + Header

\* The C runtime returns memory that overlaps no memory it has given out.
FreeFor(base, request) ==
  /\ base \in Bases \ live
  /\ \A c \in live :
       \/ base + request <= c
       \/ c + chunk[c].chunk_size <= base

\* alloc(request), and the fields of the new chunk that no other thread sees.
Alloc(t) ==
  /\ running /\ pc[t] = "alloc"
  /\ \E base \in Bases :
       /\ FreeFor(base, Request(t))
       /\ live' = live \cup {base}
       /\ chain' = [chain EXCEPT ![t] = base]
       /\ chunk' = [chunk EXCEPT ![base] =
                      [chunk_at |-> base + Header, chunk_end |-> base + Request(t),
                       next_chunk |-> NULL, chunk_size |-> Request(t)]]
  /\ pc' = [pc EXCEPT ![t] = "load_next"]
  /\ UNCHANGED << current_chunk, used, allocated, arg, top_chunk,
                  top_of_stack, blocks, calls, running >>

\* alloc() returned nullptr: malloc() reports it and calls exit().
OutOfMemory(t) ==
  /\ running /\ pc[t] = "alloc"
  /\ running' = FALSE
  /\ UNCHANGED << current_chunk, chunk, live, used, allocated, pc, arg, top_chunk,
                  top_of_stack, chain, blocks, calls >>

\* chain->next_chunk = current_chunk.load()
LoadNext(t) ==
  /\ running /\ pc[t] = "load_next"
  /\ chunk' = [chunk EXCEPT ![chain[t]].next_chunk = current_chunk]
  /\ pc' = [pc EXCEPT ![t] = "cas_chunk"]
  /\ UNCHANGED << current_chunk, live, used, allocated, arg, top_chunk,
                  top_of_stack, chain, blocks, calls, running >>

\* A push that does not compare drops the chunks pushed since the load.
CasChunkBlind(t) ==
  /\ running /\ pc[t] = "cas_chunk"
  /\ current_chunk' = chain[t]
  /\ pc' = [pc EXCEPT ![t] = "count_allocated"]
  /\ UNCHANGED << chunk, live, used, allocated, arg, top_chunk, top_of_stack,
                  chain, blocks, calls, running >>

\* The CAS on current_chunk; the loser of a race gives its chunk back.
CasChunk(t) ==
  /\ running /\ pc[t] = "cas_chunk"
  /\ IF current_chunk = chunk[chain[t]].next_chunk
     THEN /\ current_chunk' = chain[t]
          /\ pc' = [pc EXCEPT ![t] = "count_allocated"]
          /\ UNCHANGED << live, chain, chunk >>
     ELSE /\ live' = live \ {chain[t]}
          /\ chunk' = [chunk EXCEPT ![chain[t]] = Blank]
          /\ chain' = [chain EXCEPT ![t] = NULL]
          /\ pc' = [pc EXCEPT ![t] = "read_chunk"]
          /\ UNCHANGED current_chunk
  /\ UNCHANGED << used, allocated, arg, top_chunk, top_of_stack, blocks, calls,
                  running >>

\* allocated += request, and malloc()'s loop continues.
CountAllocated(t) ==
  /\ running /\ pc[t] = "count_allocated"
  /\ allocated' = allocated + Request(t)
  /\ chain' = [chain EXCEPT ![t] = NULL]
  /\ pc' = [pc EXCEPT ![t] = "read_chunk"]
  /\ UNCHANGED << current_chunk, chunk, live, used, arg, top_chunk,
                  top_of_stack, blocks, calls, running >>

\* rewind() walks the list and gives every chunk on it back.  Its caller owns
\* the pool: no thread is inside malloc() and no block is used afterwards.
Rewind ==
  /\ running /\ AllIdle
  /\ live' = live \ Chain
  /\ chunk' = [c \in Bases |-> IF c \in Chain THEN Blank ELSE chunk[c]]
  /\ current_chunk' = NULL
  /\ used' = 0
  /\ allocated' = 0
  /\ blocks' = {}
  /\ calls' = 0
  /\ UNCHANGED << pc, arg, top_chunk, top_of_stack, chain, running >>

Step(t) ==
  \/ ReadChunk(t) \/ ReadAt(t) \/ CasAt(t) \/ CountUsed(t)
  \/ Alloc(t) \/ OutOfMemory(t) \/ LoadNext(t) \/ CasChunk(t) \/ CountAllocated(t)

Next ==
  \/ \E t \in Threads : Step(t)
  \/ \E t \in Threads, bytes \in Sizes, alignment \in Alignments :
       Malloc(t, bytes, alignment)
  \/ Rewind

Spec == Init /\ [][Next]_vars

\* The operating system runs every thread that is inside malloc().
FairSpec == Spec /\ \A t \in Threads : WF_vars(Step(t))
-----------------------------------------------------------------------------
\* Types: pointers are addresses or null, counters are naturals, and a thread
\* that holds a chunk pointer holds one that is not null.
TypeOK ==
  /\ current_chunk \in Bases \cup {NULL}
  /\ chunk \in [Bases -> ChunkType]
  /\ live \subseteq Bases
  /\ used \in Nat
  /\ allocated \in Nat
  /\ pc \in [Threads -> PCs]
  /\ arg \in [Threads -> [bytes : Nat, alignment : Nat \ {0}]]
  /\ top_chunk \in [Threads -> Bases \cup {NULL}]
  /\ top_of_stack \in [Threads -> Nat]
  /\ chain \in [Threads -> Bases \cup {NULL}]
  /\ blocks \subseteq BlockType
  /\ calls \in Nat
  /\ running \in BOOLEAN

\* "A single allocator can be called from multiple threads concurrently and they
\* will each return a valid pointer to a piece of memory that is not overlapping
\* with any pointer returned from any other call" (allocator_pool.h): no two
\* blocks handed out since the last rewind() share a byte, whichever chunks
\* they are in.
NoOverlap ==
  \A a, b \in blocks :
    a # b => \/ a.start + a.bytes <= b.start
             \/ b.start + b.bytes <= a.start

\* Every block is as long as was asked for inside a chunk the pool still holds:
\* neither the header of a chunk nor memory given back to the C runtime is ever
\* part of one, and it starts on the boundary the caller asked for.
BlocksInLiveChunks ==
  \A b \in blocks :
    /\ b.in \in live
    /\ b.in + Header <= b.start
    /\ b.start + b.bytes <= b.in + chunk[b.in].chunk_size
    /\ b.start % b.alignment = 0

\* No chunk is lost: with no call in progress the list from current_chunk holds
\* exactly the chunks taken from the C runtime, so rewind() gives all of them
\* back, and capacity() and size() account for them and for the blocks.
NothingLost ==
  AllIdle /\ running =>
    /\ live = Chain
    /\ allocated = SumFunction([c \in live |-> chunk[c].chunk_size])
    /\ used = SumFunction([b \in blocks |-> b.bytes])

\* Every call returns, or the process exits because the C runtime has no memory:
\* whatever compare-and-swaps it loses, malloc()'s loop ends.
MallocReturns ==
  \A t \in Threads : pc[t] # Idle ~> (pc[t] = Idle \/ ~running)
=============================================================================
