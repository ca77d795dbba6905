------------------------- MODULE AllocatorPoolProofs -------------------------
(***************************************************************************)
(* The memory that allocator_pool hands out never overlaps, for any number *)
(* of threads, any sizes and alignments, and any behaviour of the C        *)
(* runtime that does not hand out the same byte twice.                     *)
(***************************************************************************)
EXTENDS AllocatorPool, InductionTheorems

-----------------------------------------------------------------------------
\* A chunk that some thread has allocated and not yet published.
Private(c) == \E t \in Threads : Building(t) /\ chain[t] = c

\* Distinct chunks of the C runtime share no byte.
ChunksApart ==
  \A c, d \in live :
    c # d => \/ c + chunk[c].chunk_size <= d
             \/ d + chunk[d].chunk_size <= c

\* The bump pointer of a chunk stays between its header and its end.
ChunkBounds ==
  \A c \in live :
    /\ c + Header <= chunk[c].chunk_at
    /\ chunk[c].chunk_at <= chunk[c].chunk_end
    /\ chunk[c].chunk_end = c + chunk[c].chunk_size

\* A chunk that a thread is building is known to that thread alone, and what
\* other threads can reach stays allocated.
Ownership ==
  /\ current_chunk # NULL => current_chunk \in live /\ ~Private(current_chunk)
  /\ \A t \in Threads : Building(t) => chain[t] \in live
  /\ \A t, u \in Threads :
       Building(t) /\ Building(u) /\ chain[t] = chain[u] => t = u
  /\ \A t \in Threads :
       pc[t] \in {"read_at", "cas_at"} => top_chunk[t] \in live /\ ~Private(top_chunk[t])

\* The test against chunk_end still holds when the CAS is made.
CasFits ==
  \A t \in Threads : pc[t] = "cas_at" =>
    /\ top_chunk[t] + Header <= top_of_stack[t]
    /\ NewTop(t) <= chunk[top_chunk[t]].chunk_end

\* Blocks lie between the header and the bump pointer of a published chunk.
BlocksBelow ==
  \A b \in blocks :
    /\ b.in \in live /\ ~Private(b.in)
    /\ b.in + Header <= b.start
    /\ b.start + b.bytes <= chunk[b.in].chunk_at
    /\ b.start % b.alignment = 0

PoolInv ==
  /\ TypeOK /\ ChunksApart /\ ChunkBounds /\ Ownership /\ CasFits
  /\ BlocksBelow /\ NoOverlap
-----------------------------------------------------------------------------
\* A remainder is smaller than the divisor.
LEMMA RemainderBound ==
  ASSUME NEW x \in Nat, NEW a \in Nat \ {0}
  PROVE  x % a \in 0..(a - 1)
  OBVIOUS

\* A number is its quotient times the divisor plus its remainder.
LEMMA QuotientRemainder ==
  ASSUME NEW x \in Nat, NEW a \in Nat \ {0}
  PROVE  x = a * (x \div a) + (x % a)
  OBVIOUS

\* A multiple has no remainder.
LEMMA MultipleRemainder ==
  ASSUME NEW q \in Nat, NEW a \in Nat \ {0}
  PROVE  (a * q) % a = 0
  OBVIOUS

\* The padding of allocator::realign() is a natural number that takes an address
\* to a multiple of the boundary.
LEMMA PaddingAligns ==
  ASSUME NEW x \in Nat, NEW a \in Nat \ {0}
  PROVE  /\ Padding(x, a) \in Nat
         /\ (x + Padding(x, a)) % a = 0
<1>1. CASE a = 1
  BY <1>1 DEF Padding
<1>2. CASE a # 1 /\ x % a = 0
  BY <1>2 DEF Padding, realign
<1>3. CASE a # 1 /\ x % a # 0
  <2>1. /\ Padding(x, a) \in Nat
        /\ x + Padding(x, a) = a * ((x \div a) + 1)
    BY <1>3, RemainderBound, QuotientRemainder DEF Padding, realign
  <2>2. (x \div a) + 1 \in Nat
    OBVIOUS
  <2> QED
    BY <2>1, <2>2, MultipleRemainder
<1> QED
  BY <1>1, <1>2, <1>3

\* The block that a CAS carves off starts at or after the bump pointer it read.
LEMMA NewTopFacts ==
  ASSUME TypeOK, NEW t \in Threads
  PROVE  /\ NewTop(t) \in Nat
         /\ NewTop(t) - arg[t].bytes \in Nat
         /\ top_of_stack[t] <= NewTop(t) - arg[t].bytes
         /\ (NewTop(t) - arg[t].bytes) % arg[t].alignment = 0
<1> DEFINE pad == Padding(top_of_stack[t], arg[t].alignment)
<1>1. /\ top_of_stack[t] \in Nat /\ arg[t].bytes \in Nat
      /\ arg[t].alignment \in Nat \ {0}
  BY DEF TypeOK
<1>2. pad \in Nat /\ (top_of_stack[t] + pad) % arg[t].alignment = 0
  BY <1>1, PaddingAligns
<1>3. NewTop(t) = top_of_stack[t] + arg[t].bytes + pad
  BY DEF NewTop
<1> HIDE DEF pad
<1>4. NewTop(t) - arg[t].bytes = top_of_stack[t] + pad
  BY <1>1, <1>2, <1>3
<1> QED
  BY <1>1, <1>2, <1>3, <1>4

\* The pool starts without a chunk, so nothing overlaps.
LEMMA InitPoolInv == Init => PoolInv
  BY PoolAssumption DEF Init, PoolInv, TypeOK, ChunksApart, ChunkBounds, Ownership,
     CasFits, BlocksBelow, NoOverlap, Private, Building, PCs, Idle, ChunkType, Blank,
     NoCall, BlockType

\* Every step of every thread keeps the invariant.
LEMMA NextPoolInv == PoolInv /\ [Next]_vars => PoolInv'
<1> SUFFICES ASSUME PoolInv, [Next]_vars
             PROVE  PoolInv'
  OBVIOUS
<1> USE PoolAssumption DEF PoolInv
<1>1. ASSUME NEW t \in Threads, NEW bytes \in Sizes, NEW alignment \in Alignments,
             Malloc(t, bytes, alignment)
      PROVE  PoolInv'
  <2>1. TypeOK'
    BY <1>1 DEF Malloc, TypeOK, PCs, Idle, ChunkType, BlockType
  <2>2. ChunksApart' /\ ChunkBounds'
    BY <1>1 DEF Malloc, TypeOK, ChunksApart, ChunkBounds
  <2>3. Ownership'
    BY <1>1 DEF Malloc, TypeOK, Ownership, Building, Private
  <2>4. CasFits'
    BY <1>1 DEF Malloc, TypeOK, CasFits, NewTop
  <2>5. BlocksBelow' /\ NoOverlap'
    BY <1>1 DEF Malloc, TypeOK, BlocksBelow, NoOverlap, Building, Private
  <2> QED
    BY <2>1, <2>2, <2>3, <2>4, <2>5
<1>2. ASSUME NEW t \in Threads, ReadChunk(t)
      PROVE  PoolInv'
  <2>1. TypeOK'
    BY <1>2 DEF ReadChunk, TypeOK, PCs, Idle, ChunkType, BlockType
  <2>2. ChunksApart' /\ ChunkBounds'
    BY <1>2 DEF ReadChunk, TypeOK, ChunksApart, ChunkBounds
  <2>3. Ownership'
    BY <1>2 DEF ReadChunk, TypeOK, Ownership, Building, Private
  <2>4. CasFits'
    BY <1>2 DEF ReadChunk, TypeOK, CasFits, NewTop
  <2>5. BlocksBelow' /\ NoOverlap'
    BY <1>2 DEF ReadChunk, TypeOK, BlocksBelow, NoOverlap, Building, Private
  <2> QED
    BY <2>1, <2>2, <2>3, <2>4, <2>5
<1>3. ASSUME NEW t \in Threads, ReadAt(t)
      PROVE  PoolInv'
  <2>a. top_chunk[t] \in live
    BY <1>3 DEF ReadAt, Ownership
  <2>0. /\ top_chunk[t] \in live /\ top_chunk[t] \in Bases
        /\ chunk[top_chunk[t]] \in ChunkType
    BY <2>a DEF TypeOK
  <2>1. TypeOK'
    BY <1>3, <2>0 DEF ReadAt, TypeOK, PCs, Idle, ChunkType
  <2>2. ChunksApart' /\ ChunkBounds'
    BY <1>3 DEF ReadAt, TypeOK, ChunksApart, ChunkBounds
  <2>3. Ownership'
    BY <1>3 DEF ReadAt, TypeOK, Ownership, Building, Private
  <2>4. CasFits'
    <3> SUFFICES ASSUME NEW u \in Threads, pc'[u] = "cas_at"
                 PROVE  /\ top_chunk[u] + Header <= top_of_stack'[u]
                        /\ NewTop(u)' <= chunk[top_chunk[u]].chunk_end
      BY <1>3 DEF ReadAt, CasFits
    <3>1. CASE u = t
      <4> DEFINE at == chunk[top_chunk[t]].chunk_at
      <4>1. /\ at \in Nat /\ chunk[top_chunk[t]].chunk_end \in Nat
            /\ arg[t].bytes \in Nat /\ arg[t].alignment \in Nat \ {0}
        BY <2>0 DEF TypeOK, ChunkType
      <4>2. Padding(at, arg[t].alignment) \in Nat
        BY <4>1, PaddingAligns
      <4>3. top_of_stack'[t] = at /\ arg'[t] = arg[t]
        BY <1>3 DEF ReadAt, TypeOK
      <4>4. ~(at + arg[t].bytes + Padding(at, arg[t].alignment)
                > chunk[top_chunk[t]].chunk_end)
        BY <1>3, <3>1 DEF ReadAt, TypeOK
      <4> QED
        BY <3>1, <2>0, <4>1, <4>2, <4>3, <4>4 DEF NewTop, ChunkBounds
    <3>2. CASE u # t
      BY <1>3, <3>2 DEF ReadAt, TypeOK, CasFits, NewTop
    <3> QED
      BY <3>1, <3>2
  <2>5. BlocksBelow' /\ NoOverlap'
    BY <1>3 DEF ReadAt, TypeOK, BlocksBelow, NoOverlap, Building, Private
  <2> QED
    BY <2>1, <2>2, <2>3, <2>4, <2>5
<1>4. ASSUME NEW t \in Threads, CasAt(t)
      PROVE  PoolInv'
  <2> DEFINE c == top_chunk[t]
             block == [start |-> NewTop(t) - arg[t].bytes, bytes |-> arg[t].bytes,
                       alignment |-> arg[t].alignment, in |-> c]
  <2>0. /\ c \in live /\ c \in Bases /\ ~Private(c) /\ c \in Nat
        /\ chunk[c] \in ChunkType
        /\ arg[t].bytes \in Nat /\ arg[t].alignment \in Nat \ {0}
        /\ top_of_stack[t] \in Nat
    BY <1>4 DEF CasAt, TypeOK, Ownership
  <2>1. CASE chunk[c].chunk_at # top_of_stack[t]
    <3>1. /\ pc' = [pc EXCEPT ![t] = "read_chunk"]
          /\ UNCHANGED << current_chunk, chunk, live, used, allocated, arg, top_chunk,
                          top_of_stack, chain, blocks, calls, running >>
      BY <1>4, <2>1 DEF CasAt
    <3> QED
      BY <3>1 DEF TypeOK, ChunksApart, ChunkBounds, Ownership, CasFits, BlocksBelow,
         NoOverlap, Private, Building, PCs, NewTop
  <2>2. CASE chunk[c].chunk_at = top_of_stack[t]
    <3>1. /\ chunk' = [chunk EXCEPT ![c].chunk_at = NewTop(t)]
          /\ blocks' = blocks \cup {block}
          /\ pc' = [pc EXCEPT ![t] = "count_used"]
          /\ UNCHANGED << current_chunk, live, used, allocated, arg, top_chunk,
                          top_of_stack, chain, calls, running >>
      BY <1>4, <2>2 DEF CasAt
    <3>2. /\ NewTop(t) \in Nat /\ NewTop(t) - arg[t].bytes \in Nat
          /\ top_of_stack[t] <= NewTop(t) - arg[t].bytes
          /\ (NewTop(t) - arg[t].bytes) % arg[t].alignment = 0
      BY NewTopFacts
    <3>3. /\ c + Header <= top_of_stack[t]
          /\ NewTop(t) <= chunk[c].chunk_end
      BY <1>4 DEF CasAt, CasFits
    <3>4. /\ block \in BlockType
          /\ block.start = NewTop(t) - arg[t].bytes /\ block.bytes = arg[t].bytes
          /\ block.alignment = arg[t].alignment /\ block.in = c
      BY <2>0, <3>2 DEF BlockType
    <3> HIDE DEF block
    <3>5. \A d \in Bases :
            /\ chunk'[d].chunk_size = chunk[d].chunk_size
            /\ chunk'[d].chunk_end = chunk[d].chunk_end
            /\ chunk'[d].chunk_at = IF d = c THEN NewTop(t) ELSE chunk[d].chunk_at
      BY <3>1, <2>0 DEF TypeOK, ChunkType
    <3>6. chunk' \in [Bases -> ChunkType]
      BY <3>1, <3>2, <2>0 DEF TypeOK, ChunkType
    <3>7. TypeOK'
      BY <3>1, <3>4, <3>6 DEF TypeOK, PCs
    <3>8. ChunksApart' /\ ChunkBounds'
      BY <3>1, <3>2, <3>3, <3>5, <2>0, <2>2 DEF TypeOK, ChunksApart, ChunkBounds
    <3>9. Ownership'
      BY <3>1 DEF TypeOK, Ownership, Building, Private
    <3>10. CasFits'
      <4> SUFFICES ASSUME NEW u \in Threads, pc[u] = "cas_at", u # t
                   PROVE  /\ top_chunk[u] + Header <= top_of_stack[u]
                          /\ NewTop(u)' <= chunk'[top_chunk[u]].chunk_end
        BY <3>1 DEF CasFits, TypeOK
      <4>1. NewTop(u)' = NewTop(u)
        BY <3>1 DEF NewTop
      <4>2. top_chunk[u] \in live
        BY DEF Ownership
      <4>3. chunk'[top_chunk[u]].chunk_end = chunk[top_chunk[u]].chunk_end
        BY <4>2, <3>5 DEF TypeOK
      <4>4. /\ top_chunk[u] + Header <= top_of_stack[u]
            /\ NewTop(u) <= chunk[top_chunk[u]].chunk_end
        BY DEF CasFits
      <4> QED
        BY <4>1, <4>3, <4>4
    <3>11. BlocksBelow'
      <4> SUFFICES ASSUME NEW b \in blocks'
                   PROVE  /\ b.in \in live /\ ~Private(b.in)
                          /\ b.in + Header <= b.start
                          /\ b.start + b.bytes <= chunk'[b.in].chunk_at
                          /\ b.start % b.alignment = 0
        BY <3>1 DEF BlocksBelow, Private, Building, TypeOK
      <4>1. CASE b = block
        BY <4>1, <3>2, <3>3, <3>4, <3>5, <2>0
      <4>2. CASE b \in blocks
        <5>1. /\ b.in \in live /\ ~Private(b.in)
              /\ b.in + Header <= b.start
              /\ b.start + b.bytes <= chunk[b.in].chunk_at
              /\ b.start % b.alignment = 0
          BY <4>2 DEF BlocksBelow
        <5>2. b.in \in Bases /\ b.start \in Nat /\ b.bytes \in Nat
          BY <4>2 DEF TypeOK, BlockType
        <5>a. chunk[b.in] \in ChunkType
          BY <5>2 DEF TypeOK
        <5>3. chunk[b.in].chunk_at \in Nat /\ b.start + b.bytes \in Nat
          BY <5>a, <5>2 DEF ChunkType
        <5>4. chunk[b.in].chunk_at <= chunk'[b.in].chunk_at
          <6>1. CASE b.in = c
            <7>1. chunk'[b.in].chunk_at = NewTop(t)
              BY <5>2, <6>1, <3>5
            <7>2. chunk[b.in].chunk_at = top_of_stack[t]
              BY <6>1, <2>2
            <7>3. top_of_stack[t] <= NewTop(t)
              BY <2>0, <3>2
            <7> QED
              BY <7>1, <7>2, <7>3
          <6>2. CASE b.in # c
            <7>1. chunk'[b.in].chunk_at = chunk[b.in].chunk_at
              BY <5>2, <6>2, <3>5
            <7> QED
              BY <5>3, <7>1
          <6> QED
            BY <6>1, <6>2
        <5>5. chunk'[b.in].chunk_at \in Nat
          BY <5>2, <5>3, <3>2, <3>5
        <5> QED
          BY <5>1, <5>3, <5>4, <5>5
      <4> QED
        BY <4>1, <4>2, <3>1
    <3>12. NoOverlap'
      <4>1. ASSUME NEW b \in blocks
            PROVE  \/ block.start + block.bytes <= b.start
                   \/ b.start + b.bytes <= block.start
        <5>1. /\ b.in \in live /\ b.in + Header <= b.start
              /\ b.start + b.bytes <= chunk[b.in].chunk_at
          BY DEF BlocksBelow
        <5>a. b.in \in Bases /\ b.start \in Nat /\ b.bytes \in Nat
          BY DEF TypeOK, BlockType
        <5>2. /\ b.in \in Bases /\ b.in \in Nat /\ b.start \in Nat /\ b.bytes \in Nat
          BY <5>a
        <5>3. CASE b.in = c
          BY <5>1, <5>2, <5>3, <3>2, <3>4, <2>0, <2>2
        <5>4. CASE b.in # c
          <6>1. chunk[b.in] \in ChunkType
            BY <5>2 DEF TypeOK
          <6>2. b.in + chunk[b.in].chunk_size <= c \/ c + chunk[c].chunk_size <= b.in
            BY <5>1, <5>4, <2>0 DEF ChunksApart
          <6>3. /\ chunk[b.in].chunk_at <= b.in + chunk[b.in].chunk_size
                /\ chunk[c].chunk_end = c + chunk[c].chunk_size
            BY <5>1, <2>0 DEF ChunkBounds
          <6>4. /\ b.in + chunk[b.in].chunk_size \in Nat
                /\ c + chunk[c].chunk_size \in Nat
                /\ chunk[b.in].chunk_at \in Nat
            BY <6>1, <5>2, <2>0 DEF ChunkType
          <6>5. /\ block.start \in Nat /\ block.bytes \in Nat
                /\ block.start + block.bytes = NewTop(t)
                /\ c + Header <= block.start
            BY <3>2, <3>3, <3>4, <2>0
          <6> QED
            BY <5>1, <5>2, <6>2, <6>3, <6>4, <6>5, <3>3, <2>0, <3>2
        <5> QED
          BY <5>3, <5>4
      <4> QED
        BY <4>1, <3>1 DEF NoOverlap
    <3> QED
      BY <3>7, <3>8, <3>9, <3>10, <3>11, <3>12
  <2> QED
    BY <2>1, <2>2
<1>5. ASSUME NEW t \in Threads, CountUsed(t)
      PROVE  PoolInv'
  <2>0. /\ arg[t].bytes \in Nat
        /\ NoCall \in [bytes : Nat, alignment : Nat \ {0}]
    BY DEF TypeOK, NoCall
  <2>1. TypeOK'
    BY <1>5, <2>0 DEF CountUsed, TypeOK, PCs, Idle
  <2>2. ChunksApart' /\ ChunkBounds'
    BY <1>5 DEF CountUsed, TypeOK, ChunksApart, ChunkBounds
  <2>3. Ownership'
    BY <1>5 DEF CountUsed, TypeOK, Ownership, Building, Private, Idle
  <2>4. CasFits'
    BY <1>5 DEF CountUsed, TypeOK, CasFits, NewTop, Idle
  <2>5. BlocksBelow' /\ NoOverlap'
    BY <1>5 DEF CountUsed, TypeOK, BlocksBelow, NoOverlap, Building, Private, Idle
  <2> QED
    BY <2>1, <2>2, <2>3, <2>4, <2>5
<1>6. ASSUME NEW t \in Threads, Alloc(t)
      PROVE  PoolInv'
  <2>0. PICK base \in Bases :
          /\ FreeFor(base, Request(t))
          /\ live' = live \cup {base}
          /\ chain' = [chain EXCEPT ![t] = base]
          /\ chunk' = [chunk EXCEPT ![base] =
                         [chunk_at |-> base + Header, chunk_end |-> base + Request(t),
                          next_chunk |-> NULL, chunk_size |-> Request(t)]]
    BY <1>6 DEF Alloc
  <2>1. /\ pc[t] = "alloc" /\ pc' = [pc EXCEPT ![t] = "load_next"]
        /\ UNCHANGED << current_chunk, used, allocated, arg, top_chunk,
                        top_of_stack, blocks, calls, running >>
    BY <1>6 DEF Alloc
  <2>2. /\ Request(t) \in Nat /\ Request(t) >= Header
        /\ base \in Nat /\ base \notin live
    BY <2>0 DEF TypeOK, Request, FreeFor
  <2> HIDE DEF Request
  <2>3. [chunk_at |-> base + Header, chunk_end |-> base + Request(t),
         next_chunk |-> NULL, chunk_size |-> Request(t)] \in ChunkType
    BY <2>2 DEF ChunkType
  <2>4. /\ chunk'[base].chunk_at = base + Header
        /\ chunk'[base].chunk_end = base + Request(t)
        /\ chunk'[base].chunk_size = Request(t)
        /\ \A c \in live : chunk'[c] = chunk[c]
    BY <2>0, <2>2 DEF TypeOK
  <2>5. TypeOK'
    BY <2>0, <2>1, <2>3 DEF TypeOK, PCs
  <2>6. ChunksApart'
    <3> SUFFICES ASSUME NEW c \in live', NEW d \in live', c # d
                 PROVE  \/ c + chunk'[c].chunk_size <= d
                        \/ d + chunk'[d].chunk_size <= c
      BY DEF ChunksApart
    <3>1. CASE c \in live /\ d \in live
      BY <3>1, <2>4 DEF ChunksApart
    <3>2. CASE c = base \/ d = base
      BY <3>2, <2>0, <2>2, <2>4 DEF FreeFor
    <3> QED
      BY <3>1, <3>2, <2>0
  <2>7. ChunkBounds'
    BY <2>0, <2>2, <2>4 DEF ChunkBounds
  <2>8. \A c \in live : Private(c)' <=> Private(c)
    BY <2>0, <2>1, <2>2 DEF Private, Building, TypeOK
  <2>9. Ownership'
    <3>1. current_chunk' # NULL => current_chunk' \in live' /\ ~Private(current_chunk)'
      BY <2>0, <2>1, <2>8 DEF Ownership
    <3>2. \A u \in Threads : Building(u)' => chain'[u] \in live'
      BY <2>0, <2>1 DEF Ownership, Building, TypeOK
    <3>3. \A u, v \in Threads :
            Building(u)' /\ Building(v)' /\ chain'[u] = chain'[v] => u = v
      BY <2>0, <2>1, <2>2 DEF Ownership, Building, TypeOK
    <3>4. \A u \in Threads : pc'[u] \in {"read_at", "cas_at"} =>
            top_chunk'[u] \in live' /\ ~Private(top_chunk[u])'
      <4> SUFFICES ASSUME NEW u \in Threads, pc[u] \in {"read_at", "cas_at"}
                   PROVE  top_chunk[u] \in live' /\ ~Private(top_chunk[u])'
        BY <2>1 DEF TypeOK
      <4>1. top_chunk[u] \in live /\ ~Private(top_chunk[u])
        BY DEF Ownership
      <4>2. Private(top_chunk[u])' <=> Private(top_chunk[u])
        BY <4>1, <2>0, <2>1, <2>2 DEF Private, Building, TypeOK
      <4> QED
        BY <4>1, <4>2, <2>0
    <3> QED
      BY <3>1, <3>2, <3>3, <3>4, <2>1 DEF Ownership
  <2>10. CasFits'
    <3> SUFFICES ASSUME NEW u \in Threads, pc[u] = "cas_at"
                 PROVE  /\ top_chunk[u] + Header <= top_of_stack[u]
                        /\ NewTop(u)' <= chunk'[top_chunk[u]].chunk_end
      BY <2>1 DEF CasFits, TypeOK
    <3>1. NewTop(u)' = NewTop(u)
      BY <2>1 DEF NewTop
    <3>2. chunk'[top_chunk[u]] = chunk[top_chunk[u]]
      BY <2>4 DEF Ownership
    <3> QED
      BY <3>1, <3>2 DEF CasFits
  <2>11. BlocksBelow' /\ NoOverlap'
    BY <2>0, <2>1, <2>4, <2>8 DEF BlocksBelow, NoOverlap
  <2> QED
    BY <2>5, <2>6, <2>7, <2>9, <2>10, <2>11
<1>7. ASSUME NEW t \in Threads, OutOfMemory(t)
      PROVE  PoolInv'
  <2>1. TypeOK'
    BY <1>7 DEF OutOfMemory, TypeOK, PCs, Idle, ChunkType, BlockType
  <2>2. ChunksApart' /\ ChunkBounds'
    BY <1>7 DEF OutOfMemory, TypeOK, ChunksApart, ChunkBounds
  <2>3. Ownership'
    BY <1>7 DEF OutOfMemory, TypeOK, Ownership, Building, Private
  <2>4. CasFits'
    BY <1>7 DEF OutOfMemory, TypeOK, CasFits, NewTop
  <2>5. BlocksBelow' /\ NoOverlap'
    BY <1>7 DEF OutOfMemory, TypeOK, BlocksBelow, NoOverlap, Building, Private
  <2> QED
    BY <2>1, <2>2, <2>3, <2>4, <2>5
<1>8. ASSUME NEW t \in Threads, LoadNext(t)
      PROVE  PoolInv'
  <2>0. /\ pc[t] = "load_next" /\ pc' = [pc EXCEPT ![t] = "cas_chunk"]
        /\ chunk' = [chunk EXCEPT ![chain[t]].next_chunk = current_chunk]
        /\ UNCHANGED << current_chunk, live, used, allocated, arg, top_chunk,
                        top_of_stack, chain, blocks, calls, running >>
    BY <1>8 DEF LoadNext
  <2>a. /\ chunk \in [Bases -> ChunkType] /\ current_chunk \in Bases \cup {NULL}
        /\ chain[t] \in Bases
    BY <2>0 DEF TypeOK, Ownership, Building
  <2>b. [chunk[chain[t]] EXCEPT !.next_chunk = current_chunk] \in ChunkType
    BY <2>a DEF ChunkType
  <2>1. chunk' \in [Bases -> ChunkType]
    BY <2>0, <2>a, <2>b
  <2>2. \A c \in Bases :
          /\ chunk'[c].chunk_at = chunk[c].chunk_at
          /\ chunk'[c].chunk_end = chunk[c].chunk_end
          /\ chunk'[c].chunk_size = chunk[c].chunk_size
    BY <2>0 DEF TypeOK, ChunkType
  <2>3. \A u \in Threads : Building(u)' <=> Building(u)
    BY <2>0 DEF Building, TypeOK
  <2>4. \A c \in Bases : Private(c)' <=> Private(c)
    BY <2>0, <2>3 DEF Private
  <2>5. \A u \in Threads :
          /\ (pc'[u] = "cas_at") <=> (pc[u] = "cas_at")
          /\ (pc'[u] = "read_at") <=> (pc[u] = "read_at")
    <3>1. \A u \in Threads : pc'[u] = IF u = t THEN "cas_chunk" ELSE pc[u]
      BY <2>0 DEF TypeOK
    <3> QED
      BY <2>0, <3>1
  <2>6. TypeOK'
    BY <2>0, <2>1 DEF TypeOK, PCs
  <2>7. ChunksApart' /\ ChunkBounds'
    BY <2>0, <2>2 DEF TypeOK, ChunksApart, ChunkBounds
  <2>8. Ownership'
    BY <2>0, <2>3, <2>4, <2>5 DEF TypeOK, Ownership
  <2>9. CasFits'
    <3> SUFFICES ASSUME NEW u \in Threads, pc[u] = "cas_at"
                 PROVE  /\ top_chunk[u] + Header <= top_of_stack[u]
                        /\ NewTop(u)' <= chunk'[top_chunk[u]].chunk_end
      BY <2>0, <2>5 DEF CasFits
    <3>1. NewTop(u)' = NewTop(u)
      BY <2>0 DEF NewTop
    <3>2. top_chunk[u] \in Bases
      BY DEF Ownership, TypeOK
    <3> QED
      BY <3>1, <3>2, <2>2 DEF CasFits
  <2>10. BlocksBelow' /\ NoOverlap'
    BY <2>0, <2>2, <2>4 DEF BlocksBelow, NoOverlap, TypeOK
  <2> QED
    BY <2>6, <2>7, <2>8, <2>9, <2>10
<1>9. ASSUME NEW t \in Threads, CasChunk(t)
      PROVE  PoolInv'
  <2>0. /\ pc[t] = "cas_chunk" /\ Building(t) /\ chain[t] \in live
        /\ Blank \in ChunkType
        /\ UNCHANGED << used, allocated, arg, top_chunk, top_of_stack, blocks, calls,
                        running >>
    BY <1>9 DEF CasChunk, Building, Ownership, Blank, ChunkType
  <2>1. CASE current_chunk = chunk[chain[t]].next_chunk
    <3>1. /\ current_chunk' = chain[t]
          /\ pc' = [pc EXCEPT ![t] = "count_allocated"]
          /\ UNCHANGED << live, chain, chunk >>
      BY <1>9, <2>1 DEF CasChunk
    <3>2. \A c \in live : Private(c)' => Private(c)
      BY <3>1 DEF Private, Building, TypeOK
    <3>3. TypeOK'
      BY <2>0, <3>1 DEF TypeOK, PCs
    <3>4. ChunksApart' /\ ChunkBounds'
      BY <3>1 DEF ChunksApart, ChunkBounds
    <3>5. ~Private(chain[t])'
      BY <2>0, <3>1 DEF Private, Building, TypeOK, Ownership
    <3>6. Ownership'
      BY <2>0, <3>1, <3>2, <3>5 DEF Ownership, Building, Private, TypeOK
    <3>7. CasFits'
      BY <2>0, <3>1 DEF CasFits, NewTop, TypeOK
    <3>8. BlocksBelow' /\ NoOverlap'
      BY <2>0, <3>1, <3>2 DEF BlocksBelow, NoOverlap
    <3> QED
      BY <3>3, <3>4, <3>6, <3>7, <3>8
  <2>2. CASE current_chunk # chunk[chain[t]].next_chunk
    <3>1. /\ live' = live \ {chain[t]}
          /\ chunk' = [chunk EXCEPT ![chain[t]] = Blank]
          /\ chain' = [chain EXCEPT ![t] = NULL]
          /\ pc' = [pc EXCEPT ![t] = "read_chunk"]
          /\ UNCHANGED current_chunk
      BY <1>9, <2>2 DEF CasChunk
    <3>2. /\ \A c \in live' : chunk'[c] = chunk[c]
          /\ \A c \in live : ~Private(c) => c # chain[t] /\ ~Private(c)'
      <4>1. \A c \in live' : chunk'[c] = chunk[c]
        BY <3>1 DEF TypeOK
      <4>2. \A c \in live : ~Private(c) => c # chain[t]
        BY <2>0 DEF Private
      <4>3. \A c \in live : ~Private(c) => ~Private(c)'
        BY <3>1 DEF Private, Building, TypeOK
      <4> QED
        BY <4>1, <4>2, <4>3
    <3>3. TypeOK'
      BY <2>0, <3>1, PoolAssumption DEF TypeOK, PCs
    <3>4. ChunksApart' /\ ChunkBounds'
      BY <3>1, <3>2 DEF ChunksApart, ChunkBounds
    <3>5. Ownership'
      <4>1. current_chunk' # NULL => current_chunk' \in live' /\ ~Private(current_chunk)'
        BY <3>1, <3>2 DEF Ownership
      <4>2. \A u \in Threads : Building(u)' => u # t /\ Building(u) /\ chain'[u] = chain[u]
        BY <3>1 DEF Building, TypeOK
      <4>3. \A u \in Threads : Building(u)' => chain'[u] \in live'
        BY <2>0, <3>1, <4>2 DEF Ownership
      <4>4. \A u, v \in Threads :
              Building(u)' /\ Building(v)' /\ chain'[u] = chain'[v] => u = v
        BY <4>2 DEF Ownership
      <4>5. \A u \in Threads : pc'[u] \in {"read_at", "cas_at"} =>
              top_chunk'[u] \in live' /\ ~Private(top_chunk[u])'
        BY <2>0, <3>1, <3>2 DEF Ownership, TypeOK
      <4> QED
        BY <2>0, <4>1, <4>3, <4>4, <4>5 DEF Ownership
    <3>6. CasFits'
      <4> SUFFICES ASSUME NEW u \in Threads, pc[u] = "cas_at"
                   PROVE  /\ top_chunk[u] + Header <= top_of_stack[u]
                          /\ NewTop(u)' <= chunk'[top_chunk[u]].chunk_end
        BY <2>0, <3>1 DEF CasFits, TypeOK
      <4>1. NewTop(u)' = NewTop(u)
        BY <2>0 DEF NewTop
      <4>2. chunk'[top_chunk[u]] = chunk[top_chunk[u]]
        BY <3>1, <3>2 DEF Ownership
      <4> QED
        BY <4>1, <4>2 DEF CasFits
    <3>7. BlocksBelow' /\ NoOverlap'
      BY <2>0, <3>1, <3>2 DEF BlocksBelow, NoOverlap
    <3> QED
      BY <3>3, <3>4, <3>5, <3>6, <3>7
  <2> QED
    BY <2>1, <2>2
<1>10. ASSUME NEW t \in Threads, CountAllocated(t)
       PROVE  PoolInv'
  <2>0. Request(t) \in Nat
    BY DEF TypeOK, Request
  <2>1. TypeOK'
    BY <1>10, <2>0 DEF CountAllocated, TypeOK, PCs
  <2>2. ChunksApart' /\ ChunkBounds'
    BY <1>10 DEF CountAllocated, TypeOK, ChunksApart, ChunkBounds
  <2>3. Ownership'
    BY <1>10 DEF CountAllocated, TypeOK, Ownership, Building, Private
  <2>4. CasFits'
    BY <1>10 DEF CountAllocated, TypeOK, CasFits, NewTop
  <2>5. BlocksBelow' /\ NoOverlap'
    BY <1>10 DEF CountAllocated, TypeOK, BlocksBelow, NoOverlap, Building, Private
  <2> QED
    BY <2>1, <2>2, <2>3, <2>4, <2>5
<1>11. CASE Rewind
  <2>1. TypeOK'
    BY <1>11 DEF Rewind, TypeOK, ChunkType, Blank
  <2>2. ChunksApart' /\ ChunkBounds'
    BY <1>11 DEF Rewind, TypeOK, ChunksApart, ChunkBounds
  <2>3. Ownership' /\ CasFits'
    BY <1>11 DEF Rewind, AllIdle, Idle, TypeOK, Ownership, CasFits, Building, Private
  <2>4. BlocksBelow' /\ NoOverlap'
    BY <1>11 DEF Rewind, BlocksBelow, NoOverlap
  <2> QED
    BY <2>1, <2>2, <2>3, <2>4
<1>12. CASE UNCHANGED vars
  BY <1>12 DEF vars, TypeOK, ChunksApart, ChunkBounds, Ownership, CasFits, BlocksBelow,
     NoOverlap, Private, Building, NewTop
<1> QED
  BY <1>1, <1>2, <1>3, <1>4, <1>5, <1>6, <1>7, <1>8, <1>9, <1>10, <1>11, <1>12
  DEF Next, Step

\* PoolInv is an invariant.
LEMMA PoolAlways == Spec => []PoolInv
BY InitPoolInv, NextPoolInv, PTL DEF Spec

\* In every reachable state, no two of the blocks that allocator_pool::malloc() handed
\* out since the last rewind() share a byte.
THEOREM BlocksApart == Spec => []NoOverlap
<1>1. PoolInv => NoOverlap
  BY DEF PoolInv
<1> QED
  BY <1>1, PoolAlways, PTL

\* They lie behind the headers of chunks that the pool still holds, aligned as asked.
THEOREM BlocksInside == Spec => []BlocksInLiveChunks
<1>1. ASSUME PoolInv
      PROVE  BlocksInLiveChunks
  <2> SUFFICES ASSUME NEW b \in blocks
               PROVE  b.start + b.bytes <= b.in + chunk[b.in].chunk_size
    BY <1>1 DEF PoolInv, BlocksBelow, BlocksInLiveChunks
  <2>1. /\ b \in BlockType /\ b.in \in live
        /\ b.start + b.bytes <= chunk[b.in].chunk_at
    BY <1>1 DEF PoolInv, TypeOK, BlocksBelow
  <2>2. /\ chunk[b.in].chunk_at <= chunk[b.in].chunk_end
        /\ chunk[b.in].chunk_end = b.in + chunk[b.in].chunk_size
    BY <1>1, <2>1 DEF PoolInv, ChunkBounds
  <2>3. b.in \in Nat /\ chunk[b.in] \in ChunkType
    BY <1>1, <2>1, PoolAssumption DEF PoolInv, TypeOK
  <2>4. /\ chunk[b.in].chunk_at \in Nat /\ chunk[b.in].chunk_size \in Nat
        /\ b.start + b.bytes \in Nat
    BY <2>1, <2>3 DEF ChunkType, BlockType
  <2> QED
    BY <2>1, <2>2, <2>3, <2>4
<1> QED
  BY <1>1, PoolAlways, PTL
-----------------------------------------------------------------------------
\* The chunks that other threads can reach.
Published == {c \in live : ~Private(c)}

Closed(S) == \A c \in S : chunk[c].next_chunk \in S \cup {NULL}

\* The list from current_chunk is the published chunks: it stays among them, and no
\* smaller set with current_chunk is closed under next_chunk.
ListInv ==
  /\ current_chunk = NULL => Published = {}
  /\ current_chunk # NULL => current_chunk \in Published
  /\ Closed(Published)
  /\ \A R \in SUBSET Published : current_chunk \in R /\ Closed(R) => R = Published

\* capacity() lags behind by the chunks that are published and not yet counted.
Counting == {t \in Threads : pc[t] = "count_allocated"}
ChunkSizes == [c \in Bases |-> chunk[c].chunk_size]
Requests == [t \in Threads |-> Request(t)]

\* A thread that is building a chunk has made it as large as it asked for.
BuiltToSize == \A t \in Threads : Building(t) => chunk[chain[t]].chunk_size = Request(t)

AllocatedInv ==
  /\ IsFiniteSet(Published) /\ IsFiniteSet(Counting)
  /\ BuiltToSize
  /\ allocated + SumFunctionOnSet(Requests, Counting) = SumFunctionOnSet(ChunkSizes, Published)

\* size() lags behind by the blocks that are carved off and not yet counted.
Using == {t \in Threads : pc[t] = "count_used"}
Lengths == [t \in Threads |-> arg[t].bytes]
Bytes(B) == [b \in B |-> b.bytes]

UsedInv ==
  /\ IsFiniteSet(blocks) /\ IsFiniteSet(Using)
  /\ used + SumFunctionOnSet(Lengths, Using) = SumFunctionOnSet(Bytes(blocks), blocks)

\* What a step of a thread that publishes nothing does to the chunks.
LEMMA QuietSteps ==
  ASSUME PoolInv, NEW t \in Threads,
         \/ ReadChunk(t) \/ ReadAt(t) \/ CasAt(t) \/ CountUsed(t) \/ Alloc(t)
         \/ OutOfMemory(t) \/ LoadNext(t) \/ CountAllocated(t)
         \/ \E bytes \in Sizes, alignment \in Alignments : Malloc(t, bytes, alignment)
  PROVE  /\ Published' = Published
         /\ current_chunk' = current_chunk
         /\ \A c \in Published : /\ chunk'[c].next_chunk = chunk[c].next_chunk
                                 /\ chunk'[c].chunk_size = chunk[c].chunk_size
<1>0. TypeOK /\ Ownership
  BY DEF PoolInv
<1>1. CASE Alloc(t)
  <2>1. PICK base \in Bases :
          /\ base \notin live /\ live' = live \cup {base}
          /\ chain' = [chain EXCEPT ![t] = base]
          /\ \A c \in Bases : c # base => chunk'[c] = chunk[c]
    BY <1>0, <1>1 DEF Alloc, FreeFor, TypeOK
  <2>2. pc[t] = "alloc" /\ pc' = [pc EXCEPT ![t] = "load_next"] /\ current_chunk' = current_chunk
    BY <1>1 DEF Alloc
  <2>3. Building(t)' /\ ~Building(t) /\ chain'[t] = base
    BY <1>0, <2>1, <2>2 DEF Building, TypeOK
  <2>4. \A u \in Threads : u # t => (Building(u)' <=> Building(u)) /\ chain'[u] = chain[u]
    BY <1>0, <2>1, <2>2 DEF Building, TypeOK
  <2>5. \A c \in live : Private(c)' <=> Private(c)
    BY <2>1, <2>3, <2>4 DEF Private
  <2>6. Private(base)'
    BY <2>3 DEF Private
  <2>7. Published' = Published
    BY <2>1, <2>5, <2>6 DEF Published
  <2> QED
    BY <1>0, <2>1, <2>2, <2>7 DEF Published, TypeOK
<1>2. CASE LoadNext(t)
  <2>1. /\ Building(t) /\ pc' = [pc EXCEPT ![t] = "cas_chunk"]
        /\ UNCHANGED << live, chain, current_chunk >>
        /\ chunk' = [chunk EXCEPT ![chain[t]].next_chunk = current_chunk]
    BY <1>2 DEF LoadNext, Building
  <2>2. \A u \in Threads : Building(u)' <=> Building(u)
    BY <1>0, <2>1 DEF Building, TypeOK
  <2>3. Published' = Published
    BY <2>1, <2>2 DEF Published, Private
  <2>4. \A c \in Published : c # chain[t]
    BY <2>1 DEF Published, Private
  <2> QED
    BY <1>0, <2>1, <2>3, <2>4 DEF Published, TypeOK
<1>3. CASE ~Alloc(t) /\ ~LoadNext(t)
  <2>1. /\ UNCHANGED << live, current_chunk >>
        /\ \A u \in Threads : Building(u)' <=> Building(u)
    BY <1>0, <1>3 DEF ReadChunk, ReadAt, CasAt, CountUsed, OutOfMemory, CountAllocated, Malloc,
                      Building, TypeOK, Idle
  <2>2. \A u \in Threads : Building(u) => chain'[u] = chain[u]
    BY <1>0, <1>3 DEF ReadChunk, ReadAt, CasAt, CountUsed, OutOfMemory, CountAllocated, Malloc,
                      Building, TypeOK
  <2>3. Published' = Published
    BY <2>1, <2>2 DEF Published, Private
  <2>4. \A c \in Bases : /\ chunk'[c].next_chunk = chunk[c].next_chunk
                         /\ chunk'[c].chunk_size = chunk[c].chunk_size
    BY <1>0, <1>3 DEF ReadChunk, ReadAt, CasAt, CountUsed, OutOfMemory, CountAllocated, Malloc,
                      TypeOK, ChunkType
  <2> QED
    BY <1>0, <2>1, <2>3, <2>4 DEF Published, TypeOK
<1> QED
  BY <1>1, <1>2, <1>3

\* A chunk is pushed, or the loser of the race gives its own back.
LEMMA CasChunkSteps ==
  ASSUME PoolInv, NEW t \in Threads, CasChunk(t)
  PROVE  /\ chain[t] \in live \ Published
         /\ \/ /\ current_chunk = chunk[chain[t]].next_chunk
               /\ current_chunk' = chain[t] /\ chunk' = chunk
               /\ Published' = Published \cup {chain[t]}
            \/ /\ current_chunk' = current_chunk
               /\ Published' = Published
               /\ \A c \in Published : chunk'[c] = chunk[c]
<1>0. TypeOK /\ Ownership /\ pc[t] = "cas_chunk" /\ Building(t)
  BY DEF PoolInv, CasChunk, Building
<1>1. chain[t] \in live /\ Private(chain[t]) /\ chain[t] \notin Published
  BY <1>0 DEF Ownership, Private, Published
<1>2. CASE current_chunk = chunk[chain[t]].next_chunk
  <2>1. /\ current_chunk' = chain[t] /\ UNCHANGED << live, chain, chunk >>
        /\ pc' = [pc EXCEPT ![t] = "count_allocated"]
    BY <1>2 DEF CasChunk
  <2>2. ~Building(t)' /\ \A u \in Threads : u # t => (Building(u)' <=> Building(u))
    BY <1>0, <2>1 DEF Building, TypeOK
  <2>3. \A c \in live : Private(c)' <=> Private(c) /\ c # chain[t]
    BY <1>0, <2>1, <2>2 DEF Private, Ownership
  <2>4. Published' = Published \cup {chain[t]}
    BY <1>1, <2>1, <2>3 DEF Published
  <2> QED
    BY <1>1, <1>2, <2>1, <2>4
<1>3. CASE current_chunk # chunk[chain[t]].next_chunk
  <2>1. /\ live' = live \ {chain[t]} /\ chunk' = [chunk EXCEPT ![chain[t]] = Blank]
        /\ chain' = [chain EXCEPT ![t] = NULL] /\ pc' = [pc EXCEPT ![t] = "read_chunk"]
        /\ UNCHANGED current_chunk
    BY <1>3 DEF CasChunk
  <2>2. /\ ~Building(t)'
        /\ \A u \in Threads : u # t => (Building(u)' <=> Building(u)) /\ chain'[u] = chain[u]
    BY <1>0, <2>1 DEF Building, TypeOK
  <2>3. \A c \in live' : Private(c)' <=> Private(c)
    BY <1>0, <2>1, <2>2 DEF Private
  <2>4. Published' = Published
    BY <1>1, <2>1, <2>3 DEF Published
  <2> QED
    BY <1>0, <1>1, <2>1, <2>4 DEF Published, TypeOK
<1> QED
  BY <1>2, <1>3

\* With no call in progress the list holds every chunk.
LEMMA ChainIsLive ==
  ASSUME PoolInv, ListInv, AllIdle
  PROVE  Published = live /\ Chain = live
<1>1. Published = live
  BY DEF AllIdle, Idle, Published, Private, Building
<1>2. CASE current_chunk = NULL
  BY <1>1, <1>2 DEF ListInv, Chain
<1>3. CASE current_chunk # NULL
  <2> DEFINE Least(S) == /\ current_chunk \in S /\ Closed(S)
                         /\ \A R \in SUBSET S : current_chunk \in R /\ Closed(R) => R = S
  <2>1. Least(live)
    BY <1>1, <1>3 DEF ListInv
  <2>2. \A S \in SUBSET live : Least(S) => S = live
    BY <1>1 DEF ListInv
  <2>3. Chain = CHOOSE S \in SUBSET live : Least(S)
    BY <1>3 DEF Chain, Closed
  <2> HIDE DEF Least
  <2> QED
    BY <1>1, <2>1, <2>2, <2>3
<1> QED
  BY <1>2, <1>3

\* Every step keeps the list.
LEMMA ListStep ==
  ASSUME PoolInv, ListInv, [Next]_vars
  PROVE  ListInv'
<1>0. /\ TypeOK /\ current_chunk \in Bases \cup {NULL} /\ NULL \notin Bases
      /\ Published \subseteq Bases
  BY PoolAssumption DEF PoolInv, TypeOK, Published
<1>1. CASE /\ Published' = Published /\ current_chunk' = current_chunk
           /\ \A c \in Published : chunk'[c].next_chunk = chunk[c].next_chunk
  <2>1. \A R \in SUBSET Published : Closed(R)' <=> Closed(R)
    BY <1>1 DEF Closed
  <2> QED
    BY <1>1, <2>1 DEF ListInv
<1>2. ASSUME NEW t \in Threads, CasChunk(t)
      PROVE  ListInv'
  <2> DEFINE b == chain[t]
  <2>0. b \in live \ Published /\ b \in Bases
    BY <1>0, <1>2, CasChunkSteps DEF TypeOK
  <2>1. CASE /\ current_chunk = chunk[b].next_chunk
             /\ current_chunk' = b /\ chunk' = chunk
             /\ Published' = Published \cup {b}
    <3> HIDE DEF b
    <3>1. current_chunk' # NULL /\ current_chunk' \in Published'
      BY <1>0, <2>0, <2>1
    <3>2. chunk[b].next_chunk \in Published \cup {NULL}
      BY <2>1 DEF ListInv
    <3>3. Closed(Published)'
      BY <2>1, <3>2 DEF ListInv, Closed
    <3>4. ASSUME NEW R \in SUBSET (Published \cup {b}), b \in R, Closed(R)
          PROVE  R = Published \cup {b}
      <4> DEFINE S == R \ {b}
      <4>1. S \in SUBSET Published
        OBVIOUS
      <4>2. \A c \in S : chunk[c].next_chunk # b
        BY <1>0, <2>0, <4>1 DEF ListInv, Closed
      <4>3. Closed(S)
        BY <3>4, <4>2 DEF Closed
      <4>4. CASE current_chunk = NULL
        BY <3>4, <4>4 DEF ListInv
      <4>5. CASE current_chunk # NULL
        <5>1. current_chunk \in R /\ current_chunk # b
          BY <2>0, <2>1, <3>4, <4>5 DEF Closed, ListInv
        <5>2. S = Published
          BY <4>1, <4>3, <5>1 DEF ListInv
        <5> QED
          BY <3>4, <5>2
      <4> QED
        BY <4>4, <4>5
    <3>5. \A R \in SUBSET Published' : current_chunk' \in R /\ Closed(R)' => R = Published'
      BY <2>1, <3>4 DEF Closed
    <3> QED
      BY <3>1, <3>3, <3>5 DEF ListInv
  <2>2. CASE /\ current_chunk' = current_chunk /\ Published' = Published
             /\ \A c \in Published : chunk'[c] = chunk[c]
    BY <1>1, <2>2
  <2> QED
    BY <1>2, <2>1, <2>2, CasChunkSteps
<1>3. CASE Rewind
  <2>1. Chain = live
    BY <1>3, ChainIsLive DEF Rewind
  <2>2. live' = {} /\ current_chunk' = NULL
    BY <1>3, <2>1 DEF Rewind
  <2>3. Published' = {}
    BY <2>2 DEF Published
  <2> QED
    BY <1>0, <2>2, <2>3 DEF ListInv, Closed
<1>4. CASE UNCHANGED vars
  <2>1. Published' = Published
    BY <1>4 DEF vars, Published, Private, Building
  <2> QED
    BY <1>1, <1>4, <2>1 DEF vars
<1> QED
  BY <1>1, <1>2, <1>3, <1>4, QuietSteps DEF Next, Step

\* The sizes of chunks and requests are naturals.
LEMMA SizesTyped ==
  ASSUME PoolInv
  PROVE  /\ \A c \in Published : ChunkSizes[c] \in Nat /\ ChunkSizes[c] = chunk[c].chunk_size
         /\ \A t \in Threads : Requests[t] \in Nat /\ Requests[t] = Request(t)
         /\ \A t \in Threads : Lengths[t] \in Nat /\ Lengths[t] = arg[t].bytes
         /\ Published \subseteq Bases
<1>1. TypeOK
  BY DEF PoolInv
<1>2. Published \subseteq Bases
  BY <1>1 DEF TypeOK, Published
<1>3. \A c \in Bases : chunk[c].chunk_size \in Nat
  BY <1>1 DEF TypeOK, ChunkType
<1>4. \A t \in Threads : arg[t].bytes \in Nat
  BY <1>1 DEF TypeOK
<1>5. \A t \in Threads : Request(t) \in Nat
  BY <1>4, PoolAssumption DEF Request
<1> QED
  BY <1>2, <1>3, <1>4, <1>5 DEF ChunkSizes, Requests, Lengths

\* The sums of a step that changes neither what is published nor what is counted.
LEMMA SumsStay ==
  ASSUME PoolInv, PoolInv', AllocatedInv, Published' = Published, Counting' = Counting,
         \A c \in Published : chunk'[c].chunk_size = chunk[c].chunk_size,
         \A t \in Counting : Request(t)' = Request(t)
  PROVE  /\ SumFunctionOnSet(Requests, Counting)' = SumFunctionOnSet(Requests, Counting)
         /\ SumFunctionOnSet(ChunkSizes, Published)' = SumFunctionOnSet(ChunkSizes, Published)
<1>1. IsFiniteSet(Published) /\ IsFiniteSet(Counting) /\ Counting \subseteq Threads
  BY DEF AllocatedInv, Counting
<1>2. \A c \in Published : ChunkSizes'[c] = ChunkSizes[c]
  BY SizesTyped DEF ChunkSizes
<1>3. \A t \in Counting : Requests'[t] = Requests[t]
  BY <1>1, SizesTyped DEF Requests
<1>4. SumFunctionOnSet(ChunkSizes', Published) = SumFunctionOnSet(ChunkSizes, Published)
  BY <1>1, <1>2, SumSame
<1>5. SumFunctionOnSet(Requests', Counting) = SumFunctionOnSet(Requests, Counting)
  BY <1>1, <1>3, SumSame
<1> QED
  BY <1>4, <1>5

\* Whatever the other threads do, it stays so.
LEMMA BuiltStep ==
  ASSUME PoolInv, BuiltToSize, [Next]_vars
  PROVE  BuiltToSize'
<1>0. TypeOK /\ Ownership
  BY DEF PoolInv
<1>1. ASSUME NEW t \in Threads, Alloc(t)
      PROVE  BuiltToSize'
  <2>1. PICK base \in Bases :
          /\ base \notin live /\ chain' = [chain EXCEPT ![t] = base]
          /\ chunk' = [chunk EXCEPT ![base] =
                         [chunk_at |-> base + Header, chunk_end |-> base + Request(t),
                          next_chunk |-> NULL, chunk_size |-> Request(t)]]
    BY <1>1 DEF Alloc, FreeFor
  <2>2. pc' = [pc EXCEPT ![t] = "load_next"] /\ arg' = arg
    BY <1>1 DEF Alloc
  <2>3. \A u \in Threads : Request(u)' = Request(u)
    BY <2>2 DEF Request
  <2>4. chunk'[base].chunk_size = Request(t) /\ chain'[t] = base
    BY <1>0, <2>1 DEF TypeOK
  <2>5. ASSUME NEW u \in Threads, u # t, Building(u)'
        PROVE  chunk'[chain'[u]].chunk_size = Request(u)
    <3>1. Building(u) /\ chain'[u] = chain[u]
      BY <1>0, <2>1, <2>2, <2>5 DEF Building, TypeOK
    <3>2. chain[u] \in live
      BY <1>0, <3>1 DEF Ownership
    <3>3. chunk'[chain[u]] = chunk[chain[u]]
      BY <1>0, <2>1, <3>2 DEF TypeOK
    <3> QED
      BY <3>1, <3>3 DEF BuiltToSize
  <2> QED
    BY <2>3, <2>4, <2>5 DEF BuiltToSize
<1>2. ASSUME NEW t \in Threads, CasChunk(t)
      PROVE  BuiltToSize'
  <2>1. /\ pc[t] = "cas_chunk" /\ arg' = arg
        /\ pc' = [pc EXCEPT ![t] = "count_allocated"] \/ pc' = [pc EXCEPT ![t] = "read_chunk"]
        /\ chunk' = chunk \/ chunk' = [chunk EXCEPT ![chain[t]] = Blank]
        /\ chain' = chain \/ chain' = [chain EXCEPT ![t] = NULL]
    BY <1>2 DEF CasChunk
  <2>2. ASSUME NEW u \in Threads, Building(u)'
        PROVE  chunk'[chain'[u]].chunk_size = Request(u)
    <3>1. u # t /\ Building(u) /\ Building(t) /\ chain'[u] = chain[u]
      BY <1>0, <2>1, <2>2 DEF Building, TypeOK
    <3>2. chain[u] # chain[t] /\ chain[u] \in live
      BY <1>0, <3>1 DEF Ownership
    <3>3. chunk'[chain[u]] = chunk[chain[u]]
      BY <1>0, <2>1, <3>2 DEF TypeOK
    <3> QED
      BY <3>1, <3>3 DEF BuiltToSize
  <2>3. \A u \in Threads : Request(u)' = Request(u)
    BY <2>1 DEF Request
  <2> QED
    BY <2>2, <2>3 DEF BuiltToSize
<1>3. ASSUME NEW t \in Threads,
             \/ ReadChunk(t) \/ ReadAt(t) \/ CasAt(t) \/ CountUsed(t)
             \/ OutOfMemory(t) \/ LoadNext(t) \/ CountAllocated(t)
             \/ \E bytes \in Sizes, alignment \in Alignments : Malloc(t, bytes, alignment)
      PROVE  BuiltToSize'
  <2>1. \A u \in Threads : Building(u)' => Building(u) /\ chain'[u] = chain[u] /\ arg'[u] = arg[u]
    BY <1>0, <1>3 DEF ReadChunk, ReadAt, CasAt, CountUsed, OutOfMemory, LoadNext,
                      CountAllocated, Malloc, Building, TypeOK, Idle
  <2>2. \A c \in Bases : chunk'[c].chunk_size = chunk[c].chunk_size
    BY <1>0, <1>3 DEF ReadChunk, ReadAt, CasAt, CountUsed, OutOfMemory, LoadNext,
                      CountAllocated, Malloc, TypeOK, ChunkType
  <2>3. \A u \in Threads : Building(u) => chain[u] \in Bases
    BY <1>0 DEF Ownership, TypeOK
  <2> QED
    BY <2>1, <2>2, <2>3 DEF BuiltToSize, Request
<1>4. CASE Rewind
  BY <1>4 DEF Rewind, AllIdle, Idle, Building, BuiltToSize
<1>5. CASE UNCHANGED vars
  BY <1>5 DEF vars, Building, BuiltToSize, Request
<1> QED
  BY <1>1, <1>2, <1>3, <1>4, <1>5 DEF Next, Step

\* Every step keeps the account of the chunks.
LEMMA AllocatedStep ==
  ASSUME PoolInv, PoolInv', ListInv, AllocatedInv, [Next]_vars
  PROVE  AllocatedInv'
<1>0. /\ TypeOK /\ BuiltToSize' /\ Counting \subseteq Threads
      /\ IsFiniteSet(Published) /\ IsFiniteSet(Counting)
  BY BuiltStep DEF PoolInv, AllocatedInv, Counting
<1>1. /\ \A c \in Published : ChunkSizes[c] \in Int
      /\ \A t \in Counting : Requests[t] \in Int
      /\ SumFunctionOnSet(Requests, Counting) \in Int
      /\ SumFunctionOnSet(ChunkSizes, Published) \in Int
      /\ allocated \in Int
      /\ allocated + SumFunctionOnSet(Requests, Counting)
           = SumFunctionOnSet(ChunkSizes, Published)
  <2>1. /\ \A c \in Published : ChunkSizes[c] \in Int
        /\ \A t \in Counting : Requests[t] \in Int
    BY <1>0, SizesTyped
  <2>2. /\ SumFunctionOnSet(Requests, Counting) \in Int
        /\ SumFunctionOnSet(ChunkSizes, Published) \in Int
    BY <1>0, <2>1, SumType
  <2> QED
    BY <1>0, <2>1, <2>2 DEF AllocatedInv, TypeOK
<1>2. CASE /\ Published' = Published /\ Counting' = Counting /\ allocated' = allocated
           /\ \A c \in Published : chunk'[c].chunk_size = chunk[c].chunk_size
           /\ \A t \in Counting : Request(t)' = Request(t)
  BY <1>0, <1>1, <1>2, SumsStay DEF AllocatedInv
<1>3. ASSUME NEW t \in Threads,
             \/ ReadChunk(t) \/ ReadAt(t) \/ CasAt(t) \/ CountUsed(t) \/ Alloc(t)
             \/ OutOfMemory(t) \/ LoadNext(t)
             \/ \E bytes \in Sizes, alignment \in Alignments : Malloc(t, bytes, alignment)
      PROVE  AllocatedInv'
  <2>1. allocated' = allocated /\ Counting' = Counting
    BY <1>0, <1>3 DEF ReadChunk, ReadAt, CasAt, CountUsed, Alloc, OutOfMemory, LoadNext, Malloc,
                      TypeOK, Counting, Idle
  <2>2. \A u \in Counting : arg'[u] = arg[u]
    BY <1>0, <1>3 DEF ReadChunk, ReadAt, CasAt, CountUsed, Alloc, OutOfMemory, LoadNext, Malloc,
                      TypeOK, Counting, Idle
  <2> QED
    BY <1>2, <1>3, <2>1, <2>2, QuietSteps DEF Request
<1>4. ASSUME NEW t \in Threads, CountAllocated(t)
      PROVE  AllocatedInv'
  <2>1. t \in Counting /\ Counting' = Counting \ {t} /\ allocated' = allocated + Request(t)
    BY <1>0, <1>4 DEF CountAllocated, Counting, TypeOK
  <2>2. Requests' = Requests /\ ChunkSizes' = ChunkSizes /\ Published' = Published
    BY <1>4, QuietSteps DEF CountAllocated, Requests, Request, ChunkSizes
  <2>3. SumFunctionOnSet(Requests, Counting)
          = Requests[t] + SumFunctionOnSet(Requests, Counting \ {t})
    BY <1>0, <1>1, <2>1, SumRemove
  <2>4. IsFiniteSet(Counting \ {t}) /\ Requests[t] = Request(t) /\ Requests[t] \in Int
    BY <1>0, <1>1, <2>1, FS_RemoveElement, SizesTyped
  <2>5. SumFunctionOnSet(Requests, Counting \ {t}) \in Int
    BY <1>1, <2>4, SumType
  <2> QED
    BY <1>0, <1>1, <2>1, <2>2, <2>3, <2>4, <2>5 DEF AllocatedInv
<1>5. ASSUME NEW t \in Threads, CasChunk(t)
      PROVE  AllocatedInv'
  <2>0. /\ t \notin Counting /\ Building(t) /\ UNCHANGED << arg, allocated >>
        /\ chain[t] \in live \ Published /\ chain[t] \in Bases
    BY <1>0, <1>5, CasChunkSteps DEF CasChunk, Counting, Building, TypeOK
  <2>1. \A u \in Threads : Request(u)' = Request(u)
    BY <2>0 DEF Request
  <2>2. CASE current_chunk = chunk[chain[t]].next_chunk
    <3>0. pc' = [pc EXCEPT ![t] = "count_allocated"] /\ chunk' = chunk /\ live' = live
      BY <1>5, <2>2 DEF CasChunk
    <3>1. Counting' = Counting \cup {t}
      BY <1>0, <3>0 DEF Counting, TypeOK
    <3>2. Published' = Published \cup {chain[t]}
      <4>1. CASE Published' = Published \cup {chain[t]}
        BY <4>1
      <4>2. CASE current_chunk' = current_chunk
        <5>1. current_chunk' = chain[t]
          BY <1>5, <2>2 DEF CasChunk
        <5>2. current_chunk = chain[t] /\ Private(chain[t]) /\ current_chunk # NULL
          BY <2>0, <4>2, <5>1, PoolAssumption DEF Private
        <5> QED
          BY <5>2 DEF PoolInv, Ownership
      <4> QED
        BY <1>5, <4>1, <4>2, CasChunkSteps
    <3>3. Requests' = Requests /\ ChunkSizes' = ChunkSizes
      BY <2>1, <3>0 DEF Requests, ChunkSizes
    <3>4. /\ Requests[t] \in Int /\ ChunkSizes[chain[t]] = Requests[t]
      BY <2>0, SizesTyped DEF AllocatedInv, BuiltToSize, ChunkSizes
    <3>5. SumFunctionOnSet(Requests, Counting \cup {t})
            = Requests[t] + SumFunctionOnSet(Requests, Counting)
      BY <1>0, <1>1, <2>0, <3>4, SumAdd
    <3>6. SumFunctionOnSet(ChunkSizes, Published \cup {chain[t]})
            = ChunkSizes[chain[t]] + SumFunctionOnSet(ChunkSizes, Published)
      BY <1>0, <1>1, <2>0, <3>4, SumAdd
    <3>7. IsFiniteSet(Counting \cup {t}) /\ IsFiniteSet(Published \cup {chain[t]})
      BY <1>0, FS_AddElement
    <3> QED
      BY <1>0, <1>1, <2>0, <3>1, <3>2, <3>3, <3>4, <3>5, <3>6, <3>7 DEF AllocatedInv
  <2>3. CASE current_chunk # chunk[chain[t]].next_chunk
    <3>0. pc' = [pc EXCEPT ![t] = "read_chunk"]
      BY <1>5, <2>3 DEF CasChunk
    <3>1. Counting' = Counting
      BY <1>0, <2>0, <3>0 DEF Counting, TypeOK
    <3> QED
      BY <1>2, <1>5, <2>0, <2>1, <2>3, <3>1, CasChunkSteps DEF Counting
  <2> QED
    BY <2>2, <2>3
<1>6. CASE Rewind
  <2>1. live' = {} /\ allocated' = 0
    BY <1>6, ChainIsLive DEF Rewind
  <2>2. Published' = {} /\ Counting' = {}
    BY <1>6, <2>1 DEF Rewind, Published, AllIdle, Idle, Counting
  <2> QED
    BY <1>0, <2>1, <2>2, SumEmpty, FS_EmptySet DEF AllocatedInv
<1>7. CASE UNCHANGED vars
  BY <1>2, <1>7 DEF vars, Published, Private, Building, Counting, Request
<1> QED
  BY <1>3, <1>4, <1>5, <1>6, <1>7 DEF Next, Step

\* A block that is handed out again, byte for byte, has no bytes.
LEMMA RepeatedBlockIsEmpty ==
  ASSUME PoolInv, NEW t \in Threads, pc[t] = "cas_at",
         chunk[top_chunk[t]].chunk_at = top_of_stack[t],
         [start |-> NewTop(t) - arg[t].bytes, bytes |-> arg[t].bytes,
          alignment |-> arg[t].alignment, in |-> top_chunk[t]] \in blocks
  PROVE  arg[t].bytes = 0
<1>1. /\ arg[t].bytes \in Nat /\ arg[t].alignment \in Nat \ {0} /\ top_of_stack[t] \in Nat
  BY DEF PoolInv, TypeOK
<1>2. Padding(top_of_stack[t], arg[t].alignment) \in Nat
  BY <1>1, PaddingAligns
<1>3. (NewTop(t) - arg[t].bytes) + arg[t].bytes <= top_of_stack[t]
  BY DEF PoolInv, BlocksBelow
<1> QED
  BY <1>1, <1>2, <1>3 DEF NewTop

\* Every step keeps the account of the blocks.
LEMMA UsedStep ==
  ASSUME PoolInv, PoolInv', UsedInv, [Next]_vars
  PROVE  UsedInv'
<1>0. /\ TypeOK /\ Using \subseteq Threads /\ IsFiniteSet(Using) /\ IsFiniteSet(blocks)
      /\ blocks \subseteq BlockType
  BY DEF PoolInv, UsedInv, Using, TypeOK
<1>1. /\ \A t \in Threads : Lengths[t] \in Int /\ Lengths[t] = arg[t].bytes
      /\ \A b \in BlockType : b.bytes \in Int
      /\ SumFunctionOnSet(Lengths, Using) \in Int
      /\ SumFunctionOnSet(Bytes(blocks), blocks) \in Int
      /\ used \in Int
      /\ used + SumFunctionOnSet(Lengths, Using) = SumFunctionOnSet(Bytes(blocks), blocks)
  <2>1. \A t \in Threads : Lengths[t] \in Int /\ Lengths[t] = arg[t].bytes
    BY SizesTyped
  <2>2. \A b \in BlockType : b.bytes \in Int
    BY DEF BlockType
  <2>3. SumFunctionOnSet(Lengths, Using) \in Int
    BY <1>0, <2>1, SumType
  <2>4. SumFunctionOnSet(Bytes(blocks), blocks) \in Int
    <3>1. \A b \in blocks : Bytes(blocks)[b] \in Int
      BY <1>0, <2>2 DEF Bytes
    <3> QED
      BY <1>0, <3>1, SumType
  <2> QED
    BY <1>0, <2>1, <2>2, <2>3, <2>4 DEF UsedInv, TypeOK
<1>2. CASE /\ used' = used /\ blocks' = blocks /\ Using' = Using
           /\ \A t \in Using : arg'[t] = arg[t]
  <2>1. \A t \in Using : Lengths'[t] = Lengths[t]
    BY <1>0, <1>2 DEF Lengths
  <2>2. SumFunctionOnSet(Lengths', Using) = SumFunctionOnSet(Lengths, Using)
    BY <1>0, <2>1, SumSame
  <2> QED
    BY <1>0, <1>1, <1>2, <2>2 DEF UsedInv
<1>3. ASSUME NEW t \in Threads,
             \/ ReadChunk(t) \/ ReadAt(t) \/ Alloc(t) \/ OutOfMemory(t) \/ LoadNext(t)
             \/ CasChunk(t) \/ CountAllocated(t)
             \/ \E bytes \in Sizes, alignment \in Alignments : Malloc(t, bytes, alignment)
      PROVE  UsedInv'
  <2>1. used' = used /\ blocks' = blocks /\ Using' = Using
    BY <1>0, <1>3 DEF ReadChunk, ReadAt, CasChunk, CountAllocated, Alloc, OutOfMemory, LoadNext,
                      Malloc, TypeOK, Using, Idle
  <2>2. \A u \in Using : arg'[u] = arg[u]
    BY <1>0, <1>3 DEF ReadChunk, ReadAt, CasChunk, CountAllocated, Alloc, OutOfMemory, LoadNext,
                      Malloc, TypeOK, Using, Idle
  <2> QED
    BY <1>2, <2>1, <2>2
<1>4. ASSUME NEW t \in Threads, CountUsed(t)
      PROVE  UsedInv'
  <2>1. t \in Using /\ Using' = Using \ {t} /\ used' = used + arg[t].bytes /\ blocks' = blocks
    BY <1>0, <1>4 DEF CountUsed, Using, TypeOK, Idle
  <2>2. \A u \in Using \ {t} : Lengths'[u] = Lengths[u]
    BY <1>0, <1>4 DEF CountUsed, Lengths, TypeOK
  <2>3. SumFunctionOnSet(Lengths, Using) = Lengths[t] + SumFunctionOnSet(Lengths, Using \ {t})
    BY <1>0, <1>1, <2>1, SumRemove
  <2>4. IsFiniteSet(Using \ {t})
    BY <1>0, FS_RemoveElement
  <2>5. /\ SumFunctionOnSet(Lengths', Using \ {t}) = SumFunctionOnSet(Lengths, Using \ {t})
        /\ SumFunctionOnSet(Lengths, Using \ {t}) \in Int
    BY <1>0, <1>1, <2>2, <2>4, SumSame, SumType
  <2> QED
    BY <1>0, <1>1, <2>1, <2>3, <2>4, <2>5 DEF UsedInv
<1>5. ASSUME NEW t \in Threads, CasAt(t)
      PROVE  UsedInv'
  <2>0. t \notin Using /\ pc[t] = "cas_at" /\ UNCHANGED << arg, used >>
    BY <1>5 DEF CasAt, Using
  <2>1. CASE chunk[top_chunk[t]].chunk_at = top_of_stack[t]
    <3> DEFINE b == [start |-> NewTop(t) - arg[t].bytes, bytes |-> arg[t].bytes,
                     alignment |-> arg[t].alignment, in |-> top_chunk[t]]
    <3>1. blocks' = blocks \cup {b} /\ pc' = [pc EXCEPT ![t] = "count_used"]
      BY <1>5, <2>1 DEF CasAt
    <3>2. Using' = Using \cup {t} /\ Lengths' = Lengths
      BY <1>0, <2>0, <3>1 DEF Using, Lengths, TypeOK
    <3>3. /\ SumFunctionOnSet(Lengths, Using \cup {t})
               = Lengths[t] + SumFunctionOnSet(Lengths, Using)
          /\ IsFiniteSet(Using \cup {t})
      BY <1>0, <1>1, <2>0, SumAdd, FS_AddElement
    <3>4. b.bytes = Lengths[t] /\ Lengths[t] \in Int
      BY <1>1
    <3>5. b \in blocks => Lengths[t] = 0
      BY <1>1, <2>0, <2>1, RepeatedBlockIsEmpty
    <3> HIDE DEF b
    <3>6. CASE b \in blocks
      <4>1. blocks' = blocks
        BY <3>1, <3>6
      <4> QED
        BY <1>0, <1>1, <2>0, <3>2, <3>3, <3>5, <3>6, <4>1 DEF UsedInv
    <3>7. CASE b \notin blocks
      <4> DEFINE f == Bytes(blocks \cup {b})
      <4>1. \A c \in blocks \cup {b} : f[c] = c.bytes /\ f[c] \in Int
        BY <1>0, <1>1, <3>4 DEF Bytes
      <4>2. SumFunctionOnSet(f, blocks \cup {b}) = f[b] + SumFunctionOnSet(f, blocks)
        <5> HIDE DEF f
        <5> QED
          BY <1>0, <3>7, <4>1, SumAdd
      <4>3. \A c \in blocks : f[c] = Bytes(blocks)[c]
        BY <4>1 DEF Bytes
      <4>4. SumFunctionOnSet(f, blocks) = SumFunctionOnSet(Bytes(blocks), blocks)
        <5> HIDE DEF f
        <5> QED
          BY <1>0, <4>3, SumSame
      <4>5. IsFiniteSet(blocks \cup {b})
        BY <1>0, FS_AddElement
      <4>6. f[b] = Lengths[t]
        BY <3>4, <4>1
      <4>7. SumFunctionOnSet(Bytes(blocks), blocks)' = Lengths[t] + SumFunctionOnSet(Bytes(blocks), blocks)
        BY <3>1, <4>2, <4>4, <4>6 DEF Bytes
      <4> QED
        BY <1>0, <1>1, <2>0, <3>1, <3>2, <3>3, <3>4, <4>5, <4>7 DEF UsedInv
    <3> QED
      BY <3>6, <3>7
  <2>2. CASE chunk[top_chunk[t]].chunk_at # top_of_stack[t]
    <3>1. blocks' = blocks /\ pc' = [pc EXCEPT ![t] = "read_chunk"]
      BY <1>5, <2>2 DEF CasAt
    <3>2. Using' = Using
      BY <1>0, <2>0, <3>1 DEF Using, TypeOK
    <3> QED
      BY <1>2, <2>0, <3>1, <3>2
  <2> QED
    BY <2>1, <2>2
<1>6. CASE Rewind
  <2>1. used' = 0 /\ blocks' = {} /\ Using' = {}
    BY <1>6 DEF Rewind, AllIdle, Idle, Using
  <2> QED
    BY <2>1, SumEmpty, FS_EmptySet DEF UsedInv
<1>7. CASE UNCHANGED vars
  BY <1>2, <1>7 DEF vars, Using
<1> QED
  BY <1>3, <1>4, <1>5, <1>6, <1>7 DEF Next, Step

\* For any number of threads and any interleaving of their pushes and lost races: when no
\* call is in progress rewind() can reach every chunk the C runtime gave out, capacity()
\* is what those chunks measure and size() is what the callers asked for.
THEOREM PoolLosesNothing == Spec => []NothingLost
<1> DEFINE Accounts == ListInv /\ AllocatedInv /\ UsedInv
<1>1. Init => Accounts
  <2> SUFFICES ASSUME Init PROVE Accounts
    OBVIOUS
  <2>1. Published = {} /\ Counting = {} /\ Using = {} /\ blocks = {}
    BY DEF Init, Published, Counting, Using, Idle
  <2>2. ListInv
    BY <2>1, PoolAssumption DEF Init, ListInv, Closed
  <2>3. BuiltToSize
    BY DEF Init, BuiltToSize, Building, Idle
  <2>4. AllocatedInv
    BY <2>1, <2>3, SumEmpty, FS_EmptySet DEF Init, AllocatedInv
  <2>5. UsedInv
    BY <2>1, SumEmpty, FS_EmptySet DEF Init, UsedInv
  <2> QED
    BY <2>2, <2>4, <2>5
<1>2. PoolInv /\ PoolInv' /\ Accounts /\ [Next]_vars => Accounts'
  BY ListStep, AllocatedStep, UsedStep
<1>3. PoolInv /\ Accounts => NothingLost
  <2> SUFFICES ASSUME PoolInv, ListInv, AllocatedInv, UsedInv, AllIdle
               PROVE  /\ live = Chain
                      /\ allocated = SumFunction([c \in live |-> chunk[c].chunk_size])
                      /\ used = SumFunction([b \in blocks |-> b.bytes])
    BY DEF NothingLost
  <2>1. Published = live /\ Chain = live
    BY ChainIsLive
  <2>2. Counting = {} /\ Using = {}
    BY DEF AllIdle, Idle, Counting, Using
  <2>3. SumFunctionOnSet(Requests, Counting) = 0 /\ SumFunctionOnSet(Lengths, Using) = 0
    BY <2>2, SumEmpty
  <2>4. allocated \in Nat /\ used \in Nat
    BY DEF PoolInv, TypeOK
  <2>5. allocated = SumFunctionOnSet(ChunkSizes, live)
    BY <2>1, <2>3, <2>4 DEF AllocatedInv
  <2>6. used = SumFunctionOnSet(Bytes(blocks), blocks)
    BY <2>3, <2>4 DEF UsedInv
  <2> DEFINE sizes == [c \in live |-> chunk[c].chunk_size]
  <2>7. \A c \in live : sizes[c] = ChunkSizes[c]
    BY <2>1, SizesTyped
  <2>8. DOMAIN sizes = live /\ IsFiniteSet(live)
    BY <2>1 DEF AllocatedInv
  <2>9. SumFunction(sizes) = SumFunctionOnSet(ChunkSizes, live)
    <3> HIDE DEF sizes
    <3> QED
      BY <2>7, <2>8, SumSame DEF SumFunction
  <2>10. SumFunction(Bytes(blocks)) = SumFunctionOnSet(Bytes(blocks), blocks)
    BY DEF SumFunction, Bytes
  <2> QED
    BY <2>1, <2>5, <2>6, <2>9, <2>10 DEF Bytes
<1> HIDE DEF Accounts
<1> QED
  BY <1>1, <1>2, <1>3, PoolAlways, PTL DEF Spec
=============================================================================
