# JASSv2: models, checks and proofs

JASSv2 is a search engine that resolves queries Score-at-a-Time and "anytime": it processes
impact-ordered segments of postings, best first, until it has used up a budget. This directory
holds TLA+ modules of the engine, of the indexer that makes its files and of the codecs, the
configurations that TLC checks them with, and theorems about them that TLAPS has checked. Every
definition is a translation of code under `src/`; `PROJECT.json` says of which lines.

The default build is what is modelled: `query_heap_clean` as the query object, `accumulator_2d`
for the accumulators, `uint8_t` accumulators, JASS index version 1 and 2.

## 1. Inventory

| part | state | operations | what makes it hard |
|---|---|---|---|
| `allocator_pool` | list of chunks, bump pointer in each | `malloc`, `add_chunk`, `rewind` | lock-free: two compare-and-swap loops; addresses that come back after `dealloc` |
| `accumulator_2d` | table of scores, one dirty flag a row | `init`, `get_value`, `operator[]` (scalar, SIMD), `rewind` | rows are cleared when first touched; partial last row; lanes that share a row |
| `accumulator_counter`, `..._interleaved` | scores with a query number each | the same, `get_index` | query numbers run out; two flags in a byte; flags between the scores |
| `heap`, `pointer_box` | array of pointers | `make_heap`, `push_back`, `find`, `promote` | elements are changed through the pointers before the heap is told |
| `query_heap_clean` | accumulators, heap, lower bound | `rewind`, `add_rsv`, `top_up`, `sort` | whether a document is in the heap is inferred and never stored |
| `JASS_anytime_api::anytime()` | segments, budget, oracle score | the loop over the segments | scaling into 8 bits, early termination, budget, oracle |
| `JASS_anytime_api::search()` | flags of the queries, shared maps | threads that take queries | compare-and-swap on the flags; maps and a budget without a lock |
| `JASS_anytime_api` as a session | index, settings, query objects | load, set, search | error paths, exceptions half way |
| `hash_table`, `binary_tree`, `dynamic_array` | slots, links, chunks | `operator[]`, `push_back`, iterators | lock-free: compare-and-swaps whose losers go on; a counter that overshoots; iterators beside them |
| index manager, postings, quantiser | the index in memory | begin a document, add a term or a list, iterate | two passes; a counting sort; buffers sized in advance |
| serialisers and deserialisers, v1 and v2 | index files | write, read back | offsets written ahead of what they point to, alignment, integers of varying length |
| integer codecs | none | encode, decode | block boundaries, selectors, large values |
| document streams | a buffer over a file | next document | documents and tags that straddle two reads |
| parsers, channels | buffers | next token, write | |
| other top-k strategies | | as `query_heap_clean` | |
| evaluation, tools, command line, text output | | | formulas, input and output |

How they interact: `JASS_anytime` configures a session, loads an index, and searches. A search
starts threads; each takes queries from one list and resolves them with a query object of its own,
which has accumulators and a heap of pointers into them. The indexer takes its memory from
`allocator_pool`, keeps its terms in a `hash_table` and its postings in `dynamic_array`s, and writes
the files that `deserialised_jass_v*` maps into memory, the postings compressed by a codec.

## 2. Modules

| module | models | kind |
|---|---|---|
| `AllocatorPool` | `allocator_pool.{h,cpp}` | one action for each access to shared memory |
| `AccumulatorArray` | what an accumulator class promises: an array of zeros written through references | abstract specification |
| `Accumulator2D` | `accumulator_2d.h` | implements `AccumulatorArray` |
| `AccumulatorCounter`, `AccumulatorCounterInterleaved` | the two counter classes | implement `AccumulatorArray` |
| `HeapOps` | `heap.h`, `pointer_box.h` | operators; the loops of `heapify` and `insert_from` as recursive operators |
| `QueryHeap` | `query_heap_clean.h` with a set for the heap | abstract specification |
| `QueryHeapClean` | `query_heap_clean.h` with the array of pointers and `HeapOps` | implements `QueryHeap` |
| `AnytimeQuery` | `anytime()` for one query | composes with `QueryHeap` |
| `AnytimeThreads` | `search()` with threads, `JASS_anytime_query`, `JASS_anytime_thread_result`, `top_k_limit` | one action for each access to shared data |
| `AnytimeAPI` | the calls of `JASS_anytime_api` | one action for each call and outcome |
| `Dictionary` | what `hash_table` promises: one element for each key, made once | abstract specification |
| `BinaryTree` | `binary_tree.h` | one action for each access to a link |
| `HashTable` | `hash_table.h` over `BinaryTree` | implements `Dictionary` |
| `DynamicArray` | `dynamic_array.h` | one action for each access to shared memory |
| `IndexPostings` | `index_postings.h` | operators: adding, `linearize()`, `impact_order()` |
| `IndexFile` | what `serialise_jass_v1`, `serialise_jass_v2` and their readers do to a file | operators |
| `InstreamDocument` | `instream_document_trec`, `instream_document_fasta` over `instream_file` | one action for each `read()` |
| `Indexer` | the pipeline of `JASS_index` and `ciff_to_JASS`, from documents to an index that is read | composes the two |
| `Bits` | shifts and masks; an integer is the set of its one bits | operators |
| `SimpleCodecs` | Simple-9, -16, -8b, each greedy and packed, Relative-10, Carryover-12, Nybble-8, Lyck-16, Variable Byte | operators |
| `EliasCodecs` | Elias gamma and delta, gamma SIMD, gamma SIMD VB | operators |
| `Codec` | a caller of `encode()` and `decode()` | one action for each call |

`X` has its proofs in `XProofs` and its instance for TLC in `MCX`; `ArrayProofs` has those of
`Accumulator2D` and `DynamicArray`, `InductionTheorems` what several of them use. Three MC modules hold several
specifications side by side, of which each behaviour uses one: `MCTopK` the heap as a set, as an array
and under a whole query, and the three accumulator classes; `MCContainers` the hash table and the
array; `MCIndexer` the document streams, the indexer and the codecs. A definition whose name is that
of another with something appended (`CasAtBlind`, `rewindStale`, `NextLocationShort`...) is a plausible
mistake in that code. No specification uses it: `PROJECT.json` lists them as mutants, and each makes a property fail that the
code's own definition keeps.

### AllocatorPool

`pc[t]` is the place of thread `t` in `malloc()`. `ReadChunk` loads `current_chunk`, `ReadAt` loads
its `chunk_at` and tests whether the block fits, `CasAt` is the compare-and-swap that takes the
block; it fails if the bump pointer has moved and goes round again. `Alloc`, `LoadNext` and
`CasChunk` are `add_chunk()`: a chunk from the C runtime, its `next_chunk`, and the push of it.
`CountUsed` and `CountAllocated` are the additions to the two statistics, `OutOfMemory` is the
`exit()` of the runtime refusing. `Rewind` frees all chunks while no thread is inside. A chunk is
its address and the runtime may give a freed address out again, so a compare-and-swap may meet an
old pointer value in a new chunk.

### Accumulators

`AccumulatorArray` has for state the scores as a user sees them. `Accumulator2D` has the flags and
the cells, which at the start hold rubbish (`TableInit`). `Cleaned` is `clean_flagset()`; `subscript`
is `operator[]` for one document and `subscript_lanes` for the lanes of a register, of which there
are two in the model. References that `operator[]` returns are written in the same action. `Widths`
is what `floor_log2(sqrt(n))` or the caller's choice can give. The refinement mapping reads a score
through its dirty flag, as `get_value()` does.

In the counter classes a score counts when its flag equals `clean_id`. `rewind()` takes the next
number and, at the last one, resets every flag. Both widths of a flag are in the model
(`COUNTER_BITSIZE`), 4 with two flags in a byte.

### QueryHeap, QueryHeapClean, HeapOps

`QueryHeap` has the documents of the heap as a set, the root, and the lower bound. `add_rsv` is the
whole of `add_rsv()`: `Ignore`, `Fill` (a free place), `Push` (replace the root), `Promote` (already
in the heap). `lost` records that `promote()` was called for a document that is not there. `TopUpStep`
is one document of the loop of `top_up()`. `QueryHeapClean` has the array: filled from its end,
then made a heap, then kept one. `rewind()` resets its first element only; the others keep the
pointers of the last query.

### AnytimeQuery

A query is the impact of each of its terms in each document. `Start` is everything up to the loop:
the segment list, one of the orders that `std::sort` may give, `rewind()` with the oracle's score
converted to `ACCUMULATOR_TYPE`: `oracle % (MAX_RSV + 1)`, so that a score of the table that is too
wide is cut. `NextSegment` is the head of the loop with the budget, `Posting`
one document of `decode_with_writer()`, which the `Done` exception ends, `EndSegment` the early
termination, then `TopUp` and `Finish`. `Impact` is the scaling; where the quotient is a whole
number, the division in doubles may come out just below it, and `rounds_down` is that choice.

### AnytimeThreads

The caller starts threads in turn (`StartThread`), then joins them in turn. A thread looks its data
up (`GetThreadLocalData`, `Inserted`), then goes through the list: `NextQuery` tests a flag, `Take`
is the compare-and-swap, `Oracle` and `TableInserted` are `operator[]` of the oracle table,
`SetBudget` the write of a relative budget, `Segment` one iteration of the loop, `Store` the
`push_back()` of the result. Two threads in one standard container, one of them changing it, is a
`Race`; its outcome is undefined, so the process may end (`Undefined`) or go on.

### AnytimeAPI

One action for each call, with the refusals in the order of the code. `load_index` has the outcomes
of its `try` block, each with what it leaves behind. An entry of `thread_local_data` is nothing, an
initialised object, or `Half`: `segment_order` allocated and `init()` not done, which the next call
takes to be complete. `Misfits` are the widths for which `accumulator_2d::init()` throws. A search has
every outcome that the other two models find for it: it is answered, `get_thread_local_data()` throws
in the caller's thread (`Exception`) or in another (`Terminate`), its threads race (`Race`), or
`promote()` is called for a document outside the heap (`Promotes`), which also happens with
`set_top_k(0)`. `trouble` and `asked` are history: what has gone wrong, and the budget that was set last.

### Dictionary, BinaryTree, HashTable

`at[t]` is the place of thread `t` in `operator[]`. `LoadSlot` loads the slot and makes a tree if it is
empty, `CasSlot` is the compare-and-swap, whose outcome the code ignores, `LoadTree` the second load.
In the tree `Descend` follows a link, `MakeNode` makes a node where there is none, and `Cas` puts it
there or, if another thread was first, goes on at the same link. Links never change once set, so the
several loads of one link in `find_and_add()` are one. The iterator is three actions (`IteratorBegin`,
`IteratorLeft`, `IteratorNext`) and runs while keys are added. `room` is history: which keys a search
that comes to a link may be looking for. A node is its number, and so is the element it holds.

### DynamicArray

`LoadTail`, `TakeSlot` (`used++`), then `Write`, or, for a slot beyond the chunk, `Cap` (`used` is set
back), `Grow`, `CasTail` and `Join`, in the order of `push_back()`. `returned` and `earlier` are
history: which elements were in the array when a call began.

### IndexPostings, IndexFile, Indexer

A list is what `index_postings` holds: the distances between documents, the bytes they take, and the
frequencies. `linearize()` gives an empty list when they do not fit its buffer. A file is a sequence of
writes with their offsets; a read at an offset where nothing begins gives nothing. `write_postings_v1`
and `write_postings_v2` lay out headers, segments and padding with the offsets that the code computes,
and `get_segment_list_v1` and `_v2` follow the offsets they find. The codec is only the length it
gives a segment (`took`), the ranking function is any function (`score`), and a byte has `byte_bits` bits,
so that short distances between documents take one byte and others two. A file is what the last
`flush()` leaves: how `file::write()` fills and empties its buffer is not modelled. A vocabulary is sorted by term, keys
are written as offsets into themselves. `begin_document` and `term` are the calls of `JASS_index`,
`set_documents` and `term_list` those of `ciff_to_JASS`; `iterate` is the first pass of the quantiser,
`serialise_index` the second with the writer and its `finish()`, each over the terms in any order of
the hash table, and `read_index` loads what was written.

### InstreamDocument

The state is the buffer up to `buffer_end`, `buffer_used`, and the part of the file that has not been
fetched. `Locate` is what `read()` does twice, for the start and for the end of a document: look for the
tag in the buffer and, if it is not there, move what is unread to the front, fetch once, and look again.
`read_trec` and `read_fasta` are the two `read()` functions with the key, called as `JASS_index` calls
them, until they give an empty document.

### Bits, SimpleCodecs, EliasCodecs, Codec

The tables of the Simple codecs say the same thing several times (shifts, counts, which row takes which
width where); here a codec is its rows, and the rest follows. The loops over bit masks that find a row
are the choice of the smallest row that `Fits`, backwards over the sequence for the packed codecs
(`Plan`). Elias gamma and delta write one stream of bits and read it by 64-bit words, so that codes are
cut anywhere; gamma SIMD cuts a column of integers between two blocks. The SIMD registers have
`simd_words` integers, two in the model and 16 in the code. These operators have also been evaluated
on random sequences and compared with what the compiled code writes and reads.

## 3. What TLC checks

Each run finishes within three minutes on two cores. The largest are `top_k` (about 995000 states),
`allocator_pool` (491000) and `indexer` (365000).

| run | instance | shows |
|---|---|---|
| `allocator_pool` | 2 threads, 3 calls, blocks smaller and larger than a chunk, 3 addresses, 2 alignments | `NoOverlap`, `BlocksInLiveChunks`: blocks are disjoint, aligned, in chunks the pool holds. `NothingLost`: no pushed chunk drops out of the list. `MallocReturns` |
| `top_k` | as a set: top 2 of 3 documents, impacts 1 and 3, accumulators up to 5, oracle 1 (none), 2, 3 and 5; as an array: top 5 of 6; a query: all queries of 2 terms over 3 documents, two budgets, oracle scores of which 6, 7 and 8 do not fit an accumulator; accumulators: 3 of them (4 interleaved), 2 values, query numbers up to 2 | `AlwaysTopK`, `ToppedUpIsTopK`, `PromotedIsInHeap` of the set; `ArrayIsHeap`, `ImplementsQueryHeap` of the array; `ScoresFit`, `AnytimeTopK`, `OracleIsSafe`, `OracleKeepsTopK` of the query; `ImplementsArray` and its two counterparts and `RowsInside` of the accumulators |
| `anytime_threads` | 3 threads, 3 queries, data and oracle entries present or missing | `TakenOnce`, `AllAnswered`, `ResultsAreOwn`, `SearchReturns` |
| `anytime_api` | 4 kinds of directory, widths that fit and do not, k of 0, 2 and too large, 0 to 2 threads | `ObjectsAgree`: every query object is for the index, the k and the width of the session. `LastBudgetHolds`: the budget set last holds through any searches unless a relative one is set. `LoadedIsSafe`: what can end the process after a successful `load_index()` |
| `containers` | 2 threads, 3 calls for 4 keys in 2 slots, and an iterator; 3 threads, 3 elements, chunks that begin with 1 or 2 | `ImplementsDictionary`, `ListsEveryKey`, `IterationComplete`, `CallReturns` of the table; `SlotsAreOwn`, `HoldsEveryPush`, `PushReturns` of the array |
| `indexer` | files of up to 3 documents (4 in FASTA) and 5 sizes of buffer; up to 3 parsed or 6 imported documents, 2 terms, quantised or not, version 1 with and without alignment, version 2; 14 codecs, up to 3 runs of equal integers each, buffers of 2, 9 and 999 words | `RoundTrip`: every term is found with its documents, their impacts and keys, and the extremes that `anytime()` scales by. `QuantisedInOrder`: impacts are in range and keep the order of the scores. `ListsFit`: no list is lost to a buffer that is too small. `SegmentsAligned`. `EveryDocumentRead`: every document of a file is read whole, once and with its key, wherever the buffer cuts it. `CodecRoundTrip`, `RefusesOnlyTooWide`, `PackedNeverLonger`, `RoomOnlyRefuses` of the codecs |

Why the bounds are enough. In the pool two threads give every order of two racing accesses, three
calls let one thread be overtaken twice, and three addresses make the runtime reuse one. Three
accumulators have a full and a partial row, and with two flags in a byte a half-used byte; the
number of queries is not bounded, so the query numbers run out again and again. Three documents with
a heap of two have documents in the heap, out of it and tied; the array needs five places for a heap with a third
level that is not full. Two terms with the largest impact exceed the accumulators, so both the
scaled and the unscaled path are taken. Three threads on three queries let one thread take all or
each take one. The sessions are not bounded: their state space is finite. Three keys in one tree can be
a chain or a fork, so that threads meet at every kind of link while the iterator is anywhere; three
elements in a chunk of one have two threads grow the array at once and a third overtake them. Three
documents give distances of one and two bytes and lists with one, two and three impacts; imported
lists give version 2 headers whose distance to their segment takes one, two and three bytes. The documents and the texts between them are shorter than the smaller buffers,
exactly as long, and longer, so that a buffer ends at every place of a file. The runs of the codecs are chosen to fill rows exactly, to leave them one
short, to cross words and blocks, and to go one bit beyond the widest row.

Conditions to know of. `AnytimeTopK`, `OracleIsSafe` and `OracleKeepsTopK` are checked with
`postings_to_process_min` at 0; with a minimum and an oracle the heap breaks (`oracle_promote`).
An oracle's score that does not fit an accumulator is cut, and `OracleIsSafe` is about what is left of
it; where 0 is left the heap stays empty, and `AnytimeTopK` and `ToppedUpIsTopK` exclude it. `ScoresFit`
needs no more terms than `MAX_RSV`: with more, the scaling has a negative factor. The code accepts 1024
terms and has a `MAX_RSV` of 255; no run has so many.
`AllAnswered` is for lists without empty strings. `LoadedIsSafe` sets failed allocations, the empty
query, races and `promote()` outside the heap apart: the code excludes none of them. `IterationComplete`
says nothing of the order of the keys, which is not the documented one (`tree_order`). `MallocReturns`
counts the exit for want of memory as an end, and has no chunk too small for the padding of the block
it was added for. `SegmentsAligned` is for version 1 (section 5). `EveryDocumentRead` ends at the first document that is
larger than the buffer (16MB) or farther from the last than that: `instream_document_trec` takes it for
the end of the file, `instream_document_fasta` cuts it. Keys that are all blanks, FASTA headers without
an end of line and a FASTA file that ends in a bare `>` are not among the files. The codecs are checked on their domains
(`InDomain`): Simple-8b and the Elias codes have no zero; the packed Simple codecs do not look at the
width of the last integer and Carryover-12 accepts 30 bits of which it decodes 28; Lyck-16 takes
integers together by the sum of their widths and gives each the same.

Fairness. `MallocReturns` assumes that a thread inside `malloc()` is scheduled. It does not assume
that a compare-and-swap ever succeeds: with a bounded number of calls one can only be lost to
another's success. `SearchReturns` assumes that the caller and each thread that can take a step are
scheduled; the code has no priorities, and no thread waits for another but the caller. A search that
ends in a data race counts as over: what happens then is not the scheduler's doing. `CallReturns` and
`PushReturns` assume that a thread inside a call is scheduled; as in the pool, a lost compare-and-swap
is another thread's progress, and the number of calls is bounded.

`CHECK_DEADLOCK FALSE` is set where the system may stop: in the pool once `malloc()` has called
`exit()`, in the session once the process has ended, and in the containers, the indexer and the codecs
once all calls have been made.

## 4. What TLAPS proves

For all values of the constants (the named assumptions are types, such as `Sizes \subseteq Nat`):

- **`BlocksApart`**, **`BlocksInside`**: `NoOverlap` and `BlocksInLiveChunks`, for any number of threads.
  The inductive `PoolInv` adds that chunks share no byte, that a chunk being built is known to one
  thread only (`Ownership`), that blocks lie below the bump pointer (`BlocksBelow`), and that the test
  against `chunk_end`, made when the pointer was read, holds at the compare-and-swap (`CasFits`). The
  last is needed because success only says that the pointer has the value that was read.
- **`PoolLosesNothing`**: `NothingLost`. The list from `current_chunk` grows at its front only, so every
  chunk on it is reached, and each counter is the sum it stands for but for the calls that have yet to
  add to it (`Accounts`).
- **`TableInside`**, **`TableIsArray`**: every row that `init()` accepts is inside the arrays, and
  `Accumulator2D` implements `AccumulatorArray`, each step a step or a stutter. Behind it is the
  arithmetic of rows (`OneRow`, `EnoughRows`): a cell has exactly one row, and rounding up gives
  every accumulator one.
- **`HeapIsTopK`**, **`TopUpIsTopK`**, **`PromoteFinds`**, **`StopsAtOracle`**: `AlwaysTopK`,
  `ToppedUpIsTopK`, `PromotedIsInHeap`, and that a query is stopped with k documents at the oracle's
  score, for any collection, k, impacts and oracle scores, if no posting is processed after `Done`
  (`~KeepGoing`). The invariant relates heap, root and bound in each phase: a heap with a free place
  holds every document at the bound (`Adding`), a full one has the bound for its root's score, and in
  `top_up()` the heap is the top k of the documents considered so far (`ToppingUp`).
- **`ScoresAlwaysFit`**: `ScoresFit`, for any query of at most `MAX_RSV` terms, under any oracle, budget
  and minimum. A score is at most the sum of the scaled impacts of the segments processed so far, one
  for each term.
- **`OracleStopsSafely`**: `OracleIsSafe`, under the same assumption and no other, oracle scores that do
  not fit and minimums included. `StopInv` says that whatever the heap takes in has reached the bound,
  and scores only grow.
- **`AnytimeIsTopK`**, **`OracleChangesNothing`**: `AnytimeTopK` and `OracleKeepsTopK`, for at most
  `MAX_RSV` terms, oracle scores that fit an accumulator, and no minimum with an oracle (`PlainUse`). The
  first is the heap's theorem carried through the loop over the segments: between two segments the
  accumulators are the scores of the whole segments before.
- **`QueriesTakenOnce`**, **`SearchIsComplete`**, **`ResultsBelongToTaker`**: `TakenOnce`, `AllAnswered`
  (for lists without empty strings) and `ResultsAreOwn`, for any number of threads. The invariant says
  that a thread has passed only taken queries (`PassedTaken`) and that a taken query is answered or in
  the hands of a thread (`TakenInHand`): when all threads have ended, nothing is in anyone's hands.
- **`TableIsDictionary`**: `HashTable` implements `Dictionary`, for any keys, threads, slots and hash
  function: in every interleaving the calls for a key return one element, made once. The invariant says
  that the keys a search may be looking for are divided between the links (`RoomDivided`), that a search
  is at a link of its key (`SearchInRoom`), and that a key has either one node or one empty link
  (`PlaceOnce`). That is why a lost compare-and-swap may go on at the same link.
- **`IteratorMissesNothing`**: `IterationComplete`, for any keys, threads and interleaving. The keys that
  the iterator has yet to come to are on one side of the key it is at, and those it has come to on the
  other, whatever is added meanwhile.
- **`PushIsSafe`**: `SlotsAreOwn`, for any threads, sizes and growth factor. The invariant says that
  `used` never falls below `allocated` again once it has reached it, so that a slot below `allocated` is
  given out once, however often `used` overshoots and is set back.
- **`SessionAgrees`**: `TypeOK` and `ObjectsAgree` for any sequence of calls. The invariant adds
  that there are no query objects before there is an index, which is why it is enough that
  `set_top_k()` and `set_accumulator_width()` are refused once there is one.
- **`LastBudgetStays`**: `LastBudgetHolds` for any sequence of calls. A search writes the budget only
  under a relative one, and there is none while a budget is the one last asked for (`BudgetKept`).
- **`LoadedSessionIsSafe`**: `LoadedIsSafe` for any sequence of calls. Half-made data and a deleted table
  go back to a failed allocation or to a width that does not fit, and a `load_index()` that returned
  `JASS_ERROR_OK` has found out that it fits (`SafeInv`).

Only model-checked: everything about liveness (`MallocReturns`, `SearchReturns`, `CallReturns`,
`PushReturns`); `ListsEveryKey` and `HoldsEveryPush`; the counter classes; `QueryHeapClean` and the codecs,
which use recursive operators; the document streams and the indexer, whose lists and files are built by
folds over sequences. Liveness, recursive operators and induction over data are out of the prover's reach.

## 5. Disagreements between the code and what it says of itself

Six runs state what a comment says and are violated by what the code does.

- `oracle_promote`: with an oracle and `postings_to_process_min`, postings are added after the heap
  has filled while the lower bound still is the oracle's; `add_rsv()` then takes a document to be in
  the heap that is not, and calls `promote()` with -1. This is the case that `HeapIsTopK` excludes.
- `oracle_results`: `top_k_limit.h` says that documents below the oracle's score will not be in the
  results. `top_up()` puts them there when fewer than k documents reach it.
- `tree_order`: `binary_tree.h` says that low keys are on the left and that `begin()` is the smallest
  member of the tree. Smaller keys go to the right, and `begin()` is the largest; the unit test of the
  class expects the keys in descending order.
- `threads_budget`: a relative budget is written to a member that all threads read.
- `api_failed_load`: a `load_index()` that fails because of the accumulator width leaves a session
  that has an index, refuses another, and searches with an object that was never initialised.
- `codec_relative_10`: the decoder of Relative-10 takes the fourth of ten three-bit integers from bit 8
  instead of bit 9. Its test has integers of all ones there, for which this is the same.

Others that the models have, and that the hazards in `PROJECT.json` describe: the oracle's 32-bit score
is passed as an 8-bit accumulator, so that a multiple of 256 is a lower bound of 0; only thread 0 has its
data when the index has been loaded, and the others insert theirs into a shared `std::map` without a
lock; a result with the same id as another in the same thread replaces it; an empty query ends the
thread that takes it; `postings_to_process_min` counts postings that were dropped; an incomplete index
loads with `JASS_ERROR_OK`; a relative budget that is switched off leaves the last query's budget behind;
version 2 has a parameter for the alignment of its segments and does not align them; gamma SIMD VB loses
a tail that does not fit, where its comment says that it returns 0.

## 6. Not modelled

About three fifths of the lines under `src/` are the generated cases of
the QMX codecs, here and in JASSv1.

- QMX, bit packing, `sort512`: unrolled SIMD instructions, without control of their own. `carry_8b` and
  `elias_delta_simd` are variations on two codecs that are modelled; `stream_vbyte` is a library.
- The other top-k strategies (`query_heap`, `query_bucket`, `query_maxblock`, `beap`), which a macro
  chooses. Each would be one more implementation of `QueryHeap`.
- Parsers: classes of characters. The streams of WARC and JSON, directories and compressed files, which
  `instream_document_*` may read from; channels.
- BM25, evaluation measures, timers: floating point formulas.
- Text: formatting of results, command line, topic files, stemming, Unicode tables, and the serialisers
  that write source code or text.
- JASSv1 and the compiled index: other programs.
- In the modelled parts: text output of the containers, unit tests, `operator=` of the pool, its
  `USE_CRT_MALLOC` build, the `USE_QUERY_IDS` build of `accumulator_2d`, `decode_with_writer()` of the
  codecs, and the lengths of documents in the indexer.
