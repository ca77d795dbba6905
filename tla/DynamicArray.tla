---------------------------- MODULE DynamicArray ----------------------------
(***************************************************************************)
(* dynamic_array (source/dynamic_array.h): a list of chunks that threads   *)
(* append to without a lock.  One action is one access to what the threads *)
(* share: the tail, and used and next of a chunk.  used may for a while be *)
(* larger than allocated, and a chunk is the tail before the list has a    *)
(* pointer to it.                                                          *)
(***************************************************************************)
EXTENDS Integers, Sequences, FiniteSets

CONSTANTS
  Pushers,
  Sizes,       \* what initial_size may be
  growth,      \* growth_factor, in tenths
  max_chunks,  \* the chunks that the allocator has memory for
  max_pushes,  \* bound on the number of calls
  None         \* nullptr, and the contents of an element that was never written

Chunks == 1 .. max_chunks
Pushes == 1 .. max_pushes
head == 1

ASSUME ArrayAssumption ==
  /\ Sizes \subseteq Nat /\ growth \in Nat
  /\ max_chunks \in Nat \ {0} /\ max_pushes \in Nat
  /\ None \notin Int

VARIABLES
  tail,
  next, allocated, used, data,  \* of each chunk
  chunks,                       \* the chunks that have been allocated
  push_at,                      \* where each thread is in push_back()
  element, last, slot, another, \* its parameter and local variables
  pushed,                       \* the number of calls
  returned,                     \* history: the elements of the calls that have returned
  earlier                       \* history: what had returned when each call began

array == << tail, next, allocated, used, data, chunks >>
locals == << element, last, slot, another >>
history == << pushed, returned, earlier >>
array_vars == << array, push_at, locals, history >>

ArrayInit ==
  /\ tail = head
  /\ next = [n \in Chunks |-> None]
  /\ \E initial_size \in Sizes :
       allocated = [n \in Chunks |-> IF n = head THEN initial_size ELSE 0]
  /\ used = [n \in Chunks |-> 0]
  /\ data = [n \in Chunks |-> << >>]
  /\ chunks = 1
  /\ push_at = [t \in Pushers |-> "idle"]
  /\ element = [t \in Pushers |-> None]
  /\ last = [t \in Pushers |-> None]
  /\ slot = [t \in Pushers |-> None]
  /\ another = [t \in Pushers |-> None]
  /\ pushed = 0
  /\ returned = {}
  /\ earlier = [e \in Pushes |-> {}]
-----------------------------------------------------------------------------
PushTo(t, where) == push_at' = [push_at EXCEPT ![t] = where]

push_back(t) ==
  /\ push_at[t] = "idle" /\ pushed < max_pushes
  /\ pushed' = pushed + 1
  /\ element' = [element EXCEPT ![t] = pushed + 1]
  /\ earlier' = [earlier EXCEPT ![pushed + 1] = returned]
  /\ PushTo(t, "tail")
  /\ UNCHANGED << array, last, slot, another, returned >>

\* node *last = tail;
LoadTail(t) ==
  /\ push_at[t] = "tail"
  /\ last' = [last EXCEPT ![t] = tail]
  /\ PushTo(t, "slot")
  /\ UNCHANGED << array, element, slot, another, history >>

\* A slot that is taken with a load and a store.
TakeSlotShared(t) ==
  /\ push_at[t] = "slot"
  /\ slot' = [slot EXCEPT ![t] = used[last[t]]]
  /\ used' = [used EXCEPT ![last[t]] = 1 + Cardinality(DOMAIN data[last[t]])]
  /\ PushTo(t, IF used[last[t]] < allocated[last[t]] THEN "write" ELSE "full")
  /\ UNCHANGED << tail, next, allocated, data, chunks, element, last, another, history >>

\* size_t slot = last->used++;
TakeSlot(t) ==
  /\ push_at[t] = "slot"
  /\ slot' = [slot EXCEPT ![t] = used[last[t]]]
  /\ used' = [used EXCEPT ![last[t]] = @ + 1]
  /\ PushTo(t, IF used[last[t]] < allocated[last[t]] THEN "write" ELSE "full")
  /\ UNCHANGED << tail, next, allocated, data, chunks, element, last, another, history >>

\* last->data[slot] = element;
Write(t) ==
  /\ push_at[t] = "write"
  /\ data' = [data EXCEPT ![last[t]] =
                [s \in DOMAIN @ \cup {slot[t]} |-> IF s = slot[t] THEN element[t] ELSE @[s]]]
  /\ returned' = returned \cup {element[t]}
  /\ PushTo(t, "idle")
  /\ element' = [element EXCEPT ![t] = None]
  /\ last' = [last EXCEPT ![t] = None]
  /\ slot' = [slot EXCEPT ![t] = None]
  /\ another' = [another EXCEPT ![t] = None]
  /\ UNCHANGED << tail, next, allocated, used, chunks, pushed, earlier >>

\* last->used = last->allocated;
Cap(t) ==
  /\ push_at[t] = "full"
  /\ used' = [used EXCEPT ![last[t]] = allocated[last[t]]]
  /\ PushTo(t, "grow")
  /\ UNCHANGED << tail, next, allocated, data, chunks, locals, history >>

\* A larger chunk, which no other thread can see yet.
Grow(t) ==
  /\ push_at[t] = "grow" /\ chunks < max_chunks
  /\ chunks' = chunks + 1
  /\ allocated' = [allocated EXCEPT ![chunks + 1] = (allocated[last[t]] * growth) \div 10]
  /\ another' = [another EXCEPT ![t] = chunks + 1]
  /\ PushTo(t, "cas")
  /\ UNCHANGED << tail, next, used, data, element, last, slot, history >>

\* A plain store in place of the compare-and-swap.
CasTailStore(t) ==
  /\ push_at[t] = "cas"
  /\ tail' = another[t]
  /\ PushTo(t, "link")
  /\ UNCHANGED << next, allocated, used, data, chunks, locals, history >>

\* A call that does not look again where the tail is.
CasTailStuck(t) ==
  /\ push_at[t] = "cas"
  /\ IF tail = last[t] THEN tail' = another[t] /\ PushTo(t, "link")
                       ELSE UNCHANGED tail /\ PushTo(t, "slot")
  /\ UNCHANGED << next, allocated, used, data, chunks, locals, history >>

\* The compare-and-swap of the tail.  If it fails the chunk is leaked.
CasTail(t) ==
  /\ push_at[t] = "cas"
  /\ IF tail = last[t] THEN tail' = another[t] /\ PushTo(t, "link")
                       ELSE UNCHANGED tail /\ PushTo(t, "tail")
  /\ UNCHANGED << next, allocated, used, data, chunks, locals, history >>

\* last->next = another;
Join(t) ==
  /\ push_at[t] = "link"
  /\ next' = [next EXCEPT ![last[t]] = another[t]]
  /\ PushTo(t, "tail")
  /\ UNCHANGED << tail, allocated, used, data, chunks, locals, history >>

PushStep(t) == \/ LoadTail(t) \/ TakeSlot(t) \/ Write(t) \/ Cap(t)
               \/ Grow(t) \/ CasTail(t) \/ Join(t)

ArrayNext == \E t \in Pushers : push_back(t) \/ PushStep(t)

ArraySpec ==
  ArrayInit /\ [][ArrayNext]_array_vars /\ \A t \in Pushers : WF_array_vars(PushStep(t))
-----------------------------------------------------------------------------
\* What the iterator yields of a chunk: operator++ takes for granted that it has an
\* element.
Chunk(n) == [i \in 1 .. (IF used[n] = 0 THEN 1 ELSE used[n]) |->
               IF i - 1 \in DOMAIN data[n] THEN data[n][i - 1] ELSE None]

ElementsFrom[n \in Chunks \cup {None}] ==
  IF n = None THEN << >> ELSE Chunk(n) \o ElementsFrom[next[n]]

\* begin() looks whether the first chunk has an element.
iterate == IF used[head] = 0 THEN << >> ELSE ElementsFrom[head]

\* operator[](): counts down by the used of the chunks.
Subscript[n \in Chunks \cup {None}] ==
  [i \in 0 .. max_pushes |->
     IF n = None THEN data[head][0]
     ELSE IF i < used[n] THEN data[n][i] ELSE Subscript[next[n]][i - used[n]]]

\* serialise(nullptr, 0): the sum of the used of the chunks.
Size[n \in Chunks \cup {None}] == IF n = None THEN 0 ELSE used[n] + Size[next[n]]

ArrayAtRest == \A t \in Pushers : push_at[t] = "idle"

\* When no thread is in push_back() the array has every element once, behind those whose
\* push_back() had returned before its own began; operator[] and serialise() agree with
\* the iterator.
HoldsEveryPush ==
  ArrayAtRest =>
    /\ Len(iterate) = pushed /\ Size[head] = pushed
    /\ \A e \in 1 .. pushed : \E i \in 1 .. pushed :
         /\ iterate[i] = e /\ Subscript[head][i - 1] = e
         /\ earlier[e] \subseteq {iterate[j] : j \in 1 .. i - 1}

\* A slot that push_back() writes to was taken by no other call, and lies in the chunk.
SlotsAreOwn ==
  \A t \in Pushers : push_at[t] = "write" =>
    /\ slot[t] < allocated[last[t]]
    /\ slot[t] \notin DOMAIN data[last[t]]
    /\ \A u \in Pushers \ {t} :
         push_at[u] = "write" => << last[u], slot[u] >> # << last[t], slot[t] >>

\* Every push_back() returns: the tail is never stuck at a full chunk.
PushReturns == \A t \in Pushers : push_at[t] # "idle" ~> push_at[t] = "idle"
=============================================================================
