--------------------------- MODULE HardenedMalloc ---------------------------
(***************************************************************************)
(* The canary allocator of src/src/lib/hardened_malloc.c.  Every block     *)
(* gets a 32-bit canary right after the size the caller asked for, and is  *)
(* recorded in alloc_table[MAX_HARDENED_ALLOCATIONS]; hardened_free finds  *)
(* the record, checks the canary, frees the block and clears the record.   *)
(* The caller (malloc_override.h routes malloc/free here) may free any     *)
(* pointer, and may write past the end of a block it holds.  libc malloc   *)
(* is an oracle: it returns NULL or any block not in use.                  *)
(***************************************************************************)
EXTENDS Naturals, FiniteSets

CONSTANTS
    Addr,       \* the addresses libc malloc may return
    MaxAllocs,  \* MAX_HARDENED_ALLOCATIONS
    SizeWidth,  \* bits of size_t
    Sizes       \* the sizes the caller asks for

ASSUME AddrAssumption == Addr \subseteq Nat \ {0} /\ IsFiniteSet(Addr)
ASSUME MaxAllocsAssumption == MaxAllocs \in Nat \ {0}
ASSUME SizeWidthAssumption == SizeWidth \in Nat \ {0}

NULL == 0

\* size_t arithmetic wraps at 2^SizeWidth.
Word == 2^SizeWidth

\* 2^SizeWidth is a positive natural (a fact of arithmetic the provers do
\* not derive from the definition of ^; TLC evaluates it).
ASSUME WordAssumption == Word \in Nat \ {0}

ASSUME SizesAssumption == Sizes \subseteq 0..(Word - 1)

\* CANARY_SIZE: sizeof(uint32_t).
CANARY_SIZE == 4

Slots == 0..(MaxAllocs - 1)

\* An alloc_entry_t.
Entries == [user_ptr : Addr \cup {NULL}, size : 0..(Word - 1)]

\* A libc heap block: in use or not, and the length malloc gave it.
Blocks == [used : BOOLEAN, len : 0..(Word - 1)]

\* What the last call did, for the properties: the kind of return, the
\* pointer, whether check_canary printed, and whether the caller had in
\* fact written past the end of the block.
Events == [kind : {"none", "alloc", "nomem", "null", "freed", "unknown",
                   "overflow"},
           ptr : Addr \cup {NULL}, reported : BOOLEAN, overflowed : BOOLEAN]

VARIABLES
    alloc_table,  \* the static tracking table
    heap,         \* libc's view of each address
    canaryAt,     \* offset from the block start where the canary was written
    smashed,      \* the caller overwrote the word after its buffer
    held,         \* blocks the caller holds: returned and not yet freed
    userSize,     \* the size the caller asked for, per held block
    oob,          \* write_canary wrote outside the block malloc returned
    event

vars == <<alloc_table, heap, canaryAt, smashed, held, userSize, oob, event>>

TypeOK ==
    /\ alloc_table \in [Slots -> Entries]
    /\ heap \in [Addr -> Blocks]
    /\ canaryAt \in [Addr -> Nat]
    /\ smashed \in [Addr -> BOOLEAN]
    /\ held \in SUBSET Addr
    /\ userSize \in [Addr -> 0..(Word - 1)]
    /\ oob \in BOOLEAN
    /\ event \in Events

Init ==
    /\ alloc_table = [i \in Slots |-> [user_ptr |-> NULL, size |-> 0]]
    /\ heap = [a \in Addr |-> [used |-> FALSE, len |-> 0]]
    /\ canaryAt = [a \in Addr |-> 0]
    /\ smashed = [a \in Addr |-> FALSE]
    /\ held = {}
    /\ userSize = [a \in Addr |-> 0]
    /\ oob = FALSE
    /\ event = [kind |-> "none", ptr |-> NULL, reported |-> FALSE,
                overflowed |-> FALSE]
-----------------------------------------------------------------------------
\* The least slot index satisfying a condition, found by the for loops.
FirstSlot(S) == CHOOSE i \in S : \A j \in S : i <= j

\* read_canary at ptr + off = CANARY_VALUE: the word there is the canary
\* written by hardened_malloc, and the caller did not overwrite it.  Any
\* other word is the caller's data, taken to differ from 0xBADC0DE.
CanaryIntact(p, off) == canaryAt[p] = off /\ ~smashed[p]

\* Mutant: the loop has no break, so every empty slot records the block.
TrackAll(ptr, size) ==
    [i \in Slots |-> IF alloc_table[i].user_ptr = NULL
                     THEN [user_ptr |-> ptr, size |-> size]
                     ELSE alloc_table[i]]

\* Mutant: the record keeps the block's real size, canary included.
TrackTotal(ptr, size) ==
    LET free == {i \in Slots : alloc_table[i].user_ptr = NULL} IN
    IF free = {} THEN alloc_table
    ELSE [alloc_table EXCEPT ![FirstSlot(free)] =
            [user_ptr |-> ptr, size |-> (size + CANARY_SIZE) % Word]]

\* Lines 37-44: record the block in the first empty slot; a full table
\* leaves it untracked.
Track(ptr, size) ==
    LET free == {i \in Slots : alloc_table[i].user_ptr = NULL} IN
    IF free = {} THEN alloc_table
    ELSE [alloc_table EXCEPT ![FirstSlot(free)] =
            [user_ptr |-> ptr, size |-> size]]

(***************************************************************************)
(* hardened_malloc(size), lines 25-47.  total_size wraps; libc malloc     *)
(* returns NULL (line 30) or a block of total_size bytes; the canary goes  *)
(* at offset size, outside the block when total_size wrapped.             *)
(***************************************************************************)
Malloc(size) ==
    LET total == (size + CANARY_SIZE) % Word IN
    \/ /\ event' = [kind |-> "nomem", ptr |-> NULL, reported |-> FALSE,
                    overflowed |-> FALSE]
       /\ UNCHANGED <<alloc_table, heap, canaryAt, smashed, held, userSize,
                      oob>>
    \/ \E p \in Addr :
         /\ ~heap[p].used
         /\ heap' = [heap EXCEPT ![p] = [used |-> TRUE, len |-> total]]
         /\ canaryAt' = [canaryAt EXCEPT ![p] = size]
         /\ oob' = (oob \/ size + CANARY_SIZE > total)
         /\ alloc_table' = Track(p, size)
         /\ held' = held \cup {p}
         /\ userSize' = [userSize EXCEPT ![p] = size]
         /\ smashed' = [smashed EXCEPT ![p] = FALSE]
         /\ event' = [kind |-> "alloc", ptr |-> p, reported |-> FALSE,
                      overflowed |-> FALSE]

\* Mutant: the record's pointer is not cleared, only its size.
UntrackKeepPtr(i) == [alloc_table EXCEPT ![i].size = 0]

\* Lines 60-61: clear the record.
Untrack(i) == [alloc_table EXCEPT ![i] = [user_ptr |-> NULL, size |-> 0]]

(***************************************************************************)
(* hardened_free(ptr), lines 49-67.  NULL returns; the first record with   *)
(* the pointer has its canary checked at ptr + size, the block freed and   *)
(* the record cleared; a pointer with no record is reported and not freed. *)
(***************************************************************************)
Free(p) ==
    /\ held' = held \ {p}
    /\ UNCHANGED <<canaryAt, smashed, userSize, oob>>
    /\ \/ /\ p = NULL
          /\ event' = [kind |-> "null", ptr |-> NULL, reported |-> FALSE,
                       overflowed |-> FALSE]
          /\ UNCHANGED <<alloc_table, heap>>
       \/ LET match == {i \in Slots : alloc_table[i].user_ptr = p} IN
          /\ p # NULL
          /\ \/ /\ match # {}
                /\ LET i == FirstSlot(match) IN
                   /\ event' = [kind |-> "freed", ptr |-> p,
                                reported |->
                                  ~CanaryIntact(p, alloc_table[i].size),
                                overflowed |-> p \in held /\ smashed[p]]
                   /\ heap' = [heap EXCEPT ![p] = [used |-> FALSE,
                                                   len |-> heap[p].len]]
                   /\ alloc_table' = Untrack(i)
             \/ /\ match = {}
                /\ event' = [kind |-> "unknown", ptr |-> p, reported |-> FALSE,
                             overflowed |-> FALSE]
                /\ UNCHANGED <<alloc_table, heap>>

\* The caller writes past the end of a block it holds, over the word
\* hardened_malloc put right after it.
Overflow(p) ==
    /\ p \in held
    /\ ~smashed[p]
    /\ smashed' = [smashed EXCEPT ![p] = TRUE]
    /\ event' = [kind |-> "overflow", ptr |-> p, reported |-> FALSE,
                 overflowed |-> TRUE]
    /\ UNCHANGED <<alloc_table, heap, canaryAt, held, userSize, oob>>

Next ==
    \/ \E s \in Sizes : Malloc(s)
    \/ \E p \in Addr \cup {NULL} : Free(p)
    \/ \E p \in Addr : Overflow(p)

Spec == Init /\ [][Next]_vars
-----------------------------------------------------------------------------
(***************************************************************************)
(* Tracking soundness: every record of alloc_table names a block libc has *)
(* in use and the caller holds, no block has two records, and a record's   *)
(* size is the size the caller asked for, where its canary lies.          *)
(***************************************************************************)
TrackingSound ==
    \A i \in Slots : alloc_table[i].user_ptr # NULL =>
        LET p == alloc_table[i].user_ptr IN
        /\ heap[p].used
        /\ p \in held
        /\ alloc_table[i].size = userSize[p]
        /\ canaryAt[p] = userSize[p]
        /\ \A j \in Slots \ {i} : alloc_table[j].user_ptr # p

(***************************************************************************)
(* Overflow detection: hardened_free of a tracked block prints "buffer    *)
(* overflow detected" exactly when the caller wrote past the end of it.   *)
(***************************************************************************)
FreeDetectsOverflow ==
    event.kind = "freed" => (event.reported <=> event.overflowed)

(***************************************************************************)
(* hardened_free hands libc free() only blocks libc has in use: a double  *)
(* or unknown free by the caller never reaches free().                    *)
(***************************************************************************)
FreeOnlyLive ==
    [][event'.kind = "freed" => heap[event'.ptr].used]_vars

(***************************************************************************)
(* The comment at line 26: the block has room for the canary, so          *)
(* write_canary stays inside it.                                          *)
(***************************************************************************)
CanaryInBounds == ~oob

(***************************************************************************)
(* hardened_free releases the caller's blocks: every block libc has in use *)
(* is one the caller still holds.                                          *)
(***************************************************************************)
NoLeak == \A p \in Addr : heap[p].used => p \in held
-----------------------------------------------------------------------------
\* The refinement mapping: the blocks libc has in use, and the blocks
\* alloc_table holds a record of.
InUse == {a \in Addr : heap[a].used}

Recorded == {alloc_table[i].user_ptr : i \in Slots} \ {NULL}

Heap == INSTANCE TrackedHeap WITH inUse <- InUse, tracked <- Recorded

(***************************************************************************)
(* The allocator implements TrackedHeap: hardened_malloc records a block  *)
(* exactly when fewer than MAX_HARDENED_ALLOCATIONS blocks are recorded,  *)
(* and hardened_free releases a block exactly when it holds a record of  *)
(* it and then keeps none; NULL, unknown pointers and the caller's writes *)
(* change neither the heap nor the table.                                 *)
(***************************************************************************)
HeapRefinement == Heap!Spec
=============================================================================
