------------------------- MODULE HardenedMallocProofs -------------------------
(***************************************************************************)
(* Proofs about the canary allocator, for every address set, table size   *)
(* and width of size_t: the table stays sound, hardened_free reports an   *)
(* overflow exactly when there was one, and libc free() only ever gets a  *)
(* block in use.                                                          *)
(***************************************************************************)
EXTENDS HardenedMalloc, WellFoundedInduction, FiniteSetTheorems, TLAPS

\* The loops' first matching slot exists and is one of the candidates.
LEMMA FirstSlotIn ==
    ASSUME NEW S \in SUBSET Slots, S # {}
    PROVE  FirstSlot(S) \in S
<1>1. S \subseteq Nat
  BY MaxAllocsAssumption DEF Slots
<1>2. PICK x \in S : \A y \in S : ~(<<y, x>> \in OpToRel(<, Nat))
  BY <1>1, NatLessThanWellFounded, WFMin
<1>3. ASSUME NEW y \in S, y < x PROVE FALSE
  <2>1. <<y, x>> \in OpToRel(<, Nat)
    BY <1>1, <1>3 DEF OpToRel
  <2>. QED
    BY <1>2, <2>1
<1>4. \A y \in S : x <= y
  BY <1>1, <1>3
<1>. QED
  BY <1>4 DEF FirstSlot

\* The inductive invariant: the type, and the table's soundness.
IInv == TypeOK /\ TrackingSound

LEMMA InitIInv == Init => IInv
<1> SUFFICES ASSUME Init PROVE IInv
  OBVIOUS
<1>1. 0 \in 0..(Word - 1) /\ NULL \in Addr \cup {NULL}
  BY WordAssumption DEF NULL
<1>2. TypeOK
  BY <1>1 DEF Init, TypeOK, Entries, Blocks, Events
<1>3. TrackingSound
  BY DEF Init, TrackingSound
<1>. QED
  BY <1>2, <1>3 DEF IInv

LEMMA NextIInv == IInv /\ [Next]_vars => IInv'
<1> SUFFICES ASSUME IInv, [Next]_vars PROVE IInv'
  OBVIOUS
<1> USE DEF IInv
<1>1. ASSUME NEW s \in Sizes, Malloc(s) PROVE IInv'
  <2>1. CASE UNCHANGED <<alloc_table, heap, canaryAt, smashed, held, userSize,
                         oob>>
             /\ event' = [kind |-> "nomem", ptr |-> NULL, reported |-> FALSE,
                          overflowed |-> FALSE]
    BY <2>1 DEF TypeOK, TrackingSound, Events, NULL
  <2>2. CASE \E p \in Addr :
               /\ ~heap[p].used
               /\ heap' = [heap EXCEPT ![p] = [used |-> TRUE,
                                  len |-> (s + CANARY_SIZE) % Word]]
               /\ canaryAt' = [canaryAt EXCEPT ![p] = s]
               /\ oob' = (oob \/ s + CANARY_SIZE > (s + CANARY_SIZE) % Word)
               /\ alloc_table' = Track(p, s)
               /\ held' = held \cup {p}
               /\ userSize' = [userSize EXCEPT ![p] = s]
               /\ smashed' = [smashed EXCEPT ![p] = FALSE]
               /\ event' = [kind |-> "alloc", ptr |-> p, reported |-> FALSE,
                            overflowed |-> FALSE]
    <3>1. PICK p \in Addr :
               /\ ~heap[p].used
               /\ heap' = [heap EXCEPT ![p] = [used |-> TRUE,
                                  len |-> (s + CANARY_SIZE) % Word]]
               /\ canaryAt' = [canaryAt EXCEPT ![p] = s]
               /\ oob' = (oob \/ s + CANARY_SIZE > (s + CANARY_SIZE) % Word)
               /\ alloc_table' = Track(p, s)
               /\ held' = held \cup {p}
               /\ userSize' = [userSize EXCEPT ![p] = s]
               /\ smashed' = [smashed EXCEPT ![p] = FALSE]
               /\ event' = [kind |-> "alloc", ptr |-> p, reported |-> FALSE,
                            overflowed |-> FALSE]
      BY <2>2
    <3>2. s \in 0..(Word - 1) /\ (s + CANARY_SIZE) % Word \in 0..(Word - 1)
      BY SizesAssumption, WordAssumption DEF CANARY_SIZE
    \* No record names p: records name blocks in use.
    <3>3. \A i \in Slots : alloc_table[i].user_ptr # p
      BY <3>1, AddrAssumption DEF TrackingSound, TypeOK, NULL
    <3> DEFINE free == {i \in Slots : alloc_table[i].user_ptr = NULL}
    <3>4. CASE free = {}
      <4>1. alloc_table' = alloc_table
        BY <3>1, <3>4 DEF Track
      <4>2. TypeOK'
        BY <3>1, <3>2, <4>1 DEF TypeOK, Blocks, Events, NULL
      <4>3. TrackingSound'
        BY <3>1, <3>3, <4>1 DEF TrackingSound, TypeOK
      <4>. QED
        BY <4>2, <4>3
    <3>5. CASE free # {}
      <4> DEFINE k == FirstSlot(free)
      <4>1. k \in Slots /\ alloc_table[k].user_ptr = NULL
        BY <3>5, FirstSlotIn
      <4>2. alloc_table' = [alloc_table EXCEPT ![k] = [user_ptr |-> p,
                                                       size |-> s]]
        BY <3>1, <3>5 DEF Track
      <4>3. TypeOK'
        BY <3>1, <3>2, <4>1, <4>2 DEF TypeOK, Entries, Blocks, Events, NULL
      <4>4. TrackingSound'
        <5> SUFFICES ASSUME NEW i \in Slots, alloc_table'[i].user_ptr # NULL
                     PROVE  LET q == alloc_table'[i].user_ptr IN
                            /\ heap'[q].used
                            /\ q \in held'
                            /\ alloc_table'[i].size = userSize'[q]
                            /\ canaryAt'[q] = userSize'[q]
                            /\ \A j \in Slots \ {i} : alloc_table'[j].user_ptr # q
          BY DEF TrackingSound
        <5>1. CASE i = k
          BY <3>1, <3>3, <4>1, <4>2, <5>1 DEF TypeOK
        <5>2. CASE i # k
          <6>1. alloc_table'[i] = alloc_table[i] /\ alloc_table[i].user_ptr # p
            BY <3>3, <4>1, <4>2, <5>2 DEF TypeOK
          <6>. QED
            BY <3>1, <4>1, <4>2, <6>1, <5>2 DEF TrackingSound, TypeOK
        <5>. QED
          BY <5>1, <5>2
      <4>. QED
        BY <4>3, <4>4
    <3>. QED
      BY <3>4, <3>5
  <2>. QED
    BY <1>1, <2>1, <2>2 DEF Malloc
<1>2. ASSUME NEW p \in Addr \cup {NULL}, Free(p) PROVE IInv'
  <2>0. /\ held' = held \ {p}
        /\ UNCHANGED <<canaryAt, smashed, userSize, oob>>
    BY <1>2 DEF Free
  <2> DEFINE match == {i \in Slots : alloc_table[i].user_ptr = p}
  <2>1. CASE p = NULL
    <3>1. /\ UNCHANGED <<alloc_table, heap>>
          /\ event' = [kind |-> "null", ptr |-> NULL, reported |-> FALSE,
                       overflowed |-> FALSE]
      BY <1>2, <2>1 DEF Free
    <3>2. event' \in Events
      BY <3>1 DEF Events
    <3>. QED
      BY <2>0, <2>1, <3>1, <3>2 DEF TypeOK, TrackingSound
  <2>2. CASE p # NULL /\ match = {}
    <3>1. /\ UNCHANGED <<alloc_table, heap>>
          /\ event' = [kind |-> "unknown", ptr |-> p, reported |-> FALSE,
                       overflowed |-> FALSE]
      BY <1>2, <2>2 DEF Free
    <3>2. event' \in Events
      BY <3>1 DEF Events
    <3>. QED
      BY <2>0, <2>2, <3>1, <3>2 DEF TypeOK, TrackingSound
  <2>3. CASE p # NULL /\ match # {}
    <3> DEFINE k == FirstSlot(match)
    <3>1. k \in Slots /\ alloc_table[k].user_ptr = p
      BY <2>3, FirstSlotIn
    <3>2. /\ event' = [kind |-> "freed", ptr |-> p,
                       reported |-> ~CanaryIntact(p, alloc_table[k].size),
                       overflowed |-> p \in held /\ smashed[p]]
          /\ heap' = [heap EXCEPT ![p] = [used |-> FALSE, len |-> heap[p].len]]
          /\ alloc_table' = Untrack(k)
      BY <1>2, <2>3 DEF Free
    <3>6. p \in Addr /\ event' \in Events
      BY <2>3, <3>2 DEF Events
    \* p has one record only, which the free clears.
    <3>3. \A j \in Slots \ {k} : alloc_table[j].user_ptr # p
      BY <2>3, <3>1 DEF TrackingSound
    <3>7. heap' \in [Addr -> Blocks]
      BY <3>2, <3>6 DEF TypeOK, Blocks
    <3>8. alloc_table' \in [Slots -> Entries]
      <4>1. [user_ptr |-> NULL, size |-> 0] \in Entries
        BY WordAssumption DEF Entries
      <4>. QED
        BY <3>1, <3>2, <4>1 DEF TypeOK, Untrack
    <3>4. TypeOK'
      BY <2>0, <3>2, <3>6, <3>7, <3>8 DEF TypeOK
    <3>5. TrackingSound'
      <4> SUFFICES ASSUME NEW i \in Slots, alloc_table'[i].user_ptr # NULL
                   PROVE  LET q == alloc_table'[i].user_ptr IN
                          /\ heap'[q].used
                          /\ q \in held'
                          /\ alloc_table'[i].size = userSize'[q]
                          /\ canaryAt'[q] = userSize'[q]
                          /\ \A j \in Slots \ {i} : alloc_table'[j].user_ptr # q
        BY DEF TrackingSound
      <4>1. i # k /\ alloc_table'[i] = alloc_table[i]
        BY <3>1, <3>2 DEF Untrack, TypeOK
      <4>2. alloc_table[i].user_ptr # p
        BY <3>3, <4>1
      <4>. QED
        BY <2>0, <3>1, <3>2, <4>1, <4>2 DEF TrackingSound, TypeOK, Untrack
    <3>. QED
      BY <3>4, <3>5
  <2>. QED
    BY <2>1, <2>2, <2>3
<1>3. ASSUME NEW p \in Addr, Overflow(p) PROVE IInv'
  BY <1>3 DEF Overflow, TypeOK, TrackingSound, Events
<1>4. CASE UNCHANGED vars
  BY <1>4 DEF vars, TypeOK, TrackingSound
<1>. QED
  BY <1>1, <1>2, <1>3, <1>4 DEF Next

\* Every record of alloc_table names a block in use that the caller holds,
\* once only, with the size the caller asked for and its canary.
THEOREM TrackingSoundness == Spec => []TrackingSound
<1>1. IInv => TrackingSound
  BY DEF IInv
<1>. QED
  BY InitIInv, NextIInv, <1>1, PTL DEF Spec
-----------------------------------------------------------------------------
(***************************************************************************)
(* The only step that calls libc free() is hardened_free finding a record. *)
(* By TrackingSound the record's pointer is in use and held, and the size  *)
(* it keeps is the offset of the canary: the check at ptr + size reads the *)
(* canary, and it differs from CANARY_VALUE exactly when the caller wrote  *)
(* over it.                                                                *)
(***************************************************************************)
LEMMA FreeStep ==
    ASSUME IInv, Next
    PROVE  event'.kind = "freed" =>
               /\ heap[event'.ptr].used
               /\ event'.reported <=> event'.overflowed
<1>1. CASE \E s \in Sizes : Malloc(s)
  BY <1>1 DEF Malloc
<1>2. CASE \E p \in Addr : Overflow(p)
  BY <1>2 DEF Overflow
<1>3. CASE \E p \in Addr \cup {NULL} : Free(p)
  <2>1. PICK p \in Addr \cup {NULL} : Free(p)
    BY <1>3
  <2> DEFINE match == {i \in Slots : alloc_table[i].user_ptr = p}
  <2>2. CASE p = NULL \/ match = {}
    BY <2>1, <2>2 DEF Free
  <2>3. CASE p # NULL /\ match # {}
    <3> DEFINE k == FirstSlot(match)
    <3>1. k \in Slots /\ alloc_table[k].user_ptr = p
      BY <2>3, FirstSlotIn
    <3>2. event' = [kind |-> "freed", ptr |-> p,
                    reported |-> ~CanaryIntact(p, alloc_table[k].size),
                    overflowed |-> p \in held /\ smashed[p]]
      BY <2>1, <2>3 DEF Free
    <3>3. /\ heap[p].used
          /\ p \in held
          /\ alloc_table[k].size = canaryAt[p]
      BY <2>3, <3>1 DEF IInv, TrackingSound
    <3>. QED
      BY <3>2, <3>3 DEF CanaryIntact
  <2>. QED
    BY <2>2, <2>3
<1>. QED
  BY <1>1, <1>2, <1>3 DEF Next

\* hardened_free prints "buffer overflow detected" for a tracked block
\* exactly when the caller wrote past its end.
THEOREM FreeDetection == Spec => []FreeDetectsOverflow
<1>1. Init => FreeDetectsOverflow
  BY DEF Init, FreeDetectsOverflow
<1>2. IInv /\ FreeDetectsOverflow /\ [Next]_vars => FreeDetectsOverflow'
  BY FreeStep DEF FreeDetectsOverflow, vars
<1>. QED
  BY InitIInv, NextIInv, <1>1, <1>2, PTL DEF Spec

\* libc free() is only ever called on a block in use: double and unknown
\* frees of the caller stop in hardened_free.
THEOREM FreeOnlyLiveBlocks == Spec => FreeOnlyLive
<1>1. IInv /\ [Next]_vars =>
        [event'.kind = "freed" => heap[event'.ptr].used]_vars
  BY FreeStep
<1>. QED
  BY InitIInv, NextIInv, <1>1, PTL DEF Spec, FreeOnlyLive
-----------------------------------------------------------------------------
(***************************************************************************)
(* Where the two defects found by the violation runs cannot occur.        *)
(*                                                                         *)
(* total_size = size + CANARY_SIZE wraps only for sizes within            *)
(* CANARY_SIZE of SIZE_MAX: for every other size write_canary stays in    *)
(* the block libc returned.                                                *)
(***************************************************************************)
LEMMA CanaryStep ==
    ASSUME Sizes \subseteq 0..(Word - 1 - CANARY_SIZE), [Next]_vars, ~oob
    PROVE  ~oob'
<1>1. ASSUME NEW s \in Sizes, Malloc(s) PROVE ~oob'
  <2>1. (s + CANARY_SIZE) % Word = s + CANARY_SIZE /\ s \in Nat
    BY WordAssumption DEF CANARY_SIZE
  <2>2. ~(s + CANARY_SIZE > (s + CANARY_SIZE) % Word)
    BY <2>1 DEF CANARY_SIZE
  <2>3. \/ UNCHANGED oob
        \/ oob' = (oob \/ s + CANARY_SIZE > (s + CANARY_SIZE) % Word)
    BY <1>1 DEF Malloc
  <2>. QED
    BY <2>2, <2>3
<1>2. ASSUME NEW p \in Addr \cup {NULL}, Free(p) PROVE ~oob'
  BY <1>2 DEF Free
<1>3. ASSUME NEW p \in Addr, Overflow(p) PROVE ~oob'
  BY <1>3 DEF Overflow
<1>4. CASE UNCHANGED vars
  BY <1>4 DEF vars
<1>. QED
  BY <1>1, <1>2, <1>3, <1>4 DEF Next

\* When every size the caller asks for leaves room for the canary below
\* SIZE_MAX, hardened_malloc never writes a canary outside its block.
THEOREM CanaryFits ==
    ASSUME Sizes \subseteq 0..(Word - 1 - CANARY_SIZE)
    PROVE  Spec => []CanaryInBounds
<1>1. Init => CanaryInBounds
  BY DEF Init, CanaryInBounds
<1>2. CanaryInBounds /\ [Next]_vars => CanaryInBounds'
  BY CanaryStep DEF CanaryInBounds
<1>. QED
  BY <1>1, <1>2, PTL DEF Spec

(***************************************************************************)
(* A block escapes alloc_table only when the table is full.  If libc can  *)
(* hand out no more distinct blocks than the table has slots, the table   *)
(* always has room: its records name distinct blocks in use (by           *)
(* TrackingSound), so a full table and a further free block would make    *)
(* MAX_HARDENED_ALLOCATIONS + 1 distinct addresses.                       *)
(***************************************************************************)
\* Every block libc has in use has a record.
Tracked == \A q \in Addr : heap[q].used => \E i \in Slots : alloc_table[i].user_ptr = q

LEMMA RoomForNewBlock ==
    ASSUME Cardinality(Addr) <= MaxAllocs, IInv,
           NEW p \in Addr, ~heap[p].used
    PROVE  {i \in Slots : alloc_table[i].user_ptr = NULL} # {}
<1> SUFFICES ASSUME \A i \in Slots : alloc_table[i].user_ptr # NULL
             PROVE  FALSE
  OBVIOUS
<1> DEFINE f == [i \in Slots |-> alloc_table[i].user_ptr]
<1>1. f \in [Slots -> Addr \ {p}]
  BY AddrAssumption DEF IInv, TypeOK, Entries, TrackingSound
<1>2. IsInjective(f)
  BY DEF IsInjective, IInv, TrackingSound
<1>3. f \in Injection(Slots, Addr \ {p})
  BY <1>1, <1>2 DEF Injection
<1>4. /\ IsFiniteSet(Addr \ {p})
      /\ Cardinality(Addr \ {p}) = Cardinality(Addr) - 1
      /\ Cardinality(Addr) \in Nat
  BY AddrAssumption, FS_RemoveElement, FS_CardinalityType
<1>5. Cardinality(Slots) = MaxAllocs
  BY MaxAllocsAssumption, FS_Interval DEF Slots
<1>6. Cardinality(Slots) <= Cardinality(Addr \ {p})
  BY <1>3, <1>4, FS_Injection
<1>. QED
  BY <1>4, <1>5, <1>6, MaxAllocsAssumption

LEMMA TrackedStep ==
    ASSUME Cardinality(Addr) <= MaxAllocs, IInv, Tracked, [Next]_vars
    PROVE  Tracked'
<1> USE DEF IInv
<1>1. ASSUME NEW s \in Sizes, Malloc(s) PROVE Tracked'
  <2>1. CASE UNCHANGED <<alloc_table, heap>>
    BY <2>1 DEF Tracked
  <2>2. CASE \E p \in Addr :
               /\ ~heap[p].used
               /\ heap' = [heap EXCEPT ![p] = [used |-> TRUE,
                                  len |-> (s + CANARY_SIZE) % Word]]
               /\ alloc_table' = Track(p, s)
    <3>1. PICK p \in Addr :
               /\ ~heap[p].used
               /\ heap' = [heap EXCEPT ![p] = [used |-> TRUE,
                                  len |-> (s + CANARY_SIZE) % Word]]
               /\ alloc_table' = Track(p, s)
      BY <2>2
    <3> DEFINE free == {i \in Slots : alloc_table[i].user_ptr = NULL}
               k == FirstSlot(free)
    <3>2. free # {}
      BY <3>1, RoomForNewBlock
    <3>3. k \in Slots /\ alloc_table[k].user_ptr = NULL
      BY <3>2, FirstSlotIn
    <3>4. alloc_table' = [alloc_table EXCEPT ![k] = [user_ptr |-> p, size |-> s]]
      BY <3>1, <3>2 DEF Track
    <3>5. SUFFICES ASSUME NEW q \in Addr, heap'[q].used
                   PROVE  \E i \in Slots : alloc_table'[i].user_ptr = q
      BY DEF Tracked
    <3>6. CASE q = p
      BY <3>3, <3>4, <3>6 DEF TypeOK
    <3>7. CASE q # p
      <4>1. heap[q].used
        BY <3>1, <3>5, <3>7 DEF TypeOK
      <4>2. PICK i \in Slots : alloc_table[i].user_ptr = q
        BY <4>1 DEF Tracked
      <4>3. i # k
        BY <3>3, <4>2, AddrAssumption DEF NULL
      <4>. QED
        BY <3>4, <4>2, <4>3 DEF TypeOK
    <3>. QED
      BY <3>6, <3>7
  <2>. QED
    BY <1>1, <2>1, <2>2 DEF Malloc
<1>2. ASSUME NEW p \in Addr \cup {NULL}, Free(p) PROVE Tracked'
  <2> DEFINE match == {i \in Slots : alloc_table[i].user_ptr = p}
  <2>1. CASE p = NULL \/ match = {}
    BY <1>2, <2>1 DEF Free, Tracked
  <2>2. CASE p # NULL /\ match # {}
    <3> DEFINE k == FirstSlot(match)
    <3>1. k \in Slots /\ alloc_table[k].user_ptr = p
      BY <2>2, FirstSlotIn
    <3>2. /\ heap' = [heap EXCEPT ![p] = [used |-> FALSE, len |-> heap[p].len]]
          /\ alloc_table' = Untrack(k)
      BY <1>2, <2>2 DEF Free
    <3>3. SUFFICES ASSUME NEW q \in Addr, heap'[q].used
                   PROVE  \E i \in Slots : alloc_table'[i].user_ptr = q
      BY DEF Tracked
    <3>4. q # p /\ heap[q].used
      BY <3>2, <3>3 DEF TypeOK
    <3>5. PICK i \in Slots : alloc_table[i].user_ptr = q
      BY <3>4 DEF Tracked
    <3>6. i # k /\ alloc_table'[i] = alloc_table[i]
      BY <3>1, <3>2, <3>4, <3>5 DEF Untrack, TypeOK
    <3>. QED
      BY <3>5, <3>6
  <2>. QED
    BY <2>1, <2>2
<1>3. ASSUME NEW p \in Addr, Overflow(p) PROVE Tracked'
  BY <1>3 DEF Overflow, Tracked
<1>4. CASE UNCHANGED vars
  BY <1>4 DEF vars, Tracked
<1>. QED
  BY <1>1, <1>2, <1>3, <1>4 DEF Next

\* When libc can hand out no more blocks than alloc_table has slots,
\* every block libc has in use is one the caller still holds.
THEOREM NoLeakWhenTableFits ==
    ASSUME Cardinality(Addr) <= MaxAllocs
    PROVE  Spec => []NoLeak
<1>1. Init => Tracked
  BY DEF Init, Tracked
<1>2. IInv /\ Tracked /\ [Next]_vars => Tracked'
  BY TrackedStep
<1>3. IInv /\ Tracked => NoLeak
  <2> SUFFICES ASSUME IInv, Tracked, NEW q \in Addr, heap[q].used
               PROVE  q \in held
    BY DEF NoLeak
  <2>1. PICK i \in Slots : alloc_table[i].user_ptr = q
    BY DEF Tracked
  <2>2. q # NULL
    BY AddrAssumption DEF NULL
  <2>. QED
    BY <2>1, <2>2 DEF IInv, TrackingSound
<1>. QED
  BY InitIInv, NextIInv, <1>1, <1>2, <1>3, PTL DEF Spec
-----------------------------------------------------------------------------
(***************************************************************************)
(* The allocator implements TrackedHeap.  The records name distinct       *)
(* blocks (TrackingSound), so there are as many occupied slots as blocks  *)
(* recorded, and the first-empty-slot loop of hardened_malloc finds a     *)
(* slot exactly when fewer than MAX_HARDENED_ALLOCATIONS blocks are       *)
(* recorded: the condition under which TrackedHeap tracks a new block.    *)
(***************************************************************************)
\* The slots holding a record.
Occupied == {i \in Slots : alloc_table[i].user_ptr # NULL}

LEMMA RecordedCount ==
    ASSUME IInv
    PROVE  /\ IsFiniteSet(Recorded)
           /\ Cardinality(Recorded) = Cardinality(Occupied)
<1> DEFINE f == [i \in Occupied |-> alloc_table[i].user_ptr]
<1>1. f \in [Occupied -> Recorded]
  BY DEF Occupied, Recorded
<1>2. IsInjective(f)
  BY DEF IsInjective, IInv, TrackingSound, Occupied
<1>3. \A r \in Recorded : \E i \in Occupied : f[i] = r
  BY DEF Recorded, Occupied
<1>4. ExistsBijection(Occupied, Recorded)
  BY <1>1, <1>2, <1>3 DEF ExistsBijection, Bijection, Injection, Surjection
<1>5. IsFiniteSet(Occupied)
  <2>1. IsFiniteSet(Slots)
    BY MaxAllocsAssumption, FS_Interval DEF Slots
  <2>. QED
    BY <2>1, FS_Subset DEF Occupied
<1>. QED
  BY <1>4, <1>5, FS_Bijection

LEMMA RoomIffFewer ==
    ASSUME IInv
    PROVE  {i \in Slots : alloc_table[i].user_ptr = NULL} # {}
             <=> Cardinality(Recorded) < MaxAllocs
<1>1. IsFiniteSet(Slots) /\ Cardinality(Slots) = MaxAllocs
  BY MaxAllocsAssumption, FS_Interval DEF Slots
<1>2. Occupied \subseteq Slots
  BY DEF Occupied
<1>3. /\ IsFiniteSet(Occupied)
      /\ Cardinality(Occupied) <= MaxAllocs
      /\ Cardinality(Occupied) = MaxAllocs => Occupied = Slots
  BY <1>1, <1>2, FS_Subset
<1>4. Cardinality(Occupied) \in Nat
  BY <1>3, FS_CardinalityType
<1>5. {i \in Slots : alloc_table[i].user_ptr = NULL} # {} <=> Occupied # Slots
  BY DEF Occupied
<1>. QED
  BY <1>1, <1>3, <1>4, <1>5, RecordedCount, MaxAllocsAssumption

\* Every step of the allocator is a step of TrackedHeap or leaves both
\* sets alone.
LEMMA HeapStep ==
    ASSUME IInv, [Next]_vars
    PROVE  [Heap!Next]_Heap!hvars
<1> USE DEF IInv
<1>1. UNCHANGED <<alloc_table, heap>> => UNCHANGED Heap!hvars
  BY DEF Heap!hvars, InUse, Recorded
<1>2. ASSUME NEW s \in Sizes, NEW p \in Addr,
             ~heap[p].used,
             heap' = [heap EXCEPT ![p] = [used |-> TRUE,
                                len |-> (s + CANARY_SIZE) % Word]],
             alloc_table' = Track(p, s)
      PROVE  Heap!Alloc(p)
  <2>1. p \notin InUse /\ InUse' = InUse \cup {p}
    BY <1>2 DEF InUse, TypeOK
  \* TrackedHeap counts with its own instance of FiniteSets.
  <2>0. Heap!Cardinality(Recorded) = Cardinality(Recorded)
    BY DEF Heap!Cardinality, Cardinality
  <2> DEFINE free == {i \in Slots : alloc_table[i].user_ptr = NULL}
  <2>2. CASE free = {}
    <3>1. alloc_table' = alloc_table
      BY <1>2, <2>2 DEF Track
    <3>2. ~(Cardinality(Recorded) < MaxAllocs)
      BY <2>2, RoomIffFewer
    <3>3. Recorded' = Recorded
      BY <3>1 DEF Recorded
    <3>. QED
      BY <2>0, <2>1, <3>2, <3>3 DEF Heap!Alloc
  <2>3. CASE free # {}
    <3> DEFINE k == FirstSlot(free)
    <3>1. k \in Slots /\ alloc_table[k].user_ptr = NULL
      BY <2>3, FirstSlotIn
    <3>2. alloc_table' = [alloc_table EXCEPT ![k] = [user_ptr |-> p,
                                                     size |-> s]]
      BY <1>2, <2>3 DEF Track
    <3>3. Cardinality(Recorded) < MaxAllocs
      BY <2>3, RoomIffFewer
    <3>4. Recorded' = Recorded \cup {p}
      BY <3>1, <3>2, AddrAssumption DEF Recorded, TypeOK, NULL
    <3>. QED
      BY <2>0, <2>1, <3>3, <3>4 DEF Heap!Alloc
  <2>. QED
    BY <2>2, <2>3
<1>3. ASSUME NEW p \in Addr, NEW k \in Slots, alloc_table[k].user_ptr = p,
             heap' = [heap EXCEPT ![p] = [used |-> FALSE, len |-> heap[p].len]],
             alloc_table' = Untrack(k)
      PROVE  Heap!Release(p)
  <2>1. p \in Recorded
    BY <1>3, AddrAssumption DEF Recorded, NULL
  <2>2. InUse' = InUse \ {p}
    BY <1>3 DEF InUse, TypeOK
  <2>3. \A j \in Slots \ {k} : alloc_table[j].user_ptr # p
    BY <1>3, AddrAssumption DEF TrackingSound, NULL
  <2>4. Recorded' = Recorded \ {p}
    BY <1>3, <2>3 DEF Recorded, Untrack, TypeOK
  <2>. QED
    BY <2>1, <2>2, <2>4 DEF Heap!Release
<1>4. ASSUME NEW s \in Sizes, Malloc(s) PROVE [Heap!Next]_Heap!hvars
  <2>1. CASE UNCHANGED <<alloc_table, heap>>
    BY <1>1, <2>1
  <2>2. CASE \E p \in Addr :
               /\ ~heap[p].used
               /\ heap' = [heap EXCEPT ![p] = [used |-> TRUE,
                                  len |-> (s + CANARY_SIZE) % Word]]
               /\ alloc_table' = Track(p, s)
    <3>1. PICK p \in Addr :
               /\ ~heap[p].used
               /\ heap' = [heap EXCEPT ![p] = [used |-> TRUE,
                                  len |-> (s + CANARY_SIZE) % Word]]
               /\ alloc_table' = Track(p, s)
      BY <2>2
    <3>. QED
      BY <3>1, <1>2 DEF Heap!Next
  <2>. QED
    BY <1>4, <2>1, <2>2 DEF Malloc
<1>5. ASSUME NEW p \in Addr \cup {NULL}, Free(p) PROVE [Heap!Next]_Heap!hvars
  <2> DEFINE match == {i \in Slots : alloc_table[i].user_ptr = p}
  <2>1. CASE p = NULL \/ match = {}
    BY <1>1, <1>5, <2>1 DEF Free
  <2>2. CASE p # NULL /\ match # {}
    <3> DEFINE k == FirstSlot(match)
    <3>1. k \in Slots /\ alloc_table[k].user_ptr = p
      BY <2>2, FirstSlotIn
    <3>2. /\ heap' = [heap EXCEPT ![p] = [used |-> FALSE, len |-> heap[p].len]]
          /\ alloc_table' = Untrack(k)
      BY <1>5, <2>2 DEF Free
    <3>3. p \in Addr
      BY <2>2
    <3>. QED
      BY <1>3, <3>1, <3>2, <3>3 DEF Heap!Next
  <2>. QED
    BY <2>1, <2>2
<1>6. ASSUME NEW p \in Addr, Overflow(p) PROVE [Heap!Next]_Heap!hvars
  BY <1>1, <1>6 DEF Overflow
<1>7. CASE UNCHANGED vars
  BY <1>1, <1>7 DEF vars
<1>. QED
  BY <1>4, <1>5, <1>6, <1>7 DEF Next

\* hardened_malloc and hardened_free implement TrackedHeap under the
\* mapping of the blocks in use and the blocks recorded: a block is
\* tracked exactly while the table has room, only a recorded block is
\* released, and its release drops its record.
THEOREM HeapRefines == Spec => HeapRefinement
<1>1. Init => Heap!Init
  BY DEF Init, Heap!Init, InUse, Recorded, NULL
<1>2. IInv /\ [Next]_vars => [Heap!Next]_Heap!hvars
  BY HeapStep
<1>. QED
  BY InitIInv, NextIInv, <1>1, <1>2, PTL DEF Spec, HeapRefinement, Heap!Spec
=============================================================================
