---------------------------- MODULE TrackedHeap ----------------------------
(***************************************************************************)
(* What the canary allocator promises about heap blocks, whatever table   *)
(* and canary it uses: a block comes into use only when malloc hands it   *)
(* out, and is tracked then if fewer than MAX_HARDENED_ALLOCATIONS blocks *)
(* are; only a tracked block is ever released, and releasing it forgets   *)
(* it.  A block handed out untracked therefore stays in use.              *)
(***************************************************************************)
EXTENDS Naturals, FiniteSets

CONSTANTS
    Addr,       \* the blocks the heap may hand out
    MaxAllocs   \* how many blocks can be tracked at once

VARIABLES
    inUse,      \* blocks handed out and not released
    tracked     \* blocks a free will check and release

hvars == <<inUse, tracked>>

Init ==
    /\ inUse = {}
    /\ tracked = {}

\* malloc hands out block p; it is tracked while there is room.
Alloc(p) ==
    /\ p \notin inUse
    /\ inUse' = inUse \cup {p}
    /\ tracked' = IF Cardinality(tracked) < MaxAllocs THEN tracked \cup {p}
                  ELSE tracked

\* free of a tracked block: it is released and no longer tracked.
Release(p) ==
    /\ p \in tracked
    /\ inUse' = inUse \ {p}
    /\ tracked' = tracked \ {p}

Next == \E p \in Addr : Alloc(p) \/ Release(p)

Spec == Init /\ [][Next]_hvars
=============================================================================
