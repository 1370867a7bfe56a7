-------------------------- MODULE FspRaminitProofs --------------------------
(***************************************************************************)
(* Proofs about raminit(): its type invariant, and that it never gets past *)
(* the HOB verification with a hand-off the spec rejects (VerdictSound),   *)
(* for every set of addresses, payload sizes and list bound.               *)
(***************************************************************************)
EXTENDS FspRaminit, WellFoundedInduction, TLAPS

(***************************************************************************)
(* The HOB lookup returns NULL or the index of a record of the list that   *)
(* has the GUID looked for.  The CHOOSE has a witness because the indices  *)
(* of the matching records form a non-empty set of naturals, which has a  *)
(* least element.                                                          *)
(***************************************************************************)
LEMMA FindHobFacts ==
    ASSUME NEW l \in HobLists \cup {NoList}, NEW t
    PROVE  /\ FindHob(l, t) \in Nat
           /\ FindHob(l, t) # NULL =>
                /\ l \in HobLists
                /\ FindHob(l, t) \in DOMAIN l.recs
                /\ l.recs[FindHob(l, t)].tag = t
<1>1. CASE l = NoList \/ ~l.ended \/ \A i \in DOMAIN l.recs : l.recs[i].tag # t
  BY <1>1 DEF FindHob, NULL
<1>2. CASE ~(l = NoList \/ ~l.ended \/ \A i \in DOMAIN l.recs : l.recs[i].tag # t)
  <2>1. l \in HobLists
    BY <1>2
  <2>2. PICK n \in 0..MaxHobs : l.recs \in [1..n -> Hob]
    BY <2>1 DEF HobLists
  <2> DEFINE T == {i \in DOMAIN l.recs : l.recs[i].tag = t}
  <2>3. T \subseteq Nat /\ T # {}
    BY <1>2, <2>2
  <2>4. PICK x \in T : \A y \in T : ~(<<y, x>> \in OpToRel(<, Nat))
    BY <2>3, NatLessThanWellFounded, WFMin
  <2>5. /\ x \in DOMAIN l.recs
        /\ l.recs[x].tag = t
        /\ \A j \in 1..(x - 1) : l.recs[j].tag # t
    <3>1. x \in 1..n
      BY <2>2, <2>4
    <3>2. ASSUME NEW j \in 1..(x - 1), l.recs[j].tag = t
          PROVE  FALSE
      <4>1. j \in T
        BY <3>1, <3>2, <2>2
      <4>2. <<j, x>> \in OpToRel(<, Nat)
        BY <3>1, <3>2 DEF OpToRel
      <4>. QED
        BY <4>1, <4>2, <2>4
    <3>. QED
      BY <3>1, <3>2, <2>2
  <2>6. FindHob(l, t) = CHOOSE i \in DOMAIN l.recs :
                           /\ l.recs[i].tag = t
                           /\ \A j \in 1..(i - 1) : l.recs[j].tag # t
    BY <1>2 DEF FindHob
  <2>7. /\ FindHob(l, t) \in DOMAIN l.recs
        /\ l.recs[FindHob(l, t)].tag = t
    BY <2>5, <2>6
  <2>. QED
    BY <2>1, <2>2, <2>7 DEF NULL
<1>. QED
  BY <1>1, <1>2

\* The fields the checks read exist on the records that carry them.
LEMMA HobFields ==
    ASSUME NEW h \in Hob
    PROVE  /\ h.tag \in {"FspReserved", "Tolum"} => h.start \in Addr
           /\ h.tag \in {"FspReserved", "Tolum"} => h.len \in ResLen
           /\ h.tag = "Mrc" => h.size \in MrcPayload
BY DEF Hob, ResourceHobs, MemInfoHobs, MrcHobs

\* MRC payload sizes are naturals.
LEMMA MrcPayloadNat == MrcPayload \subseteq Nat
BY MrcPayloadAssumption

\* A lookup in the current list yields an index fit for fspMemory, and the
\* start address of a found resource HOB is a non-zero natural.
LEMMA FindResource ==
    ASSUME hobListPtr \in HobLists \cup {NoList},
           NEW t \in {"FspReserved", "Tolum"},
           FindHob(hobListPtr, t) # NULL
    PROVE  Start(FindHob(hobListPtr, t)) \in Nat \ {0}
<1>1. /\ hobListPtr \in HobLists
      /\ FindHob(hobListPtr, t) \in DOMAIN hobListPtr.recs
      /\ hobListPtr.recs[FindHob(hobListPtr, t)].tag = t
  BY FindHobFacts
<1>2. hobListPtr.recs[FindHob(hobListPtr, t)] \in Hob
  BY <1>1 DEF HobLists
<1>. QED
  BY <1>1, <1>2, HobFields, AddrAssumption DEF Start

\* fsp_reserved_bytes stays a natural across the reserved-HOB lookup.
LEMMA ReservedBytesNat ==
    ASSUME TypeOK, LookupFspMemory
    PROVE  fspReservedBytes' \in Nat
<1>1. CASE FindHob(hobListPtr, "FspReserved") = NULL
  BY <1>1 DEF LookupFspMemory, TypeOK
<1>2. CASE FindHob(hobListPtr, "FspReserved") # NULL
  <2> DEFINE fm == FindHob(hobListPtr, "FspReserved")
  <2>1. /\ hobListPtr \in HobLists
        /\ fm \in DOMAIN hobListPtr.recs
        /\ hobListPtr.recs[fm].tag = "FspReserved"
    BY <1>2, FindHobFacts DEF TypeOK
  <2>2. hobListPtr.recs[fm] \in Hob
    BY <2>1 DEF HobLists
  <2>3. hobListPtr.recs[fm].len \in Nat
    BY <2>1, <2>2, HobFields, ResLenAssumption
  <2>4. fspReservedBytes' = hobListPtr.recs[fm].len % U32
    BY <1>2 DEF LookupFspMemory
  <2>. QED
    BY <2>3, <2>4, ResLenAssumption
<1>. QED
  BY <1>1, <1>2

-----------------------------------------------------------------------------
(***************************************************************************)
(* Type correctness.                                                       *)
(***************************************************************************)
LEMMA InitTypeOK == Init => TypeOK
<1> SUFFICES ASSUME Init PROVE TypeOK
  OBVIOUS
<1>1. NULL \in Nat /\ NULL \in Addr \cup {NULL}
  BY DEF NULL
<1>2. NoList \in HobLists \cup {NoList}
  OBVIOUS
<1>. QED
  BY <1>1, <1>2, Zenon DEF Init, TypeOK, Terminal, PostCodes, BootModes

LEMMA NextTypeOK == TypeOK /\ [Next]_vars => TypeOK'
<1> SUFFICES ASSUME TypeOK, [Next]_vars PROVE TypeOK'
  OBVIOUS
<1>1. CASE RaminitSetup
  BY <1>1 DEF RaminitSetup, Die, TypeOK, BootModes, PostCodes, Terminal
<1>2. CASE FspMemoryInit
  BY <1>2 DEF FspMemoryInit, Die, TypeOK, PostCodes, Terminal
<1>3. CASE CbmemInitialize
  <2>1. fspReservedBytes' \in Nat
    BY <1>3, ReservedBytesNat DEF CbmemInitialize
  <2>. QED
    BY <1>3, <2>1, FindHobFacts DEF CbmemInitialize, LookupFspMemory, TypeOK,
                                    Checks, Terminal
<1>4. CASE CbmemRecoveryFailed
  <2>1. fspReservedBytes' \in Nat
    BY <1>4, ReservedBytesNat DEF CbmemRecoveryFailed
  <2>. QED
    BY <1>4, <2>1, FindHobFacts DEF CbmemRecoveryFailed, LookupFspMemory,
                                    TypeOK, Checks, Terminal
<1>5. CASE VerifyNullHobList
  BY <1>5 DEF VerifyNullHobList, EarlyChecks, Die, TypeOK, Checks, PostCodes,
              Terminal, NULL
<1>6. CASE VerifyHobs
  <2>1. PICK area \in Addr \cup {NULL} :
          LET root == FindHob(hobListPtr, "Tolum")
              all == EarlyChecks \cup MrcCheck \cup PlacementCheck(root)
                                 \cup AreaCheck(area)
          IN /\ runtimeHobList' = hobListPtr
             /\ cbmemRoot' = root
             /\ reservedArea' = area
             /\ errs' = all
             /\ fspVerificationFailure' = (fspVerificationFailure \/ all # {})
             /\ IF fspVerificationFailure'
                THEN Die("POSTCODE_INVALID_VENDOR_BINARY")
                ELSE pc' = "save" /\ UNCHANGED postCode
    BY <1>6 DEF VerifyHobs
  <2>2. FindHob(hobListPtr, "Tolum") \in Nat
    BY FindHobFacts DEF TypeOK
  <2>3. EarlyChecks \cup MrcCheck \cup PlacementCheck(FindHob(hobListPtr, "Tolum"))
          \cup AreaCheck(area) \subseteq Checks
    BY DEF TypeOK, EarlyChecks, MrcCheck, PlacementCheck, AreaCheck, Checks
  <2>. QED
    BY <1>6, <2>1, <2>2, <2>3
    DEF VerifyHobs, Die, TypeOK, PostCodes, Terminal
<1>7. CASE CaptureMrcData
  <2> DEFINE mrc == FindHob(hobListPtr, "Mrc")
  <2>1. mrc \in Nat
    BY FindHobFacts DEF TypeOK
  <2>2. mrc # NULL => hobListPtr.recs[mrc].size \in Nat
    <3> SUFFICES ASSUME mrc # NULL PROVE hobListPtr.recs[mrc].size \in Nat
      OBVIOUS
    <3>1. /\ hobListPtr \in HobLists
          /\ mrc \in DOMAIN hobListPtr.recs
          /\ hobListPtr.recs[mrc].tag = "Mrc"
      BY FindHobFacts DEF TypeOK
    <3>2. hobListPtr.recs[mrc] \in Hob
      BY <3>1 DEF HobLists
    <3>3. hobListPtr.recs[mrc].size \in MrcPayload
      BY <3>1, <3>2, HobFields
    <3>. QED
      BY <3>3, MrcPayloadNat
  <2>3. mrc # NULL => AlignUp(HobLength(hobListPtr.recs[mrc]), 16) \in Nat
    BY <2>2 DEF AlignUp, HobLength, HobHeaderSize
  <2>. QED
    BY <1>7, <2>1, <2>3 DEF CaptureMrcData, TypeOK, Terminal, NULL
<1>8. CASE Finished
  BY <1>8 DEF Finished, vars, TypeOK
<1>9. CASE UNCHANGED vars
  BY <1>9 DEF vars, TypeOK
<1>. QED
  BY <1>1, <1>2, <1>3, <1>4, <1>5, <1>6, <1>7, <1>8, <1>9 DEF Next

\* raminit() keeps every variable in its type.
THEOREM TypeCorrect == Spec => []TypeOK
BY InitTypeOK, NextTypeOK, PTL DEF Spec
-----------------------------------------------------------------------------
(***************************************************************************)
(* Verdict soundness.  The step that reaches "save" is VerifyHobs with no  *)
(* diagnostic at all.  The lemma below turns "every check of the code      *)
(* passed" into "no requirement of the spec is broken": the TOLUM,         *)
(* memory-info and MRC lookups succeeded, the reserved HOB starts strictly *)
(* below TOLUM (the code's <= test is the negation of the spec's <), and   *)
(* cbmem's area is the reserved HOB's start.  That fspMemory is the        *)
(* reserved HOB of this very list, and that it was found, is what IInv     *)
(* carries from CbmemInitialize to VerifyHobs.                             *)
(***************************************************************************)
LEMMA ChecksPass ==
    ASSUME TypeOK,
           hobListPtr # NoList,
           NEW area \in Addr \cup {NULL},
           fspMemory = FindHob(hobListPtr, "FspReserved"),
           fspMemory # NULL,
           errs = {},
           EarlyChecks \cup MrcCheck
             \cup PlacementCheck(FindHob(hobListPtr, "Tolum"))
             \cup AreaCheck(area) = {}
    PROVE  Violated(hobListPtr, area, savedData) = {}
<1> DEFINE fm == FindHob(hobListPtr, "FspReserved")
           root == FindHob(hobListPtr, "Tolum")
<1>1. /\ root # NULL
      /\ FindHob(hobListPtr, "MemInfo") # NULL
  BY DEF EarlyChecks
<1>2. ~(FindHob(hobListPtr, "Mrc") = NULL /\ ~savedData)
  BY DEF MrcCheck
<1>3. ~(Start(root) <= Start(fm))
  BY <1>1 DEF PlacementCheck
<1>4. Start(root) \in Nat /\ Start(fm) \in Nat
  BY <1>1, FindResource DEF TypeOK
<1>5. ~(hobListPtr.recs[fm].start >= hobListPtr.recs[root].start)
  BY <1>3, <1>4 DEF Start
<1>6. area # NULL /\ hobListPtr.recs[fm].start = area
  BY DEF AreaCheck, Start
<1>7. SUFFICES ASSUME NEW c \in Violated(hobListPtr, area, savedData)
               PROVE  FALSE
  OBVIOUS
<1>8. c \in Checks
  BY DEF Violated
<1>. QED
  <2>1. CASE c = "ReservedMissing"
    BY <2>1 DEF Violated
  <2>5. CASE c = "TolumMissing"
    BY <1>1, <2>5 DEF Violated
  <2>6. CASE c = "MemInfoMissing"
    BY <1>1, <2>6 DEF Violated
  <2>2. CASE c = "MrcMissing"
    BY <1>2, <2>2 DEF Violated
  <2>3. CASE c = "ReservedAboveTolum"
    BY <1>5, <2>3 DEF Violated
  <2>4. CASE c = "ReservedAreaMismatch"
    BY <1>6, <2>4 DEF Violated
  <2>. QED
    BY <1>8, <2>1, <2>2, <2>3, <2>4, <2>5, <2>6 DEF Checks

(***************************************************************************)
(* Complete diagnostics.  While verifying, the diagnostics so far are the *)
(* outcome of the reserved-HOB lookup; the lemma below shows that adding  *)
(* the TOLUM, memory-info, MRC, placement and area checks of lines 681-733 *)
(* yields exactly the requirements the list breaks.  The two places where *)
(* the code and the spec word a check differently meet here: the code's   *)
(* "TOLUM start <= reserved start" is the spec's "reserved start >= TOLUM *)
(* start", and a NULL cbmem area differs from every start address since   *)
(* addresses are non-zero.                                                 *)
(***************************************************************************)
LEMMA ChecksAreViolations ==
    ASSUME TypeOK,
           hobListPtr # NoList,
           NEW area \in Addr \cup {NULL},
           fspMemory = FindHob(hobListPtr, "FspReserved"),
           errs = IF fspMemory = NULL THEN {"ReservedMissing"} ELSE {}
    PROVE  EarlyChecks \cup MrcCheck
             \cup PlacementCheck(FindHob(hobListPtr, "Tolum"))
             \cup AreaCheck(area) = Violated(hobListPtr, area, savedData)
<1> DEFINE fm == FindHob(hobListPtr, "FspReserved")
           root == FindHob(hobListPtr, "Tolum")
           found == EarlyChecks \cup MrcCheck \cup PlacementCheck(root)
                      \cup AreaCheck(area)
<1>1. fm # NULL => Start(fm) \in Nat \ {0}
  BY FindResource DEF TypeOK
<1>2. root # NULL => Start(root) \in Nat \ {0}
  BY FindResource DEF TypeOK
<1>3. ASSUME NEW c PROVE c \in found <=> c \in Violated(hobListPtr, area, savedData)
  <2>1. CASE c = "ReservedMissing"
    BY <2>1 DEF EarlyChecks, MrcCheck, PlacementCheck, AreaCheck, Violated, Checks
  <2>2. CASE c = "TolumMissing"
    BY <2>2 DEF EarlyChecks, MrcCheck, PlacementCheck, AreaCheck, Violated, Checks
  <2>3. CASE c = "MemInfoMissing"
    BY <2>3 DEF EarlyChecks, MrcCheck, PlacementCheck, AreaCheck, Violated, Checks
  <2>4. CASE c = "MrcMissing"
    BY <2>4 DEF EarlyChecks, MrcCheck, PlacementCheck, AreaCheck, Violated, Checks
  <2>5. CASE c = "ReservedAboveTolum"
    BY <1>1, <1>2, <2>5 DEF EarlyChecks, MrcCheck, PlacementCheck, AreaCheck,
                            Violated, Checks, Start
  <2>6. CASE c = "ReservedAreaMismatch"
    BY <1>1, <2>6 DEF EarlyChecks, MrcCheck, PlacementCheck, AreaCheck,
                      Violated, Checks, Start, NULL
  <2>7. CASE c \notin Checks
    BY <2>7 DEF EarlyChecks, MrcCheck, PlacementCheck, AreaCheck, Violated, Checks
  <2>. QED
    BY <2>1, <2>2, <2>3, <2>4, <2>5, <2>6, <2>7 DEF Checks
<1>. QED
  BY <1>3

-----------------------------------------------------------------------------
LEMMA InitIInv == Init => IInv
BY InitTypeOK DEF Init, IInv, VerdictSound, DiagnosticsComplete

LEMMA NextIInv == IInv /\ [Next]_vars => IInv'
<1> SUFFICES ASSUME IInv, [Next]_vars PROVE IInv'
  OBVIOUS
<1> USE DEF IInv
<1>0. TypeOK'
  BY NextTypeOK
<1>1. CASE RaminitSetup
  <2>1. /\ pc = "setup" /\ pc' \in {"halted", "meminit"}
        /\ UNCHANGED hobListPtr
    BY <1>1 DEF RaminitSetup, Die
  <2>. QED
    BY <1>0, <2>1 DEF VerdictSound, DiagnosticsComplete
<1>2. CASE FspMemoryInit
  <2>1. /\ pc' \in {"halted", "cbmem"}
        /\ pc' = "cbmem" => status' = "EFI_SUCCESS"
        /\ pc' = "halted" => postCode' = "POSTCODE_RAM_FAILURE"
    BY <1>2 DEF FspMemoryInit, Die
  <2>. QED
    BY <1>0, <2>1 DEF VerdictSound, DiagnosticsComplete
<1>3. CASE CbmemInitialize
  BY <1>0, <1>3 DEF CbmemInitialize, LookupFspMemory, VerdictSound,
                    DiagnosticsComplete
<1>4. CASE CbmemRecoveryFailed
  BY <1>0, <1>4 DEF CbmemRecoveryFailed, VerdictSound, DiagnosticsComplete
<1>5. CASE VerifyNullHobList
  BY <1>0, <1>5 DEF VerifyNullHobList, Die, VerdictSound, DiagnosticsComplete
<1>6. CASE VerifyHobs
  <2>1. PICK area \in Addr \cup {NULL} :
          LET root == FindHob(hobListPtr, "Tolum")
              all == EarlyChecks \cup MrcCheck \cup PlacementCheck(root)
                                 \cup AreaCheck(area)
          IN /\ runtimeHobList' = hobListPtr
             /\ cbmemRoot' = root
             /\ reservedArea' = area
             /\ errs' = all
             /\ fspVerificationFailure' = (fspVerificationFailure \/ all # {})
             /\ IF fspVerificationFailure'
                THEN Die("POSTCODE_INVALID_VENDOR_BINARY")
                ELSE pc' = "save" /\ UNCHANGED postCode
    BY <1>6 DEF VerifyHobs
  <2> DEFINE all == EarlyChecks \cup MrcCheck
                      \cup PlacementCheck(FindHob(hobListPtr, "Tolum"))
                      \cup AreaCheck(area)
  <2>2. UNCHANGED <<status, hobListPtr, fspMemory, savedData>>
    BY <1>6 DEF VerifyHobs
  <2>3. /\ pc = "verify"
        /\ hobListPtr # NoList
        /\ status = "EFI_SUCCESS"
        /\ fspMemory = FindHob(hobListPtr, "FspReserved")
        /\ fspVerificationFailure = (fspMemory = NULL)
        /\ errs = IF fspMemory = NULL THEN {"ReservedMissing"} ELSE {}
    BY <1>6 DEF VerifyHobs
  <2>4. all = Violated(hobListPtr, area, savedData)
    BY <2>3, ChecksAreViolations
  <2>5. CASE fspVerificationFailure'
    <3>1. pc' = "halted" /\ errs' = all /\ reservedArea' = area
      BY <2>1, <2>5 DEF Die
    <3>2. all # {}
      <4>1. CASE fspVerificationFailure
        BY <2>3, <4>1 DEF EarlyChecks
      <4>2. CASE ~fspVerificationFailure
        BY <2>1, <2>5, <4>2
      <4>. QED
        BY <4>1, <4>2
    <3>. QED
      BY <1>0, <2>2, <2>4, <3>1, <3>2 DEF VerdictSound, DiagnosticsComplete
  <2>6. CASE ~fspVerificationFailure'
    <3>1. fspMemory # NULL /\ errs = {} /\ all = {}
      BY <2>1, <2>3, <2>6
    <3>2. Violated(hobListPtr, area, savedData) = {}
      BY <2>3, <3>1, ChecksPass
    <3>3. pc' = "save" /\ reservedArea' = area
      BY <2>1, <2>6
    <3>. QED
      BY <1>0, <2>2, <2>3, <3>2, <3>3 DEF VerdictSound, DiagnosticsComplete
  <2>. QED
    BY <2>5, <2>6
<1>7. CASE CaptureMrcData
  <2>1. /\ pc = "save" /\ pc' = "done"
        /\ UNCHANGED <<status, hobListPtr, fspMemory, reservedArea, savedData>>
    BY <1>7 DEF CaptureMrcData
  <2>2. SaveCaptured'
    BY <1>7, <2>1 DEF CaptureMrcData, SaveCaptured
  <2>. QED
    BY <1>0, <2>1, <2>2 DEF VerdictSound, DiagnosticsComplete
<1>8. CASE Finished
  BY <1>8 DEF Finished, vars, VerdictSound, DiagnosticsComplete, SaveCaptured,
              TypeOK
<1>9. CASE UNCHANGED vars
  BY <1>9 DEF vars, VerdictSound, DiagnosticsComplete, SaveCaptured, TypeOK
<1>. QED
  BY <1>1, <1>2, <1>3, <1>4, <1>5, <1>6, <1>7, <1>8, <1>9 DEF Next

\* IInv, the conjunction the raminit run checks, holds in every reachable
\* state of raminit() for every instance.
THEOREM IInvHolds == Spec => []IInv
BY InitIInv, NextIInv, PTL DEF Spec

\* The HOB verification of raminit() lets the boot go on only with a
\* successful FspMemoryInit and a hand-off that meets every requirement of
\* the spec: IInv is inductive, and it implies VerdictSound.
THEOREM VerdictSoundness == Spec => []VerdictSound
<1>1. IInv => VerdictSound
  BY DEF IInv
<1>. QED
  BY IInvHolds, <1>1, PTL

\* When the HOB verification of lines 678-750 halts with the invalid-vendor
\* post code, the diagnostics printed are non-empty and are exactly the
\* requirements the hand-off breaks, for every instance.
THEOREM DiagnosticsCompleteness == Spec => []DiagnosticsComplete
<1>1. IInv => DiagnosticsComplete
  BY DEF IInv
<1>. QED
  BY IInvHolds, <1>1, PTL

-----------------------------------------------------------------------------
(***************************************************************************)
(* Size accounting.  Line 652 stores the reserved HOB's UINT64            *)
(* ResourceLength in the u32 fsp_reserved_bytes, and nothing later changes *)
(* it or the HOB list.  So the size cbmem reserves is ResourceLength       *)
(* modulo 2^32, and it is the whole region exactly when the length fits a *)
(* u32: truncation is the only way the reservation falls short.           *)
(***************************************************************************)
RInv ==
    (pc \in {"verify", "save", "done"} /\ fspMemory # NULL) =>
        fspReservedBytes = hobListPtr.recs[fspMemory].len % U32

LEMMA NextRInv == IInv /\ RInv /\ [Next]_vars => RInv'
<1> SUFFICES ASSUME IInv, RInv, [Next]_vars PROVE RInv'
  OBVIOUS
<1>1. CASE RaminitSetup \/ FspMemoryInit \/ CbmemRecoveryFailed
                        \/ VerifyNullHobList
  <2>1. pc' \notin {"verify", "save", "done"}
    BY <1>1 DEF RaminitSetup, FspMemoryInit, CbmemRecoveryFailed,
                VerifyNullHobList, Die
  <2>. QED
    BY <2>1 DEF RInv
<1>2. CASE CbmemInitialize
  BY <1>2 DEF CbmemInitialize, LookupFspMemory, RInv
<1>3. CASE VerifyHobs \/ CaptureMrcData
  <2>1. UNCHANGED <<hobListPtr, fspMemory, fspReservedBytes>>
        /\ pc \in {"verify", "save"}
    BY <1>3 DEF VerifyHobs, CaptureMrcData
  <2>. QED
    BY <2>1 DEF RInv
<1>4. CASE Finished \/ UNCHANGED vars
  BY <1>4 DEF Finished, vars, RInv
<1>. QED
  BY <1>1, <1>2, <1>3, <1>4 DEF Next

\* When every ResourceLength the FSP may report fits a u32, the block cbmem
\* reserves for the FSP covers the region its reserved-memory HOB claims,
\* whenever raminit() gets past its verification.
THEOREM ReservationFits ==
    ASSUME ResLen \subseteq 0..(U32 - 1)
    PROVE  Spec => []ReservationCoversRegion
<1>1. Init => RInv
  BY DEF Init, RInv
<1>2. IInv /\ RInv => ReservationCoversRegion
  <2> SUFFICES ASSUME IInv, RInv, pc \in {"save", "done"}
               PROVE  fspReservedBytes = hobListPtr.recs[fspMemory].len
    BY DEF ReservationCoversRegion
  <2>1. /\ hobListPtr \in HobLists \cup {NoList}
        /\ fspMemory = FindHob(hobListPtr, "FspReserved")
        /\ Violated(hobListPtr, reservedArea, savedData) = {}
    BY DEF IInv, TypeOK, VerdictSound
  <2>2. fspMemory # NULL
    <3>1. FindHob(hobListPtr, "FspReserved") = NULL =>
            "ReservedMissing" \in Violated(hobListPtr, reservedArea, savedData)
      BY DEF Violated, Checks
    <3>. QED
      BY <2>1, <3>1
  <2>3. /\ fspMemory \in DOMAIN hobListPtr.recs
        /\ hobListPtr \in HobLists
        /\ hobListPtr.recs[fspMemory].tag = "FspReserved"
    BY <2>1, <2>2, FindHobFacts
  <2>4. hobListPtr.recs[fspMemory].len \in 0..(U32 - 1)
    <3>1. hobListPtr.recs[fspMemory] \in Hob
      BY <2>3 DEF HobLists
    <3>. QED
      BY <2>3, <3>1, HobFields
  <2>5. fspReservedBytes = hobListPtr.recs[fspMemory].len % U32
    BY <2>2 DEF RInv
  <2>. QED
    BY <2>4, <2>5, ResLenAssumption
<1>. QED
  BY InitIInv, NextIInv, NextRInv, <1>1, <1>2, PTL DEF Spec
=============================================================================
