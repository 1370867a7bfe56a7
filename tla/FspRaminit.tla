----------------------------- MODULE FspRaminit -----------------------------
(***************************************************************************)
(* raminit() of the FSP 1.1 romstage driver (src/unnamed/part_000, lines  *)
(* 519-764): choose the boot mode, resolve the FSP configuration region,  *)
(* call FspMemoryInit, then check the HOB list the FSP hands back and     *)
(* capture the MRC (non-volatile storage) HOB for the next boot.           *)
(*                                                                         *)
(* The function is single-threaded; it is cut into steps at the points    *)
(* where an external collaborator answers: the FSP binary, the cbmem       *)
(* initialisation (which may fail on S3 resume) and cbmem_find.  Every     *)
(* step is forced: the model never skips a part of the function.           *)
(***************************************************************************)
EXTENDS Integers, Sequences, FiniteSets

CONSTANTS
    Addr,         \* physical start addresses a resource HOB or cbmem may report
    MrcPayload,   \* byte sizes of the MRC HOB payload the FSP may produce
    MaxHobs,      \* bound on the HOB list walk (records before END_OF_HOB_LIST)
    NoList,       \* the NULL HOB list pointer
    ResLen,       \* ResourceLength values (UINT64) a resource HOB may carry
    U32           \* 2^32, the range of a u32 (scaled down for TLC)

ASSUME AddrAssumption == Addr \subseteq Nat \ {0}
ASSUME MaxHobsAssumption == MaxHobs \in Nat
ASSUME ResLenAssumption == ResLen \subseteq Nat /\ U32 \in Nat \ {0}

\* NULL pointers: address 0 and HOB index 0.
NULL == 0

\* A GUID HOB starts with EFI_HOB_GENERIC_HEADER (8 bytes) and the GUID (16).
HobHeaderSize == 24

\* The whole GUID HOB, header included, fits the UINT16 HobLength field.
ASSUME MrcPayloadAssumption ==
    MrcPayload \subseteq {n \in Nat : HobHeaderSize + n <= 65535}

\* The four HOB GUIDs raminit() looks up.
Tags == {"FspReserved", "Tolum", "MemInfo", "Mrc"}

\* Resource descriptor HOBs carry a start address and a length; the SMBIOS
\* memory-info HOB carries nothing the checks read; the MRC HOB carries its
\* payload size.
ResourceHobs == [tag : {"FspReserved", "Tolum"}, start : Addr, len : ResLen]
MemInfoHobs == [tag : {"MemInfo"}]
MrcHobs == [tag : {"Mrc"}, size : MrcPayload]
Hob == ResourceHobs \cup MemInfoHobs \cup MrcHobs

\* A HOB list: its records in order, and whether END_OF_HOB_LIST is met
\* within MaxHobs records.
HobLists == [recs : UNION {[1..n -> Hob] : n \in 0..MaxHobs}, ended : BOOLEAN]

ASSUME NoListAssumption == NoList \notin HobLists

\* The header of the FSP image: a NULL header, a zero CfgRegionOffset, a
\* zero PcdUpdRegionOffset, a zero MemoryInitUpdOffset, or a sound one.
HeaderKinds == {"null", "zeroCfg", "zeroUpd", "zeroMemUpd", "ok"}

BootModes == {"BOOT_ON_S3_RESUME", "BOOT_ASSUMING_NO_CONFIGURATION_CHANGES",
              "BOOT_WITH_FULL_CONFIGURATION"}

PostCodes == {"None", "POSTCODE_RAM_FAILURE", "POSTCODE_INVALID_VENDOR_BINARY"}

\* The diagnostics the verification prints (one per check of the spec).
Checks == {"ReservedMissing", "TolumMissing", "MemInfoMissing", "MrcMissing",
           "ReservedAboveTolum", "ReservedAreaMismatch"}

Terminal == {"done", "halted", "reset"}

(***************************************************************************)
(* get_resource_hob / get_guid_hob: the first record of the list with the  *)
(* GUID, or NULL when there is none, when the list pointer is NULL, or     *)
(* when the walk meets no END_OF_HOB_LIST within its bound.                *)
(***************************************************************************)
FindHob(l, t) ==
    IF l = NoList \/ ~l.ended \/ \A i \in DOMAIN l.recs : l.recs[i].tag # t
    THEN NULL
    ELSE CHOOSE i \in DOMAIN l.recs :
            /\ l.recs[i].tag = t
            /\ \A j \in 1..(i - 1) : l.recs[j].tag # t

\* GET_HOB_LENGTH: the HobLength field, header included (UINT16).
HobLength(h) == HobHeaderSize + h.size

\* ALIGN_UP.  Line 756 applies it to the UINT16 HobLength cast to u32, so
\* the sum never reaches 2^32 and the result is exact.
AlignUp(x, a) == ((x + a - 1) \div a) * a

VARIABLES
    pc,          \* the point raminit() has reached
    s3wake,      \* prev_sleep_state == ACPI_S3
    savedData,   \* params->saved_data != NULL
    fspHeader,   \* the kind of FSP_INFO_HEADER in params->chipset_context
    bootMode,    \* fsp_rt_common_buffer.BootMode
    status,      \* what FspMemoryInit returned
    hobListPtr,  \* the HOB list the FSP produced
    fspMemory,   \* FSP reserved memory resource HOB (index, NULL if absent)
    cbmemRoot,   \* bootloader TOLUM resource HOB (index, NULL if absent)
    reservedArea,    \* cbmem_find(CBMEM_ID_FSP_RESERVED_MEMORY)
    fspVerificationFailure,
    errs,        \* the checks that printed an error
    runtimeHobList,  \* the HOB list stored by fsp_set_runtime()
    postCode,    \* the code of die_with_post_code, if the boot halted
    dataToSave,  \* params->data_to_save (index of the MRC HOB, NULL if none)
    dataToSaveSize,
    fspReservedBytes \* the u32 size of cbmem's FSP reserved area

vars == <<pc, s3wake, savedData, fspHeader, bootMode, status, hobListPtr,
          fspMemory, cbmemRoot, reservedArea, fspVerificationFailure, errs,
          runtimeHobList, postCode, dataToSave, dataToSaveSize,
          fspReservedBytes>>

\* The start address of the resource HOB at index i of the list.
Start(i) == hobListPtr.recs[i].start

TypeOK ==
    /\ pc \in {"setup", "meminit", "cbmem", "verify", "save"} \cup Terminal
    /\ s3wake \in BOOLEAN
    /\ savedData \in BOOLEAN
    /\ fspHeader \in HeaderKinds
    /\ bootMode \in BootModes \cup {"None"}
    /\ status \in {"None", "EFI_SUCCESS", "EFI_ERROR"}
    /\ hobListPtr \in HobLists \cup {NoList}
    /\ fspMemory \in Nat
    /\ cbmemRoot \in Nat
    /\ reservedArea \in Addr \cup {NULL}
    /\ fspVerificationFailure \in BOOLEAN
    /\ errs \in SUBSET Checks
    /\ runtimeHobList \in HobLists \cup {NoList}
    /\ postCode \in PostCodes
    /\ dataToSave \in Nat
    /\ dataToSaveSize \in Nat
    /\ fspReservedBytes \in Nat

\* The caller (romstage) always passes params; the rest is the platform's.
Init ==
    /\ pc = "setup"
    /\ s3wake \in BOOLEAN
    /\ savedData \in BOOLEAN
    /\ fspHeader \in HeaderKinds
    /\ bootMode = "None"
    /\ status = "None"
    /\ hobListPtr = NoList
    /\ fspMemory = NULL
    /\ cbmemRoot = NULL
    /\ reservedArea = NULL
    /\ fspVerificationFailure = FALSE
    /\ errs = {}
    /\ runtimeHobList = NoList
    /\ postCode = "None"
    /\ dataToSave = NULL
    /\ dataToSaveSize = 0
    /\ fspReservedBytes = 0
-----------------------------------------------------------------------------
\* die_with_post_code(code, ...): the platform stops here.
Die(code) == pc' = "halted" /\ postCode' = code

(***************************************************************************)
(* Lines 547-615: check the FSP header, resolve VPD -> UPD -> the memory   *)
(* init UPD, copy it, and pick the boot mode.  A zero CfgRegionOffset or   *)
(* PcdUpdRegionOffset dies; MemoryInitUpdOffset is used unchecked.         *)
(***************************************************************************)
RaminitSetup ==
    /\ pc = "setup"
    /\ CASE fspHeader = "null" ->
                Die("POSTCODE_RAM_FAILURE") /\ UNCHANGED bootMode
         [] fspHeader \in {"zeroCfg", "zeroUpd"} ->
                Die("POSTCODE_INVALID_VENDOR_BINARY") /\ UNCHANGED bootMode
         [] OTHER ->
                /\ bootMode' = IF s3wake THEN "BOOT_ON_S3_RESUME"
                               ELSE IF savedData
                                    THEN "BOOT_ASSUMING_NO_CONFIGURATION_CHANGES"
                                    ELSE "BOOT_WITH_FULL_CONFIGURATION"
                /\ pc' = "meminit"
                /\ UNCHANGED postCode
    /\ UNCHANGED <<fspReservedBytes, s3wake, savedData, fspHeader, status, hobListPtr, fspMemory,
                   cbmemRoot, reservedArea, fspVerificationFailure, errs,
                   runtimeHobList, dataToSave, dataToSaveSize>>

(***************************************************************************)
(* Lines 617-643: call FspMemoryInit; the opaque FSP returns a status and  *)
(* fills the HOB list pointer.  A non-success status dies at once.         *)
(***************************************************************************)
FspMemoryInit ==
    /\ pc = "meminit"
    /\ \/ /\ status' = "EFI_SUCCESS"
          /\ hobListPtr' \in HobLists \cup {NoList}
          /\ pc' = "cbmem"
          /\ UNCHANGED postCode
       \/ /\ status' = "EFI_ERROR"
          /\ Die("POSTCODE_RAM_FAILURE")
          /\ UNCHANGED hobListPtr
    /\ UNCHANGED <<fspReservedBytes, s3wake, savedData, fspHeader, bootMode, fspMemory, cbmemRoot,
                   reservedArea, fspVerificationFailure, errs, runtimeHobList,
                   dataToSave, dataToSaveSize>>

\* Lines 645-655: the FSP reserved memory HOB lookup, common to both
\* outcomes of the cbmem initialisation below.  Its UINT64 ResourceLength
\* is stored in the u32 fsp_reserved_bytes, the size cbmem reserves.
LookupFspMemory ==
    LET fm == FindHob(hobListPtr, "FspReserved") IN
    /\ fspMemory' = fm
    /\ fspReservedBytes' = IF fm = NULL THEN fspReservedBytes
                           ELSE hobListPtr.recs[fm].len % U32
    /\ fspVerificationFailure' = (fm = NULL)
    /\ errs' = IF fm = NULL THEN {"ReservedMissing"} ELSE {}

(***************************************************************************)
(* Lines 645-676: look up the FSP reserved HOB, then create the cbmem area *)
(* (cold boot) or recover it (S3 resume).                                  *)
(***************************************************************************)
CbmemInitialize ==
    /\ pc = "cbmem"
    /\ LookupFspMemory
    /\ pc' = "verify"
    /\ UNCHANGED <<s3wake, savedData, fspHeader, bootMode, status, hobListPtr,
                   cbmemRoot, reservedArea, runtimeHobList, postCode,
                   dataToSave, dataToSaveSize>>

\* Lines 670-675: on S3 resume cbmem_initialize_id_size() fails to recover
\* cbmem and raminit() calls full_reset().
CbmemRecoveryFailed ==
    /\ pc = "cbmem"
    /\ s3wake
    /\ LookupFspMemory
    /\ pc' = "reset"
    /\ UNCHANGED <<s3wake, savedData, fspHeader, bootMode, status, hobListPtr,
                   cbmemRoot, reservedArea, runtimeHobList, postCode,
                   dataToSave, dataToSaveSize>>

\* Mutant: the memory-info check only runs when the TOLUM HOB was found.
EarlyChecksElseIf ==
    errs \cup (IF FindHob(hobListPtr, "Tolum") = NULL THEN {"TolumMissing"}
               ELSE IF FindHob(hobListPtr, "MemInfo") = NULL
                    THEN {"MemInfoMissing"} ELSE {})

\* Lines 681-695: the TOLUM and memory-info lookups add to the diagnostics.
EarlyChecks ==
    errs \cup (IF FindHob(hobListPtr, "Tolum") = NULL
               THEN {"TolumMissing"} ELSE {})
         \cup (IF FindHob(hobListPtr, "MemInfo") = NULL
               THEN {"MemInfoMissing"} ELSE {})

\* Lines 702-706: the MRC HOB is required unless the caller had saved data.
MrcCheck ==
    IF FindHob(hobListPtr, "Mrc") = NULL /\ ~savedData
    THEN {"MrcMissing"} ELSE {}

\* Mutant: equal start addresses pass the placement check.
PlacementCheckStrict(root) ==
    IF fspMemory # NULL /\ root # NULL /\ Start(root) < Start(fspMemory)
    THEN {"ReservedAboveTolum"} ELSE {}

\* Lines 720-726: the FSP reserved HOB must start below the TOLUM HOB.
PlacementCheck(root) ==
    IF fspMemory # NULL /\ root # NULL /\ Start(root) <= Start(fspMemory)
    THEN {"ReservedAboveTolum"} ELSE {}

\* Lines 728-733: cbmem's FSP reserved area must be where the HOB says.
AreaCheck(area) ==
    IF fspMemory # NULL /\ (area = NULL \/ Start(fspMemory) # area)
    THEN {"ReservedAreaMismatch"} ELSE {}

(***************************************************************************)
(* Lines 678-700 with a NULL HOB list: fsp_set_runtime stores it, the      *)
(* lookups return NULL and the NULL check at line 697 dies.               *)
(***************************************************************************)
VerifyNullHobList ==
    /\ pc = "verify"
    /\ hobListPtr = NoList
    /\ runtimeHobList' = hobListPtr
    /\ cbmemRoot' = NULL
    /\ errs' = EarlyChecks
    /\ fspVerificationFailure' = TRUE
    /\ Die("POSTCODE_RAM_FAILURE")
    /\ UNCHANGED <<fspReservedBytes, s3wake, savedData, fspHeader, bootMode, status, hobListPtr,
                   fspMemory, reservedArea, dataToSave, dataToSaveSize>>

(***************************************************************************)
(* Lines 678-750 with a HOB list: fsp_set_runtime, the TOLUM, memory-info *)
(* and MRC checks, cbmem_find, the placement check and the reserved-area  *)
(* match; fsp_verification_failure, accumulated over all of them, decides *)
(* at the end.  With HAVE_SMI_HANDLER and a TOLUM HOB a mismatch dies at  *)
(* line 741 instead of 748: the same post code after the same checks.     *)
(***************************************************************************)
VerifyHobs ==
    /\ pc = "verify"
    /\ hobListPtr # NoList
    /\ \E area \in Addr \cup {NULL} :
         LET root == FindHob(hobListPtr, "Tolum")
             all == EarlyChecks \cup MrcCheck \cup PlacementCheck(root)
                                \cup AreaCheck(area)
         IN /\ runtimeHobList' = hobListPtr
            /\ cbmemRoot' = root
            /\ reservedArea' = area
            /\ errs' = all
            /\ fspVerificationFailure' = (fspVerificationFailure \/ all # {})
            /\ IF fspVerificationFailure'
               THEN Die("POSTCODE_INVALID_VENDOR_BINARY")
               ELSE pc' = "save" /\ UNCHANGED postCode
    /\ UNCHANGED <<fspReservedBytes, s3wake, savedData, fspHeader, bootMode, status, hobListPtr,
                   fspMemory, dataToSave, dataToSaveSize>>

(***************************************************************************)
(* Lines 752-763: point params->data_to_save at the first MRC HOB's data   *)
(* and round its HobLength up to 16, or clear both.                        *)
(***************************************************************************)
CaptureMrcData ==
    /\ pc = "save"
    /\ LET mrc == FindHob(hobListPtr, "Mrc") IN
       /\ dataToSave' = mrc
       /\ dataToSaveSize' = IF mrc = NULL THEN 0
                            ELSE AlignUp(HobLength(hobListPtr.recs[mrc]), 16)
    /\ pc' = "done"
    /\ UNCHANGED <<fspReservedBytes, s3wake, savedData, fspHeader, bootMode, status, hobListPtr,
                   fspMemory, cbmemRoot, reservedArea, fspVerificationFailure,
                   errs, runtimeHobList, postCode>>

\* raminit() has returned, halted or reset: nothing more happens.
Finished == pc \in Terminal /\ UNCHANGED vars

Next ==
    \/ RaminitSetup
    \/ FspMemoryInit
    \/ CbmemInitialize
    \/ CbmemRecoveryFailed
    \/ VerifyNullHobList
    \/ VerifyHobs
    \/ CaptureMrcData
    \/ Finished

Spec == Init /\ [][Next]_vars
-----------------------------------------------------------------------------
(***************************************************************************)
(* What the spec (section 4.4) requires of the hand-off before boot may    *)
(* go on, stated over the list itself: each requirement the list, the     *)
(* cbmem area and the caller's saved data break, named by its diagnostic. *)
(***************************************************************************)
Violated(l, area, saved) ==
    LET fm   == FindHob(l, "FspReserved")
        root == FindHob(l, "Tolum")
        broken ==
          [ReservedMissing      |-> fm = NULL,
           TolumMissing         |-> root = NULL,
           MemInfoMissing       |-> FindHob(l, "MemInfo") = NULL,
           MrcMissing           |-> FindHob(l, "Mrc") = NULL /\ ~saved,
           ReservedAboveTolum   |-> fm # NULL /\ root # NULL
                                    /\ l.recs[fm].start >= l.recs[root].start,
           ReservedAreaMismatch |-> fm # NULL /\ l.recs[fm].start # area]
    IN {c \in Checks : broken[c]}

(***************************************************************************)
(* Verdict soundness: raminit() gets past its verification (to capturing  *)
(* the MRC data and returning) only after a successful FspMemoryInit whose *)
(* HOB list has every mandatory HOB, puts the FSP reserved region below    *)
(* the TOLUM region, and agrees with cbmem's FSP reserved area.            *)
(***************************************************************************)
VerdictSound ==
    pc \in {"save", "done"} =>
        /\ status = "EFI_SUCCESS"
        /\ hobListPtr # NoList
        /\ Violated(hobListPtr, reservedArea, savedData) = {}

(***************************************************************************)
(* Complete diagnostics: when the HOB verification halts the boot, every  *)
(* requirement the hand-off breaks has been reported, and nothing else -  *)
(* the checks accumulate instead of stopping at the first failure.        *)
(***************************************************************************)
DiagnosticsComplete ==
    (pc = "halted" /\ postCode = "POSTCODE_INVALID_VENDOR_BINARY"
     /\ hobListPtr # NoList) =>
        /\ errs # {}
        /\ errs = Violated(hobListPtr, reservedArea, savedData)

(***************************************************************************)
(* The inductive strengthening of VerdictSound and DiagnosticsComplete:    *)
(* before FspMemoryInit returns there is no HOB list;                    *)
(* from the cbmem step on the FSP call succeeded; from the verification on *)
(* fspMemory is the lookup of the current list; while verifying,           *)
(* fsp_verification_failure and the diagnostics hold exactly the outcome   *)
(* of the reserved-HOB lookup; on return data_to_save and its size are    *)
(* what lines 752-763 computed from the list.                              *)
(***************************************************************************)
SaveCaptured ==
    LET mrc == FindHob(hobListPtr, "Mrc") IN
    /\ dataToSave = mrc
    /\ dataToSaveSize = IF mrc = NULL THEN 0
                        ELSE AlignUp(HobLength(hobListPtr.recs[mrc]), 16)

IInv ==
    /\ TypeOK
    /\ pc \in {"setup", "meminit"} => hobListPtr = NoList
    /\ pc = "done" => SaveCaptured
    /\ DiagnosticsComplete
    /\ pc \in {"cbmem", "verify", "save", "done"} => status = "EFI_SUCCESS"
    /\ pc \in {"verify", "save", "done"} =>
           fspMemory = FindHob(hobListPtr, "FspReserved")
    /\ pc = "verify" =>
           /\ fspVerificationFailure = (fspMemory = NULL)
           /\ errs = IF fspMemory = NULL THEN {"ReservedMissing"} ELSE {}
    /\ VerdictSound
-----------------------------------------------------------------------------
(***************************************************************************)
(* Spec 4.3: a NULL HOB list despite a success status is fatal, checked   *)
(* before any further step.  raminit() first initialises or recovers cbmem *)
(* (line 666) and checks the pointer only at line 697.                    *)
(***************************************************************************)
NullHobListFatal ==
    (pc \in Terminal /\ status = "EFI_SUCCESS" /\ hobListPtr = NoList) =>
        pc = "halted" /\ postCode = "POSTCODE_RAM_FAILURE"

(***************************************************************************)
(* Spec 4.3 and 9: FspMemoryInit is only called once every offset of the  *)
(* configuration chain resolved to a non-zero value.  raminit() checks     *)
(* CfgRegionOffset and PcdUpdRegionOffset, not MemoryInitUpdOffset.       *)
(***************************************************************************)
FspConfigResolved ==
    status # "None" => fspHeader = "ok"

(***************************************************************************)
(* Spec 8: a saved-configuration payload of N bytes is persisted with size *)
(* ceil(N / 16) * 16.  Line 756 rounds GET_HOB_LENGTH, the whole HOB with  *)
(* its 24-byte header, instead of the payload.                            *)
(***************************************************************************)
PersistSizeIsPayload ==
    (pc = "done" /\ dataToSave # NULL) =>
        dataToSaveSize = AlignUp(hobListPtr.recs[dataToSave].size, 16)
(***************************************************************************)
(* Spec 4.4, check 6 (size accounting): when boot goes on, the block cbmem *)
(* reserved for the FSP is as large as the region the FSP reserved-memory *)
(* HOB claims.  Line 652 stores the UINT64 ResourceLength in a u32, and no *)
(* check compares sizes, so a length of 4 GiB or more passes truncated.    *)
(***************************************************************************)
ReservationCoversRegion ==
    pc \in {"save", "done"} =>
        fspReservedBytes = hobListPtr.recs[fspMemory].len
=============================================================================
