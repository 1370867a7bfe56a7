# Verification of the FSP 1.1 boot path, the canary allocator and the TPM log

This directory holds TLA+ models of the firmware in `src/`, TLC configurations
that check them on small instances, and TLAPS proofs of their main safety
properties for every value of their constants.

## The system

The core of the repository (spec.md, sections 1-4) is `raminit()`
(`src/unnamed/part_000`, lines 519-764). It calls the vendor FSP binary's
`FspMemoryInit` and then checks the HOB list (hand-off blocks) the binary
returns before boot may go on. Its steps, in code order, are:

1. **Setup** (547-615). It resolves the FSP header. Then it follows the two
   offsets VPD -> UPD -> memory-init UPD into a working copy. Last, it picks the boot
   mode: S3 resume beats saved MRC data, which beats a full configuration.
2. **FspMemoryInit** (617-643). This is the call into the binary. Any status
   other than success halts the boot with `POSTCODE_RAM_FAILURE`.
3. **Reserved-memory lookup and cbmem** (645-676). It looks up the FSP
   reserved-memory HOB, then creates cbmem (cold boot) or recovers it (S3
   resume). A failed recovery calls `full_reset()`.
4. **Verification** (678-750). It looks up the TOLUM, memory-info and MRC
   HOBs, checks the HOB-list pointer for NULL, checks that the reserved region
   sits below TOLUM, and compares the region with cbmem's FSP reserved area.
   `fsp_verification_failure` collects the result of every check. The boot
   halts with `POSTCODE_INVALID_VENDOR_BINARY` only once all checks have run.
   The exception is the SMI-handler branch at line 741, which halts early.
5. **Persistence** (752-763). It points `data_to_save` at the first MRC HOB
   and rounds its length up to 16 bytes.

Other parts of `src/` are independent of this core (spec.md section 1):

* FSP silicon init (`src/src/drivers/intel/fsp1_1/ramstage.c`);
* the canary allocator (`src/src/lib/hardened_malloc.c`);
* the TPM cbmem log and the boot-media lockdown (`src/unnamed/part_005`);
* the Alder Lake SoC operations and ACPI names (`src/unnamed/part_000`,
  lines 1-500);
* headers (`part_001` to `part_004`).

## Modules

| Module | Models |
|---|---|
| `FspRaminit` | `raminit()`. One variable per local or output the checks read. One action per stretch of code between two answers of a collaborator. |
| `MCFspRaminit` | The TLC instance: addresses {1,2}, MRC payloads {32, 65511}, lists of up to 4 HOBs. |
| `FspRaminitProofs` | TLAPS proofs of `TypeOK`, `IInv`, `VerdictSound`, `DiagnosticsComplete`, and of `ReservationCoversRegion` for lengths that fit a u32. |
| `FspSiliconInit` | `intel_silicon_init`, `fsp_load` and `fsp_run_silicon_init` (ramstage.c) over a sequence of cold boots and S3 resumes. |
| `MCFspSiliconInit` | Three boots with `RUN_FSP_GOP`. |
| `HardenedMalloc` | `hardened_malloc`/`hardened_free` with `alloc_table`, the canary word of each block and libc's heap. |
| `TrackedHeap` | What the allocator promises: a block comes into use only through malloc, is tracked while fewer than `MAX_HARDENED_ALLOCATIONS` blocks are, and only a tracked block is released. |
| `MCHardenedMalloc` | Three addresses, a two-slot table, a 4-bit `size_t`. |
| `HardenedMallocProofs` | TLAPS proofs of `TrackingSound`, `FreeDetectsOverflow` and `FreeOnlyLive`, and of `CanaryInBounds` and `NoLeak` under the conditions that rule out the two defects, and that `HardenedMalloc` implements `TrackedHeap`. |
| `TpmCbLog` | The TPM measurement log: pre-RAM table, cbmem table with its static cache, add, clear, copy, and the readers `get` and `dump`. |
| `MeasurementLog` | What the log promises: each measurement is appended or not logged, and the copy into cbmem keeps a prefix. Also the proof that its log stays in order (`InOrderHolds`). |
| `MCTpmCbLog` | Two pre-RAM slots, three cbmem slots, four measurements. |
| `TpmCbLogProofs` | TLAPS proofs that `TpmCbLog` implements `MeasurementLog`, that its log is in order, that `get` reads the log in use, that nothing goes out of bounds after the clear, and before it when the power-on metadata is sane. |
| `TpmCbLogKeptProofs` | TLAPS proofs of `LogFaithful` and `GetReturnsKept`: the log in use is exactly the measurements kept, in order. |

How `FspRaminit` corresponds to the code:

* **HOB list.** The list is a record of its HOBs (`recs`) and whether the
  walk meets END_OF_HOB_LIST (`ended`). The model value `NoList` is the NULL
  pointer.
* **Lookups.** `FindHob` models `get_resource_hob`/`get_guid_hob`, which are
  not in `src/`, from spec 4.1. A lookup returns the first match, and NULL
  for a NULL list or a list without an end marker.
* **Opaque answers.** The model picks these nondeterministically:
  * what `FspMemoryInit` returns;
  * whether cbmem recovery fails on S3;
  * the address `cbmem_find` returns.
* **Actions.** They are `RaminitSetup`, `FspMemoryInit`, `CbmemInitialize`,
  `CbmemRecoveryFailed`, `VerifyNullHobList`, `VerifyHobs` and
  `CaptureMrcData`.
* **The SMI branch.** The early halt at line 741 happens after the same
  checks as the final one and uses the same post code, so one action covers
  both halts.
* **Abstractions.** Strings, printk and timestamps are left out. Sizes are
  kept only for the MRC HOB, whose length the persistence rounds, and for
  the reserved-memory HOB, whose UINT64 `ResourceLength` is stored in the
  u32 `fsp_reserved_bytes` that sizes the cbmem reservation. The model keeps
  it as `len % U32`, with 2^32 scaled down to `U32` (16 in the TLC
  instance) so that TLC can hold a length that does not fit.

### FspSiliconInit

* **State.** `resume` (`resume_from_stage_cache()`), `cache` (the stage
  cache holds the relocated FSP), `image` (which of ImageBase,
  CfgRegionOffset, PcdUpdRegionOffset, SiliconInitUpdOffset is zero, if
  any: the binary in flash, the same on every boot), `entry`
  (`prog_entry(&fsp)`), the call's `status`, the graphics HOB, and what
  the GOP path did.
* **Actions.** `IntelSiliconInit` is `fsp_load` (stage cache on resume,
  `fsp_relocate` and `stage_cache_add` otherwise), the header check and every
  early return of `fsp_run_silicon_init` up to the call. `FspSiliconInitCall`
  is the call, whose status is only printed, and the GOP hand-off.
  `Reboot` starts the next boot; S3 keeps the stage cache, a cold boot
  clears it. The UPD copy and the parameter hooks change only parameter
  data. The `!fsp_silicon_init` check (line 107) cannot fire once the base
  is non-zero.

### HardenedMalloc

* **State.** `alloc_table` (slots of `user_ptr`/`size`), libc's `heap`
  (in use, length), `canaryAt` (the offset of the canary written),
  `smashed` (the caller overwrote the word after its buffer), the blocks the
  caller `held`, and `oob` (a canary written past a block).
* **Actions.** `Malloc(size)` with `total_size` computed modulo
  2^`SizeWidth` (size_t wraps), the libc failure, the first empty slot or a
  full table; `Free(p)` with the NULL, matched and unknown branches;
  `Overflow(p)`, the caller writing past its buffer. libc's `malloc` is an
  oracle that returns NULL or any free block.
* **Abstract heap.** `TrackedHeap` has two sets, the blocks in use and the
  blocks tracked. The mapping takes `InUse` (the addresses libc has in use)
  and `Recorded` (the non-NULL `user_ptr`s of `alloc_table`). A malloc maps
  to `Alloc`, a matched free to `Release`; a failed malloc, a free of NULL
  or of an unknown pointer, and an overflow leave both sets alone.

### TpmCbLog

* **State.** Each table is its `max_entries`, `num_entries` and slots; an
  entry is the number of the measurement it records. `cached` is the
  per-stage static `tclt`; `taken` and `dropped` are the history of
  well-formed measurements and of those a warning reported as not logged.
* **Actions.** `PreramLogClear`, `AddPreram`/`AddRam`
  (`tpm_cb_log_add_table_entry` through `tpm_log_init`, which before cbmem
  gives `_tpm_log` and after it `tpm_cb_log_cbmem_init`, whose
  `cbmem_add` may fail), `CbmemUp` (the cbmem creation hook: init, then
  `tpm_cb_log_copy_entries`), `EnterRamstage` (the next stage's static is
  NULL), and the readers `TpmCbLogGet(idx)` and `TpmCbLogDump`. The readers
  call `tpm_log_init` as well. After cbmem is up, that may add the cbmem
  table and fill the static cache, so they are actions and not pure
  functions. `got` is what the last `get` returned: its return code and
  the entry read. `tpm_log_init` and the hook are not in the repository;
  they are the environment.
* **Abstract log.** `MeasurementLog` has the log, the count of
  measurements and a hand-over flag. `CurrentLog` maps the tables onto the
  log:
  * `_tpm_log` once it is cleared;
  * the cbmem table once cbmem is up, if there is one;
  * the empty log otherwise.
* **Power-on contents.** `_tpm_log` is uninitialised until it is cleared, so
  its initial metadata is any pair of `PreramMeta`.

## Runs

| Run | Expect | Shows |
|---|---|---|
| `raminit` | pass | `VerdictSound`: boot goes on only with a hand-off meeting every check of spec 4.4. `DiagnosticsComplete`: a verification halt has reported exactly the broken requirements. |
| `null_hob_list` | violation | `NullHobListFatal`: a NULL list with a success status is not fatal before the next steps. On S3 resume it ends in `full_reset` after the cbmem recovery. |
| `mem_upd_offset` | violation | `FspConfigResolved`: a zero `MemoryInitUpdOffset` reaches the FSP call. |
| `persist_size` | violation | `PersistSizeIsPayload`: the saved size includes the 24-byte HOB header. A 32-byte payload saves 64 bytes, not the 32 of spec section 8. |
| `reservation_size` | violation | `ReservationCoversRegion`: the size cbmem reserves for FSP is `ResourceLength` truncated to 32 bits. A reservation of 2^32 bytes or more is silently shortened, and the validator compares start addresses only. |
| `silicon` | pass | `ResumeRepeatsBoot`: an S3 resume does in silicon init exactly what the boot it resumes did (the stage cache brings back the same FSP). |
| `silicon_fatal` | violation | `SiliconFailureFatal`: boot goes on after a missing header, a zero offset or a failure status, which spec 4.3 and 7 make fatal. |
| `hmalloc` | pass | `TrackingSound`: every record names a live block the caller holds, once, with the caller's size. `FreeDetectsOverflow`: a tracked free reports an overflow exactly when one happened. `FreeOnlyLive`: libc `free` only gets blocks in use. `HeapRefinement`: the allocator implements `TrackedHeap`; a block is recorded exactly when fewer than `MaxAllocs` are, and a free drops the block's only record. |
| `hmalloc_leak` | violation | `NoLeak`: with the table full a block goes untracked; its free is "unknown pointer" and the block leaks. |
| `hmalloc_wrap` | violation | `CanaryInBounds`: a size near `SIZE_MAX` wraps `total_size` and the canary is written past the block. |
| `tpmlog` | pass | `LogFaithful`: the log in use holds every well-formed measurement in order, except those reported lost, across the pre-RAM table, the copy, `cbmem_add` failures and the ramstage cache reset. `GetReturnsKept`: `tpm_cb_log_get(i)` returns the i-th of those measurements. It returns an error for a negative index or one past the end, also when the call itself creates the cbmem table. `ClearedInBounds`: after `tpm_cb_preram_log_clear`, no step touches an entry outside `_tpm_log`. `LogRefinement`: the tables implement `MeasurementLog`. Every step appends the next measurement, keeps the log, or, at the copy only, cuts it to a prefix. |
| `tpmlog_bounds` | violation | `PreramInBounds`: `tpm_cb_preram_log_clear` trusts uninitialised metadata and zeroes entries past the `_tpm_log` region. |

**Why the bounds are enough.** Two addresses make both outcomes of each
placement and area comparison possible (<, =, >). Four HOBs allow every
combination of present or absent reserved, TOLUM, memory-info and MRC
records, and duplicates for "first match". The payload 65511 is the largest
one whose HobLength fits 16 bits, the edge for `ALIGN_UP`.

For the other modules: three boots let a cold boot be resumed twice and a
second cold boot clear the cache; every image kind is an initial state.
Three addresses and two slots make the table fill, leave a block
untracked and hand a freed address out again; a 4-bit `size_t` with size 13
makes `size + 4` wrap. Two pre-RAM and three cbmem slots with four
measurements fill both tables; the power-on metadata covers an empty, a
used, an inconsistent (`num > max`) and, for the bounds run only, an
oversized table. Indices -1 to 3 reach a negative index, every slot, the
first index past the end and the first past the cbmem table. The
reserved-HOB lengths {8, 24} with `U32` = 16 give one length that fits and
one that wraps (24 mod 16 = 8).

**Fairness.** None is assumed. Every modelled function is straight-line
code called once per event. The stage code that calls these functions
(romstage, ramstage, the cbmem hook) is not in the repository, so nothing
in the repository guarantees that the next call ever comes. All
properties, the refinement included, are therefore safety properties.

## Proofs

`FspRaminitProofs` proves, for every set of addresses, payload sizes and
resource lengths and every list bound allowed by the `ASSUME`s:

* `TypeCorrect` (`Spec => []TypeOK`).
* `IInvHolds` (`Spec => []IInv`), a step of the next two theorems.
  `VerdictSound` and `DiagnosticsComplete` are not inductive on their own.
  `IInv` conjoins them with these facts:
  * before `FspMemoryInit` returns there is no HOB list (so the setup's
    invalid-vendor halt is not about a list);
  * from the cbmem step on, the FSP status was success;
  * from verification on, `fspMemory` is the reserved-HOB lookup of the
    current list;
  * while verifying, the failure flag and the diagnostics are exactly the
    outcome of that lookup;
  * on return, `data_to_save` and its size are what lines 752-763 compute
    from the list (`SaveCaptured`).
* `VerdictSoundness` and `DiagnosticsCompleteness` follow from `IInv`.
  Two lemmas carry them:
  * `ChecksPass`: "no check of the code fired" means "no requirement of the
    spec is broken". The code's `<=` is the negation of the spec's strict
    order, and start addresses are naturals.
  * `ChecksAreViolations`: the stronger statement that the code's checks,
    added to the reserved-HOB outcome, yield exactly the spec's broken
    requirements. A NULL cbmem area differs from every start address
    because addresses are non-zero.
* `ReservationFits`: if every `ResourceLength` lies in `0..U32-1`, then
  `ReservationCoversRegion` holds. Its invariant `RInv` says that from
  verification on, `fsp_reserved_bytes` is the reserved HOB's length
  modulo `U32`. The truncation found by `reservation_size` is therefore the
  only way the reservation falls short.
* The lemma `FindHobFacts` shows that the lookup's `CHOOSE` has a witness,
  the least matching index (`WFMin` over `Nat`).

`HardenedMallocProofs` proves, for every finite address set, table size
and width of `size_t`:

* `TrackingSoundness` (`Spec => []TrackingSound`), with `IInv == TypeOK /\
  TrackingSound`, which is inductive as it stands: a malloc takes a block
  not in use, which no record names; a free clears the first record of the
  pointer, the only one.
* `FreeDetection` (`Spec => []FreeDetectsOverflow`) and `FreeOnlyLiveBlocks`
  (`Spec => FreeOnlyLive`), both from the lemma `FreeStep`: a matched record
  names a live, held block whose canary sits at the recorded size.
* `CanaryFits`: if every requested size is at most `Word - 1 -
  CANARY_SIZE`, then `CanaryInBounds` holds. The wrap that `hmalloc_wrap`
  finds is the only cause of an out-of-bounds canary.
* `NoLeakWhenTableFits`: if `Cardinality(Addr) <= MaxAllocs`, then `NoLeak`
  holds. This is the model's way of saying that no more blocks are live
  than the table has slots. Its invariant `Tracked` says every block in use
  has a record. The lemma `RoomForNewBlock` is a pigeonhole argument
  (`FS_Injection`): the records of a full table name `MaxAllocs` distinct
  live blocks, so with a further free block there would be more addresses
  than slots.
* `HeapRefines` (`Spec => HeapRefinement`): the allocator implements
  `TrackedHeap`. Every step maps to `Alloc`, `Release` or a stutter
  (`HeapStep`). The one step that takes an argument is the "room" test.
  The code asks whether the table has an empty slot; the abstract spec asks
  whether fewer than `MaxAllocs` blocks are tracked. `RecordedCount`
  (`FS_Bijection`) shows that the occupied slots and the recorded blocks are
  in bijection. The bijection holds because `TrackingSound` forbids two
  records of one block. `RoomIffFewer` then uses `FS_Subset` on `Slots`.
  A free drops the block's only record, again by `TrackingSound`.
  `TrackedHeap` allows a block handed out while the table is full to stay
  in use untracked, so neither this theorem nor `TrackingSound` excludes
  the leak; `NoLeak` (the `hmalloc_leak` run) is the property about it.
* `WordAssumption` states that 2^`SizeWidth` is a positive natural; the
  provers do not derive it from `^`, and TLC checks it.

`FspSiliconInitProofs` proves, for every bound on the boots:

* `ResumeRepeats` (`Spec => []ResumeRepeatsBoot`). The inductive `IInv`
  says that once `fsp_load` has run the entry point is what the stage cache
  holds (relocation caches exactly when it yields an entry), that a finished
  boot's outcome is `Expected(cache)` (a function of the cache and the
  image alone), and that on a resume the previous outcome is
  `Expected(cache)` as well, since S3 keeps the cache and the image is the
  same binary.

`TpmCbLogProofs` proves `Refinement` (`Spec => LogRefinement`) for every
pair of table capacities and every bound on the measurements. The
inductive `IInv` describes the shape of the tables, which is what makes
each step a step of the abstract log:

* once cleared, `_tpm_log` has `max_entries` equal to its capacity;
* an existing cbmem table has `max_entries = MAX_TPM_LOG_ENTRIES` and
  `num_entries` within it;
* before cbmem there is no cbmem table, and nothing is cached.

Lemmas on the table operators carry the argument:

* `LogRecord`: a committed write appends to the log.
* `CbmemInitIInv`: `tpm_cb_log_cbmem_init` returns the table that is
  already the log, or a fresh, empty one.
* `LogCopy`: the copy into the fresh table yields a prefix of `_tpm_log`.

The proof is written as the lemma `NextRefines`, which maps every step to
`Measure`, `Handover` or a stutter.

Three more theorems rest on the same invariant. The first two are steps
of the proofs in `TpmCbLogKeptProofs`:

* `LogOrdered` (`Spec => []LogInOrder`) is derived through the refinement.
  `MeasurementLog` proves `InOrderHolds`: an append adds `count + 1`, above
  every entry, and a prefix keeps the order. `LogInOrder` is that invariant
  under the refinement mapping, so the tables inherit it without a proof
  of their own.
* `GetReads` (`Spec => GetReadsLog`). The lemma `GetEntryLog` shows that
  on a table of the shape `IInv` gives, the metadata check of `get` passes,
  its index check is exactly "inside the log", and the slot it reads is
  inside the table. In a stage with an empty static cache, the table `get`
  looks up or adds is the log in use (`CbmemInitIInv`).
* `InBoundsAfterClear` (`Spec => ClearedInBounds`) holds for every
  power-on content of `_tpm_log`, including metadata claiming more entries
  than the region has. The writer's "full" check, the index check of `get`
  and the loop bound of `dump` all stay within the capacity that the clear
  set. The only out-of-bounds access, the one found by `tpmlog_bounds`, is
  the clear itself.
* `InBoundsWhenSane`: if no metadata pair of `PreramMeta` claims, with a
  non-zero `max_entries`, more entries than `_tpm_log` holds (`SaneMeta`),
  then `PreramInBounds` holds at every step, before the clear as well. Its
  invariant `BInv` adds that the metadata is one of those pairs until the
  clear. So the power-on contents are the only cause of the
  `tpmlog_bounds` violation.

`TpmCbLogKeptProofs` proves `LogFaithful` and `GetReturnsKept` for every
capacity and bound:

* `Kept` is stated by rank. Its i-th entry is the kept id with i - 1 kept
  ids below it. This form is equivalent to `SelectSeq(taken, LAMBDA x : x
  \notin dropped)`, because ids are taken in increasing order. The provers
  cannot reason about `SelectSeq`.
* `KInvHolds` (`Spec => []KInv`). The invariant `KInv` says, once the log
  exists, that the set of its entries is the set of taken ids minus the
  dropped ones. It also bounds every id taken or dropped by `n`. Each kind of
  step preserves it:
  * a measurement adds `n + 1` to both sides, or to `dropped` (`MeasureKInv`);
  * the copy into cbmem keeps a prefix and drops exactly the cut-off ids
    (`CbmemUpKInv`, `IdsPrefix`);
  * every other step leaves the log alone (`QuietKInv`).
* `LogFaithfulHolds` (`Spec => []LogFaithful`). `LogInOrder` makes the log
  increasing. The lemma `IncreasingByRank` shows that an increasing
  sequence is its set of entries listed by rank: entry i has exactly i - 1
  entries below it (`PrefixCard`, `IncreasingRank`). Equal sets therefore
  give equal sequences, and `KeptIsLog` concludes `CurrentLog = Kept`.
* `GetKept` (`Spec => GetReturnsKept`) is `GetReads` with `CurrentLog`
  replaced by `Kept`.

**Left to TLC.** Every property of a passing run is now proved. TLC
alone checks the following:
* the violation runs, which show the defects. For four of them a
  conditional theorem shows the defect is the only cause:
  `CanaryFits`, `NoLeakWhenTableFits`, `ReservationFits`,
  `InBoundsWhenSane`;
* the agreement of the rank form of `Kept` with its `SelectSeq` form.
  TLC compared the two over the reachable states of the `tpmlog`
  instance; no run keeps that comparison.

No property is a liveness property, so nothing needs `ENABLED` or fairness, which TLAPS
cannot handle here.

## Not modelled

* **SoC operations and ACPI names** (`part_000`, lines 1-500). These are
  table lookups and register programming from the device tree.
* **`smm.h` and the other headers.** They contain no behaviour.
* **Boot-media lockdown** (`part_005`, 356-435). It is one stateless call per
  boot that maps CONFIG choices to a lock; every failure only prints.
* **The TPM log across an S3 resume.** `TpmCbLog` starts every behaviour
  at power-on with no cbmem table; a resume that finds a log table already
  in cbmem is not modelled. No property is about a resume.
* **The VBT of the GOP path.** `FspSiliconInit` records the GOP hand-off
  as done whenever `RUN_FSP_GOP` is set; that `load_vbt` may leave
  `GraphicsConfigPtr` NULL is not modelled, and no property reads it.
* **`tpm_cb_log_get_size`.** It only reads the table it is given, and
  nothing in the repository calls it. The NULL-pointer early return of
  `tpm_cb_log_get` (line 234) is left out: the model's callers pass valid
  output pointers.
