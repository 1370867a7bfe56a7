------------------------------ MODULE TpmCbLog ------------------------------
(***************************************************************************)
(* The coreboot TPM measurement log of src/unnamed/part_005 (lines 1-341). *)
(* Before cbmem exists, measurements go to the pre-RAM table _tpm_log,     *)
(* which tpm_cb_preram_log_clear sets up; when cbmem comes up, the         *)
(* creation hook finds or adds the cbmem table (tpm_cb_log_cbmem_init,     *)
(* which caches it in a per-stage static) and copies the pre-RAM entries   *)
(* into it (tpm_cb_log_copy_entries); later measurements go to the cbmem   *)
(* table.  An entry is abstracted to the number of the measurement it     *)
(* records (0: a zeroed entry); name, PCR and digest bytes are data.       *)
(***************************************************************************)
EXTENDS Integers, Sequences, FiniteSets

CONSTANTS
    PreramCap,   \* MAX_PRERAM_TPM_LOG_ENTRIES: entries the _tpm_log region holds
    RamCap,      \* MAX_TPM_LOG_ENTRIES
    MaxMeasure,  \* bound on the measurements of one boot
    PreramMeta   \* possible <<max_entries, num_entries>> of _tpm_log at power-on

ASSUME CapAssumption == PreramCap \in Nat \ {0} /\ RamCap \in Nat \ {0}
ASSUME MaxMeasureAssumption == MaxMeasure \in Nat
ASSUME PreramMetaAssumption == PreramMeta \subseteq Nat \X Nat

\* INT_MAX / 2, the bound tpm_cb_log_cbmem_init puts on a cached table.
IntMaxHalf == 1073741823

\* The validity of a name/digest pair passed to tpm_cb_log_add_table_entry:
\* accepted, a NULL name, a NULL digest of non-zero length, a digest longer
\* than TPM_CB_LOG_DIGEST_MAX_LENGTH.
EntryKinds == {"ok", "noName", "nullDigest", "longDigest"}

\* A tpm_cb_log_table whose entries array has cap slots.
Table(cap) == [max : Nat, num : Nat, slot : [0..(cap - 1) -> 0..MaxMeasure]]

VARIABLES
    phase,      \* "preram", then "cbmem" (romstage after cbmem), "ramstage"
    cleared,    \* tpm_cb_preram_log_clear has run
    pre,        \* _tpm_log
    ram,        \* the CBMEM_ID_TPM_CB_LOG table
    ramPresent, \* cbmem holds it
    cached,     \* the static tclt of the running stage points at it
    n,          \* measurements taken so far
    taken,      \* the well-formed measurements, in order
    dropped,    \* measurements a warning reported as not logged
    oob,        \* an entry outside the _tpm_log region was accessed
    got         \* the last tpm_cb_log_get: its return code and the entry read

vars == <<phase, cleared, pre, ram, ramPresent, cached, n, taken, dropped, oob,
          got>>

\* entry_idx values a caller passes: negative, inside and past any table.
GetIdx == -1..RamCap

TypeOK ==
    /\ phase \in {"preram", "cbmem", "ramstage"}
    /\ cleared \in BOOLEAN
    /\ pre \in Table(PreramCap)
    /\ ram \in Table(RamCap)
    /\ ramPresent \in BOOLEAN
    /\ cached \in BOOLEAN
    /\ n \in 0..MaxMeasure
    /\ taken \in Seq(1..MaxMeasure)
    /\ dropped \in SUBSET (1..MaxMeasure)
    /\ oob \in BOOLEAN
    /\ got \in [ret : {0, 1}, id : 0..MaxMeasure]

ZeroSlots(cap) == [i \in 0..(cap - 1) |-> 0]

\* At power-on the _tpm_log region holds whatever it held (an
\* uninitialised read: any metadata of PreramMeta).
Init ==
    /\ phase = "preram"
    /\ cleared = FALSE
    /\ pre \in {[max |-> m[1], num |-> m[2], slot |-> ZeroSlots(PreramCap)] :
                m \in PreramMeta}
    /\ ram = [max |-> 0, num |-> 0, slot |-> ZeroSlots(RamCap)]
    /\ ramPresent = FALSE
    /\ cached = FALSE
    /\ n = 0
    /\ taken = <<>>
    /\ dropped = {}
    /\ oob = FALSE
    /\ got = [ret |-> 1, id |-> 0]
-----------------------------------------------------------------------------
\* The metadata check every reader and writer makes (lines 103, 149, 242).
Valid(t) == t.max # 0 /\ t.num <= t.max

\* The committed entries of a table, in order.
Log(t) == [i \in 1..t.num |-> t.slot[i - 1]]

\* Mutant: the table found in cbmem is initialised again as a fresh one.
RamAfterInitResetFound(addOk) ==
    IF cached /\ ram.max > 0 /\ ram.num <= ram.max /\ ram.num < IntMaxHalf
    THEN ram
    ELSE IF ramPresent \/ addOk
         THEN [max |-> RamCap, num |-> 0, slot |-> ZeroSlots(RamCap)]
         ELSE ram

(***************************************************************************)
(* tpm_cb_log_cbmem_init, lines 48-93: a cached table that passes the     *)
(* sanity check is returned; otherwise cbmem_find, and if that finds none *)
(* cbmem_add (which may fail, addOk) and a fresh, zeroed table.           *)
(***************************************************************************)
RamAfterInit(addOk) ==
    IF cached /\ ram.max > 0 /\ ram.num <= ram.max /\ ram.num < IntMaxHalf
    THEN ram
    ELSE IF ~ramPresent /\ addOk
         THEN [max |-> RamCap, num |-> 0, slot |-> ZeroSlots(RamCap)]
         ELSE ram

PresentAfterInit(addOk) == ramPresent \/ addOk

\* The pointer it returns, and caches, is not NULL (final check, 85-91).
InitFound(addOk) == PresentAfterInit(addOk) /\ Valid(RamAfterInit(addOk))

\* Mutant: the "table full" check is dropped.
AcceptsNoRoom(t, kind) == Valid(t) /\ kind = "ok"

\* Lines 147-200: the checks in order (table, metadata, full, name,
\* digest), then the entry at num_entries is written and committed.
Accepts(t, kind) == Valid(t) /\ t.num < t.max /\ kind = "ok"

Record(t, id) ==
    [max |-> t.max, num |-> t.num + 1, slot |-> [t.slot EXCEPT ![t.num] = id]]

\* What one call leaves in the history: a well-formed measurement is
\* taken, and reported dropped if the table refused it.
Taken(kind, id) == IF kind = "ok" THEN Append(taken, id) ELSE taken

Dropped(ok, kind, id) ==
    IF kind = "ok" /\ ~ok THEN dropped \cup {id} ELSE dropped

(***************************************************************************)
(* tpm_cb_log_add_table_entry before cbmem: tpm_log_init gives _tpm_log.  *)
(* Measurements start after the TPM set-up that clears the log.           *)
(***************************************************************************)
AddPreram(kind) ==
    LET id == n + 1
        ok == Accepts(pre, kind) IN
    /\ phase = "preram"
    /\ cleared
    /\ n < MaxMeasure
    /\ n' = id
    /\ pre' = IF ok THEN Record(pre, id) ELSE pre
    /\ oob' = (oob \/ (ok /\ pre.num >= PreramCap))
    /\ taken' = Taken(kind, id)
    /\ dropped' = Dropped(ok, kind, id)
    /\ UNCHANGED <<phase, cleared, ram, ramPresent, cached, got>>

\* tpm_cb_log_add_table_entry once cbmem is up: tpm_log_init is
\* tpm_cb_log_cbmem_init; a NULL table is "Log non-existent".
AddRam(kind) ==
    LET id == n + 1 IN
    /\ phase \in {"cbmem", "ramstage"}
    /\ n < MaxMeasure
    /\ n' = id
    /\ \E addOk \in BOOLEAN :
         LET t == RamAfterInit(addOk)
             ok == InitFound(addOk) /\ Accepts(t, kind) IN
         /\ ramPresent' = PresentAfterInit(addOk)
         /\ cached' = InitFound(addOk)
         /\ ram' = IF ok THEN Record(t, id) ELSE t
         /\ dropped' = Dropped(ok, kind, id)
    /\ taken' = Taken(kind, id)
    /\ UNCHANGED <<phase, cleared, pre, oob, got>>

(***************************************************************************)
(* tpm_cb_preram_log_clear, lines 203-221: zero entries 0..num_entries-1  *)
(* when the metadata looks used, then reset the metadata.  The loop is    *)
(* bounded by num_entries and max_entries, read from the region itself.   *)
(***************************************************************************)
PreramLogClear ==
    LET used == pre.num > 0 /\ pre.num <= pre.max IN
    /\ phase = "preram"
    /\ ~cleared
    /\ cleared' = TRUE
    /\ oob' = (oob \/ (used /\ pre.num > PreramCap))
    /\ pre' = [max |-> PreramCap, num |-> 0,
               slot |-> [i \in 0..(PreramCap - 1) |->
                           IF used /\ i < pre.num THEN 0 ELSE pre.slot[i]]]
    /\ UNCHANGED <<phase, ram, ramPresent, cached, n, taken, dropped, got>>

(***************************************************************************)
(* tpm_cb_log_copy_entries, lines 286-341: with both tables' max_entries  *)
(* non-zero and from's metadata sane, entries 0..CopyBound-1 are appended *)
(* one by one; when to is full it prints "log table is full" and stops.   *)
(* Entries come from add, so the digest-length check never fails.         *)
(***************************************************************************)
CopyBound(from) == from.num

CopyOk(from, to) == from.max # 0 /\ to.max # 0 /\ from.num <= from.max

\* How many entries get through.
Copied(from, to) ==
    LET room == IF to.num < to.max THEN to.max - to.num ELSE 0 IN
    IF ~CopyOk(from, to) THEN 0
    ELSE IF CopyBound(from) < room THEN CopyBound(from) ELSE room

\* The entries the "log table is full" message reports as not copied.
CopyRefused(from, to) ==
    IF CopyOk(from, to)
    THEN {from.slot[i] : i \in Copied(from, to)..(CopyBound(from) - 1)}
    ELSE {}

CopyEntries(from, to) ==
    LET k == Copied(from, to) IN
    [max |-> to.max, num |-> to.num + k,
     slot |-> [i \in DOMAIN to.slot |->
                 IF to.num <= i /\ i < to.num + k
                 THEN from.slot[i - to.num] ELSE to.slot[i]]]

(***************************************************************************)
(* The cbmem creation hook (outside this file): tpm_cb_log_cbmem_init,    *)
(* then the pre-RAM entries are copied; with no cbmem table they are      *)
(* reported lost.  From now on tpm_log_init returns the cbmem table.      *)
(***************************************************************************)
CbmemUp ==
    /\ phase = "preram"
    /\ cleared
    /\ phase' = "cbmem"
    /\ \E addOk \in BOOLEAN :
         LET t == RamAfterInit(addOk)
             found == InitFound(addOk) IN
         /\ ramPresent' = PresentAfterInit(addOk)
         /\ cached' = found
         /\ ram' = IF found THEN CopyEntries(pre, t) ELSE t
         /\ dropped' = dropped \cup IF found THEN CopyRefused(pre, t)
                                     ELSE {pre.slot[i] : i \in 0..(pre.num - 1)}
    /\ UNCHANGED <<cleared, pre, n, taken, oob, got>>

(***************************************************************************)
(* tpm_log_init once cbmem is up, as the readers call it: it is           *)
(* tpm_cb_log_cbmem_init, which may find or add the cbmem table and       *)
(* caches what it returns.                                                *)
(***************************************************************************)
CbmemLogInit(addOk) ==
    /\ ram' = RamAfterInit(addOk)
    /\ ramPresent' = PresentAfterInit(addOk)
    /\ cached' = InitFound(addOk)

\* Mutant: the index is checked against num_entries with <= .
GetEntryPastEnd(t, idx) ==
    IF Valid(t) /\ 0 <= idx /\ idx <= t.num
    THEN [ret |-> 0, id |-> IF idx \in DOMAIN t.slot THEN t.slot[idx] ELSE 0]
    ELSE [ret |-> 1, id |-> 0]

(***************************************************************************)
(* tpm_cb_log_get, lines 226-270, with valid output pointers (the check *)
(* at 234 returns first) and a table the NULL check passed: the metadata  *)
(* check, then 0 <= entry_idx < num_entries, then the entry is read and   *)
(* 0 returned; on error 1 is returned and the outputs are not written     *)
(* (id 0).  A slot past the region the table lies in reads as 0.  The     *)
(* digest type lookup and the NUL it writes concern the entry's data.     *)
(***************************************************************************)
GetEntry(t, idx) ==
    IF Valid(t) /\ 0 <= idx /\ idx < t.num
    THEN [ret |-> 0, id |-> IF idx \in DOMAIN t.slot THEN t.slot[idx] ELSE 0]
    ELSE [ret |-> 1, id |-> 0]

\* The read of entries[idx] lies outside the table's region.
GetBeyond(t, idx) ==
    Valid(t) /\ 0 <= idx /\ idx < t.num /\ idx \notin DOMAIN t.slot

TpmCbLogGet(idx) ==
    /\ \/ /\ phase = "preram"
          /\ got' = GetEntry(pre, idx)
          /\ oob' = (oob \/ GetBeyond(pre, idx))
          /\ UNCHANGED <<ram, ramPresent, cached>>
       \/ /\ phase # "preram"
          /\ \E addOk \in BOOLEAN :
               /\ CbmemLogInit(addOk)
               /\ got' = IF InitFound(addOk)
                         THEN GetEntry(RamAfterInit(addOk), idx)
                         ELSE [ret |-> 1, id |-> 0]
          /\ UNCHANGED oob
    /\ UNCHANGED <<phase, cleared, pre, n, taken, dropped>>

(***************************************************************************)
(* tpm_cb_log_dump, lines 95-134: after the NULL and metadata checks it   *)
(* prints entries 0..num_entries-1 and NUL-terminates their strings.      *)
(***************************************************************************)
TpmCbLogDump ==
    /\ \/ /\ phase = "preram"
          /\ oob' = (oob \/ (Valid(pre) /\ pre.num > PreramCap))
          /\ UNCHANGED <<ram, ramPresent, cached>>
       \/ /\ phase # "preram"
          /\ \E addOk \in BOOLEAN : CbmemLogInit(addOk)
          /\ UNCHANGED oob
    /\ UNCHANGED <<phase, cleared, pre, n, taken, dropped, got>>

\* ramstage starts: its static tclt is NULL again.
EnterRamstage ==
    /\ phase = "cbmem"
    /\ phase' = "ramstage"
    /\ cached' = FALSE
    /\ UNCHANGED <<cleared, pre, ram, ramPresent, n, taken, dropped, oob, got>>

\* The boot has taken its last measurement.
Finished == phase = "ramstage" /\ n = MaxMeasure /\ UNCHANGED vars

Next ==
    \/ PreramLogClear
    \/ \E k \in EntryKinds : AddPreram(k) \/ AddRam(k)
    \/ \E i \in GetIdx : TpmCbLogGet(i)
    \/ TpmCbLogDump
    \/ CbmemUp
    \/ EnterRamstage
    \/ Finished

Spec == Init /\ [][Next]_vars
-----------------------------------------------------------------------------
\* The numbers of the well-formed measurements no warning reported as lost.
KeptIds == {taken[i] : i \in DOMAIN taken} \ dropped

\* How many of them were taken before measurement id.
KeptRank(id) == Cardinality({x \in KeptIds : x < id})

(***************************************************************************)
(* Those measurements in the order taken.  Measurements are numbered as   *)
(* they are taken (id n + 1), so this is the filter of taken by "not     *)
(* dropped", written as "the i-th is the one with i - 1 before it".       *)
(***************************************************************************)
Kept == [i \in 1..Cardinality(KeptIds) |->
           CHOOSE id \in KeptIds : KeptRank(id) = i - 1]

(***************************************************************************)
(* The log in use is the boot's measurement record: its committed entries *)
(* are every well-formed measurement taken, in the order taken, except    *)
(* those a warning reported as not logged - through the pre-RAM table,    *)
(* the copy at cbmem creation and the cbmem table of romstage and         *)
(* ramstage, whose static cache starts empty and must find, not re-create *)
(* the table.  It makes the log append-only.                              *)
(***************************************************************************)
LogFaithful ==
    /\ phase = "preram" /\ cleared => Log(pre) = Kept
    /\ phase # "preram" => IF ramPresent THEN Log(ram) = Kept ELSE Kept = <<>>

\* What a reader gets for entry idx of the log s: the entry, or an error
\* for a negative index or one past the end.
LogAt(s, idx) ==
    IF 0 <= idx /\ idx < Len(s) THEN [ret |-> 0, id |-> s[idx + 1]]
    ELSE [ret |-> 1, id |-> 0]

\* The entry_idx-th kept measurement, or an error past the end.
KeptAt(idx) == LogAt(Kept, idx)

(***************************************************************************)
(* Once the pre-RAM log is set up, tpm_cb_log_get(i) hands back the i-th  *)
(* measurement kept in the log, and an error for a negative index or one  *)
(* past the last - also in romstage after a failed cbmem_add and in       *)
(* ramstage, where the call itself may create the cbmem table.            *)
(***************************************************************************)
GetReturnsKept ==
    [][\A i \in GetIdx :
         (TpmCbLogGet(i) /\ (phase # "preram" \/ cleared)) => got' = KeptAt(i)]_vars

\* The log tpm_log_init hands out: _tpm_log once set up, then the cbmem
\* table if there is one.
CurrentLog ==
    IF phase = "preram" THEN IF cleared THEN Log(pre) ELSE <<>>
    ELSE IF ramPresent THEN Log(ram) ELSE <<>>

(***************************************************************************)
(* tpm_cb_log_get(i) reads the log in use: once the pre-RAM log is set up, *)
(* its metadata check, its index check and the table tpm_log_init finds   *)
(* (cached, looked up or, in a new stage, freshly added) together return  *)
(* the i-th entry of that log, or an error for an index outside it.       *)
(* A step of the proof of GetReturnsKept (TpmCbLogKeptProofs).            *)
(***************************************************************************)
GetReadsLog ==
    [][\A i \in GetIdx :
         (TpmCbLogGet(i) /\ (phase # "preram" \/ cleared)) =>
            got' = LogAt(CurrentLog, i)]_vars

(***************************************************************************)
(* Whatever _tpm_log held at power-on, once tpm_cb_preram_log_clear has   *)
(* reset its metadata no writer (tpm_cb_log_add_table_entry), reader      *)
(* (tpm_cb_log_get) or dump touches an entry outside the region: the only *)
(* out-of-bounds access the uninitialised metadata allows is the clear.   *)
(***************************************************************************)
ClearedInBounds == [][(cleared /\ ~oob) => ~oob']_vars

AbsLog == INSTANCE MeasurementLog
            WITH Max <- MaxMeasure, log <- CurrentLog, count <- n,
                 handed <- (phase # "preram")

(***************************************************************************)
(* The tables implement the measurement log: every step of the writers,   *)
(* the readers (which may create the cbmem table), the clear and the      *)
(* copy at cbmem creation appends a new measurement, keeps the log, or,   *)
(* at the copy only, cuts it to a prefix - in particular ramstage, whose  *)
(* static cache starts empty, continues the log romstage left in cbmem.   *)
(***************************************************************************)
LogRefinement == AbsLog!Spec

(***************************************************************************)
(* The log in use lists measurements already taken, each at most once, in *)
(* the order taken - through the writer's slot arithmetic, the copy into  *)
(* cbmem and the table the readers and writers look up in each stage.     *)
(* MeasurementLog's InOrder under the refinement mapping; a step of the  *)
(* proof of LogFaithful.                                                  *)
(***************************************************************************)
LogInOrder == AbsLog!InOrder

(***************************************************************************)
(* The comments at lines 96, 137 and 203: malformed table metadata is      *)
(* handled defensively, so no entry outside the _tpm_log region is         *)
(* touched.                                                                 *)
(***************************************************************************)
PreramInBounds == ~oob
=============================================================================
