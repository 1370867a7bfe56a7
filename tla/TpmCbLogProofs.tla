--------------------------- MODULE TpmCbLogProofs ---------------------------
(***************************************************************************)
(* Proof that the TPM log tables implement MeasurementLog for every       *)
(* capacity and bound on the measurements.  The argument rests on the     *)
(* shape of the tables: once tpm_cb_preram_log_clear has run, _tpm_log    *)
(* has max_entries = MAX_PRERAM_TPM_LOG_ENTRIES; a cbmem table that       *)
(* exists was made by cbmem_add with max_entries = MAX_TPM_LOG_ENTRIES;   *)
(* before cbmem comes up there is none, and nothing is cached.  On such   *)
(* tables a committed write appends to the log, tpm_cb_log_cbmem_init     *)
(* returns the table that is already the log (or a fresh, empty one), and *)
(* the copy into the fresh cbmem table yields a prefix of _tpm_log.       *)
(***************************************************************************)
EXTENDS TpmCbLog, TLAPS

\* The cbmem table before cbmem_add made it.
NoRam == [max |-> 0, num |-> 0, slot |-> ZeroSlots(RamCap)]

\* A fresh table as cbmem_add leaves it.
FreshRam == [max |-> RamCap, num |-> 0, slot |-> ZeroSlots(RamCap)]

IInv ==
    /\ phase \in {"preram", "cbmem", "ramstage"}
    /\ cleared \in BOOLEAN
    /\ ramPresent \in BOOLEAN
    /\ cached \in BOOLEAN
    /\ n \in 0..MaxMeasure
    /\ pre \in Table(PreramCap)
    /\ ram \in Table(RamCap)
    /\ phase # "preram" => cleared
    /\ cleared => pre.max = PreramCap /\ pre.num <= PreramCap
    /\ ramPresent => ram.max = RamCap /\ ram.num <= RamCap
    /\ ~ramPresent => ram = NoRam /\ ~cached
    /\ phase = "preram" => ~ramPresent

-----------------------------------------------------------------------------
\* A committed write on a table with room appends the entry to its log.
LEMMA LogRecord ==
    ASSUME NEW cap \in Nat, NEW t \in Table(cap), NEW id \in 0..MaxMeasure,
           t.num < cap
    PROVE  /\ Log(Record(t, id)) = Append(Log(t), id)
           /\ Record(t, id) \in Table(cap)
<1> DEFINE r == Record(t, id)
<1>1. /\ t.num \in 0..(cap - 1)
      /\ r.max = t.max /\ r.num = t.num + 1
      /\ r.slot = [t.slot EXCEPT ![t.num] = id]
  BY DEF Record, Table
<1>2. r \in Table(cap)
  BY <1>1 DEF Record, Table
<1>3. Log(r) = Append(Log(t), id)
  <2>1. Log(r) = [i \in 1..(t.num + 1) |-> IF i = t.num + 1 THEN id ELSE t.slot[i - 1]]
    BY <1>1 DEF Log, Table
  <2>2. Append(Log(t), id) = [i \in 1..(t.num + 1) |->
                                IF i = t.num + 1 THEN id ELSE t.slot[i - 1]]
    BY <1>1 DEF Log
  <2>. QED
    BY <2>1, <2>2
<1>. QED
  BY <1>2, <1>3

\* A table's log has num_entries entries.
LEMMA LogLen ==
    ASSUME NEW cap \in Nat, NEW t \in Table(cap)
    PROVE  Len(Log(t)) = t.num
<1>1. t.num \in Nat
  BY DEF Table
<1>2. QED
  BY <1>1 DEF Log

\* Before the copy there is no cbmem table, so tpm_cb_log_cbmem_init
\* returns a fresh one exactly when cbmem_add succeeds.
LEMMA InitNoRam ==
    ASSUME IInv, ~ramPresent, NEW addOk \in BOOLEAN
    PROVE  /\ RamAfterInit(addOk) = IF addOk THEN FreshRam ELSE NoRam
           /\ PresentAfterInit(addOk) = addOk
           /\ InitFound(addOk) = addOk
BY CapAssumption DEF IInv, RamAfterInit, PresentAfterInit, InitFound, Valid,
                     FreshRam, NoRam

\* With a cbmem table, tpm_cb_log_cbmem_init returns it, cached or not.
LEMMA InitRam ==
    ASSUME IInv, ramPresent, NEW addOk \in BOOLEAN
    PROVE  /\ RamAfterInit(addOk) = ram
           /\ PresentAfterInit(addOk)
           /\ InitFound(addOk)
BY CapAssumption DEF IInv, RamAfterInit, PresentAfterInit, InitFound, Valid

\* The copy into a fresh table keeps the first entries of _tpm_log.
LEMMA LogCopy ==
    ASSUME NEW from \in Table(PreramCap), from.max = PreramCap,
           from.num <= PreramCap
    PROVE  /\ Copied(from, FreshRam) \in 0..from.num
           /\ Copied(from, FreshRam) <= RamCap
           /\ CopyEntries(from, FreshRam) \in Table(RamCap)
           /\ CopyEntries(from, FreshRam).max = RamCap
           /\ CopyEntries(from, FreshRam).num <= RamCap
           /\ Log(CopyEntries(from, FreshRam))
                = SubSeq(Log(from), 1, Copied(from, FreshRam))
<1> DEFINE k == Copied(from, FreshRam)
<1>0. CopyOk(from, FreshRam) /\ from.num \in Nat
  BY CapAssumption DEF CopyOk, FreshRam, Table
<1>1. k \in 0..from.num /\ k <= RamCap
  <2>1. k = IF from.num < RamCap THEN from.num ELSE RamCap
    BY <1>0, CapAssumption DEF Copied, CopyBound, FreshRam
  <2>. QED
    BY <2>1, <1>0, CapAssumption
<1> DEFINE c == CopyEntries(from, FreshRam)
<1>2. /\ c.max = RamCap
      /\ c.num = k
      /\ c.slot = [i \in 0..(RamCap - 1) |->
                    IF 0 <= i /\ i < k THEN from.slot[i] ELSE 0]
  BY CapAssumption, <1>1 DEF CopyEntries, FreshRam, ZeroSlots
<1>3. c \in Table(RamCap)
  <2>1. \A i \in 0..(RamCap - 1) : 0 <= i /\ i < k => i \in 0..(PreramCap - 1)
    BY <1>1, CapAssumption DEF Table
  <2>2. c.slot \in [0..(RamCap - 1) -> 0..MaxMeasure]
    BY <1>2, <2>1, MaxMeasureAssumption DEF Table
  <2>3. c = [max |-> c.max, num |-> c.num, slot |-> c.slot]
    BY DEF CopyEntries
  <2>. QED
    BY <1>1, <1>2, <2>2, <2>3, CapAssumption DEF Table
<1>4. Log(c) = SubSeq(Log(from), 1, k)
  <2>1. Log(c) = [i \in 1..k |-> from.slot[i - 1]]
    BY <1>1, <1>2, CapAssumption DEF Log
  <2>2. SubSeq(Log(from), 1, k) = [i \in 1..k |-> from.slot[i - 1]]
    BY <1>1, CapAssumption DEF Log, Table
  <2>. QED
    BY <2>1, <2>2
<1>5. QED
  BY <1>1, <1>2, <1>3, <1>4, CapAssumption
-----------------------------------------------------------------------------
LEMMA InitIInv == Init => IInv
<1> SUFFICES ASSUME Init PROVE IInv
  OBVIOUS
<1>1. pre \in Table(PreramCap)
  BY PreramMetaAssumption, MaxMeasureAssumption DEF Init, Table, ZeroSlots
<1>2. ram \in Table(RamCap) /\ ram = NoRam
  BY MaxMeasureAssumption DEF Init, Table, ZeroSlots, NoRam
<1>3. /\ phase = "preram" /\ cleared = FALSE /\ ramPresent = FALSE
      /\ cached = FALSE /\ n = 0
  BY DEF Init
<1>4. n \in 0..MaxMeasure
  BY <1>3, MaxMeasureAssumption
<1>5. /\ phase \in {"preram", "cbmem", "ramstage"}
      /\ cleared \in BOOLEAN /\ ramPresent \in BOOLEAN /\ cached \in BOOLEAN
  BY <1>3
<1>6. /\ phase # "preram" => cleared
      /\ cleared => pre.max = PreramCap /\ pre.num <= PreramCap
      /\ ramPresent => ram.max = RamCap /\ ram.num <= RamCap
      /\ ~ramPresent => ram = NoRam /\ ~cached
      /\ phase = "preram" => ~ramPresent
  BY <1>2, <1>3
<1>. QED
  BY <1>1, <1>2, <1>4, <1>5, <1>6 DEF IInv

\* The readers' and the writers' call of tpm_log_init once cbmem is up.
LEMMA CbmemInitIInv ==
    ASSUME IInv, phase # "preram", NEW addOk \in BOOLEAN
    PROVE  /\ RamAfterInit(addOk) \in Table(RamCap)
           /\ PresentAfterInit(addOk) =>
                 RamAfterInit(addOk).max = RamCap /\ RamAfterInit(addOk).num <= RamCap
           /\ ~PresentAfterInit(addOk) =>
                 RamAfterInit(addOk) = NoRam /\ ~InitFound(addOk)
           /\ PresentAfterInit(addOk) \in BOOLEAN
           /\ InitFound(addOk) \in BOOLEAN
           /\ Log(RamAfterInit(addOk)) = CurrentLog
<1>1. CASE ramPresent
  BY <1>1, InitRam DEF IInv, CurrentLog
<1>2. CASE ~ramPresent
  <2>1. FreshRam \in Table(RamCap) /\ Log(FreshRam) = <<>> /\ Log(NoRam) = <<>>
    BY CapAssumption, MaxMeasureAssumption DEF FreshRam, NoRam, Table, ZeroSlots, Log
  <2>. QED
    BY <1>2, <2>1, InitNoRam, CapAssumption DEF IInv, CurrentLog, FreshRam
<1>. QED
  BY <1>1, <1>2 DEF IInv

LEMMA NextIInv == IInv /\ [Next]_vars => IInv'
<1> SUFFICES ASSUME IInv, [Next]_vars PROVE IInv'
  OBVIOUS
<1>1. CASE PreramLogClear
  <2>1. pre' \in Table(PreramCap) /\ pre'.max = PreramCap /\ pre'.num = 0
    BY <1>1, CapAssumption, MaxMeasureAssumption DEF PreramLogClear, IInv, Table
  <2>2. /\ phase = "preram" /\ cleared' = TRUE
        /\ UNCHANGED <<phase, ram, ramPresent, cached, n>>
    BY <1>1 DEF PreramLogClear
  <2>. QED
    BY <2>1, <2>2, CapAssumption DEF IInv
<1>2. ASSUME NEW k \in EntryKinds, AddPreram(k)
      PROVE  IInv'
  <2>1. /\ phase = "preram" /\ cleared /\ n < MaxMeasure /\ n' = n + 1
        /\ UNCHANGED <<phase, cleared, ram, ramPresent, cached>>
    BY <1>2 DEF AddPreram
  <2>0. n + 1 \in 0..MaxMeasure
    BY <2>1, MaxMeasureAssumption DEF IInv
  <2>2. CASE Accepts(pre, k)
    <3>1. pre.num < PreramCap
      BY <2>1, <2>2 DEF Accepts, Valid, IInv
    <3>2. pre' = Record(pre, n + 1)
      BY <1>2, <2>2 DEF AddPreram
    <3>3. pre' \in Table(PreramCap) /\ pre'.max = PreramCap /\ pre'.num <= PreramCap
      <4>1. pre \in Table(PreramCap) /\ pre.max = PreramCap /\ pre.num \in Nat
        BY <2>1 DEF IInv, Table
      <4>2. Record(pre, n + 1) \in Table(PreramCap)
        BY <2>0, <3>1, <4>1, LogRecord, CapAssumption
      <4>3. Record(pre, n + 1).max = PreramCap /\ Record(pre, n + 1).num <= PreramCap
        BY <3>1, <4>1, CapAssumption DEF Record
      <4>. QED
        BY <3>2, <4>2, <4>3
    <3>. QED
      BY <2>0, <2>1, <3>3 DEF IInv
  <2>3. CASE ~Accepts(pre, k)
    <3>1. pre' = pre
      BY <1>2, <2>3 DEF AddPreram
    <3>. QED
      BY <2>0, <2>1, <3>1 DEF IInv
  <2>. QED
    BY <2>2, <2>3
<1>3. ASSUME NEW k \in EntryKinds, AddRam(k)
      PROVE  IInv'
  <2>1. PICK addOk \in BOOLEAN :
          LET t == RamAfterInit(addOk)
              ok == InitFound(addOk) /\ Accepts(t, k) IN
          /\ ramPresent' = PresentAfterInit(addOk)
          /\ cached' = InitFound(addOk)
          /\ ram' = IF ok THEN Record(t, n + 1) ELSE t
    BY <1>3 DEF AddRam
  <2> DEFINE t == RamAfterInit(addOk)
  <2>0. phase \in {"cbmem", "ramstage"} /\ n < MaxMeasure /\ n' = n + 1
        /\ UNCHANGED <<phase, cleared, pre>>
    BY <1>3 DEF AddRam
  <2>2. /\ phase # "preram" /\ n + 1 \in 0..MaxMeasure /\ n' = n + 1
        /\ UNCHANGED <<phase, cleared, pre>>
    BY <2>0, MaxMeasureAssumption DEF IInv
  <2>3. /\ t \in Table(RamCap)
        /\ PresentAfterInit(addOk) => t.max = RamCap /\ t.num <= RamCap
        /\ ~PresentAfterInit(addOk) => t = NoRam /\ ~InitFound(addOk)
        /\ PresentAfterInit(addOk) \in BOOLEAN /\ InitFound(addOk) \in BOOLEAN
    BY <2>2, CbmemInitIInv
  <2>4. CASE InitFound(addOk) /\ Accepts(t, k)
    <3>1. t.num < RamCap /\ PresentAfterInit(addOk)
      BY <2>3, <2>4 DEF Accepts, Valid, InitFound
    <3>2. ram' = Record(t, n + 1)
      BY <2>1, <2>4
    <3>3. ram' \in Table(RamCap) /\ ram'.max = RamCap /\ ram'.num <= RamCap
      <4>1. t.max = RamCap /\ t.num \in Nat
        BY <2>3, <3>1 DEF Table
      <4>2. Record(t, n + 1) \in Table(RamCap)
        BY <2>2, <2>3, <3>1, LogRecord, CapAssumption
      <4>3. Record(t, n + 1).max = RamCap /\ Record(t, n + 1).num <= RamCap
        BY <3>1, <4>1, CapAssumption DEF Record
      <4>. QED
        BY <3>2, <4>2, <4>3
    <3>. QED
      BY <2>1, <2>2, <2>3, <3>1, <3>3 DEF IInv
  <2>5. CASE ~(InitFound(addOk) /\ Accepts(t, k))
    <3>1. ram' = t
      BY <2>1, <2>5
    <3>. QED
      BY <2>1, <2>2, <2>3, <3>1 DEF IInv
  <2>. QED
    BY <2>4, <2>5
<1>4. ASSUME NEW i \in GetIdx, TpmCbLogGet(i)
      PROVE  IInv'
  <2>1. UNCHANGED <<phase, cleared, pre, n>>
    BY <1>4 DEF TpmCbLogGet
  <2>2. CASE phase = "preram"
    <3>1. UNCHANGED <<ram, ramPresent, cached>>
      BY <1>4, <2>2 DEF TpmCbLogGet
    <3>. QED
      BY <2>1, <3>1 DEF IInv
  <2>3. CASE phase # "preram"
    <3>1. PICK addOk \in BOOLEAN : CbmemLogInit(addOk)
      BY <1>4, <2>3 DEF TpmCbLogGet
    <3>. QED
      BY <2>1, <2>3, <3>1, CbmemInitIInv DEF CbmemLogInit, IInv
  <2>. QED
    BY <2>2, <2>3
<1>5. CASE TpmCbLogDump
  <2>1. UNCHANGED <<phase, cleared, pre, n>>
    BY <1>5 DEF TpmCbLogDump
  <2>2. CASE phase = "preram"
    <3>1. UNCHANGED <<ram, ramPresent, cached>>
      BY <1>5, <2>2 DEF TpmCbLogDump
    <3>. QED
      BY <2>1, <3>1 DEF IInv
  <2>3. CASE phase # "preram"
    <3>1. PICK addOk \in BOOLEAN : CbmemLogInit(addOk)
      BY <1>5, <2>3 DEF TpmCbLogDump
    <3>. QED
      BY <2>1, <2>3, <3>1, CbmemInitIInv DEF CbmemLogInit, IInv
  <2>. QED
    BY <2>2, <2>3
<1>6. CASE CbmemUp
  <2>1. PICK addOk \in BOOLEAN :
          /\ ramPresent' = PresentAfterInit(addOk)
          /\ cached' = InitFound(addOk)
          /\ ram' = IF InitFound(addOk) THEN CopyEntries(pre, RamAfterInit(addOk))
                                        ELSE RamAfterInit(addOk)
    BY <1>6 DEF CbmemUp
  <2>2. /\ ~ramPresent /\ cleared /\ pre \in Table(PreramCap)
        /\ pre.max = PreramCap /\ pre.num <= PreramCap
        /\ phase' = "cbmem" /\ UNCHANGED <<cleared, pre, n>>
    BY <1>6 DEF CbmemUp, IInv
  <2>3. CASE addOk
    <3>1. ram' = CopyEntries(pre, FreshRam) /\ ramPresent' /\ cached'
      BY <2>1, <2>2, <2>3, InitNoRam DEF IInv
    <3>2. ram' \in Table(RamCap) /\ ram'.max = RamCap /\ ram'.num <= RamCap
      BY <2>2, <3>1, LogCopy
    <3>. QED
      BY <2>2, <3>1, <3>2 DEF IInv
  <2>4. CASE ~addOk
    <3>1. ram' = NoRam /\ ramPresent' = FALSE /\ cached' = FALSE
      BY <2>1, <2>2, <2>4, InitNoRam DEF IInv
    <3>2. NoRam \in Table(RamCap)
      BY MaxMeasureAssumption DEF NoRam, Table, ZeroSlots
    <3>3. cleared' /\ n' \in 0..MaxMeasure /\ pre' \in Table(PreramCap)
          /\ pre'.max = PreramCap /\ pre'.num <= PreramCap
      BY <2>2 DEF IInv
    <3>4. (~ramPresent => ram = NoRam /\ ~cached)'
      BY <3>1
    <3>5. (phase \in {"preram", "cbmem", "ramstage"} /\ phase # "preram")'
      BY <2>2
    <3>6. (cleared \in BOOLEAN /\ ramPresent \in BOOLEAN /\ cached \in BOOLEAN)'
      BY <2>2, <3>1 DEF IInv
    <3>7. (ram \in Table(RamCap))'
      BY <3>1, <3>2
    <3>. QED
      BY <3>1, <3>3, <3>4, <3>5, <3>6, <3>7 DEF IInv
  <2>. QED
    BY <2>3, <2>4
<1>7. CASE EnterRamstage
  BY <1>7 DEF EnterRamstage, IInv
<1>8. CASE Finished \/ UNCHANGED vars
  BY <1>8 DEF Finished, vars, IInv
<1>. QED
  BY <1>1, <1>2, <1>3, <1>4, <1>5, <1>6, <1>7, <1>8 DEF Next
-----------------------------------------------------------------------------
(***************************************************************************)
(* The refinement: a step of the tables is a step of MeasurementLog or    *)
(* leaves the log, the count and the hand-over flag as they are.          *)
(***************************************************************************)
\* Abbreviations for the abstract steps under the refinement mapping.
AbsMeasure == AbsLog!Measure
AbsHandover == AbsLog!Handover
AbsStutter == UNCHANGED <<CurrentLog, n, phase # "preram">>

\* A measurement step: the log gains entry n + 1 or stays as it is.
LEMMA MeasureStep ==
    ASSUME n < MaxMeasure, n' = n + 1, (phase # "preram")' = (phase # "preram"),
           \/ CurrentLog' = CurrentLog
           \/ CurrentLog' = Append(CurrentLog, n + 1)
    PROVE  AbsMeasure
BY DEF AbsMeasure, AbsLog!Measure

LEMMA NextRefines == IInv /\ [Next]_vars => AbsMeasure \/ AbsHandover \/ AbsStutter
<1> SUFFICES ASSUME IInv, [Next]_vars
             PROVE  AbsMeasure \/ AbsHandover \/ AbsStutter
  OBVIOUS
<1>1. CASE PreramLogClear
  <2>1. phase = "preram" /\ ~cleared /\ cleared' /\ pre'.num = 0
        /\ UNCHANGED <<phase, n>>
    BY <1>1 DEF PreramLogClear, IInv
  <2>2. CurrentLog = <<>> /\ CurrentLog' = <<>>
    BY <2>1 DEF CurrentLog, Log
  <2>. QED
    BY <2>1, <2>2 DEF AbsStutter
<1>2. ASSUME NEW k \in EntryKinds, AddPreram(k)
      PROVE  AbsMeasure \/ AbsHandover \/ AbsStutter
  <2>1. /\ phase = "preram" /\ cleared = TRUE /\ n < MaxMeasure /\ n' = n + 1
        /\ UNCHANGED <<phase, cleared>>
        /\ CurrentLog = Log(pre) /\ CurrentLog' = Log(pre')
    BY <1>2 DEF AddPreram, IInv, CurrentLog
  <2>2. CASE Accepts(pre, k)
    <3>1. pre.num < PreramCap /\ pre \in Table(PreramCap) /\ n + 1 \in 0..MaxMeasure
      BY <2>1, <2>2, MaxMeasureAssumption DEF Accepts, Valid, IInv
    <3>2. pre' = Record(pre, n + 1)
      BY <1>2, <2>2 DEF AddPreram
    <3>3. CurrentLog' = Append(CurrentLog, n + 1)
      BY <2>1, <3>1, <3>2, LogRecord, CapAssumption
    <3>. QED
      BY <2>1, <3>3, MeasureStep
  <2>3. CASE ~Accepts(pre, k)
    <3>1. pre' = pre
      BY <1>2, <2>3 DEF AddPreram
    <3>. QED
      BY <2>1, <3>1, MeasureStep
  <2>. QED
    BY <2>2, <2>3
<1>3. ASSUME NEW k \in EntryKinds, AddRam(k)
      PROVE  AbsMeasure \/ AbsHandover \/ AbsStutter
  <2>1. PICK addOk \in BOOLEAN :
          LET t == RamAfterInit(addOk)
              ok == InitFound(addOk) /\ Accepts(t, k) IN
          /\ ramPresent' = PresentAfterInit(addOk)
          /\ ram' = IF ok THEN Record(t, n + 1) ELSE t
    BY <1>3 DEF AddRam
  <2> DEFINE t == RamAfterInit(addOk)
  <2>2. /\ phase \in {"cbmem", "ramstage"} /\ n < MaxMeasure /\ n' = n + 1
        /\ UNCHANGED phase
    BY <1>3 DEF AddRam
  <2>3. /\ t \in Table(RamCap)
        /\ PresentAfterInit(addOk) => t.max = RamCap /\ t.num <= RamCap
        /\ PresentAfterInit(addOk) \in BOOLEAN
        /\ Log(t) = CurrentLog
        /\ CurrentLog' = IF ramPresent' THEN Log(ram') ELSE <<>>
    BY <2>2, CbmemInitIInv DEF CurrentLog
  <2>4. CASE InitFound(addOk) /\ Accepts(t, k)
    <3>1. t.num < RamCap /\ PresentAfterInit(addOk) /\ n + 1 \in 0..MaxMeasure
      BY <2>2, <2>3, <2>4, MaxMeasureAssumption DEF Accepts, Valid, InitFound, IInv
    <3>2. ram' = Record(t, n + 1) /\ ramPresent' = TRUE
      BY <2>1, <2>4, <3>1
    <3>3. CurrentLog' = Append(CurrentLog, n + 1)
      BY <2>3, <3>1, <3>2, LogRecord, CapAssumption
    <3>. QED
      BY <2>2, <3>3, MeasureStep
  <2>5. CASE ~(InitFound(addOk) /\ Accepts(t, k))
    <3>1. ram' = t /\ ramPresent' = PresentAfterInit(addOk)
      BY <2>1, <2>5
    <3>2. ~PresentAfterInit(addOk) => ~ramPresent
      BY DEF PresentAfterInit
    <3>3. CurrentLog' = CurrentLog
      BY <2>2, <2>3, <3>1, <3>2 DEF CurrentLog, IInv
    <3>. QED
      BY <2>2, <3>3, MeasureStep
  <2>. QED
    BY <2>4, <2>5
<1>4. ASSUME NEW i \in GetIdx, TpmCbLogGet(i)
      PROVE  AbsStutter
  <2>1. UNCHANGED <<phase, cleared, pre, n>>
    BY <1>4 DEF TpmCbLogGet
  <2>2. CASE phase = "preram"
    <3>1. UNCHANGED <<ram, ramPresent>>
      BY <1>4, <2>2 DEF TpmCbLogGet
    <3>. QED
      BY <2>1, <3>1 DEF AbsStutter, CurrentLog
  <2>3. CASE phase # "preram"
    <3>1. PICK addOk \in BOOLEAN : CbmemLogInit(addOk)
      BY <1>4, <2>3 DEF TpmCbLogGet
    <3>2. CurrentLog' = CurrentLog
      BY <2>1, <2>3, <3>1, CbmemInitIInv DEF CbmemLogInit, CurrentLog, IInv,
                                              PresentAfterInit
    <3>. QED
      BY <2>1, <3>2 DEF AbsStutter
  <2>. QED
    BY <2>2, <2>3
<1>5. CASE TpmCbLogDump
  <2>1. UNCHANGED <<phase, cleared, pre, n>>
    BY <1>5 DEF TpmCbLogDump
  <2>2. CASE phase = "preram"
    <3>1. UNCHANGED <<ram, ramPresent>>
      BY <1>5, <2>2 DEF TpmCbLogDump
    <3>. QED
      BY <2>1, <3>1 DEF AbsStutter, CurrentLog
  <2>3. CASE phase # "preram"
    <3>1. PICK addOk \in BOOLEAN : CbmemLogInit(addOk)
      BY <1>5, <2>3 DEF TpmCbLogDump
    <3>2. CurrentLog' = CurrentLog
      BY <2>1, <2>3, <3>1, CbmemInitIInv DEF CbmemLogInit, CurrentLog, IInv,
                                              PresentAfterInit
    <3>. QED
      BY <2>1, <3>2 DEF AbsStutter
  <2>. QED
    BY <2>2, <2>3
<1>6. CASE CbmemUp
  <2>1. PICK addOk \in BOOLEAN :
          /\ ramPresent' = PresentAfterInit(addOk)
          /\ ram' = IF InitFound(addOk) THEN CopyEntries(pre, RamAfterInit(addOk))
                                        ELSE RamAfterInit(addOk)
    BY <1>6 DEF CbmemUp
  <2>2. /\ ~ramPresent /\ cleared = TRUE /\ pre \in Table(PreramCap)
        /\ pre.max = PreramCap /\ pre.num <= PreramCap
        /\ phase = "preram" /\ phase' = "cbmem" /\ UNCHANGED <<pre, n>>
        /\ CurrentLog = Log(pre)
    BY <1>6 DEF CbmemUp, IInv, CurrentLog
  <2>3. Len(Log(pre)) = pre.num /\ pre.num \in Nat
    BY <2>2, LogLen, CapAssumption DEF Table
  <2>4. PICK c \in 0..pre.num : CurrentLog' = SubSeq(Log(pre), 1, c)
    <3>1. CASE addOk
      <4>1. ram' = CopyEntries(pre, FreshRam) /\ ramPresent' = TRUE
        BY <2>1, <2>2, <3>1, InitNoRam DEF IInv
      <4>2. CurrentLog' = Log(CopyEntries(pre, FreshRam))
        BY <2>2, <4>1 DEF CurrentLog
      <4>. QED
        BY <2>2, <4>2, LogCopy
    <3>2. CASE ~addOk
      <4>1. ramPresent' = FALSE
        BY <2>1, <2>2, <3>2, InitNoRam DEF IInv
      <4>2. CurrentLog' = <<>> /\ SubSeq(Log(pre), 1, 0) = <<>>
        BY <2>2, <4>1 DEF CurrentLog
      <4>. QED
        BY <2>3, <4>2
    <3>. QED
      BY <3>1, <3>2
  <2>. QED
    BY <2>2, <2>3, <2>4 DEF AbsHandover, AbsLog!Handover
<1>7. CASE EnterRamstage
  BY <1>7 DEF EnterRamstage, AbsStutter, CurrentLog
<1>8. CASE Finished \/ UNCHANGED vars
  BY <1>8 DEF Finished, vars, AbsStutter, CurrentLog
<1>. QED
  BY <1>1, <1>2, <1>3, <1>4, <1>5, <1>6, <1>7, <1>8 DEF Next

(***************************************************************************)
(* For every capacity of the two tables and every bound on the            *)
(* measurements, the TPM log of tpm_cb_log_add_table_entry,               *)
(* tpm_cb_preram_log_clear, the copy at cbmem creation and the readers   *)
(* implements MeasurementLog: the log in use only ever gains the next     *)
(* measurement at its end, except at the copy into cbmem, which keeps a   *)
(* prefix of _tpm_log.                                                    *)
(***************************************************************************)
THEOREM Refinement == Spec => LogRefinement
<1>1. Init => AbsLog!Init
  <2> SUFFICES ASSUME Init PROVE AbsLog!Init
    OBVIOUS
  <2>1. phase = "preram" /\ cleared = FALSE /\ n = 0
    BY DEF Init
  <2>. QED
    BY <2>1 DEF AbsLog!Init, CurrentLog
<1>2. IInv /\ [Next]_vars => [AbsLog!Next]_(AbsLog!avars)
  BY NextRefines DEF AbsMeasure, AbsHandover, AbsStutter, AbsLog!Next,
                     AbsLog!avars
<1>. QED
  BY <1>1, <1>2, InitIInv, NextIInv, PTL DEF Spec, LogRefinement, AbsLog!Spec
-----------------------------------------------------------------------------
(***************************************************************************)
(* The readers.  On a table of the shape IInv gives (max_entries is the   *)
(* capacity, num_entries at most that), tpm_cb_log_get's metadata check   *)
(* passes, its index check is exactly "inside the log", and the entry it  *)
(* reads lies in the table: it returns the entry of the table's log.      *)
(***************************************************************************)
LEMMA GetEntryLog ==
    ASSUME NEW cap \in Nat \ {0}, NEW t \in Table(cap), t.max = cap,
           t.num <= cap, NEW idx \in Int
    PROVE  GetEntry(t, idx) = LogAt(Log(t), idx)
<1>1. Valid(t) /\ t.num \in Nat /\ Len(Log(t)) = t.num
  BY LogLen DEF Valid, Table
<1>2. CASE 0 <= idx /\ idx < t.num
  <2>1. idx \in DOMAIN t.slot
    BY <1>1, <1>2 DEF Table
  <2>2. Log(t)[idx + 1] = t.slot[idx]
    BY <1>1, <1>2 DEF Log
  <2>. QED
    BY <1>1, <1>2, <2>1, <2>2 DEF GetEntry, LogAt
<1>3. CASE ~(0 <= idx /\ idx < t.num)
  BY <1>1, <1>3 DEF GetEntry, LogAt
<1>. QED
  BY <1>2, <1>3

\* One call of tpm_cb_log_get once the pre-RAM log is set up.
LEMMA GetStep ==
    ASSUME IInv, NEW i \in GetIdx, TpmCbLogGet(i), phase # "preram" \/ cleared
    PROVE  got' = LogAt(CurrentLog, i)
<1>0. i \in Int
  BY DEF GetIdx
<1>1. CASE phase = "preram"
  <2>1. cleared /\ pre \in Table(PreramCap) /\ pre.max = PreramCap
        /\ pre.num <= PreramCap
    BY <1>1 DEF IInv
  <2>2. got' = GetEntry(pre, i) /\ CurrentLog = Log(pre)
    BY <1>1, <2>1 DEF TpmCbLogGet, CurrentLog
  <2>. QED
    BY <1>0, <2>1, <2>2, GetEntryLog, CapAssumption
<1>2. CASE phase # "preram"
  <2>1. PICK addOk \in BOOLEAN :
          got' = IF InitFound(addOk) THEN GetEntry(RamAfterInit(addOk), i)
                 ELSE [ret |-> 1, id |-> 0]
    BY <1>2 DEF TpmCbLogGet
  <2> DEFINE t == RamAfterInit(addOk)
  <2>2. /\ t \in Table(RamCap)
        /\ PresentAfterInit(addOk) => t.max = RamCap /\ t.num <= RamCap
        /\ ~PresentAfterInit(addOk) => t = NoRam /\ ~InitFound(addOk)
        /\ Log(t) = CurrentLog
    BY <1>2, CbmemInitIInv
  <2>3. CASE PresentAfterInit(addOk)
    <3>1. InitFound(addOk)
      BY <2>2, <2>3, CapAssumption DEF InitFound, Valid
    <3>. QED
      BY <1>0, <2>1, <2>2, <2>3, <3>1, GetEntryLog, CapAssumption
  <2>4. CASE ~PresentAfterInit(addOk)
    <3>1. CurrentLog = <<>> /\ ~InitFound(addOk)
      BY <2>2, <2>4 DEF NoRam, Log
    <3>2. got' = [ret |-> 1, id |-> 0]
      BY <2>1, <3>1
    <3>3. LogAt(<<>>, i) = [ret |-> 1, id |-> 0]
      BY <1>0 DEF LogAt
    <3>. QED
      BY <3>1, <3>2, <3>3
  <2>. QED
    BY <2>3, <2>4
<1>. QED
  BY <1>1, <1>2

(***************************************************************************)
(* For every capacity and bound, tpm_cb_log_get(i) returns the i-th entry *)
(* of the log tpm_log_init hands out, or an error outside it, in every    *)
(* stage - ramstage included, whose empty static cache makes the call     *)
(* look the table up (or add it) first.                                   *)
(***************************************************************************)
THEOREM GetReads == Spec => GetReadsLog
<1>1. IInv /\ [Next]_vars =>
        [\A i \in GetIdx :
           (TpmCbLogGet(i) /\ (phase # "preram" \/ cleared)) =>
              got' = LogAt(CurrentLog, i)]_vars
  BY GetStep
<1>. QED
  BY InitIInv, NextIInv, <1>1, PTL DEF Spec, GetReadsLog
-----------------------------------------------------------------------------
(***************************************************************************)
(* Bounds after the clear.  tpm_cb_preram_log_clear leaves max_entries at  *)
(* the region's capacity, and the writers and readers never raise          *)
(* num_entries past it: the "table full" check of the writer, the index   *)
(* check of tpm_cb_log_get and the loop bound of tpm_cb_log_dump then all *)
(* stay inside the region.                                                 *)
(***************************************************************************)
LEMMA BoundsStep ==
    ASSUME IInv, [Next]_vars, cleared, ~oob
    PROVE  ~oob'
<1>0. pre \in Table(PreramCap) /\ pre.max = PreramCap /\ pre.num <= PreramCap
  BY DEF IInv
<1>1. CASE PreramLogClear
  BY <1>1 DEF PreramLogClear
<1>2. ASSUME NEW k \in EntryKinds, AddPreram(k)
      PROVE  ~oob'
  <2>1. Accepts(pre, k) => pre.num < PreramCap
    BY <1>0 DEF Accepts
  <2>2. pre.num \in Nat
    BY <1>0 DEF Table
  <2>3. ~(Accepts(pre, k) /\ pre.num >= PreramCap)
    BY <2>1, <2>2, CapAssumption
  <2>. QED
    BY <1>2, <2>3 DEF AddPreram
<1>3. ASSUME NEW k \in EntryKinds, AddRam(k)
      PROVE  ~oob'
  BY <1>3 DEF AddRam
<1>4. ASSUME NEW i \in GetIdx, TpmCbLogGet(i)
      PROVE  ~oob'
  <2>1. CASE phase = "preram"
    <3>1. ~GetBeyond(pre, i)
      BY <1>0, CapAssumption DEF GetBeyond, Table, GetIdx
    <3>. QED
      BY <1>4, <2>1, <3>1 DEF TpmCbLogGet
  <2>2. CASE phase # "preram"
    BY <1>4, <2>2 DEF TpmCbLogGet
  <2>. QED
    BY <2>1, <2>2
<1>5. CASE TpmCbLogDump
  <2>1. ~(pre.num > PreramCap)
    BY <1>0, CapAssumption DEF Table
  <2>. QED
    BY <1>5, <2>1 DEF TpmCbLogDump
<1>6. CASE CbmemUp
  BY <1>6 DEF CbmemUp
<1>7. CASE EnterRamstage
  BY <1>7 DEF EnterRamstage
<1>8. CASE Finished \/ UNCHANGED vars
  BY <1>8 DEF Finished, vars
<1>. QED
  BY <1>1, <1>2, <1>3, <1>4, <1>5, <1>6, <1>7, <1>8 DEF Next

(***************************************************************************)
(* For every capacity, bound and power-on content of _tpm_log, no step    *)
(* after tpm_cb_preram_log_clear accesses an entry outside the region.    *)
(***************************************************************************)
THEOREM InBoundsAfterClear == Spec => ClearedInBounds
<1>1. IInv /\ [Next]_vars => [(cleared /\ ~oob) => ~oob']_vars
  BY BoundsStep
<1>. QED
  BY InitIInv, NextIInv, <1>1, PTL DEF Spec, ClearedInBounds
-----------------------------------------------------------------------------
(***************************************************************************)
(* Bounds before the clear.  Until tpm_cb_preram_log_clear runs, _tpm_log *)
(* keeps the metadata it had at power-on.  If every power-on metadata      *)
(* that passes the readers' check (max_entries # 0, num_entries <=         *)
(* max_entries) claims no more entries than the region holds, the clear's *)
(* loop, tpm_cb_log_get and tpm_cb_log_dump stay inside it as well.       *)
(***************************************************************************)
SaneMeta ==
    \A m \in PreramMeta : (m[1] # 0 /\ m[2] <= m[1]) => m[2] <= PreramCap

\* The inductive invariant: no access outside yet, and power-on metadata.
BInv == ~oob /\ (~cleared => <<pre.max, pre.num>> \in PreramMeta)

LEMMA InitBInv == Init => BInv
<1> SUFFICES ASSUME Init PROVE BInv
  OBVIOUS
<1>1. PICK m \in PreramMeta :
        pre = [max |-> m[1], num |-> m[2], slot |-> ZeroSlots(PreramCap)]
  BY DEF Init
<1>2. m = <<m[1], m[2]>>
  BY PreramMetaAssumption
<1>. QED
  BY <1>1, <1>2 DEF Init, BInv

LEMMA NextBInv ==
    ASSUME SaneMeta, IInv, BInv, [Next]_vars
    PROVE  BInv'
<1>1. CASE cleared
  <2>1. ~oob'
    BY <1>1, BoundsStep DEF BInv
  <2>2. cleared'
    BY <1>1 DEF Next, vars, PreramLogClear, AddPreram, AddRam, TpmCbLogGet,
                TpmCbLogDump, CbmemUp, EnterRamstage, Finished
  <2>. QED
    BY <2>1, <2>2 DEF BInv
<1>2. CASE ~cleared
  <2>0. /\ phase = "preram" /\ pre \in Table(PreramCap)
        /\ <<pre.max, pre.num>> \in PreramMeta /\ ~oob
    BY <1>2 DEF IInv, BInv
  \* The power-on metadata, as the readers and the clear see it.
  <2>1. (pre.max # 0 /\ pre.num <= pre.max) => pre.num <= PreramCap
    BY <2>0 DEF SaneMeta
  <2>2. pre.num \in Nat /\ pre.max \in Nat
    BY <2>0 DEF Table
  <2>3. CASE PreramLogClear
    <3>1. ~(pre.num > 0 /\ pre.num <= pre.max /\ pre.num > PreramCap)
      BY <2>1, <2>2, CapAssumption
    <3>. QED
      BY <2>0, <2>3, <3>1 DEF PreramLogClear, BInv
  <2>4. ASSUME NEW k \in EntryKinds, AddPreram(k) PROVE BInv'
    BY <1>2, <2>4 DEF AddPreram
  <2>5. ASSUME NEW k \in EntryKinds, AddRam(k) PROVE BInv'
    BY <2>0, <2>5 DEF AddRam
  <2>6. ASSUME NEW i \in GetIdx, TpmCbLogGet(i) PROVE BInv'
    <3>1. DOMAIN pre.slot = 0..(PreramCap - 1)
      BY <2>0 DEF Table
    <3>2. Valid(pre) /\ 0 <= i /\ i < pre.num => i \in DOMAIN pre.slot
      BY <2>1, <2>2, <3>1, CapAssumption DEF Valid, GetIdx
    <3>3. ~GetBeyond(pre, i)
      BY <3>2 DEF GetBeyond
    <3>. QED
      BY <2>0, <2>6, <3>3 DEF TpmCbLogGet, BInv
  <2>7. CASE TpmCbLogDump
    <3>1. ~(Valid(pre) /\ pre.num > PreramCap)
      BY <2>1, <2>2, CapAssumption DEF Valid
    <3>. QED
      BY <2>0, <2>7, <3>1 DEF TpmCbLogDump, BInv
  <2>8. CASE CbmemUp
    BY <1>2, <2>8 DEF CbmemUp
  <2>9. CASE EnterRamstage
    BY <2>0, <2>9 DEF EnterRamstage
  <2>10. CASE Finished \/ UNCHANGED vars
    BY <2>0, <2>10 DEF Finished, vars, BInv
  <2>. QED
    BY <2>3, <2>4, <2>5, <2>6, <2>7, <2>8, <2>9, <2>10 DEF Next
<1>. QED
  BY <1>1, <1>2 DEF IInv

(***************************************************************************)
(* If no power-on metadata of _tpm_log that looks used claims more        *)
(* entries than the region has, no entry outside the region is ever       *)
(* touched (PreramInBounds): metadata claiming more is the only cause of  *)
(* the out-of-bounds access that tpm_cb_preram_log_clear's loop and the  *)
(* readers make before the clear.                                         *)
(***************************************************************************)
THEOREM InBoundsWhenSane ==
    ASSUME SaneMeta
    PROVE  Spec => []PreramInBounds
<1>1. Spec => []IInv
  BY InitIInv, NextIInv, PTL DEF Spec
<1>2. IInv /\ BInv /\ [Next]_vars => BInv'
  BY NextBInv
<1>3. BInv => PreramInBounds
  BY DEF BInv, PreramInBounds
<1>. QED
  BY <1>1, <1>2, <1>3, InitBInv, PTL DEF Spec
-----------------------------------------------------------------------------
(***************************************************************************)
(* For every capacity and bound, the log tpm_log_init hands out lists     *)
(* measurements already taken, each at most once, in the order taken: the *)
(* tables implement MeasurementLog, whose every behaviour keeps its log   *)
(* in order (MeasurementLog!InOrderHolds).                                 *)
(***************************************************************************)
THEOREM LogOrdered == Spec => []LogInOrder
<1>1. Spec => AbsLog!Spec
  BY Refinement DEF LogRefinement
<1>2. AbsLog!Spec => []AbsLog!InOrder
  BY AbsLog!InOrderHolds
<1>. QED
  BY <1>1, <1>2 DEF LogInOrder
=============================================================================
