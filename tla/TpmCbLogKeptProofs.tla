------------------------- MODULE TpmCbLogKeptProofs -------------------------
(***************************************************************************)
(* Proof that the log in use is the boot's measurement record (LogFaithful) *)
(* and that tpm_cb_log_get hands back its entries (GetReturnsKept), for    *)
(* every capacity and bound.  Two facts carry it.  The log in use holds    *)
(* exactly the measurements taken and not reported lost (KInv, an         *)
(* invariant about sets, proved step by step), and it is in increasing     *)
(* order (LogOrdered).  An increasing sequence is determined by the set    *)
(* of its entries: its i-th entry is the one with i - 1 entries below it,  *)
(* which is how Kept is defined.                                          *)
(***************************************************************************)
EXTENDS TpmCbLogProofs, FiniteSetTheorems, SequenceTheorems, TLAPS

\* The entries of a sequence, as a set.
Ids(s) == {s[i] : i \in DOMAIN s}

\* A sequence in strictly increasing order.
Increasing(s) == \A i, j \in 1..Len(s) : i < j => s[i] < s[j]

\* The entries of an increasing sequence of naturals, listed by rank.
ByRank(S) == [i \in 1..Cardinality(S) |->
                CHOOSE x \in S : Cardinality({y \in S : y < x}) = i - 1]

-----------------------------------------------------------------------------
\* The first m entries of an increasing sequence are m distinct values.
LEMMA PrefixCard ==
    ASSUME NEW s \in Seq(Nat), Increasing(s), NEW m \in 0..Len(s)
    PROVE  /\ IsFiniteSet({s[j] : j \in 1..m})
           /\ Cardinality({s[j] : j \in 1..m}) = m
<1> DEFINE P == {s[j] : j \in 1..m}
           f == [j \in 1..m |-> s[j]]
<1>1. f \in [1..m -> P]
  OBVIOUS
<1>2. IsInjective(f)
  <2> SUFFICES ASSUME NEW a \in 1..m, NEW b \in 1..m, f[a] = f[b] PROVE a = b
    BY DEF IsInjective
  <2>1. a < b => s[a] < s[b]
    BY DEF Increasing
  <2>2. b < a => s[b] < s[a]
    BY DEF Increasing
  <2>. QED
    BY <2>1, <2>2
<1>3. \A y \in P : \E x \in 1..m : f[x] = y
  OBVIOUS
<1>4. ExistsBijection(1..m, P)
  BY <1>1, <1>2, <1>3 DEF ExistsBijection, Bijection, Injection, Surjection
<1>5. IsFiniteSet(1..m) /\ Cardinality(1..m) = m
  BY FS_Interval
<1>. QED
  BY <1>4, <1>5, FS_Bijection

\* In an increasing sequence, entry i has exactly i - 1 entries below it.
LEMMA IncreasingRank ==
    ASSUME NEW s \in Seq(Nat), Increasing(s)
    PROVE  /\ IsFiniteSet(Ids(s))
           /\ Cardinality(Ids(s)) = Len(s)
           /\ \A i \in 1..Len(s) : Cardinality({x \in Ids(s) : x < s[i]}) = i - 1
<1>1. Ids(s) = {s[j] : j \in 1..Len(s)}
  BY DEF Ids
<1>2. ASSUME NEW i \in 1..Len(s)
      PROVE  {x \in Ids(s) : x < s[i]} = {s[j] : j \in 1..(i - 1)}
  <2>1. ASSUME NEW j \in 1..Len(s), s[j] < s[i] PROVE j \in 1..(i - 1)
    <3>1. ~(i < j) /\ i # j
      BY <2>1 DEF Increasing
    <3>. QED
      BY <3>1
  <2>2. ASSUME NEW j \in 1..(i - 1) PROVE s[j] < s[i]
    BY DEF Increasing
  <2>. QED
    BY <1>1, <2>1, <2>2
<1>3. IsFiniteSet(Ids(s)) /\ Cardinality(Ids(s)) = Len(s)
  <2>1. IsFiniteSet({s[j] : j \in 1..Len(s)})
        /\ Cardinality({s[j] : j \in 1..Len(s)}) = Len(s)
    <3>1. Len(s) \in 0..Len(s)
      OBVIOUS
    <3>. QED
      BY <3>1, PrefixCard
  <2>. QED
    BY <1>1, <2>1 DEF Ids
<1>4. ASSUME NEW i \in 1..Len(s)
      PROVE  Cardinality({x \in Ids(s) : x < s[i]}) = i - 1
  <2>1. i - 1 \in 0..Len(s)
    OBVIOUS
  <2>2. Cardinality({s[j] : j \in 1..(i - 1)}) = i - 1
    BY <2>1, PrefixCard
  <2>. QED
    BY <1>2, <2>2
<1>. QED
  BY <1>3, <1>4

\* An increasing sequence of naturals is its entries listed by rank.
LEMMA IncreasingByRank ==
    ASSUME NEW s \in Seq(Nat), Increasing(s)
    PROVE  s = ByRank(Ids(s))
<1>1. Cardinality(Ids(s)) = Len(s)
  BY IncreasingRank
<1>2. ASSUME NEW i \in 1..Len(s)
      PROVE  (CHOOSE x \in Ids(s) : Cardinality({y \in Ids(s) : y < x}) = i - 1)
               = s[i]
  <2>1. s[i] \in Ids(s)
    BY DEF Ids
  <2>3. Cardinality({y \in Ids(s) : y < s[i]}) = i - 1
    BY IncreasingRank
  <2>2. ASSUME NEW x \in Ids(s), Cardinality({y \in Ids(s) : y < x}) = i - 1
        PROVE  x = s[i]
    <3>1. PICK j \in 1..Len(s) : x = s[j]
      BY DEF Ids
    <3>2. Cardinality({y \in Ids(s) : y < s[j]}) = j - 1
      BY IncreasingRank
    <3>3. j = i
      BY <2>2, <3>1, <3>2
    <3>. QED
      BY <3>1, <3>3
  <2>. QED
    BY <2>1, <2>2, <2>3
<1>3. s = [i \in 1..Len(s) |-> s[i]]
  OBVIOUS
<1>. QED
  BY <1>1, <1>2, <1>3 DEF ByRank

\* Appending adds one entry to the set of entries.
LEMMA IdsAppend ==
    ASSUME NEW s \in Seq(Nat), NEW e \in Nat
    PROVE  /\ Ids(Append(s, e)) = Ids(s) \cup {e}
           /\ Append(s, e) \in Seq(Nat)
<1>1. /\ DOMAIN Append(s, e) = 1..(Len(s) + 1)
      /\ Append(s, e)[Len(s) + 1] = e
      /\ \A i \in 1..Len(s) : Append(s, e)[i] = s[i]
      /\ DOMAIN s = 1..Len(s)
  OBVIOUS
<1>. QED
  BY <1>1 DEF Ids

\* A table's log is a sequence of measurement numbers.
LEMMA LogSeq ==
    ASSUME NEW cap \in Nat, NEW t \in Table(cap), t.num <= cap
    PROVE  Log(t) \in Seq(0..MaxMeasure)
<1>1. t.num \in Nat /\ \A i \in 1..t.num : t.slot[i - 1] \in 0..MaxMeasure
  BY DEF Table
<1>2. Log(t) \in [1..t.num -> 0..MaxMeasure]
  BY <1>1 DEF Log
<1>. QED
  BY <1>1, <1>2, SeqDef
\* Keeping the first c entries of an increasing sequence drops the others.
LEMMA IdsPrefix ==
    ASSUME NEW s \in Seq(Nat), Increasing(s), NEW c \in 0..Len(s)
    PROVE  Ids(SubSeq(s, 1, c)) = Ids(s) \ {s[j] : j \in (c + 1)..Len(s)}
<1>1. Ids(SubSeq(s, 1, c)) = {s[j] : j \in 1..c}
  <2>1. DOMAIN SubSeq(s, 1, c) = 1..c /\ \A j \in 1..c : SubSeq(s, 1, c)[j] = s[j]
    OBVIOUS
  <2>. QED
    BY <2>1 DEF Ids
<1>2. ASSUME NEW i \in 1..c, NEW j \in (c + 1)..Len(s) PROVE s[i] # s[j]
  BY DEF Increasing
<1>3. Ids(s) = {s[j] : j \in 1..c} \cup {s[j] : j \in (c + 1)..Len(s)}
  <2>1. 1..Len(s) = (1..c) \cup ((c + 1)..Len(s))
    OBVIOUS
  <2>. QED
    BY <2>1 DEF Ids
<1>. QED
  BY <1>1, <1>2, <1>3

-----------------------------------------------------------------------------
(***************************************************************************)
(* The inductive invariant.  Measurement numbers are at most n; before    *)
(* tpm_cb_preram_log_clear nothing is measured; after it, the entries of  *)
(* the log in use are exactly the measurements taken and not dropped.     *)
(***************************************************************************)
KInv ==
    /\ taken \in Seq(Nat)
    /\ Ids(taken) \subseteq 1..n
    /\ dropped \subseteq 1..n
    /\ ~cleared => taken = <<>> /\ dropped = {}
    /\ cleared => Ids(CurrentLog) = Ids(taken) \ dropped

\* What LogInOrder says of the log in use, in the terms of this module.
LEMMA OrderFacts ==
    ASSUME IInv, LogInOrder
    PROVE  /\ CurrentLog \in Seq(0..MaxMeasure)
           /\ Increasing(CurrentLog)
           /\ Ids(CurrentLog) \subseteq 1..n
<1>1. CurrentLog \in Seq(0..MaxMeasure)
  <2>1. <<>> \in Seq(0..MaxMeasure)
    OBVIOUS
  <2>2. cleared => Log(pre) \in Seq(0..MaxMeasure)
    BY LogSeq, CapAssumption DEF IInv
  <2>3. ramPresent => Log(ram) \in Seq(0..MaxMeasure)
    BY LogSeq, CapAssumption DEF IInv
  <2>. QED
    BY <2>1, <2>2, <2>3 DEF CurrentLog
<1>2. /\ \A i \in 1..Len(CurrentLog) : CurrentLog[i] \in 1..n
      /\ \A i, j \in 1..Len(CurrentLog) : i < j => CurrentLog[i] < CurrentLog[j]
  BY DEF LogInOrder, AbsLog!InOrder
<1>. QED
  BY <1>1, <1>2 DEF Increasing, Ids

\* Once the log is set up, the entries of the log in use listed by rank are Kept.
LEMMA KeptIsLog ==
    ASSUME IInv, LogInOrder, KInv, cleared
    PROVE  CurrentLog = Kept
<1>1. CurrentLog \in Seq(Nat) /\ Increasing(CurrentLog)
  <2>1. CurrentLog \in Seq(0..MaxMeasure) /\ Increasing(CurrentLog)
    BY OrderFacts
  <2>2. 0..MaxMeasure \subseteq Nat
    OBVIOUS
  <2>. QED
    BY <2>1, <2>2, SeqMonotonic
<1>2. CurrentLog = ByRank(Ids(CurrentLog))
  BY <1>1, IncreasingByRank
<1>3. Ids(CurrentLog) = KeptIds
  BY DEF KInv, KeptIds, Ids
<1>. QED
  BY <1>2, <1>3 DEF ByRank, Kept, KeptRank
\* A measurement: the log gains it at the end exactly when the table took
\* it, and otherwise it is reported dropped (or, malformed, not taken).
LEMMA MeasureKInv ==
    ASSUME KInv, cleared, cleared', n \in Nat, n' = n + 1,
           CurrentLog \in Seq(Nat),
           NEW k \in EntryKinds, NEW ok \in BOOLEAN, ok => k = "ok",
           taken' = Taken(k, n + 1), dropped' = Dropped(ok, k, n + 1),
           CurrentLog' = IF ok THEN Append(CurrentLog, n + 1) ELSE CurrentLog
    PROVE  KInv'
<1> DEFINE id == n + 1
<1>1. /\ taken \in Seq(Nat) /\ Ids(taken) \subseteq 1..n /\ dropped \subseteq 1..n
      /\ Ids(CurrentLog) = Ids(taken) \ dropped
      /\ id \in Nat /\ id \notin dropped
  BY DEF KInv
<1>2. /\ Ids(Append(taken, id)) = Ids(taken) \cup {id}
      /\ Append(taken, id) \in Seq(Nat)
  BY <1>1, IdsAppend
<1>7. Ids(Append(CurrentLog, id)) = Ids(CurrentLog) \cup {id}
  BY <1>1, IdsAppend
<1>8. 1..n \subseteq 1..n' /\ id \in 1..n'
  BY <1>1
<1>3. ASSUME taken' \in Seq(Nat),
             Ids(taken') \subseteq 1..n',
             dropped' \subseteq 1..n',
             Ids(CurrentLog') = Ids(taken') \ dropped'
      PROVE  KInv'
  BY <1>3 DEF KInv, Ids
<1>4. CASE ok
  <2>1. taken' = Append(taken, id) /\ dropped' = dropped
        /\ CurrentLog' = Append(CurrentLog, id)
    BY <1>4 DEF Taken, Dropped
  <2>3. taken' \in Seq(Nat)
    BY <1>2, <2>1
  <2>4. Ids(taken') = Ids(taken) \cup {id}
    BY <1>2, <2>1
  <2>5. Ids(taken') \subseteq 1..n'
    BY <1>1, <1>8, <2>4
  <2>6. dropped' \subseteq 1..n'
    BY <1>1, <1>8, <2>1
  <2>7. Ids(CurrentLog') = Ids(taken') \ dropped'
    BY <1>1, <1>2, <1>7, <1>8, <2>1, <2>4
  <2>2. /\ taken' \in Seq(Nat)
        /\ Ids(taken') \subseteq 1..n'
        /\ dropped' \subseteq 1..n'
        /\ Ids(CurrentLog') = Ids(taken') \ dropped'
    BY <2>3, <2>5, <2>6, <2>7
  <2>. QED
    BY <1>3, <2>2
<1>5. CASE ~ok /\ k = "ok"
  <2>1. taken' = Append(taken, id) /\ dropped' = dropped \cup {id}
        /\ CurrentLog' = CurrentLog
    BY <1>5 DEF Taken, Dropped
  <2>3. taken' \in Seq(Nat)
    BY <1>2, <2>1
  <2>4. Ids(taken') = Ids(taken) \cup {id}
    BY <1>2, <2>1
  <2>5. Ids(taken') \subseteq 1..n'
    BY <1>1, <1>8, <2>4
  <2>6. dropped' \subseteq 1..n'
    BY <1>1, <1>8, <2>1
  <2>7. Ids(CurrentLog') = Ids(taken') \ dropped'
    BY <1>1, <1>2, <1>8, <2>1, <2>4
  <2>2. /\ taken' \in Seq(Nat)
        /\ Ids(taken') \subseteq 1..n'
        /\ dropped' \subseteq 1..n'
        /\ Ids(CurrentLog') = Ids(taken') \ dropped'
    BY <2>3, <2>5, <2>6, <2>7
  <2>. QED
    BY <1>3, <2>2
<1>6. CASE k # "ok"
  <2>1. taken' = taken /\ dropped' = dropped /\ CurrentLog' = CurrentLog
    BY <1>6 DEF Taken, Dropped
  <2>3. taken' \in Seq(Nat)
    BY <1>1, <2>1
  <2>4. Ids(taken') \subseteq 1..n'
    BY <1>1, <1>8, <2>1 DEF Ids
  <2>5. dropped' \subseteq 1..n'
    BY <1>1, <1>8, <2>1
  <2>6. Ids(CurrentLog') = Ids(taken') \ dropped'
    BY <1>1, <2>1 DEF Ids
  <2>2. /\ taken' \in Seq(Nat)
        /\ Ids(taken') \subseteq 1..n'
        /\ dropped' \subseteq 1..n'
        /\ Ids(CurrentLog') = Ids(taken') \ dropped'
    BY <2>3, <2>4, <2>5, <2>6
  <2>. QED
    BY <1>3, <2>2
<1>. QED
  BY <1>4, <1>5, <1>6

\* A step that takes no measurement, loses none and does not hand over.
LEMMA QuietKInv ==
    ASSUME IInv, KInv, [Next]_vars, n' = n, UNCHANGED <<taken, dropped>>,
           (phase # "preram")' = (phase # "preram"), cleared' \in BOOLEAN,
           cleared => cleared'
    PROVE  KInv'
<1>1. CurrentLog' = CurrentLog
  <2>1. n \in Nat
    BY DEF IInv
  <2>. QED
    BY <2>1, NextRefines DEF AbsMeasure, AbsLog!Measure, AbsHandover,
                             AbsLog!Handover, AbsStutter
<1>2. CASE cleared
  BY <1>1, <1>2 DEF KInv
<1>3. CASE ~cleared
  <2>1. phase = "preram" /\ taken = <<>> /\ dropped = {}
    BY <1>3 DEF IInv, KInv
  <2>2. CurrentLog = <<>> /\ Ids(<<>>) = {}
    BY <1>3, <2>1 DEF CurrentLog, Ids
  <2>. QED
    BY <1>1, <2>1, <2>2 DEF KInv
<1>. QED
  BY <1>2, <1>3
LEMMA InitKInv == Init => KInv
<1> SUFFICES ASSUME Init PROVE KInv
  OBVIOUS
<1>1. taken = <<>> /\ dropped = {} /\ cleared = FALSE /\ n = 0
  BY DEF Init
<1>2. Ids(<<>>) = {}
  BY DEF Ids
<1>. QED
  BY <1>1, <1>2 DEF KInv

\* The copy at cbmem creation: what it does not copy is reported lost.
LEMMA CbmemUpKInv ==
    ASSUME IInv, KInv, CbmemUp, CurrentLog \in Seq(Nat), Increasing(CurrentLog),
           Ids(CurrentLog) \subseteq 1..n
    PROVE  KInv'
<1>1. PICK addOk \in BOOLEAN :
        LET t == RamAfterInit(addOk) IN
        /\ ramPresent' = PresentAfterInit(addOk)
        /\ ram' = IF InitFound(addOk) THEN CopyEntries(pre, t) ELSE t
        /\ dropped' = dropped \cup IF InitFound(addOk) THEN CopyRefused(pre, t)
                                   ELSE {pre.slot[i] : i \in 0..(pre.num - 1)}
  BY DEF CbmemUp
<1>2. /\ ~ramPresent /\ cleared /\ pre \in Table(PreramCap)
      /\ pre.max = PreramCap /\ pre.num <= PreramCap
      /\ phase = "preram" /\ phase' = "cbmem" /\ UNCHANGED <<pre, n, taken, cleared>>
      /\ CurrentLog = Log(pre)
  BY DEF CbmemUp, IInv, CurrentLog
<1>3. Len(CurrentLog) = pre.num /\ pre.num \in Nat
  BY <1>2, LogLen, CapAssumption DEF Table
\* What the hook drops, as entries of the log: those past the c-th.
<1> DEFINE Past(c) == {CurrentLog[j] : j \in (c + 1)..Len(CurrentLog)}
<1>4. ASSUME NEW c \in 0..pre.num
      PROVE  {pre.slot[i] : i \in c..(pre.num - 1)} = Past(c)
  <2>1. \A j \in (c + 1)..pre.num : CurrentLog[j] = pre.slot[j - 1]
    BY <1>2, <1>3 DEF Log
  <2>2. ASSUME NEW i \in c..(pre.num - 1) PROVE pre.slot[i] \in Past(c)
    <3>1. i + 1 \in (c + 1)..Len(CurrentLog) /\ CurrentLog[i + 1] = pre.slot[i]
      BY <1>3, <2>1
    <3>. QED
      BY <3>1
  <2>3. ASSUME NEW j \in (c + 1)..Len(CurrentLog)
        PROVE  CurrentLog[j] \in {pre.slot[i] : i \in c..(pre.num - 1)}
    <3>1. j - 1 \in c..(pre.num - 1) /\ CurrentLog[j] = pre.slot[j - 1]
      BY <1>3, <2>1
    <3>. QED
      BY <3>1
  <2>. QED
    BY <2>2, <2>3
<1>5. PICK c \in 0..pre.num :
        /\ CurrentLog' = SubSeq(CurrentLog, 1, c)
        /\ dropped' = dropped \cup Past(c)
  <2>1. CASE addOk
    <3> DEFINE k == Copied(pre, FreshRam)
    <3>1. InitFound(addOk) /\ RamAfterInit(addOk) = FreshRam /\ ramPresent'
      BY <1>1, <1>2, <2>1, InitNoRam
    <3>2. ram' = CopyEntries(pre, FreshRam)
      BY <1>1, <3>1
    <3>3. k \in 0..pre.num /\ Log(CopyEntries(pre, FreshRam)) = SubSeq(Log(pre), 1, k)
      BY <1>2, LogCopy
    <3>4. CurrentLog' = SubSeq(CurrentLog, 1, k)
      BY <1>2, <3>1, <3>2, <3>3 DEF CurrentLog
    <3>5. CopyRefused(pre, FreshRam) = {pre.slot[i] : i \in k..(pre.num - 1)}
      <4>1. CopyOk(pre, FreshRam)
        BY <1>2, CapAssumption DEF CopyOk, FreshRam
      <4>. QED
        BY <4>1 DEF CopyRefused, CopyBound
    <3>6. dropped' = dropped \cup Past(k)
      BY <1>1, <3>1, <3>3, <3>5, <1>4
    <3>. QED
      BY <3>3, <3>4, <3>6
  <2>2. CASE ~addOk
    <3>1. ~InitFound(addOk) /\ ~ramPresent'
      BY <1>1, <1>2, <2>2, InitNoRam
    <3>2. CurrentLog' = <<>> /\ SubSeq(CurrentLog, 1, 0) = <<>>
      BY <1>2, <3>1 DEF CurrentLog
    <3>3. dropped' = dropped \cup Past(0)
      <4>1. 0 \in 0..pre.num
        BY <1>3
      <4>. QED
        BY <1>1, <3>1, <4>1, <1>4
    <3>4. 0 \in 0..pre.num
      BY <1>3
    <3>. QED
      BY <3>2, <3>3, <3>4
  <2>. QED
    BY <2>1, <2>2
<1>6. /\ taken \in Seq(Nat) /\ Ids(taken) \subseteq 1..n /\ dropped \subseteq 1..n
      /\ Ids(CurrentLog) = Ids(taken) \ dropped
  BY <1>2 DEF KInv
<1>7. c \in 0..Len(CurrentLog)
  BY <1>3
<1>8. Ids(CurrentLog') = Ids(CurrentLog) \ Past(c)
  BY <1>5, <1>7, IdsPrefix
<1>9. Past(c) \subseteq 1..n
  <2>1. Past(c) \subseteq Ids(CurrentLog)
    BY <1>7 DEF Ids
  <2>. QED
    BY <2>1
<1>10. /\ taken' \in Seq(Nat)
       /\ Ids(taken') \subseteq 1..n'
       /\ dropped' \subseteq 1..n'
       /\ Ids(CurrentLog') = Ids(taken') \ dropped'
       /\ cleared'
  BY <1>2, <1>5, <1>6, <1>8, <1>9
<1>. QED
  BY <1>10 DEF KInv

LEMMA NextKInv == IInv /\ LogInOrder /\ KInv /\ [Next]_vars => KInv'
<1> SUFFICES ASSUME IInv, LogInOrder, KInv, [Next]_vars PROVE KInv'
  OBVIOUS
<1>0. /\ CurrentLog \in Seq(Nat) /\ Increasing(CurrentLog)
      /\ Ids(CurrentLog) \subseteq 1..n /\ n \in Nat
  <2>1. CurrentLog \in Seq(0..MaxMeasure) /\ Increasing(CurrentLog)
        /\ Ids(CurrentLog) \subseteq 1..n
    BY OrderFacts
  <2>2. 0..MaxMeasure \subseteq Nat /\ n \in Nat
    BY DEF IInv
  <2>. QED
    BY <2>1, <2>2, SeqMonotonic
<1>1. CASE PreramLogClear
  BY <1>1, QuietKInv DEF PreramLogClear
<1>2. ASSUME NEW k \in EntryKinds, AddPreram(k) PROVE KInv'
  <2> DEFINE ok == Accepts(pre, k)
  <2>1. /\ phase = "preram" /\ cleared /\ n < MaxMeasure /\ n' = n + 1
        /\ cleared' = cleared
        /\ CurrentLog = Log(pre) /\ CurrentLog' = Log(pre')
        /\ taken' = Taken(k, n + 1) /\ dropped' = Dropped(ok, k, n + 1)
    BY <1>2 DEF AddPreram, IInv, CurrentLog
  <2>2. CurrentLog' = IF ok THEN Append(CurrentLog, n + 1) ELSE CurrentLog
    <3>1. CASE ok
      <4>1. pre.num < PreramCap /\ pre \in Table(PreramCap) /\ n + 1 \in 0..MaxMeasure
        BY <2>1, <3>1, MaxMeasureAssumption DEF Accepts, Valid, IInv
      <4>2. pre' = Record(pre, n + 1)
        BY <1>2, <3>1 DEF AddPreram
      <4>. QED
        BY <2>1, <3>1, <4>1, <4>2, LogRecord, CapAssumption
    <3>2. CASE ~ok
      BY <1>2, <2>1, <3>2 DEF AddPreram
    <3>. QED
      BY <3>1, <3>2
  <2>3. ok \in BOOLEAN /\ (ok => k = "ok")
    BY DEF Accepts
  <2>. QED
    BY <1>0, <2>1, <2>2, <2>3, MeasureKInv
<1>3. ASSUME NEW k \in EntryKinds, AddRam(k) PROVE KInv'
  <2>1. PICK addOk \in BOOLEAN :
          LET t == RamAfterInit(addOk)
              ok == InitFound(addOk) /\ Accepts(t, k) IN
          /\ ramPresent' = PresentAfterInit(addOk)
          /\ ram' = IF ok THEN Record(t, n + 1) ELSE t
          /\ dropped' = Dropped(ok, k, n + 1)
    BY <1>3 DEF AddRam
  <2> DEFINE t == RamAfterInit(addOk)
             ok == InitFound(addOk) /\ Accepts(t, k)
  <2>2. /\ phase \in {"cbmem", "ramstage"} /\ n < MaxMeasure /\ n' = n + 1
        /\ UNCHANGED <<phase, cleared>> /\ cleared
        /\ taken' = Taken(k, n + 1)
    BY <1>3 DEF AddRam, IInv
  <2>3. /\ t \in Table(RamCap)
        /\ PresentAfterInit(addOk) => t.max = RamCap /\ t.num <= RamCap
        /\ Log(t) = CurrentLog
        /\ CurrentLog' = IF ramPresent' THEN Log(ram') ELSE <<>>
    BY <2>2, CbmemInitIInv DEF CurrentLog
  <2>4. CurrentLog' = IF ok THEN Append(CurrentLog, n + 1) ELSE CurrentLog
    <3>1. CASE ok
      <4>1. t.num < RamCap /\ PresentAfterInit(addOk) /\ n + 1 \in 0..MaxMeasure
        BY <2>2, <2>3, <3>1, MaxMeasureAssumption DEF Accepts, Valid, InitFound, IInv
      <4>2. ram' = Record(t, n + 1) /\ ramPresent' = TRUE
        BY <2>1, <3>1, <4>1
      <4>. QED
        BY <2>3, <3>1, <4>1, <4>2, LogRecord, CapAssumption
    <3>2. CASE ~ok
      <4>1. ram' = t /\ ramPresent' = PresentAfterInit(addOk)
        BY <2>1, <3>2
      <4>2. ~PresentAfterInit(addOk) => ~ramPresent
        BY DEF PresentAfterInit
      <4>. QED
        BY <2>2, <2>3, <3>2, <4>1, <4>2 DEF CurrentLog, IInv
    <3>. QED
      BY <3>1, <3>2
  <2>5. ok \in BOOLEAN /\ (ok => k = "ok")
    BY DEF Accepts, InitFound
  <2>. QED
    BY <1>0, <2>1, <2>2, <2>4, <2>5, MeasureKInv
<1>4. ASSUME NEW i \in GetIdx, TpmCbLogGet(i) PROVE KInv'
  <2>1. UNCHANGED <<n, taken, dropped, phase, cleared>> /\ cleared \in BOOLEAN
    BY <1>4 DEF TpmCbLogGet, IInv
  <2>. QED
    BY <2>1, QuietKInv
<1>5. CASE TpmCbLogDump
  <2>1. UNCHANGED <<n, taken, dropped, phase, cleared>> /\ cleared \in BOOLEAN
    BY <1>5 DEF TpmCbLogDump, IInv
  <2>. QED
    BY <2>1, QuietKInv
<1>6. CASE CbmemUp
  BY <1>0, <1>6, CbmemUpKInv
<1>7. CASE EnterRamstage
  <2>1. /\ UNCHANGED <<n, taken, dropped, cleared>> /\ cleared \in BOOLEAN
        /\ phase # "preram" /\ phase' # "preram"
    BY <1>7 DEF EnterRamstage, IInv
  <2>. QED
    BY <2>1, QuietKInv
<1>8. CASE Finished \/ UNCHANGED vars
  <2>1. UNCHANGED <<n, taken, dropped, phase, cleared>> /\ cleared \in BOOLEAN
    BY <1>8 DEF Finished, vars, IInv
  <2>. QED
    BY <2>1, QuietKInv
<1>. QED
  BY <1>1, <1>2, <1>3, <1>4, <1>5, <1>6, <1>7, <1>8 DEF Next
-----------------------------------------------------------------------------
(***************************************************************************)
(* For every capacity and bound, once tpm_cb_preram_log_clear has run, the *)
(* entries of the log in use are exactly the measurements taken and not  *)
(* reported lost - by the writer's "table full" path or by the copy at    *)
(* cbmem creation - and no number a measurement was not given.           *)
(***************************************************************************)
THEOREM KInvHolds == Spec => []KInv
<1>1. Spec => []IInv
  BY InitIInv, NextIInv, PTL DEF Spec
<1>2. Spec => []LogInOrder
  BY LogOrdered
<1>. QED
  BY <1>1, <1>2, InitKInv, NextKInv, PTL DEF Spec

\* What the three invariants give in a state.
LEMMA FaithfulState == IInv /\ LogInOrder /\ KInv => LogFaithful
<1> SUFFICES ASSUME IInv, LogInOrder, KInv PROVE LogFaithful
  OBVIOUS
<1>1. ASSUME phase = "preram", cleared PROVE Log(pre) = Kept
  BY <1>1, KeptIsLog DEF CurrentLog
<1>2. ASSUME phase # "preram"
      PROVE  IF ramPresent THEN Log(ram) = Kept ELSE Kept = <<>>
  <2>1. cleared /\ CurrentLog = Kept
    BY <1>2, KeptIsLog DEF IInv
  <2>. QED
    BY <1>2, <2>1 DEF CurrentLog
<1>. QED
  BY <1>1, <1>2 DEF LogFaithful

(***************************************************************************)
(* For every capacity and bound, the log in use - _tpm_log once cleared,  *)
(* then the cbmem table romstage and ramstage find or add - lists every   *)
(* well-formed measurement taken, in the order taken, except those a      *)
(* warning reported as not logged (LogFaithful).                          *)
(***************************************************************************)
THEOREM LogFaithfulHolds == Spec => []LogFaithful
<1>1. Spec => []IInv
  BY InitIInv, NextIInv, PTL DEF Spec
<1>2. Spec => []LogInOrder
  BY LogOrdered
<1>3. Spec => []KInv
  BY KInvHolds
<1>. QED
  BY <1>1, <1>2, <1>3, FaithfulState, PTL

(***************************************************************************)
(* For every capacity and bound, tpm_cb_log_get(i) returns the i-th       *)
(* measurement kept in the log and an error for an index outside it, in   *)
(* every stage (GetReturnsKept): it reads the log in use (GetReads), and  *)
(* that log is the record of the kept measurements.                       *)
(***************************************************************************)
THEOREM GetKept == Spec => GetReturnsKept
<1>1. Spec => [](IInv /\ LogInOrder /\ KInv)
  BY InitIInv, NextIInv, LogOrdered, KInvHolds, PTL DEF Spec
<1>2. IInv /\ LogInOrder /\ KInv /\ [Next]_vars =>
        [\A i \in GetIdx :
           (TpmCbLogGet(i) /\ (phase # "preram" \/ cleared)) => got' = KeptAt(i)]_vars
  <2> SUFFICES ASSUME IInv, LogInOrder, KInv, [Next]_vars,
                      NEW i \in GetIdx, TpmCbLogGet(i), phase # "preram" \/ cleared
               PROVE  got' = KeptAt(i)
    OBVIOUS
  <2>1. got' = LogAt(CurrentLog, i)
    BY GetStep
  <2>2. cleared
    BY DEF IInv
  <2>3. CurrentLog = Kept
    BY <2>2, KeptIsLog
  <2>. QED
    BY <2>1, <2>3 DEF KeptAt
<1>. QED
  BY <1>1, <1>2, PTL DEF Spec, GetReturnsKept
=============================================================================
