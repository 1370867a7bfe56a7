--------------------------- MODULE MeasurementLog ---------------------------
(***************************************************************************)
(* What the coreboot TPM measurement log promises, whatever table holds   *)
(* it: every measurement of the boot is numbered in the order it is       *)
(* taken and is either appended to the log or not logged at all; the one  *)
(* moment the log may lose entries is the hand-over from the pre-RAM      *)
(* table to the cbmem table, which keeps a prefix of it.  Entries are     *)
(* never reordered, rewritten or removed otherwise.                       *)
(***************************************************************************)
EXTENDS Naturals, Sequences, TLAPS

CONSTANT Max   \* bound on the measurements of one boot

VARIABLES
    log,    \* the committed entries of the log in use
    count,  \* measurements taken so far
    handed  \* the log has moved to cbmem

avars == <<log, count, handed>>

Init ==
    /\ log = <<>>
    /\ count = 0
    /\ handed = FALSE

\* A measurement is logged at the end, or not at all.
Measure ==
    /\ count < Max
    /\ count' = count + 1
    /\ log' \in {log, Append(log, count + 1)}
    /\ UNCHANGED handed

\* cbmem comes up: the log goes on from a prefix of the pre-RAM one.
Handover ==
    /\ ~handed
    /\ handed' = TRUE
    /\ log' \in {SubSeq(log, 1, k) : k \in 0..Len(log)}
    /\ UNCHANGED count

Next == Measure \/ Handover

Spec == Init /\ [][Next]_avars
(***************************************************************************)
(* The log lists measurements already taken, each at most once, in the    *)
(* order they were taken: what makes a TPM event log replayable against  *)
(* the PCRs it was extended into.                                          *)
(***************************************************************************)
InOrder ==
    /\ \A i \in 1..Len(log) : log[i] \in 1..count
    /\ \A i, j \in 1..Len(log) : i < j => log[i] < log[j]

\* Its inductive form: the count is a natural and the log a sequence of them.
OrderInv == count \in Nat /\ log \in Seq(Nat) /\ InOrder

LEMMA InitOrderInv == Init => OrderInv
BY DEF Init, OrderInv, InOrder

LEMMA NextOrderInv == OrderInv /\ [Next]_avars => OrderInv'
<1> SUFFICES ASSUME OrderInv, [Next]_avars PROVE OrderInv'
  OBVIOUS
<1>1. CASE Measure /\ log' = log
  BY <1>1 DEF Measure, OrderInv, InOrder
<1>2. CASE Measure /\ log' = Append(log, count + 1)
  <2>1. count' = count + 1 /\ count \in Nat /\ log \in Seq(Nat)
    BY <1>2 DEF Measure, OrderInv
  <2>2. /\ Len(log') = Len(log) + 1
        /\ log'[Len(log) + 1] = count + 1
        /\ \A i \in 1..Len(log) : log'[i] = log[i]
        /\ log' \in Seq(Nat)
    BY <1>2, <2>1
  <2>3. (\A i \in 1..Len(log) : log[i] \in 1..count)
        /\ (\A i, j \in 1..Len(log) : i < j => log[i] < log[j])
    BY DEF OrderInv, InOrder
  <2>4. \A i \in 1..Len(log') : log'[i] \in 1..count'
    BY <2>1, <2>2, <2>3
  <2>5. \A i, j \in 1..Len(log') : i < j => log'[i] < log'[j]
    <3> SUFFICES ASSUME NEW i \in 1..Len(log'), NEW j \in 1..Len(log'), i < j
                 PROVE  log'[i] < log'[j]
      OBVIOUS
    <3>1. i \in 1..Len(log) /\ log'[i] = log[i] /\ log[i] \in 1..count
      BY <2>1, <2>2, <2>3
    <3>2. CASE j = Len(log) + 1
      BY <2>1, <2>2, <3>1, <3>2
    <3>3. CASE j # Len(log) + 1
      <4>0. Len(log) \in Nat /\ Len(log') = Len(log) + 1
        BY <2>1, <2>2
      <4>1. j \in 1..Len(log)
        BY <3>3, <4>0
      <4>2. log'[j] = log[j]
        BY <2>2, <4>1
      <4>. QED
        BY <2>3, <3>1, <4>1, <4>2
    <3>. QED
      BY <3>2, <3>3
  <2>. QED
    BY <2>1, <2>2, <2>4, <2>5 DEF OrderInv, InOrder
<1>3. CASE Handover
  <2>1. PICK k \in 0..Len(log) : log' = SubSeq(log, 1, k)
    BY <1>3 DEF Handover
  <2>2. count' = count /\ count \in Nat /\ log \in Seq(Nat)
    BY <1>3 DEF Handover, OrderInv
  <2>3. Len(log') = k /\ \A i \in 1..k : log'[i] = log[i]
    BY <2>1, <2>2
  <2>4. log' \in Seq(Nat)
    BY <2>1, <2>2
  <2>5. (\A i \in 1..Len(log) : log[i] \in 1..count)
        /\ (\A i, j \in 1..Len(log) : i < j => log[i] < log[j])
    BY DEF OrderInv, InOrder
  <2>6. \A i \in 1..Len(log') : log'[i] \in 1..count'
    BY <2>2, <2>3, <2>5
  <2>7. \A i, j \in 1..Len(log') : i < j => log'[i] < log'[j]
    <3> SUFFICES ASSUME NEW i \in 1..Len(log'), NEW j \in 1..Len(log'), i < j
                 PROVE  log'[i] < log'[j]
      OBVIOUS
    <3>1. i \in 1..Len(log) /\ j \in 1..Len(log)
      BY <2>2, <2>3
    <3>2. log'[i] = log[i] /\ log'[j] = log[j]
      BY <2>3
    <3>. QED
      BY <2>5, <3>1, <3>2
  <2>. QED
    BY <2>2, <2>4, <2>6, <2>7 DEF OrderInv, InOrder
<1>4. CASE UNCHANGED avars
  BY <1>4 DEF avars, OrderInv, InOrder
<1>. QED
  BY <1>1, <1>2, <1>3, <1>4 DEF Next, Measure

\* Whatever table holds it, the log never lists a measurement twice, out
\* of order, or before it is taken.
THEOREM InOrderHolds == Spec => []InOrder
<1>1. OrderInv => InOrder
  BY DEF OrderInv
<1>. QED
  BY InitOrderInv, NextOrderInv, <1>1, PTL DEF Spec
=============================================================================
