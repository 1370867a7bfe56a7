------------------------ MODULE FspSiliconInitProofs ------------------------
(***************************************************************************)
(* Proofs about FspSiliconInit for every bound on the boots.  A boot's     *)
(* outcome is a function of the stage cache and of the FSP image: once     *)
(* fsp_load has run, the entry point is what the cache holds (relocation   *)
(* fills the cache exactly when it gives an entry point), and the checks   *)
(* that follow depend on the image only.  A resume keeps the cache, so it  *)
(* repeats the boot before it.                                             *)
(***************************************************************************)
EXTENDS FspSiliconInit, TLAPS

\* What intel_silicon_init does with a given stage cache.
Expected(c) ==
    IF ~c THEN "noHeader" ELSE IF image = "ok" THEN "called" ELSE "badImage"

IInv ==
    /\ TypeOK
    /\ pc \in {"call", "done"} => entry = cache
    /\ pc = "call" => cache /\ image = "ok"
    /\ pc = "done" => outcome = Expected(cache)
    /\ resume => prevOutcome = Expected(cache)

LEMMA InitIInv == Init => IInv
<1> SUFFICES ASSUME Init PROVE IInv
    OBVIOUS
<1>1. boot \in 1..MaxBoots
  BY MaxBootsAssumption DEF Init
<1>2. TypeOK
  BY <1>1 DEF Init, TypeOK, Outcomes
<1>3. QED
  BY <1>2 DEF Init, IInv

LEMMA NextIInv == IInv /\ [Next]_vars => IInv'
<1> SUFFICES ASSUME IInv, [Next]_vars PROVE IInv'
    OBVIOUS
<1>1. CASE IntelSiliconInit
  <2>1. PICK reloc \in BOOLEAN : FspLoad(reloc)
    BY <1>1 DEF IntelSiliconInit
  <2>2. /\ entry' = cache'
        /\ cache' \in BOOLEAN
        /\ resume => cache' = cache
    BY <2>1 DEF FspLoad, IInv, TypeOK
  <2>3. UNCHANGED <<boot, resume, image, status, graphicsHob, gfxDone,
                    fbAdded, prevOutcome>>
    BY <1>1 DEF IntelSiliconInit
  <2>4. CASE ~entry'
    <3>1. outcome' = "noHeader" /\ pc' = "done"
      BY <1>1, <2>4 DEF IntelSiliconInit
    <3>2. (Expected(cache))' = "noHeader"
      BY <2>2, <2>4 DEF Expected
    <3>3. QED
      BY <2>2, <2>3, <3>1, <3>2 DEF IInv, TypeOK, Outcomes, Expected
  <2>5. CASE entry' /\ image # "ok"
    <3>1. outcome' = "badImage" /\ pc' = "done"
      BY <1>1, <2>5 DEF IntelSiliconInit, UpdResolved
    <3>2. (Expected(cache))' = "badImage"
      BY <2>2, <2>3, <2>5 DEF Expected
    <3>3. QED
      BY <2>2, <2>3, <3>1, <3>2 DEF IInv, TypeOK, Outcomes, Expected
  <2>6. CASE entry' /\ image = "ok"
    <3>1. pc' = "call" /\ outcome' = outcome
      BY <1>1, <2>6 DEF IntelSiliconInit, UpdResolved
    <3>2. QED
      BY <2>2, <2>3, <2>6, <3>1 DEF IInv, TypeOK, Expected
  <2>7. QED
    BY <2>4, <2>5, <2>6
<1>2. CASE FspSiliconInitCall
  BY <1>2, RunFspGopAssumption
     DEF FspSiliconInitCall, IInv, TypeOK, Expected, Outcomes
<1>3. CASE Reboot
  <2>0. boot' \in 1..MaxBoots
    BY <1>3, MaxBootsAssumption DEF Reboot, IInv, TypeOK
  <2>1. TypeOK'
    BY <1>3, <2>0 DEF Reboot, IInv, TypeOK, Outcomes
  <2>2. resume' => prevOutcome' = (Expected(cache))'
    BY <1>3 DEF Reboot, IInv, Expected
  <2>3. QED
    BY <1>3, <2>1, <2>2 DEF Reboot, IInv
<1>4. CASE Finished
  BY <1>4 DEF Finished, vars, IInv, TypeOK, Expected
<1>5. CASE UNCHANGED vars
  BY <1>5 DEF vars, IInv, TypeOK, Expected
<1>6. QED
  BY <1>1, <1>2, <1>3, <1>4, <1>5 DEF Next

(***************************************************************************)
(* For any number of boots, an S3 resume repeats in silicon init what the *)
(* boot it resumes did: fsp_load's stage cache brings back the FSP that    *)
(* the earlier boot relocated, or none if relocation failed.               *)
(***************************************************************************)
THEOREM ResumeRepeats == Spec => []ResumeRepeatsBoot
<1>1. IInv => ResumeRepeatsBoot
  BY DEF IInv, ResumeRepeatsBoot
<1>2. QED
  BY InitIInv, NextIInv, <1>1, PTL DEF Spec

=============================================================================
