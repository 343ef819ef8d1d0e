---------------------- MODULE NrMacSchedulerSrsProofs ----------------------
(***************************************************************************)
(* Proofs about NrMacSchedulerSrs, for every set of UEs, of periodicities  *)
(* and every width of the slot counter.                                    *)
(*                                                                         *)
(* NoSharedSrsSlot is not inductive by itself: that AddUe hands out a      *)
(* fresh offset rests on OffsetsPartitioned (what is available is in       *)
(* nobody's use), and that in turn on TypeOK.                              *)
(***************************************************************************)
EXTENDS NrMacSchedulerSrs, TLAPS

SrsInductive == TypeOK /\ NoSharedSrsSlot /\ OffsetsPartitioned

\* Nothing is attached and every offset is available at the start.
LEMMA InitEstablishes == Init => SrsInductive
<1> SUFFICES ASSUME Init PROVE SrsInductive
  OBVIOUS
<1> USE SrsAssumption DEF Init
<1>1. TypeOK
  <2>1. srsSlotCounter \in 0..(CounterWrap - 1)
    OBVIOUS
  <2>2. srsOffset \in [Ues -> Nat] /\ srsPeriodicity \in [Ues -> Nat]
    OBVIOUS
  <2>3. available \subseteq 0..(periodicity - 1)
    OBVIOUS
  <2>4. periodicity \in Periodicities /\ failed \in BOOLEAN
    OBVIOUS
  <2>5. ueMap \subseteq Ues /\ sounding \in Ues \cup {None}
    OBVIOUS
  <2> QED
    BY <2>1, <2>2, <2>3, <2>4, <2>5 DEF TypeOK
<1>2. NoSharedSrsSlot
  BY DEF NoSharedSrsSlot
<1>3. OffsetsPartitioned
  BY DEF OffsetsPartitioned
<1> QED
  BY <1>1, <1>2, <1>3 DEF SrsInductive

\* SetStartingPeriodicity and ReassignSrsValue rebuild the partition for any
\* set of UEs (the one that is attached after the step).
LEMMA ReassignPreserves ==
  ASSUME TypeOK, NEW ues \in SUBSET Ues, NEW p \in Periodicities,
         Reassign(p, ues), ueMap' = ues,
         UNCHANGED <<srsSlotCounter, sounding, failed>>
  PROVE  SrsInductive'
<1> USE SrsAssumption DEF TypeOK
<1>1. PICK f \in [ues -> 0..(p - 1)] :
        /\ \A u, v \in ues : f[u] = f[v] => u = v
        /\ periodicity' = p
        /\ available' = (0..(p - 1)) \ {f[u] : u \in ues}
        /\ srsOffset' = [u \in Ues |-> IF u \in ues THEN f[u] ELSE srsOffset[u]]
        /\ srsPeriodicity' = [u \in Ues |-> IF u \in ues THEN p ELSE srsPeriodicity[u]]
  BY DEF Reassign
<1>2. \A u \in ues : srsOffset'[u] = f[u] /\ srsPeriodicity'[u] = p
  BY <1>1
<1>3. TypeOK'
  <2>1. srsOffset' \in [Ues -> Nat] /\ srsPeriodicity' \in [Ues -> Nat]
    BY <1>1
  <2> QED
    BY <1>1, <2>1
<1>4. NoSharedSrsSlot'
  BY <1>1, <1>2 DEF NoSharedSrsSlot
<1>5. OffsetsPartitioned'
  BY <1>1, <1>2 DEF OffsetsPartitioned
<1> QED
  BY <1>3, <1>4, <1>5 DEF SrsInductive

\* A UE attaches: with an available offset, after a longer periodicity, or not
\* at all.
LEMMA ConfigPreserves ==
  ASSUME SrsInductive, ~failed, NEW u \in Ues, DoCschedUeConfigReq(u)
  PROVE  SrsInductive'
<1> USE SrsAssumption DEF SrsInductive, TypeOK
<1>1. CASE \E offset \in available :
             /\ srsOffset' = [srsOffset EXCEPT ![u] = offset]
             /\ srsPeriodicity' = [srsPeriodicity EXCEPT ![u] = periodicity]
             /\ available' = available \ {offset}
             /\ UNCHANGED <<periodicity, failed>>
  <2>1. PICK offset \in available :
             /\ srsOffset' = [srsOffset EXCEPT ![u] = offset]
             /\ srsPeriodicity' = [srsPeriodicity EXCEPT ![u] = periodicity]
             /\ available' = available \ {offset}
             /\ UNCHANGED <<periodicity, failed>>
    BY <1>1
  <2>2. ueMap' = ueMap \cup {u} /\ u \notin ueMap /\ UNCHANGED <<srsSlotCounter, sounding>>
    BY DEF DoCschedUeConfigReq
  <2>3. /\ srsOffset'[u] = offset /\ srsPeriodicity'[u] = periodicity
        /\ \A v \in ueMap : srsOffset'[v] = srsOffset[v] /\ srsPeriodicity'[v] = srsPeriodicity[v]
    BY <2>1, <2>2
  <2>4. TypeOK'
    BY <2>1, <2>2
  <2>5. NoSharedSrsSlot'
    BY <2>1, <2>2, <2>3 DEF NoSharedSrsSlot, OffsetsPartitioned
  <2>6. OffsetsPartitioned'
    BY <2>1, <2>2, <2>3 DEF OffsetsPartitioned
  <2> QED
    BY <2>4, <2>5, <2>6
<1>2. CASE /\ \E p \in UpperBound(periodicity) : Reassign(p, ueMap \cup {u})
           /\ UNCHANGED failed
  <2>1. PICK p \in UpperBound(periodicity) : Reassign(p, ueMap \cup {u})
    BY <1>2
  <2>2. p \in Periodicities
    BY <2>1 DEF UpperBound
  <2>3. /\ ueMap \cup {u} \in SUBSET Ues
        /\ ueMap' = ueMap \cup {u} /\ UNCHANGED <<srsSlotCounter, sounding, failed>>
    BY <1>2 DEF DoCschedUeConfigReq
  <2> QED
    BY <2>1, <2>2, <2>3, ReassignPreserves
<1>3. CASE /\ failed' = TRUE
           /\ UNCHANGED <<periodicity, available, srsOffset, srsPeriodicity>>
  BY <1>3 DEF DoCschedUeConfigReq, NoSharedSrsSlot, OffsetsPartitioned
<1> QED
  BY <1>1, <1>2, <1>3 DEF DoCschedUeConfigReq

\* A UE leaves and its offset becomes available again.
LEMMA ReleasePreserves ==
  ASSUME SrsInductive, ~failed, NEW u \in Ues, DoCschedUeReleaseReq(u)
  PROVE  SrsInductive'
<1> USE SrsAssumption DEF SrsInductive, TypeOK, DoCschedUeReleaseReq
<1>1. srsOffset[u] \in 0..(periodicity - 1)
  BY DEF NoSharedSrsSlot
<1>2. TypeOK'
  BY <1>1
<1>3. NoSharedSrsSlot'
  BY DEF NoSharedSrsSlot
<1>4. OffsetsPartitioned'
  BY DEF OffsetsPartitioned, NoSharedSrsSlot
<1> QED
  BY <1>2, <1>3, <1>4

\* DoScheduleSrs only moves the slot counter and the sounded UE.
LEMMA ScheduleSrsPreserves ==
  ASSUME SrsInductive, DoScheduleSrs
  PROVE  SrsInductive'
<1> USE SrsAssumption DEF SrsInductive, TypeOK
<1>1. srsSlotCounter' \in 0..(CounterWrap - 1)
  BY DEF DoScheduleSrs
<1>2. sounding' \in Ues \cup {None}
  BY DEF DoScheduleSrs
<1> QED
  BY <1>1, <1>2 DEF DoScheduleSrs, NoSharedSrsSlot, OffsetsPartitioned

\* Every step preserves the inductive invariant.
LEMMA NextPreserves == SrsInductive /\ [Next]_vars => SrsInductive'
<1> SUFFICES ASSUME SrsInductive, [Next]_vars PROVE SrsInductive'
  OBVIOUS
<1>1. CASE UNCHANGED vars
  BY <1>1 DEF vars, SrsInductive, TypeOK, NoSharedSrsSlot, OffsetsPartitioned
<1>2. CASE ~failed /\ \E u \in Ues : DoCschedUeConfigReq(u)
  BY <1>2, ConfigPreserves
<1>3. CASE ~failed /\ \E u \in Ues : DoCschedUeReleaseReq(u)
  BY <1>3, ReleasePreserves
<1>4. CASE DecreasePeriodicity
  <2>1. PICK p \in LowerBound(periodicity) : Reassign(p, ueMap)
    BY <1>4 DEF DecreasePeriodicity
  <2>2. p \in Periodicities /\ ueMap \in SUBSET Ues /\ TypeOK
    BY <2>1 DEF LowerBound, SrsInductive, TypeOK
  <2>3. ueMap' = ueMap /\ UNCHANGED <<srsSlotCounter, sounding, failed>>
    BY <1>4 DEF DecreasePeriodicity
  <2> QED
    BY <2>1, <2>2, <2>3, ReassignPreserves
<1>5. CASE DoScheduleSrs
  BY <1>5, ScheduleSrsPreserves
<1> QED
  BY <1>1, <1>2, <1>3, <1>4, <1>5 DEF Next

\* The inductive invariant holds in every reachable state.
THEOREM SrsInvariant == Spec => []SrsInductive
  BY InitEstablishes, NextPreserves, PTL DEF Spec

\* Type correctness of the SRS state.
THEOREM SrsTypeCorrect == Spec => []TypeOK
<1>1. SrsInductive => TypeOK
  BY DEF SrsInductive
<1> QED
  BY <1>1, SrsInvariant, PTL

\* Attached UEs never share an SRS slot, for any number of UEs, any table of
\* periodicities and any order of AddUe, RemoveUe and IncreasePeriodicity.
THEOREM SrsSlotsDistinct == Spec => []NoSharedSrsSlot
<1>1. SrsInductive => NoSharedSrsSlot
  BY DEF SrsInductive
<1> QED
  BY <1>1, SrsInvariant, PTL

\* No SRS offset is lost or handed out twice.
THEOREM SrsOffsetsConserved == Spec => []OffsetsPartitioned
<1>1. SrsInductive => OffsetsPartitioned
  BY DEF SrsInductive
<1> QED
  BY <1>1, SrsInvariant, PTL
=============================================================================
