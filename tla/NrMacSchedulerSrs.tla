------------------------- MODULE NrMacSchedulerSrs -------------------------
(***************************************************************************)
(* The SRS offsets of the UEs of a cell: NrMacSchedulerSrsDefault, the     *)
(* scheduler handlers that use it when a UE is configured or released, and *)
(* DoScheduleSrs, which sounds in each SRS slot the UE with that slot's    *)
(* offset (nr-mac-scheduler-srs-default.cc, nr-mac-scheduler-ns3.cc).      *)
(*                                                                         *)
(* m_availableOffsetValues is a shuffled vector; which of its elements     *)
(* AddUe pops is left open, so it is a set here.  OffsetsPartitioned shows *)
(* that RemoveUe never pushes an offset that is already in it.             *)
(***************************************************************************)
EXTENDS Integers

CONSTANTS
    Ues,               \* RNTIs
    Periodicities,     \* StandardPeriodicity
    StartPeriodicity,  \* attribute StartingPeriodicity
    CounterWrap        \* m_srsSlotCounter is a uint32_t: 2^32 in the code

ASSUME SrsAssumption ==
    /\ Periodicities \subseteq Nat \ {0}
    /\ StartPeriodicity \in Periodicities
    /\ CounterWrap \in Nat \ {0}

VARIABLES
    periodicity,     \* m_periodicity
    available,       \* m_availableOffsetValues
    ueMap,           \* keys of m_ueMap
    srsOffset,       \* m_srsOffset of every UE
    srsPeriodicity,  \* m_srsPeriodicity of every UE
    srsSlotCounter,  \* m_srsSlotCounter
    sounding,        \* the UE whose SRS was scheduled last, or None
    failed           \* NS_ASSERT(ret): no larger periodicity is left

vars == <<periodicity, available, ueMap, srsOffset, srsPeriodicity,
          srsSlotCounter, sounding, failed>>

None == "none"

TypeOK ==
    /\ periodicity \in Periodicities
    /\ available \subseteq 0..(periodicity - 1)
    /\ ueMap \subseteq Ues
    /\ srsOffset \in [Ues -> Nat]
    /\ srsPeriodicity \in [Ues -> Nat]
    /\ srsSlotCounter \in 0..(CounterWrap - 1)
    /\ sounding \in Ues \cup {None}
    /\ failed \in BOOLEAN

\* Mutant of Init: offsets from 1.
InitFromOne ==
    /\ periodicity = StartPeriodicity
    /\ available = 1..StartPeriodicity
    /\ ueMap = {}
    /\ srsOffset = [u \in Ues |-> 0]
    /\ srsPeriodicity = [u \in Ues |-> 0]
    /\ srsSlotCounter = 0
    /\ sounding = None
    /\ failed = FALSE

\* SetStartingPeriodicity fills the vector of offsets.
Init ==
    /\ periodicity = StartPeriodicity
    /\ available = 0..(StartPeriodicity - 1)
    /\ ueMap = {}
    /\ srsOffset = [u \in Ues |-> 0]
    /\ srsPeriodicity = [u \in Ues |-> 0]
    /\ srsSlotCounter = 0
    /\ sounding = None
    /\ failed = FALSE

\* std::upper_bound and std::lower_bound over the sorted StandardPeriodicity:
\* the smallest value above, and the smallest value not below.
UpperBound(p) == {q \in Periodicities : q > p /\ \A r \in Periodicities : r > p => q <= r}
LowerBound(p) == {q \in Periodicities : q >= p /\ \A r \in Periodicities : r >= p => q <= r}

\* Mutant of Reassign: AddUe reads the last offset without popping it.
ReassignWithoutPop(p, ues) ==
    \E f \in [ues -> 0..(p - 1)] :
        /\ periodicity' = p
        /\ available' = (0..(p - 1)) \ {f[u] : u \in ues}
        /\ srsOffset' = [u \in Ues |-> IF u \in ues THEN f[u] ELSE srsOffset[u]]
        /\ srsPeriodicity' = [u \in Ues |-> IF u \in ues THEN p ELSE srsPeriodicity[u]]

\* SetStartingPeriodicity(p) and ReassignSrsValue(ues): every UE takes another
\* offset of the new range; NS_ASSERT(srs.m_isValid) wants one for each.
Reassign(p, ues) ==
    \E f \in [ues -> 0..(p - 1)] :
        /\ \A u, v \in ues : f[u] = f[v] => u = v
        /\ periodicity' = p
        /\ available' = (0..(p - 1)) \ {f[u] : u \in ues}
        /\ srsOffset' = [u \in Ues |-> IF u \in ues THEN f[u] ELSE srsOffset[u]]
        /\ srsPeriodicity' = [u \in Ues |-> IF u \in ues THEN p ELSE srsPeriodicity[u]]

\* DoCschedUeConfigReq of a new UE: AddUe takes an offset, or, when none is
\* left, IncreasePeriodicity gives all UEs, the new one included, new ones.
DoCschedUeConfigReq(u) ==
    /\ u \notin ueMap
    /\ ueMap' = ueMap \cup {u}
    /\ \/ \E offset \in available :
             /\ srsOffset' = [srsOffset EXCEPT ![u] = offset]
             /\ srsPeriodicity' = [srsPeriodicity EXCEPT ![u] = periodicity]
             /\ available' = available \ {offset}
             /\ UNCHANGED <<periodicity, failed>>
       \/ /\ available = {}
          /\ \E p \in UpperBound(periodicity) : Reassign(p, ueMap \cup {u})
          /\ UNCHANGED failed
       \/ /\ available = {}
          /\ UpperBound(periodicity) = {}
          /\ failed' = TRUE
          /\ UNCHANGED <<periodicity, available, srsOffset, srsPeriodicity>>
    /\ UNCHANGED <<srsSlotCounter, sounding>>

\* Mutant of DoCschedUeReleaseReq: RemoveUe is not called.
ReleaseLeaksOffset(u) ==
    /\ u \in ueMap
    /\ ueMap' = ueMap \ {u}
    /\ UNCHANGED <<available, periodicity, srsOffset, srsPeriodicity, srsSlotCounter,
                   sounding, failed>>

\* DoCschedUeReleaseReq: RemoveUe makes the offset available again.
DoCschedUeReleaseReq(u) ==
    /\ u \in ueMap
    /\ ueMap' = ueMap \ {u}
    /\ available' = available \cup {srsOffset[u]}
    /\ UNCHANGED <<periodicity, srsOffset, srsPeriodicity, srsSlotCounter, sounding, failed>>

\* Part of the interface, though no handler calls it today.
DecreasePeriodicity ==
    /\ \E p \in LowerBound(periodicity) : Reassign(p, ueMap)
    /\ UNCHANGED <<ueMap, srsSlotCounter, sounding, failed>>

\* Mutant of DoScheduleSrs: the period is one slot short.
DoScheduleSrsShort ==
    /\ srsSlotCounter' = (srsSlotCounter + 1) % CounterWrap
    /\ IF ueMap = {}
       THEN sounding' = None
       ELSE \E first \in ueMap :
              LET offset  == srsSlotCounter' % (srsPeriodicity[first] - 1)
                  matches == {u \in ueMap : srsOffset[u] = offset}
              IN sounding' \in IF matches = {} THEN {None} ELSE matches
    /\ UNCHANGED <<periodicity, available, ueMap, srsOffset, srsPeriodicity, failed>>

\* DoScheduleSrs in the next SRS slot.  The period is read from one UE of the
\* map; any UE whose offset matches may be the last one the loop finds.
DoScheduleSrs ==
    /\ srsSlotCounter' = (srsSlotCounter + 1) % CounterWrap
    /\ IF ueMap = {}
       THEN sounding' = None
       ELSE \E first \in ueMap :
              LET offset  == srsSlotCounter' % srsPeriodicity[first]
                  matches == {u \in ueMap : srsOffset[u] = offset}
              IN sounding' \in IF matches = {} THEN {None} ELSE matches
    /\ UNCHANGED <<periodicity, available, ueMap, srsOffset, srsPeriodicity, failed>>

Next ==
    /\ ~failed
    /\ \/ \E u \in Ues : DoCschedUeConfigReq(u) \/ DoCschedUeReleaseReq(u)
       \/ DecreasePeriodicity
       \/ DoScheduleSrs

Fairness == WF_vars(~failed /\ DoScheduleSrs)

Spec == Init /\ [][Next]_vars /\ Fairness

-----------------------------------------------------------------------------
\* "two (or more) UEs cannot send the SRS in the same slot"
\* (nr-mac-scheduler-srs.h): attached UEs share one periodicity and have
\* distinct offsets below it, through every order of attachments, releases and
\* changes of the periodicity.
NoSharedSrsSlot ==
    ~failed =>
        /\ \A u \in ueMap : srsPeriodicity[u] = periodicity /\ srsOffset[u] < periodicity
        /\ \A u, v \in ueMap : srsOffset[u] = srsOffset[v] => u = v

\* No offset is lost or given away twice: the available offsets and those of
\* the attached UEs are disjoint and together are all offsets (AddUe, RemoveUe).
OffsetsPartitioned ==
    ~failed =>
        /\ \A u \in ueMap : srsOffset[u] \notin available
        /\ \A x \in 0..(periodicity - 1) : x \in available \/ \E u \in ueMap : srsOffset[u] = x

\* A UE that stays attached is sounded again and again, unless its offset is
\* reassigned by DecreasePeriodicity forever: also while others attach, leave
\* and force a longer periodicity, and across the wrap-around of
\* m_srsSlotCounter (DoScheduleSrs, AddUe, ReassignSrsValue).
EveryUeIsSounded ==
    \A u \in Ues : \/ []<>(u \notin ueMap \/ sounding = u \/ failed)
                   \/ []<><<DecreasePeriodicity>>_vars
=============================================================================
