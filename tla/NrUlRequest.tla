---------------------------- MODULE NrUlRequest ----------------------------
(***************************************************************************)
(* How a connected UE asks for uplink resources: the SR machine of one UE  *)
(* (NrUeMacSr), the lists the gNB MAC collects between two slots           *)
(* (nr-gnb-mac.cc), and the scheduler's view of that UE's queue            *)
(* (nr-mac-scheduler-ns3.cc).  The other UEs of the cell are represented   *)
(* by their SRs and by their attachment to the scheduler, which come and   *)
(* go at any time.                                                         *)
(*                                                                         *)
(* SRs and DCIs travel on control channels and are not lost.  A BSR is     *)
(* part of an uplink transport block: it is delivered in order, and, when  *)
(* puschLoses, it may be lost for good (UL HARQ feedback is discarded in   *)
(* NrGnbMac::DoSlotUlIndication).                                          *)
(***************************************************************************)
EXTENDS NrUeMacSr, Sequences

CONSTANTS
    Ue,           \* RNTI of the UE under study
    Others,       \* RNTIs of the other UEs
    MaxLateSrs,   \* bound on the SRs that outlive the attachment of their UE
    MaxSrList,    \* bound on m_srRntiList
    MaxInFlight   \* bound on the DCIs, and on the BSRs, on their way

ASSUME UlRequestAssumption ==
    /\ Ue \notin Others
    /\ MaxLateSrs \in Nat /\ MaxSrList \in Nat /\ MaxInFlight \in Nat

VARIABLES
    ackDci,        \* Ue is in m_ackDciList, or not yet, or was
    srOnAir,       \* the UE's SR is on its way to the gNB
    srRntiList,    \* NrGnbMac::m_srRntiList
    bsrOnAir,      \* BSRs in transport blocks: is any level above 0
    ulCeReceived,  \* NrGnbMac::m_ulCeReceived, the entries of Ue
    ueMap,         \* keys of NrMacSchedulerNs3::m_ueMap
    srList,        \* NrMacSchedulerNs3::m_srList
    ulLcgBytes,    \* the scheduler believes that Ue has bytes to send
    dcisOnAir,     \* UL DCIs on their way to the UE
    lateSrs,       \* SRs so far that outlived the attachment of their UE
    puschLoses     \* can a transport block be lost: chosen once for a behaviour

gnbVars == <<ackDci, srOnAir, srRntiList, bsrOnAir, ulCeReceived, ueMap, srList,
             ulLcgBytes, dcisOnAir, lateSrs>>
vars == <<srVars, gnbVars>>

Rntis == {Ue} \cup Others
SrLists == UNION {[1..n -> Rntis] : n \in 0..MaxSrList}
BsrLists == UNION {[1..n -> BOOLEAN] : n \in 0..MaxInFlight}

TypeOK ==
    /\ SrTypeOK
    /\ ackDci \in {"none", "listed", "requested"}
    /\ srOnAir \in BOOLEAN
    /\ srRntiList \in SrLists
    /\ bsrOnAir \in BsrLists /\ ulCeReceived \in BsrLists
    /\ ueMap \subseteq Rntis
    /\ srList \subseteq Rntis
    /\ ulLcgBytes \in BOOLEAN
    /\ dcisOnAir \in 0..MaxInFlight
    /\ lateSrs \in 0..MaxLateSrs
    /\ puschLoses \in BOOLEAN

\* Ue has completed random access and is about to receive the RRC setup.
Init ==
    /\ srState = "INACTIVE"
    /\ waitingForDciReception = NotRunning
    /\ waitingForSchedulingTimer = NotRunning
    /\ rntiValid = TRUE
    /\ ulBsrReceived = [l \in Lcids |-> NoReport]
    /\ slotDue = FALSE
    /\ srFatal = "none"
    /\ ackDci = "none"
    /\ srOnAir = FALSE
    /\ srRntiList = <<>>
    /\ bsrOnAir = <<>>
    /\ ulCeReceived = <<>>
    /\ ueMap = {Ue}
    /\ srList = {}
    /\ ulLcgBytes = FALSE
    /\ dcisOnAir = 0
    /\ lateSrs = 0
    /\ puschLoses \in BOOLEAN

(***************************************************************************)
(* The UE                                                                  *)
(***************************************************************************)
\* The RRC setup reaches the UE after the gNB MAC sent it.
UeReceivesSetup ==
    /\ ackDci = "requested"
    /\ srState = "INACTIVE" /\ \A l \in Lcids : ulBsrReceived[l] = NoReport
    /\ DoNotifyConnectionSuccessful
    /\ UNCHANGED gnbVars

\* A PDCP PDU, or the RLC report timer.
UeRlcReports ==
    /\ ackDci = "requested"
    /\ \E l \in Lcids, bytes \in 1..MaxQueue :
          /\ ulBsrReceived[l] <= bytes
          /\ DoReportBufferStatus(l, bytes)
    /\ UNCHANGED gnbVars

UeSlot ==
    /\ SrSlotIndication
    /\ srOnAir' = (srOnAir \/ SendsSR)
    /\ UNCHANGED <<ackDci, srRntiList, bsrOnAir, ulCeReceived, ueMap, srList,
                   ulLcgBytes, dcisOnAir, lateSrs>>

\* A new-data DCI; the BSR tells what the grant leaves behind.
UeReceivesDci ==
    /\ dcisOnAir > 0
    /\ dcisOnAir' = dcisOnAir - 1
    /\ Len(bsrOnAir) < MaxInFlight
    /\ \E left \in ServedBy(ulBsrReceived) :
          /\ ProcessNewUlDci(left)
          /\ bsrOnAir' = IF SendsBsr(left) THEN Append(bsrOnAir, Backlog(left))
                                           ELSE bsrOnAir
    /\ UNCHANGED <<ackDci, srOnAir, srRntiList, ulCeReceived, ueMap, srList, ulLcgBytes, lateSrs>>

UeTimers == (DciReceptionTimeout \/ SrSchedulingTimeout) /\ UNCHANGED gnbVars

UeTick == SrTick /\ UNCHANGED gnbVars

\* A step that leaves an SR of an unknown UE in the gNB's list counts.
CountLateSr(late) ==
    /\ late => lateSrs < MaxLateSrs
    /\ lateSrs' = IF late THEN lateSrs + 1 ELSE lateSrs

(***************************************************************************)
(* The gNB MAC between two slots                                           *)
(***************************************************************************)
\* DoReceiveControlMessage passes an SR to DoReportSrToScheduler.
GnbReceivesSr ==
    /\ srOnAir /\ Len(srRntiList) < MaxSrList
    /\ srOnAir' = FALSE
    /\ srRntiList' = Append(srRntiList, Ue)
    /\ UNCHANGED <<srVars, ackDci, bsrOnAir, ulCeReceived, ueMap, srList, ulLcgBytes,
                   dcisOnAir, lateSrs>>

\* Another UE's SR; the UE may have been released meanwhile.
OtherSr(r) ==
    /\ Len(srRntiList) < MaxSrList
    /\ srRntiList' = Append(srRntiList, r)
    /\ CountLateSr(r \notin ueMap)
    /\ UNCHANGED <<srVars, ackDci, srOnAir, bsrOnAir, ulCeReceived, ueMap, srList,
                   ulLcgBytes, dcisOnAir>>

\* DoReceivePhyPdu finds a BSR and DoReportMacCeToScheduler queues it.
GnbReceivesBsr ==
    /\ bsrOnAir # <<>> /\ Len(ulCeReceived) < MaxInFlight
    /\ ulCeReceived' = Append(ulCeReceived, Head(bsrOnAir))
    /\ bsrOnAir' = Tail(bsrOnAir)
    /\ UNCHANGED <<srVars, ackDci, srOnAir, srRntiList, ueMap, srList, ulLcgBytes,
                   dcisOnAir, lateSrs>>

TransportBlockLost ==
    /\ puschLoses
    /\ bsrOnAir # <<>>
    /\ bsrOnAir' = Tail(bsrOnAir)
    /\ UNCHANGED <<srVars, ackDci, srOnAir, srRntiList, ulCeReceived, ueMap, srList,
                   ulLcgBytes, dcisOnAir, lateSrs>>

\* UeManagerNr::RecvRrcConnectionRequest asks for an UL DCI with the RRC setup.
DoScheduleAckDci ==
    /\ ackDci = "none"
    /\ ackDci' = "listed"
    /\ UNCHANGED <<srVars, srOnAir, srRntiList, bsrOnAir, ulCeReceived, ueMap, srList,
                   ulLcgBytes, dcisOnAir, lateSrs>>

(***************************************************************************)
(* The scheduler                                                           *)
(***************************************************************************)
\* Mutant of MergeSr: an SR of a removed UE is added.
MergeSrUnchecked(srs, list, known) == srs \cup {list[i] : i \in DOMAIN list}

\* DoSchedUlSrInfoReq: the loop over the list stops at the first UE that is
\* not in m_ueMap.
MergeSr(srs, list, known) ==
    srs \cup {list[i] : i \in {j \in DOMAIN list : \A k \in 1..j : list[k] \in known}}

\* NrGnbMac::DoTransmitPdu of the RRC setup: the request goes straight to the
\* scheduler.
DoTransmitPdu ==
    /\ ackDci = "listed"
    /\ ackDci' = "requested"
    /\ srList' = MergeSr(srList, <<Ue>>, ueMap)
    /\ UNCHANGED <<srVars, srOnAir, srRntiList, bsrOnAir, ulCeReceived, ueMap,
                   ulLcgBytes, dcisOnAir, lateSrs>>

DoCschedUeConfigReq(r) ==
    /\ r \notin ueMap
    /\ ueMap' = ueMap \cup {r}
    /\ UNCHANGED <<srVars, ackDci, srOnAir, srRntiList, bsrOnAir, ulCeReceived, srList,
                   ulLcgBytes, dcisOnAir, lateSrs>>

DoCschedUeReleaseReq(r) ==
    /\ r \in ueMap
    /\ ueMap' = ueMap \ {r}
    /\ srList' = srList \ {r}
    /\ CountLateSr(\E i \in DOMAIN srRntiList : srRntiList[i] = r)
    /\ UNCHANGED <<srVars, ackDci, srOnAir, srRntiList, bsrOnAir, ulCeReceived,
                   ulLcgBytes, dcisOnAir>>

\* Mutant of AfterBsrs: the oldest BSR of the slot wins.
AfterBsrsOldest == IF ulCeReceived = <<>> THEN ulLcgBytes ELSE ulCeReceived[1]

\* The queue size after the BSRs of this slot: each BSR overwrites it.
AfterBsrs == IF ulCeReceived = <<>> THEN ulLcgBytes ELSE ulCeReceived[Len(ulCeReceived)]

\* NrGnbMac::DoSlotUlIndication: SRs, then BSRs, then the UL trigger, in which
\* DoScheduleUlSr adds 12 bytes for every listed UE if the slot has symbols
\* left, and DoScheduleUlDataWithResManager serves a UE with bytes if the
\* resource manager finds room.
DoSlotUlIndication(symbols, grant) ==
    LET merged == MergeSr(srList, srRntiList, ueMap)
        asked  == symbols /\ Ue \in merged
        bytes  == AfterBsrs \/ asked
    IN /\ grant => symbols /\ bytes /\ dcisOnAir < MaxInFlight
       /\ srRntiList' = <<>>
       /\ ulCeReceived' = <<>>
       /\ srList' = IF symbols THEN {} ELSE merged
       /\ dcisOnAir' = IF grant THEN dcisOnAir + 1 ELSE dcisOnAir
       /\ ulLcgBytes' \in IF grant THEN BOOLEAN ELSE {bytes}
       /\ UNCHANGED <<srVars, ackDci, srOnAir, bsrOnAir, ueMap, lateSrs>>

GnbSlot == \E symbols, grant \in BOOLEAN : DoSlotUlIndication(symbols, grant)

Next ==
    /\ srFatal = "none"
    /\ UNCHANGED puschLoses
    /\ \/ UeReceivesSetup \/ UeRlcReports \/ UeSlot \/ UeReceivesDci \/ UeTimers \/ UeTick
       \/ GnbReceivesSr \/ GnbReceivesBsr \/ TransportBlockLost
       \/ \E r \in Others : OtherSr(r) \/ DoCschedUeConfigReq(r) \/ DoCschedUeReleaseReq(r)
       \/ DoScheduleAckDci \/ DoTransmitPdu
       \/ GnbSlot

\* Slots, timers and messages are simulator events: each is executed.  The RLC
\* report timer keeps reporting a queue that is not empty.  The gNB's slots go
\* by, and a UE the scheduler believes to have bytes is served if there is room
\* again and again.  Strong fairness of GnbReceivesSr keeps the bound on the
\* list, which the code does not have, from holding back an SR.
Fairness ==
    /\ WF_vars(UeSlot) /\ WF_vars(UeTimers) /\ WF_vars(UeTick)
    /\ WF_vars(UeReceivesDci)
    /\ SF_vars(GnbReceivesSr) /\ WF_vars(GnbReceivesBsr)
    /\ WF_vars(DoScheduleAckDci) /\ WF_vars(DoTransmitPdu)
    /\ WF_vars(Backlog(ulBsrReceived) /\ srState = "INACTIVE" /\ UeRlcReports)
    /\ WF_vars(GnbSlot)
    /\ SF_vars(DoSlotUlIndication(TRUE, TRUE))

Spec == Init /\ [][Next]_<<vars, puschLoses>> /\ Fairness

-----------------------------------------------------------------------------
\* DoScheduleUlSr reads m_ueMap.at(v) for every v of m_srList: no release,
\* late SR or request of the RRC may leave an unknown RNTI in the list.
SrListIsKnown == srList \subseteq ueMap

\* No lost wake-up, as long as no transport block is lost: while the UE has
\* bytes queued, something still on its way will bring them to the scheduler's
\* attention or bring a grant.  A machine that is INACTIVE reacts to the next
\* report of the RLC (DoReportBufferStatus, DoSlotIndication, ProcessUlDci).
DemandIsSignalled ==
    ~puschLoses /\ Backlog(ulBsrReceived) =>
        \/ srState \in {"INACTIVE", "TO_SEND"}
        \/ waitingForDciReception # NotRunning
        \/ waitingForSchedulingTimer # NotRunning
        \/ dcisOnAir > 0
        \/ ulLcgBytes
        \/ \E i \in DOMAIN bsrOnAir : bsrOnAir[i]
        \/ \E i \in DOMAIN ulCeReceived : ulCeReceived[i]

\* A UE that has bytes queued and still has to ask for resources is granted
\* some, even if every transport block it sends is lost: the SR timer repeats
\* the request until a DCI comes.
RequestIsAnswered ==
    Backlog(ulBsrReceived) /\ srState \in {"INACTIVE", "TO_SEND"} ~>
        dcisOnAir > 0 \/ ~Backlog(ulBsrReceived)

\* A UE with bytes queued is granted resources again and again, however SRs,
\* BSRs, DCIs and the two timers interleave, as long as no transport block is
\* lost.
GrantsKeepComing == ~puschLoses => []<>(~Backlog(ulBsrReceived) \/ dcisOnAir > 0)
=============================================================================
