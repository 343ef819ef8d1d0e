------------------------------ MODULE NrUeMac ------------------------------
(***************************************************************************)
(* The UE MAC: the SR/BSR machine (NrUeMacSr) and the random-access        *)
(* procedure (NrUeMacRa) driven by one slot indication, one clock, one     *)
(* m_rnti and one DoReset, below the RRC procedures that call them and     *)
(* above the RLC entities, whose report timer (m_rbsTimer) keeps running   *)
(* while the RRC is not connected.                                         *)
(***************************************************************************)
EXTENDS NrUeMacSr, NrUeMacRa

CONSTANT RlcReportsWhileNotConnected  \* is an RLC queue ever left unsent at a release

ASSUME UeMacAssumption == RlcReportsWhileNotConnected \in BOOLEAN

VARIABLE drbs     \* m_drbMap is not empty: the RLC entities exist

vars == <<srVars, raVars, triggersOverlap, drbs>>

TypeOK == SrTypeOK /\ RaTypeOK /\ drbs \in BOOLEAN

Init == SrInit /\ RaInit /\ drbs = FALSE

Halted == srFatal # "none" \/ raFatal # "none"

(***************************************************************************)
(* RRC procedures                                                          *)
(***************************************************************************)
Connect == (StartConnection \/ ResumeConnection) /\ UNCHANGED <<srVars, drbs>>

Paging == ReceivePaging /\ UNCHANGED <<srVars, drbs>>

Sib1 == DoRecvSib1 /\ UNCHANGED <<srVars, drbs>>

\* RecvRaResponse: the MAC takes the RNTI of the RAR.
RandomAccessResponse == RecvRaResponse /\ SetRnti /\ UNCHANGED drbs

\* NrUeRrc::DoRecvRrcSetup tells the MAC of the connection.
DoRecvRrcSetup ==
    /\ rrcState = "IDLE_CONNECTING"
    /\ RrcConnects
    /\ DoNotifyConnectionSuccessful
    /\ UNCHANGED drbs

\* NrUeRrc::DoRecvRrcResume does not.
DoRecvRrcResume ==
    /\ rrcState = "INACTIVE_CONNECTING"
    /\ RrcConnects
    /\ UNCHANGED <<srVars, drbs>>

\* NrUeRrc::ApplyRadioBearerConfig adds the bearers and their channels.
ApplyRadioBearerConfig ==
    /\ rrcState = "CONNECTED_NORMALLY"
    /\ ~drbs
    /\ drbs' = TRUE
    /\ UNCHANGED <<srVars, raVars>>

\* A bearer of drbToReleaseList goes, maybe the last one.
ReleaseBearer(l) ==
    /\ rrcState = "CONNECTED_NORMALLY"
    /\ drbs
    /\ DoRemoveLc(l)
    /\ drbs' \in {drbs, FALSE}
    /\ UNCHANGED raVars

\* ConnectionTimeout: below the failure limit the bearers of an earlier
\* connection survive; at the limit LeaveConnectedMode drops them.
T300 ==
    /\ ConnectionTimeout
    /\ SrReset
    /\ drbs' \in {drbs, FALSE}

\* ProcessRrcRelease: suspension keeps the bearers, release drops them.
ProcessRrcRelease ==
    \/ ReleaseToInactive /\ SrReset /\ UNCHANGED drbs
    \/ ReleaseToIdle /\ SrReset /\ drbs' = FALSE

(***************************************************************************)
(* RLC, PHY and time                                                       *)
(***************************************************************************)
\* A new PDU (SRB1 exists from the setup on), or the report timer of a data
\* bearer's queue that is not empty.
RlcReport(l, bytes) ==
    /\ \/ rrcState = "CONNECTED_NORMALLY"
       \/ drbs /\ RlcReportsWhileNotConnected /\ bytes > 0
    /\ DoReportBufferStatus(l, bytes)
    /\ UNCHANGED <<raVars, drbs>>

ProcessUlDci ==
    /\ rntiValid
    /\ \/ \E left \in ServedBy(ulBsrReceived) : ProcessNewUlDci(left)
       \/ ProcessRetxUlDci
    /\ UNCHANGED <<raVars, drbs>>

DoSlotIndication == SrSlotIndication /\ RaSlotIndication /\ UNCHANGED drbs

SrTimers == (DciReceptionTimeout \/ SrSchedulingTimeout) /\ UNCHANGED <<raVars, drbs>>

RaTimers == (StartWaitingForRaResponse \/ TimeoutFires) /\ UNCHANGED <<srVars, drbs>>

Tick == SrTick /\ RaTick /\ UNCHANGED drbs

Next ==
    /\ ~Halted
    /\ UNCHANGED triggersOverlap
    /\ \/ Connect \/ Paging \/ Sib1 \/ RandomAccessResponse
       \/ DoRecvRrcSetup \/ DoRecvRrcResume \/ ApplyRadioBearerConfig
       \/ T300 \/ ProcessRrcRelease
       \/ \E l \in Lcids : ReleaseBearer(l)
       \/ \E l \in Lcids, bytes \in 0..MaxQueue : RlcReport(l, bytes)
       \/ ProcessUlDci
       \/ DoSlotIndication \/ SrTimers \/ RaTimers \/ Tick

Spec == Init /\ [][Next]_vars

\* The simulator executes every scheduled event, and SIB1 is broadcast
\* periodically.  Nothing is assumed of RARs, paging, traffic or the RRC.
Event(A) == ~Halted /\ UNCHANGED triggersOverlap /\ A

UeMacFairness ==
    /\ WF_vars(Event(Tick)) /\ WF_vars(Event(DoSlotIndication))
    /\ WF_vars(Event(SrTimers)) /\ WF_vars(Event(RaTimers))
    /\ WF_vars(Event(Sib1))

FairSpec == Spec /\ UeMacFairness

-----------------------------------------------------------------------------
\* Outside RRC connected the SR machine is at rest: no state, timer or buffer
\* status of an earlier connection survives a release, a suspension or a failed
\* establishment into the next one (NrUeMac::DoReset as NrUeRrc calls it).
SrQuietUnlessConnected ==
    ~Halted /\ rrcState # "CONNECTED_NORMALLY" =>
        /\ srState = "INACTIVE"
        /\ waitingForDciReception = NotRunning
        /\ waitingForSchedulingTimer = NotRunning
        /\ ~Backlog(ulBsrReceived)

\* The MAC holds an RNTI exactly from the RAR until the RRC leaves the
\* connection attempt or the connection, so no SR or BSR carries a stale RNTI.
RntiMatchesRrc ==
    ~Halted => (rntiValid <=> rrcState \in {"IDLE_CONNECTING", "INACTIVE_CONNECTING",
                                            "CONNECTED_NORMALLY"})

\* DoNotifyConnectionSuccessful ends the simulation with "Why is UE with imsi
\* ... trying to transmit a SR." unless the SR machine is INACTIVE.
SetupFindsSrInactive == srFatal # "SrWhileConnecting"
=============================================================================
