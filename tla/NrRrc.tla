------------------------------- MODULE NrRrc -------------------------------
(***************************************************************************)
(* The RRC connection of one UE with its cell: NrUeRrc and NrGnbRrc over   *)
(* the channels of NrRrcProtocol, with random access, paging, loss on SRB0 *)
(* and the passing of time.                                                *)
(***************************************************************************)
EXTENDS NrUeRrc, NrGnbRrc

CONSTANT MaxDelay   \* ticks for which the schedulers may leave messages waiting (bound)

ASSUME RrcAssumption == MaxDelay \in Nat

VARIABLE waited     \* ticks since no message was waiting

vars == <<ueVars, sdt, gnbVars, messages, fatal, waited>>

\* Values chosen at the start of a simulation.
chosen == <<sdt, redCap>>
contexts == <<ueMap, pagingList, edrxMap, s1Rnti>>

Init == UeInit /\ GnbInit /\ ChannelsInit /\ waited = 0

\* An RNTI nobody has heard of.
IsFresh(r) ==
    /\ r \notin {rnti, macRnti, resumeIdentity} \cup pagingList \cup removals
    /\ \A m \in ccchUp : r \notin {m.rnti, m.resumeIdentity}
    /\ \A m \in ccchDown : m.rnti # r
    /\ \A i \in DOMAIN dcchUp : dcchUp[i].rnti # r
    /\ dcchDown[r] = << >>

\* The search for a free RNTI returns the first one.
IsNext(r) ==
    LET free == {q \in Rntis : ~HasUeManager(q) /\ IsFresh(q)}
    IN r \in free /\ \A q \in free : r <= q

\* The UE's preamble is answered with a RAR it receives, or with one it misses
\* (bound: one missed RAR at a time).
RandomAccess(r) ==
    /\ IsNext(r)
    /\ AddUe(r)
    /\ DoNotifyRandomAccessSuccessful(r)

RarIsMissed(r) ==
    /\ accessing /\ IsNext(r)
    /\ \A q \in Rntis : ueMap[q].state # "INITIAL_RANDOM_ACCESS"
    /\ AddUe(r)
    /\ UNCHANGED <<ueVars, messages, fatal>>

\* A page reaches the UE, which may not be listening for it.
Page(p) == SendPaging(p) /\ ReceivePaging(p)

\* The UE acts on a release ReleaseBwpSwitch after it received it, the gNB as long
\* after it sent it: the gNB comes first.
ReleaseIsOver == \A r \in Rntis : 0 \notin ueMap[r].releaseBwp

\* Steps of the UE alone: the traffic and the broadcast, which come at any time,
\* and its events.
UeInput ==
    /\ DoSendData \/ DoRecvMasterInformationBlock \/ DoRecvSystemInformation
    /\ UNCHANGED contexts

UeEvent ==
    /\ \/ NasConnect
       \/ SendRrcSetupCompleted
       \/ ReleaseIsOver /\ ProcessRrcRelease
       \/ ConnectionTimeout
    /\ UNCHANGED contexts

\* A message reaches the UE; its assignment is data activity of the context.
\* What the UE is not listening for stays with the gNB.
Deliver ==
    /\ \/ DoRecvRrcSetup
       \/ DoRecvRrcConnectionReject
       \/ DoRecvRrcReconfiguration
       \/ DoRecvRrcResume
       \/ DoRecvRrcRelease
    /\ NotifyDataActivity(macRnti)

\* Steps of the gNB alone: what the UE's MAC and the core network bring at any
\* time, the messages of the UE, and its events.
GnbInput ==
    /\ \/ SendData
       \/ \E r \in Rntis : \/ TriggerRelease(r)
                           \/ NotifyDataActivity(r) /\ UNCHANGED <<messages, fatal>>
    /\ UNCHANGED ueVars

GnbReceive ==
    /\ \/ DropMsg3 \/ DropUp
       \/ \E r \in Rntis : \/ RecvRrcConnectionRequest(r)
                           \/ RecvRrcConnectionSetupCompleted(r)
                           \/ RecvRrcResumeComplete(r)
                           \/ RecvRrcConnectionReconfigurationCompleted(r)
       \/ \E m \in ccchUp : RecvRrcResumeRequest(m)
    /\ UNCHANGED ueVars

GnbEvent ==
    /\ \/ \E r \in Rntis : \/ InitialContextSetupRequest(r)
                           \/ ConnectionTimeouts(r)
                           \/ DataInactivityTimeout(r)
                           \/ BwpSwitchCompleted(r)
                           \/ ScheduleRrcReconfiguration(r)
       \/ \E r \in removals : DoRecvIdealUeContextRemoveRequest(r)
    /\ UNCHANGED ueVars

\* HARQ gives up on SRB0; the MAC of the UE forgets what it has not sent on SRB1
\* when it loses its RNTI.
Lose ==
    /\ \/ LoseCcch
       \/ /\ dcchUp # << >> /\ Head(dcchUp).rnti # macRnti
          /\ dcchUp' = Tail(dcchUp)
          /\ UNCHANGED <<ccchUp, ccchDown, dcchDown, removals, fatal>>
    /\ UNCHANGED <<ueVars, contexts>>

\* A message waits for the schedulers.
IsWaiting ==
    \/ ccchUp # {} \/ ccchDown # {} \/ dcchUp # << >>
    \/ macRnti # NoRnti /\ dcchDown[macRnti] # << >>

\* Time passes when nothing is left to do at this instant.
Tick ==
    /\ ~UeEventsDue /\ ~GnbEventsDue
    /\ IsWaiting => waited < MaxDelay
    /\ waited' = IF IsWaiting THEN waited + 1 ELSE 0
    /\ UeTick /\ GnbTick

\* What the simulator and the schedulers do without anybody's choice.
Proceed ==
    /\ fatal = "none"
    /\ \/ (UeEvent \/ Deliver \/ GnbReceive \/ GnbEvent \/ Lose) /\ UNCHANGED waited
       \/ Tick
    /\ UNCHANGED chosen

Input ==
    /\ fatal = "none"
    /\ \/ UeInput
       \/ GnbInput
       \/ \E r \in Rntis : RandomAccess(r) \/ RarIsMissed(r) \/ Page(r)
    /\ UNCHANGED <<chosen, waited>>

\* NS_FATAL_ERROR ends the simulation.
Ended == fatal # "none" /\ UNCHANGED vars

Next == Proceed \/ Input \/ Ended

\* The simulator runs every event it has and the schedulers leave no message
\* waiting for ever.  Nothing is assumed of traffic, random access or paging.
Fairness == WF_vars(Proceed)

Spec == Init /\ [][Next]_vars /\ Fairness

\* The cell broadcasts its system information for ever.
BroadcastFairness ==
    /\ WF_vars(Input /\ DoRecvMasterInformationBlock)
    /\ WF_vars(Input /\ DoRecvSystemInformation)

BroadcastSpec == Spec /\ BroadcastFairness

-----------------------------------------------------------------------------
TypeOK ==
    /\ ChannelsOK /\ UeTypeOK /\ GnbTypeOK
    /\ sdt \in BOOLEAN /\ redCap \in BOOLEAN
    /\ waited \in 0..MaxDelay

(***************************************************************************)
(* Refinement of NrConnection                                              *)
(***************************************************************************)
UeMode ==
    CASE ueState = "IDLE_CONNECTING" -> "Connecting"
      [] ueState = "CONNECTED_NORMALLY" -> "Connected"
      [] ueState = "RELEASE_RECEIVED" -> "Released"
      [] ueState \in {"INACTIVE", "IDLE_RANDOM_ACCESS_INACTIVE"} -> "Suspended"
      [] ueState \in {"INACTIVE_CONNECTING", "INACTIVE_SMALL_DATA_TRANSMISSION"} -> "Resuming"
      [] OTHER -> "Idle"

\* The context that serves the UE is the one of the RNTI its RRC transmits with.
NetMode ==
    LET state == IF rnti = NoRnti THEN "NONE" ELSE ueMap[rnti].state
    IN CASE state = "NONE" -> "None"
         [] state = "INITIAL_RANDOM_ACCESS" -> "Asked"
         [] state = "CONNECTION_REJECTED" -> "Refused"
         [] state = "INACTIVE" -> "Suspended"
         [] state = "INACTIVE_CONNECTING" -> "Resuming"
         [] state = "IDLE" -> "Released"
         [] OTHER -> "Admitted"

Connection == INSTANCE NrConnection WITH ue <- UeMode, net <- NetMode

\* The two RRC entities implement the life of a connection: through loss on SRB0,
\* missed RARs, timeouts and late events, the UE is connected only after the gNB
\* admitted it, the gNB forgets no connection, and both sides leave together.
ConnectionSpec == Connection!Spec

\* A connected, released or suspended UE has a context at the gNB, in a state
\* that fits: GetUeManager(resumeIdentity) is not null when a UE resumes.
ContextsAgree == Connection!Agreement

(***************************************************************************)
(* Properties                                                              *)
(***************************************************************************)
\* No handler of UE or gNB meets a state it does not expect (NS_FATAL_ERROR), no
\* RNTI is looked up that has no context, and no context is removed while events
\* that nobody can cancel still refer to it.
NoUnexpectedEvent == fatal = "none"

\* Every event of a context fits the state it will find: the timeouts that remove
\* a context (the assertions of ConnectionRequestTimeout and its like), the data
\* inactivity of this connection and no other, and the reconfiguration that waits
\* for the bandwidth part.  EventIds are overwritten and events are scheduled
\* without one (BwpSwitchCompleted, ScheduleRrcReconfiguration), so none of it is
\* cancelled where it is armed.
EventsFitTheContext ==
    \A r \in Rntis :
        LET c == ueMap[r]
        IN /\ IsRunning(c.requestTimeout) <=> c.state = "INITIAL_RANDOM_ACCESS"
           /\ IsRunning(c.setupTimeout) <=> c.state = "CONNECTION_SETUP"
           /\ IsRunning(c.rejectedTimeout) <=> c.state = "CONNECTION_REJECTED"
           /\ IsRunning(c.inactivityTimeout) =>
                  c.state \in {"CONNECTED_NORMALLY", "CONNECTION_RECONFIGURATION"}
           /\ c.forgotten = {}
           /\ c.releaseBwp # {} => c.state = "INACTIVE"
           /\ c.polling => c.state = "CONNECTED_NORMALLY"

\* SendRrcSetupCompleted and ProcessRrcRelease are scheduled 10 ms ahead and never
\* cancelled: when they run the UE is still in the connection, with the RNTI, that
\* they were scheduled for.
EventsFitTheUe ==
    /\ IsRunning(setupCompleted) => ueState = "CONNECTED_NORMALLY" /\ rnti = macRnti
    /\ releases # << >> => /\ ueState = "RELEASE_RECEIVED"
                           /\ Len(releases) = 1
                           /\ Head(releases).suspend \in {NoRnti, rnti}

\* No attempt hangs: T300, an answer of the gNB or the release ends every
\* connection, resumption, small data transmission and release.
AttemptsEnd ==
    UeMode \in {"Connecting", "Resuming", "Released"} ~>
        UeMode \in {"Idle", "Connected", "Suspended"}

\* What the UE stored is sent once it is connected: the RrcReconfiguration that
\* starts its bearers comes, although it waits for the bandwidth part to be
\* switched by rescheduling itself.
StoredDataLeaves ==
    ueState = "CONNECTED_NORMALLY" /\ packetStored > 0 ~>
        packetStored = 0 \/ ueState # "CONNECTED_NORMALLY"

(***************************************************************************)
(* With downlink data                                                      *)
(***************************************************************************)
\* The errors that downlink data can cause: a packet for a UE that is being
\* released (SendData), a page during a resumption (DoNotifyRandomAccessSuccessful),
\* and a release by an inactivity timer that BwpSwitchCompleted started for a
\* context that is being paged (the others).
DownlinkErrors ==
    {"SendData", "DoNotifyRandomAccessSuccessful", "RecvRrcResumeComplete",
     "RecvRrcResumeRequest", "DoRecvRrcReconfiguration", "ScheduleRrcReconfiguration"}

\* No other error occurs: even then no context is looked up after its removal, and
\* none is removed while events refer to it.
OnlyDownlinkErrors == fatal \in DownlinkErrors \cup {"none"}

\* The paging frame of every RNTI on the paging list is defined: m_edrxMap has a
\* cycle for it, so that SendPaging does not take the frame modulo 0.
PagingFrameIsDefined == pagingList \subseteq edrxMap

\* The core network never sends to an RNTI whose context has been removed
\* (NrGnbRrc::SendData would call into a null UeManagerNr).
DownlinkHasContext == s1Rnti # NoRnti => HasUeManager(s1Rnti)

(***************************************************************************)
(* A retry that does not happen                                            *)
(***************************************************************************)
\* ConnectionTimeout: "Following call to UE NAS will force the UE to immediately
\* perform the random access to the same cell again."
RetryFollows ==
    ueState = "IDLE_CAMPED_NORMALLY" /\ connectionPending ~> ueState = "IDLE_RANDOM_ACCESS"
=============================================================================
