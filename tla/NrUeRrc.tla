------------------------------ MODULE NrUeRrc ------------------------------
(***************************************************************************)
(* The RRC of one UE (nr-ue-rrc.cc) with the NAS above it (epc-ue-nas.cc)  *)
(* and the MAC's RNTI and random access below it.                          *)
(*                                                                         *)
(* Random access inside the MAC is the subject of NrUeMacRa: here it runs  *)
(* or does not, and ends when a RAR arrives.  Handover, measurements and   *)
(* radio link failure, which NrUePhy does not implement, are left out.     *)
(* Countdowns are in steps of 10 ms.                                       *)
(***************************************************************************)
EXTENDS NrRrcProtocol

CONSTANTS
    T300,              \* m_t300
    ConnEstFailLimit,  \* m_connEstFailCountLimit, from SIB2
    MaxStored,         \* bound on m_packetStored
    SdtChoices         \* can small data be sent in Msg3: m_sdt and m_useSdt

ASSUME UeRrcAssumption ==
    /\ {T300, ConnEstFailLimit, MaxStored} \subseteq Nat \ {0}
    /\ SdtChoices \subseteq BOOLEAN

VARIABLES
    ueState,            \* m_state
    rnti,               \* m_rnti of the RRC, which SRB1 transmits with
    macRnti,            \* m_rnti of the MAC, which it receives with
    resumeIdentity,     \* m_resumeIdentity, and m_pRnti of the MAC
    connectionTimeout,  \* m_connectionTimeout (T300)
    connEstFailCount,   \* m_connEstFailCount
    hasReceivedMib,     \* m_hasReceivedMib
    hasReceivedSib2,    \* m_hasReceivedSib2
    connectionPending,  \* m_connectionPending
    DataPending,        \* m_DataPending
    packetStored,       \* size of m_packetStored
    setupCompleted,     \* the scheduled SendRrcSetupCompleted
    releases,           \* the scheduled ProcessRrcRelease, with its suspend RNTI
    leaveConnectedMode, \* m_leaveConnectedMode
    drbs,               \* m_drbMap is not empty
    accessing,          \* the MAC runs a random-access procedure
    nas,                \* EpcUeNas::m_state
    nasConnects,        \* DoNotifyConnectionFailed has scheduled Connect
    sdt                 \* m_sdt, m_useSdt: chosen once

ueFlags == <<hasReceivedMib, hasReceivedSib2, connectionPending, DataPending,
             leaveConnectedMode, drbs, accessing, nas, nasConnects>>
ueVars == <<ueState, rnti, macRnti, resumeIdentity, connectionTimeout, connEstFailCount,
            packetStored, setupCompleted, releases, ueFlags>>

UeStates == {"IDLE_WAIT_MIB", "IDLE_CAMPED_NORMALLY", "IDLE_RANDOM_ACCESS",
             "IDLE_CONNECTING", "CONNECTED_NORMALLY", "CONNECTED_PHY_PROBLEM",
             "RELEASE_RECEIVED", "INACTIVE", "IDLE_RANDOM_ACCESS_INACTIVE",
             "INACTIVE_CONNECTING", "INACTIVE_SMALL_DATA_TRANSMISSION"}

UeFlagsOK ==
    /\ hasReceivedMib \in BOOLEAN /\ hasReceivedSib2 \in BOOLEAN
    /\ connectionPending \in BOOLEAN /\ DataPending \in BOOLEAN
    /\ leaveConnectedMode \in BOOLEAN /\ drbs \in BOOLEAN
    /\ accessing \in BOOLEAN /\ nasConnects \in BOOLEAN

UeTypeOK ==
    /\ ueState \in UeStates
    /\ rnti \in AnyRnti /\ macRnti \in AnyRnti /\ resumeIdentity \in AnyRnti
    /\ connectionTimeout \in Off..T300
    /\ connEstFailCount \in 0..(ConnEstFailLimit - 1)
    /\ packetStored \in 0..MaxStored
    /\ setupCompleted \in Off..ProcDelay
    /\ releases \in Seq([left : 0..ProcDelay, suspend : AnyRnti])
    /\ nas \in {"OFF", "ACTIVE"}
    /\ UeFlagsOK

\* The UE has been told to camp on its cell (DoForceCampedOnEnb).
UeInit ==
    /\ ueState = "IDLE_WAIT_MIB"
    /\ rnti = NoRnti /\ macRnti = NoRnti /\ resumeIdentity = NoRnti
    /\ connectionTimeout = Off /\ setupCompleted = Off /\ releases = << >>
    /\ connEstFailCount = 0 /\ packetStored = 0
    /\ hasReceivedMib = FALSE /\ hasReceivedSib2 = FALSE
    /\ connectionPending = FALSE /\ DataPending = FALSE
    /\ leaveConnectedMode = FALSE /\ drbs = FALSE /\ accessing = FALSE
    /\ nas = "OFF" /\ nasConnects = FALSE
    /\ sdt \in SdtChoices

(***************************************************************************)
(* Starting a connection.  One call may switch the state several times:    *)
(* its steps are functions of the state, the pending flag and the access.  *)
(***************************************************************************)
Now == [state |-> ueState, pending |-> connectionPending, access |-> accessing]

Becomes(c) ==
    /\ ueState' = c.state
    /\ connectionPending' = c.pending
    /\ accessing' = c.access

StartConnection(c) ==
    IF hasReceivedMib
    THEN [state |-> "IDLE_RANDOM_ACCESS", pending |-> FALSE, access |-> TRUE]
    ELSE [c EXCEPT !.state = "IDLE_WAIT_MIB"]

ResumeConnection(c) ==
    [state |-> "IDLE_RANDOM_ACCESS_INACTIVE", pending |-> FALSE, access |-> TRUE]

\* SwitchToState for the two states whose entry may start a connection.
SwitchToState(c, newState, sib2) ==
    LET entered == [c EXCEPT !.state = newState]
    IN IF (c.pending \/ DataPending) /\ sib2
       THEN IF newState = "INACTIVE" THEN ResumeConnection(entered)
                                     ELSE StartConnection(entered)
       ELSE entered

\* DoConnect: camped, the UE only remembers the request.
Connect(c) ==
    CASE c.state = "IDLE_CAMPED_NORMALLY" -> [c EXCEPT !.pending = TRUE]
      [] c.state = "CONNECTED_PHY_PROBLEM" ->
            [SwitchToState(c, "IDLE_CAMPED_NORMALLY", hasReceivedSib2) EXCEPT !.pending = TRUE]
      [] OTHER -> c

\* The states in which DoConnect, and DoDisconnect, end the simulation.
ConnectUnexpected == {"INACTIVE", "RELEASE_RECEIVED", "INACTIVE_SMALL_DATA_TRANSMISSION"}
DisconnectUnexpected ==
    {"IDLE_CONNECTING", "INACTIVE_CONNECTING", "IDLE_RANDOM_ACCESS", "INACTIVE",
     "IDLE_RANDOM_ACCESS_INACTIVE", "INACTIVE_SMALL_DATA_TRANSMISSION"}

UeStops(where) ==
    /\ fatal' = where
    /\ UNCHANGED <<ueVars, messages>>

\* Mutant of StartT300: the attempt is not guarded.
StartT300Forgotten == UNCHANGED connectionTimeout

StartT300 == connectionTimeout' = T300

\* Mutant of CancelT300: the timer of an answered attempt runs on.
CancelT300Forgotten == UNCHANGED connectionTimeout

CancelT300 == connectionTimeout' = Off

(***************************************************************************)
(* NAS                                                                     *)
(***************************************************************************)
\* EpcUeNas::Send and NrUeRrc::DoSendData.  A connected UE with bearers hands
\* the packet to PDCP, which changes nothing here.
DoSendData ==
    LET c == IF nas = "OFF" THEN Connect(Now) ELSE Now
    IN /\ packetStored < MaxStored
       /\ ~(ueState = "CONNECTED_NORMALLY" /\ drbs)
       /\ IF nas = "OFF" /\ ueState \in ConnectUnexpected
          THEN UeStops("DoConnect")
          ELSE /\ packetStored' = packetStored + 1
               /\ Becomes(CASE c.state = "IDLE_CAMPED_NORMALLY" -> StartConnection(c)
                            [] c.state = "INACTIVE" -> ResumeConnection(c)
                            [] OTHER -> c)
               /\ DataPending' = (\/ DataPending
                                  \/ c.state \notin {"IDLE_CAMPED_NORMALLY", "INACTIVE",
                                        "CONNECTED_NORMALLY", "IDLE_RANDOM_ACCESS",
                                        "IDLE_CONNECTING"})
               /\ UNCHANGED <<rnti, macRnti, resumeIdentity, connectionTimeout,
                              connEstFailCount, setupCompleted, releases, hasReceivedMib,
                              hasReceivedSib2, leaveConnectedMode, drbs, nas, nasConnects,
                              messages, fatal>>

\* DoNotifyConnectionFailed has scheduled a call of Connect for now.
NasConnect ==
    /\ nasConnects
    /\ IF ueState \in ConnectUnexpected
       THEN UeStops("DoConnect")
       ELSE /\ nasConnects' = FALSE
            /\ Becomes(Connect(Now))
            /\ UNCHANGED <<rnti, macRnti, resumeIdentity, connectionTimeout,
                           connEstFailCount, packetStored, setupCompleted, releases,
                           hasReceivedMib, hasReceivedSib2, DataPending,
                           leaveConnectedMode, drbs, nas, messages, fatal>>

(***************************************************************************)
(* System information                                                      *)
(***************************************************************************)
DoRecvMasterInformationBlock ==
    /\ hasReceivedMib' = TRUE
    /\ Becomes(IF ueState = "IDLE_WAIT_MIB"
               THEN SwitchToState(Now, "IDLE_CAMPED_NORMALLY", hasReceivedSib2) ELSE Now)
    /\ UNCHANGED <<rnti, macRnti, resumeIdentity, connectionTimeout, connEstFailCount,
                   packetStored, setupCompleted, releases, hasReceivedSib2, DataPending,
                   leaveConnectedMode, drbs, nas, nasConnects, messages, fatal>>

\* DoRecvSystemInformation: no connection is started here.
DoRecvSystemInformation ==
    /\ ueState \notin {"IDLE_WAIT_MIB", "INACTIVE", "RELEASE_RECEIVED",
                       "INACTIVE_SMALL_DATA_TRANSMISSION"}
    /\ hasReceivedSib2' = TRUE
    /\ UNCHANGED <<ueState, rnti, macRnti, resumeIdentity, connectionTimeout,
                   connEstFailCount, packetStored, setupCompleted, releases,
                   hasReceivedMib, connectionPending, DataPending, leaveConnectedMode,
                   drbs, accessing, nas, nasConnects, messages, fatal>>

(***************************************************************************)
(* Random access                                                           *)
(***************************************************************************)
\* A page for p: the MAC starts a procedure without asking the RRC.
ReceivePaging(p) ==
    /\ accessing' = (accessing \/ p = resumeIdentity)
    /\ UNCHANGED <<ueState, rnti, macRnti, resumeIdentity, connectionTimeout,
                   connEstFailCount, packetStored, setupCompleted, releases,
                   hasReceivedMib, hasReceivedSib2, connectionPending, DataPending,
                   leaveConnectedMode, drbs, nas, nasConnects>>

\* DoSetTemporaryCellRnti, DoNotifyRandomAccessSuccessful and
\* DoSendRrcConnectionRequest for a RAR with RNTI r.  The resuming UE takes its
\* old RNTI back with the slot of Msg3, before anything can be sent to it.
DoNotifyRandomAccessSuccessful(r) ==
    /\ accessing
    /\ IF ueState \in {"INACTIVE", "IDLE_RANDOM_ACCESS_INACTIVE"}
       THEN \E taken \in 0..packetStored :
            /\ taken > 0 => sdt
            /\ ueState' = IF sdt THEN "INACTIVE_SMALL_DATA_TRANSMISSION"
                                 ELSE "INACTIVE_CONNECTING"
            /\ packetStored' = packetStored - taken
            /\ SendMsg3(r, resumeIdentity, taken > 0)
            /\ rnti' = resumeIdentity /\ macRnti' = resumeIdentity
            /\ StartT300
            /\ accessing' = FALSE
            /\ UNCHANGED fatal
       ELSE IF ueState = "IDLE_RANDOM_ACCESS"
       THEN /\ ueState' = "IDLE_CONNECTING"
            /\ SendMsg3(r, NoRnti, FALSE)
            /\ rnti' = r /\ macRnti' = r
            /\ StartT300
            /\ accessing' = FALSE
            /\ UNCHANGED <<packetStored, fatal>>
       ELSE /\ fatal' = "DoNotifyRandomAccessSuccessful"
            /\ UNCHANGED <<ueState, packetStored, rnti, macRnti, connectionTimeout,
                           accessing, ccchUp>>
    /\ UNCHANGED <<resumeIdentity, connEstFailCount, setupCompleted, releases,
                   hasReceivedMib, hasReceivedSib2, connectionPending, DataPending,
                   leaveConnectedMode, drbs, nas, nasConnects, ccchDown, dcchUp,
                   dcchDown, removals>>

(***************************************************************************)
(* Messages of the gNB                                                     *)
(***************************************************************************)
ReceiveCcch(type) ==
    /\ [type |-> type, rnti |-> macRnti] \in ccchDown
    /\ ccchDown' = ccchDown \ {[type |-> type, rnti |-> macRnti]}

ReceiveDcch(type) ==
    /\ macRnti \in Rntis
    /\ dcchDown[macRnti] # << >>
    /\ Head(dcchDown[macRnti]) = type
    /\ dcchDown' = [dcchDown EXCEPT ![macRnti] = Tail(@)]

\* Mutant of NotifyConnectionSuccessful: the NAS is not told.
NotifyConnectionLost == UNCHANGED nas

NotifyConnectionSuccessful == nas' = "ACTIVE"

DoRecvRrcSetup ==
    /\ ReceiveCcch("RrcSetup")
    /\ IF ueState = "IDLE_CONNECTING"
       THEN /\ ueState' = "CONNECTED_NORMALLY"
            /\ connEstFailCount' = 0
            /\ CancelT300
            /\ leaveConnectedMode' = FALSE
            /\ NotifyConnectionSuccessful
            /\ setupCompleted' = ProcDelay
            /\ UNCHANGED fatal
       ELSE /\ fatal' = "DoRecvRrcSetup"
            /\ UNCHANGED <<ueState, connEstFailCount, connectionTimeout,
                           leaveConnectedMode, nas, setupCompleted>>
    /\ UNCHANGED <<rnti, macRnti, resumeIdentity, packetStored, releases, hasReceivedMib,
                   hasReceivedSib2, connectionPending, DataPending, drbs, accessing,
                   nasConnects, ccchUp, dcchUp, dcchDown, removals>>

\* A rejected UE camps, without SIB2, and the NAS is told.
DoRecvRrcConnectionReject ==
    /\ ReceiveCcch("RrcConnectionReject")
    /\ CancelT300
    /\ macRnti' = NoRnti
    /\ hasReceivedSib2' = FALSE
    /\ Becomes(SwitchToState(Now, "IDLE_CAMPED_NORMALLY", FALSE))
    /\ nasConnects' = TRUE
    /\ UNCHANGED <<rnti, resumeIdentity, connEstFailCount, packetStored, setupCompleted,
                   releases, hasReceivedMib, DataPending, leaveConnectedMode, drbs, nas,
                   ccchUp, dcchUp, dcchDown, removals, fatal>>

\* DoRecvRrcReconfiguration answers and sends what was stored.
DoRecvRrcReconfiguration ==
    /\ ReceiveDcch("RrcReconfiguration")
    /\ IF ueState = "CONNECTED_NORMALLY"
       THEN /\ drbs' = TRUE
            /\ SendUp("RrcReconfigurationCompleted", rnti)
            /\ packetStored' = 0
            /\ DataPending' = FALSE
            /\ UNCHANGED fatal
       ELSE /\ fatal' = "DoRecvRrcReconfiguration"
            /\ UNCHANGED <<drbs, dcchUp, packetStored, DataPending>>
    /\ UNCHANGED <<ueState, rnti, macRnti, resumeIdentity, connectionTimeout,
                   connEstFailCount, setupCompleted, releases, hasReceivedMib,
                   hasReceivedSib2, connectionPending, leaveConnectedMode, accessing,
                   nas, nasConnects, ccchUp, ccchDown, removals>>

DoRecvRrcResume ==
    /\ ReceiveDcch("RrcResume")
    /\ CancelT300
    /\ ueState' = "CONNECTED_NORMALLY"
    /\ SendUp("RrcResumeComplete", rnti)
    /\ UNCHANGED <<rnti, macRnti, resumeIdentity, connEstFailCount, packetStored,
                   setupCompleted, releases, ueFlags, ccchUp, ccchDown, removals, fatal>>

\* DoRecvRrcRelease: the release takes effect after the procedure delay.
DoRecvRrcRelease ==
    /\ \E suspend \in BOOLEAN :
        /\ ReceiveDcch(IF suspend THEN "RrcReleaseSuspend" ELSE "RrcRelease")
        /\ releases' = Append(releases, [left |-> ProcDelay,
                                         suspend |-> IF suspend THEN macRnti ELSE NoRnti])
    /\ CancelT300
    /\ ueState' = "RELEASE_RECEIVED"
    /\ UNCHANGED <<rnti, macRnti, resumeIdentity, connEstFailCount, packetStored,
                   setupCompleted, ueFlags, ccchUp, ccchDown, dcchUp, removals, fatal>>

(***************************************************************************)
(* Events                                                                  *)
(***************************************************************************)
SendRrcSetupCompleted ==
    /\ setupCompleted = 0
    /\ setupCompleted' = Off
    /\ SendUp("RrcSetupCompleted", rnti)
    /\ UNCHANGED <<ueState, rnti, macRnti, resumeIdentity, connectionTimeout,
                   connEstFailCount, packetStored, releases, ueFlags, ccchUp, ccchDown,
                   dcchDown, removals, fatal>>

ReleaseIsDue == releases # << >> /\ Head(releases).left = 0

\* NotifyConnectionReleased of the NAS calls Disconnect, and DoDisconnect
\* LeaveConnectedMode.
LeaveConnectedMode ==
    /\ rnti' = NoRnti /\ macRnti' = NoRnti
    /\ hasReceivedMib' = FALSE /\ hasReceivedSib2' = FALSE
    /\ drbs' = FALSE
    /\ leaveConnectedMode' = TRUE
    /\ nas' = "OFF"

\* ProcessRrcRelease with a suspend configuration.  The reset of the MAC may
\* end a procedure that runs (see NrUeMacRa!RaReset).
Suspend ==
    /\ ReleaseIsDue /\ Head(releases).suspend # NoRnti
    /\ IF ~drbs
       THEN UeStops("ProcessRrcRelease")
       ELSE /\ releases' = Tail(releases)
            /\ resumeIdentity' = Head(releases).suspend
            /\ macRnti' = NoRnti
            /\ \E access \in {accessing, FALSE} :
                Becomes(SwitchToState([Now EXCEPT !.access = access], "INACTIVE",
                                      hasReceivedSib2))
            /\ UNCHANGED <<rnti, connectionTimeout, connEstFailCount, packetStored,
                           setupCompleted, hasReceivedMib, hasReceivedSib2, DataPending,
                           leaveConnectedMode, drbs, nas, nasConnects, messages, fatal>>

\* ProcessRrcRelease without one: the UE asks the gNB to remove its context.
Release ==
    /\ ReleaseIsDue /\ Head(releases).suspend = NoRnti
    /\ releases' = Tail(releases)
    /\ IF leaveConnectedMode
       THEN /\ Becomes(SwitchToState(Now, "IDLE_CAMPED_NORMALLY", hasReceivedSib2))
            /\ UNCHANGED <<rnti, macRnti, hasReceivedMib, hasReceivedSib2, drbs,
                           leaveConnectedMode, nas, removals, fatal>>
       ELSE IF ueState \in DisconnectUnexpected
       THEN /\ fatal' = "DoDisconnect"
            /\ Becomes(Now)
            /\ UNCHANGED <<rnti, macRnti, hasReceivedMib, hasReceivedSib2, drbs,
                           leaveConnectedMode, nas, removals>>
       ELSE /\ removals' = removals \cup {rnti}
            /\ LeaveConnectedMode
            /\ Becomes(SwitchToState(Now, "IDLE_CAMPED_NORMALLY", FALSE))
            /\ UNCHANGED fatal
    /\ UNCHANGED <<resumeIdentity, connectionTimeout, connEstFailCount, packetStored,
                   setupCompleted, DataPending, nasConnects, ccchUp, ccchDown, dcchUp,
                   dcchDown>>

ProcessRrcRelease == Suspend \/ Release

\* T300 expired.  Below the limit the UE camps without SIB2 and tells the NAS;
\* at the limit it leaves connected mode.
ConnectionTimeout ==
    /\ connectionTimeout = 0
    /\ connectionTimeout' = Off
    /\ IF connEstFailCount + 1 >= ConnEstFailLimit
       THEN /\ connEstFailCount' = 0
            /\ LeaveConnectedMode
            /\ ueState' = "CONNECTED_PHY_PROBLEM"
            /\ UNCHANGED <<connectionPending, accessing, nasConnects>>
       ELSE /\ connEstFailCount' = connEstFailCount + 1
            /\ macRnti' = NoRnti
            /\ hasReceivedSib2' = FALSE
            /\ Becomes(SwitchToState(Now, "IDLE_CAMPED_NORMALLY", FALSE))
            /\ nasConnects' = TRUE
            /\ UNCHANGED <<rnti, hasReceivedMib, drbs, leaveConnectedMode, nas>>
    /\ UNCHANGED <<resumeIdentity, packetStored, setupCompleted, releases, DataPending,
                   messages, fatal>>

\* Events of this instant that have not run yet.
UeEventsDue ==
    connectionTimeout = 0 \/ setupCompleted = 0 \/ ReleaseIsDue \/ nasConnects

UeTick ==
    /\ connectionTimeout' = Countdown(connectionTimeout)
    /\ setupCompleted' = Countdown(setupCompleted)
    /\ releases' = [i \in DOMAIN releases |->
                      [releases[i] EXCEPT !.left = Countdown(@)]]
    /\ UNCHANGED <<ueState, rnti, macRnti, resumeIdentity, connEstFailCount, packetStored,
                   ueFlags, messages, fatal>>
=============================================================================
