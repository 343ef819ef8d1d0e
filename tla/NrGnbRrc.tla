------------------------------ MODULE NrGnbRrc ------------------------------
(***************************************************************************)
(* The RRC of the gNB (nr-gnb-rrc.cc): the contexts (UeManagerNr) one UE   *)
(* leaves behind in its cell, the paging list of the MAC and the EPC's     *)
(* idea of the UE's RNTI.                                                  *)
(*                                                                         *)
(* Every event the code schedules is a countdown of its own, the ones it   *)
(* keeps no EventId of included, because those are the ones that           *)
(* CancelPendingEvents cannot cancel.  Handover, measurements and the      *)
(* contents of configurations are left out.                                *)
(***************************************************************************)
EXTENDS NrRrcProtocol, FiniteSets

CONSTANTS
    ConnectionRequestTimeoutDuration,   \* 15 ms
    ConnectionSetupTimeoutDuration,     \* 150 ms
    ConnectionRejectedTimeoutDuration,  \* 30 ms
    DataInactivityInterval,             \* 50 ms
    SetupBwpSwitch,                     \* 20 ms
    ResumeBwpSwitch,                    \* 6 ms
    ReleaseBwpSwitch,                   \* 10 ms
    MaxBuffered,                        \* bound on m_packetBuffer
    AdmitChoices,                       \* values of m_admitRrcConnectionRequest, an attribute
    RedCapChoices,                      \* is the UE a RedCap UE
    EarlyRelease                        \* EarlyReleaseEnabled of the MAC

Durations == {ConnectionRequestTimeoutDuration, ConnectionSetupTimeoutDuration,
              ConnectionRejectedTimeoutDuration, DataInactivityInterval, SetupBwpSwitch,
              ResumeBwpSwitch, ReleaseBwpSwitch}

ASSUME GnbRrcAssumption ==
    /\ Durations \subseteq Nat \ {0}
    /\ MaxBuffered \in Nat
    /\ AdmitChoices \subseteq BOOLEAN /\ RedCapChoices \subseteq BOOLEAN
    /\ EarlyRelease \in BOOLEAN

VARIABLES
    ueMap,       \* m_ueMap: the context of every RNTI, NoContext where there is none
    pagingList,  \* m_pagingList of the MAC
    edrxMap,     \* the RNTIs with an entry in m_edrxMap of the MAC
    s1Rnti,      \* the RNTI the EPC's bearers lead to (m_teidRbidMap)
    redCap       \* the UE's RedCap flag: chosen once

gnbVars == <<ueMap, pagingList, edrxMap, s1Rnti, redCap>>

NoContext ==
    [state |-> "NONE", pending |-> FALSE, inRACH |-> FALSE, drbs |-> FALSE, buffered |-> 0,
     requestTimeout |-> Off, setupTimeout |-> Off, rejectedTimeout |-> Off,
     inactivityTimeout |-> Off,  \* m_dataInactivityTimeout
     forgotten |-> {},           \* inactivity events whose EventId was overwritten
     switchingBwp |-> Off,       \* m_switchingBwp
     releaseBwp |-> {},          \* BwpSwitchCompleted scheduled by SendRrcRelease
     polling |-> FALSE]          \* ScheduleRrcReconfiguration has rescheduled itself

HasUeManager(r) == r \in Rntis /\ ueMap[r].state # "NONE"

GnbStates == {"NONE", "INITIAL_RANDOM_ACCESS", "CONNECTION_SETUP", "CONNECTION_REJECTED",
              "ATTACH_REQUEST", "CONNECTED_NORMALLY", "CONNECTION_RECONFIGURATION",
              "INACTIVE", "INACTIVE_CONNECTING", "IDLE"}

Contexts ==
    [state : GnbStates, pending : BOOLEAN, inRACH : BOOLEAN, drbs : BOOLEAN,
     buffered : 0..MaxBuffered,
     requestTimeout : Off..ConnectionRequestTimeoutDuration,
     setupTimeout : Off..ConnectionSetupTimeoutDuration,
     rejectedTimeout : Off..ConnectionRejectedTimeoutDuration,
     inactivityTimeout : Off..DataInactivityInterval,
     forgotten : SUBSET (0..DataInactivityInterval),
     switchingBwp : Off..SetupBwpSwitch \cup Off..ResumeBwpSwitch,
     releaseBwp : SUBSET (0..ReleaseBwpSwitch),
     polling : BOOLEAN]

GnbTypeOK ==
    /\ ueMap \in [Rntis -> Contexts]
    /\ pagingList \subseteq Rntis /\ edrxMap \subseteq Rntis
    /\ s1Rnti \in AnyRnti

GnbInit ==
    /\ ueMap = [r \in Rntis |-> NoContext]
    /\ pagingList = {} /\ edrxMap = {} /\ s1Rnti = NoRnti
    /\ redCap \in RedCapChoices

(***************************************************************************)
(* What the handlers do to a context                                       *)
(***************************************************************************)
\* RefreshDataInactivityTimeout.
Refreshed(c) ==
    [c EXCEPT
       !.inactivityTimeout = IF IsRunning(@) THEN DataInactivityInterval ELSE Off,
       !.requestTimeout = IF IsRunning(@) THEN ConnectionRequestTimeoutDuration ELSE Off]

\* CancelPendingEvents.
Cancelled(c) ==
    [c EXCEPT !.requestTimeout = Off, !.setupTimeout = Off, !.rejectedTimeout = Off,
              !.inactivityTimeout = Off]

\* Mutant of Released: the pending events are not cancelled.
ReleasedKeepsTimeouts(c) ==
    [c EXCEPT !.state = IF redCap THEN "INACTIVE" ELSE "IDLE",
              !.releaseBwp = IF redCap THEN @ \cup {ReleaseBwpSwitch} ELSE @]

\* Mutant of Released: the context stays connected.
ReleasedStaysConnected(c) == Cancelled(c)

\* The state switch of SendRrcRelease, and the events it leaves.
Released(c) ==
    [Cancelled(c) EXCEPT
       !.state = IF redCap THEN "INACTIVE" ELSE "IDLE",
       !.releaseBwp = IF redCap THEN @ \cup {ReleaseBwpSwitch} ELSE @]

\* Mutant of Connected: no reconfiguration is scheduled.
ConnectedUnconfigured(c) == [c EXCEPT !.state = "CONNECTED_NORMALLY"]

\* SwitchToState(CONNECTED_NORMALLY): a pending reconfiguration is sent by
\* ScheduleRrcReconfiguration as soon as no bandwidth part is being switched.
Connected(c) ==
    [c EXCEPT !.state = "CONNECTED_NORMALLY", !.polling = @ \/ c.pending]

\* Mutant of AttachRequested: the setup timeout is not cancelled.
AttachRequestedKeepsTimeout(c) ==
    [Refreshed(c) EXCEPT !.state = "ATTACH_REQUEST", !.switchingBwp = SetupBwpSwitch,
                         !.pending = TRUE]

\* The setup is complete.
AttachRequested(c) ==
    [Refreshed(c) EXCEPT !.state = "ATTACH_REQUEST", !.setupTimeout = Off,
                         !.switchingBwp = SetupBwpSwitch, !.pending = TRUE]

\* Mutant of Resumed: the context is not marked as connecting.
ResumedStaysInactive(c) == [c EXCEPT !.inRACH = TRUE]

\* The request of a suspended UE has arrived.
Resumed(c) == [c EXCEPT !.inRACH = TRUE, !.state = "INACTIVE_CONNECTING"]

\* The handlers of a message leave every other context alone.  The grant or the
\* assignment that carried the message counts as data activity.
Context(r, c) == ueMap' = [ueMap EXCEPT ![r] = c]

GnbStops(where) ==
    /\ fatal' = where
    /\ UNCHANGED <<ueMap, pagingList, edrxMap, s1Rnti, ccchDown, dcchDown>>

(***************************************************************************)
(* Contexts                                                                *)
(***************************************************************************)
\* DoAllocateTemporaryCellRnti and AddUe.  m_lastAllocatedRnti goes through all
\* 65535 RNTIs before one comes back: a new one is known to nobody.
AddUe(r) ==
    /\ ueMap[r].state = "NONE"
    /\ Context(r, [NoContext EXCEPT
                     !.state = "INITIAL_RANDOM_ACCESS",
                     !.requestTimeout = ConnectionRequestTimeoutDuration])
    /\ UNCHANGED <<pagingList, edrxMap, s1Rnti>>

\* Events of a context that CancelPendingEvents does not cancel.
KeepsEvents(c) ==
    c.forgotten # {} \/ IsRunning(c.switchingBwp) \/ c.releaseBwp # {} \/ c.polling

\* Mutant of UeContextRelease: the core network is not told.
UeContextReleaseForgotten(r) == UNCHANGED s1Rnti

\* EpcEnbApplication forgets the bearers that were set up with r.
UeContextRelease(r) == s1Rnti' = IF ueMap[r].drbs THEN NoRnti ELSE s1Rnti

\* RemoveUe.  The events it leaves would run on a context that no longer exists.
RemoveUe(r) ==
    IF KeepsEvents(ueMap[r])
    THEN /\ fatal' = "RemovedContext"
         /\ UNCHANGED <<ueMap, s1Rnti, pagingList, edrxMap, ccchDown, dcchDown>>
    ELSE /\ Context(r, NoContext)
         /\ UeContextRelease(r)
         /\ DropChannels(r)
         /\ UNCHANGED <<pagingList, edrxMap, fatal>>

(***************************************************************************)
(* Messages of the UE                                                      *)
(***************************************************************************)
\* The MAC drops what comes from an RNTI without a context.
DropMsg3 ==
    /\ \E m \in ccchUp : ~HasUeManager(m.rnti) /\ ccchUp' = ccchUp \ {m}
    /\ UNCHANGED <<ueMap, pagingList, edrxMap, s1Rnti, ccchDown, dcchUp, dcchDown,
                   removals, fatal>>

DropUp ==
    /\ dcchUp # << >> /\ ~HasUeManager(Head(dcchUp).rnti)
    /\ dcchUp' = Tail(dcchUp)
    /\ UNCHANGED <<ueMap, pagingList, edrxMap, s1Rnti, ccchUp, ccchDown, dcchDown,
                   removals, fatal>>

\* A request is rejected; the context is removed some time later.
Reject(r, c) ==
    /\ Context(r, [c EXCEPT !.inRACH = TRUE, !.state = "CONNECTION_REJECTED",
                            !.rejectedTimeout = ConnectionRejectedTimeoutDuration])
    /\ SendCcchDown("RrcConnectionReject", r)

RecvRrcConnectionRequest(r) ==
    LET m == [rnti |-> r, resumeIdentity |-> NoRnti, sdt |-> FALSE]
        c == ueMap[r]
    IN /\ m \in ccchUp /\ HasUeManager(r)
       /\ ccchUp' = ccchUp \ {m}
       /\ IF c.state # "INITIAL_RANDOM_ACCESS"
          THEN GnbStops("RecvRrcConnectionRequest")
          ELSE /\ \/ /\ TRUE \in AdmitChoices
                     /\ Context(r, [c EXCEPT
                           !.inRACH = TRUE, !.requestTimeout = Off,
                           !.state = "CONNECTION_SETUP",
                           !.setupTimeout = ConnectionSetupTimeoutDuration])
                     /\ SendCcchDown("RrcSetup", r)
                  \/ /\ FALSE \in AdmitChoices
                     /\ Reject(r, [c EXCEPT !.requestTimeout = Off])
               /\ UNCHANGED <<pagingList, edrxMap, s1Rnti, dcchDown, fatal>>
       /\ UNCHANGED <<dcchUp, removals>>

\* The request names the context to resume; it came with the temporary one, whose
\* ConnectionRequestTimeout runs on.
RecvRrcResumeRequest(m) ==
    LET id == m.resumeIdentity
        c  == ueMap[id]
    IN /\ m \in ccchUp /\ id # NoRnti /\ HasUeManager(m.rnti)
       /\ ccchUp' = ccchUp \ {m}
       /\ IF ~HasUeManager(id)
          THEN GnbStops("DoRecvRrcResumeRequest")
          ELSE IF c.state \notin {"INACTIVE", "INACTIVE_CONNECTING"}
          THEN GnbStops("RecvRrcResumeRequest")
          ELSE /\ \/ /\ m.sdt \/ TRUE \in AdmitChoices
                     /\ Context(id, Resumed(c))
                     /\ SendDown(IF m.sdt THEN "RrcReleaseSuspend" ELSE "RrcResume", id)
                     /\ UNCHANGED ccchDown
                  \/ /\ ~m.sdt /\ FALSE \in AdmitChoices
                     /\ Reject(id, c)
                     /\ UNCHANGED dcchDown
               /\ UNCHANGED <<pagingList, edrxMap, s1Rnti, fatal>>
       /\ UNCHANGED <<dcchUp, removals>>

\* DoRecvRrcConnectionSetupCompleted.  The MME answers InitialUeMessage at once.
RecvRrcConnectionSetupCompleted(r) ==
    /\ HasUeManager(r) /\ ReceiveUp("RrcSetupCompleted", r)
    /\ IF ueMap[r].state # "CONNECTION_SETUP"
       THEN GnbStops("RecvRrcConnectionSetupCompleted")
       ELSE /\ Context(r, AttachRequested(ueMap[r]))
            /\ UNCHANGED <<pagingList, edrxMap, s1Rnti, ccchDown, dcchDown, fatal>>
    /\ UNCHANGED <<ccchUp, removals>>

\* DataRadioBearerSetupRequest and InitialContextSetupRequest of the EPC.
InitialContextSetupRequest(r) ==
    /\ ueMap[r].state = "ATTACH_REQUEST"
    /\ Context(r, Connected([ueMap[r] EXCEPT !.drbs = TRUE]))
    /\ s1Rnti' = r
    /\ UNCHANGED <<pagingList, edrxMap, messages, fatal>>

RecvRrcResumeComplete(r) ==
    /\ HasUeManager(r) /\ ReceiveUp("RrcResumeComplete", r)
    /\ IF ueMap[r].state # "INACTIVE_CONNECTING"
       THEN GnbStops("RecvRrcResumeComplete")
       ELSE /\ Context(r, Connected([Refreshed(ueMap[r]) EXCEPT
                  !.switchingBwp = ResumeBwpSwitch, !.pending = TRUE]))
            /\ UNCHANGED <<pagingList, edrxMap, s1Rnti, ccchDown, dcchDown, fatal>>
    /\ UNCHANGED <<ccchUp, removals>>

\* What was buffered goes to PDCP.  In other states the message is ignored.
RecvRrcConnectionReconfigurationCompleted(r) ==
    LET c == [Refreshed(ueMap[r]) EXCEPT !.inRACH = FALSE]
    IN /\ HasUeManager(r) /\ ReceiveUp("RrcReconfigurationCompleted", r)
       /\ Context(r, IF c.state = "CONNECTION_RECONFIGURATION"
                     THEN Connected([c EXCEPT !.buffered = 0]) ELSE c)
       /\ UNCHANGED <<pagingList, edrxMap, s1Rnti, ccchUp, ccchDown, dcchDown, removals, fatal>>

\* DoRecvIdealUeContextRemoveRequest.
DoRecvIdealUeContextRemoveRequest(r) ==
    /\ r \in removals
    /\ removals' = removals \ {r}
    /\ IF HasUeManager(r)
       THEN RemoveUe(r)
       ELSE UNCHANGED <<ueMap, pagingList, edrxMap, s1Rnti, ccchDown, dcchDown, fatal>>
    /\ UNCHANGED <<ccchUp, dcchUp>>

(***************************************************************************)
(* Downlink data, paging and the end of a connection                       *)
(***************************************************************************)
BufferingStates == {"INITIAL_RANDOM_ACCESS", "CONNECTION_SETUP", "INACTIVE",
                    "INACTIVE_CONNECTING"}

\* RecvFromS1uSocket, SendData and DoAddPaging.  A connected UE's packet goes to
\* PDCP, which changes nothing here.
SendData ==
    LET r == s1Rnti
        c == ueMap[r]
    IN /\ r # NoRnti
       /\ IF ~HasUeManager(r)
          THEN GnbStops("SendData") /\ UNCHANGED <<ccchUp, dcchUp, removals>>
          ELSE /\ c.state \notin {"CONNECTED_NORMALLY", "CONNECTION_RECONFIGURATION"}
               /\ c.buffered < MaxBuffered
               /\ IF c.state \notin BufferingStates
                  THEN GnbStops("SendData") /\ UNCHANGED <<ccchUp, dcchUp, removals>>
                  ELSE /\ Context(r, [c EXCEPT !.buffered = @ + 1,
                                         !.state = IF @ = "INACTIVE" THEN "INACTIVE_CONNECTING"
                                                                     ELSE @])
                       /\ pagingList' = IF c.state = "INACTIVE" THEN pagingList \cup {r}
                                                                ELSE pagingList
                       /\ UNCHANGED <<edrxMap, s1Rnti, messages, fatal>>

\* SendPaging of the MAC, at the paging frame of p.
SendPaging(p) ==
    /\ p \in pagingList
    /\ pagingList' = pagingList \ {p}
    /\ UNCHANGED <<ueMap, edrxMap, s1Rnti, messages, fatal>>

\* Mutant of AddEdrx: the release configures no paging cycle.
AddEdrxForgotten(r) == UNCHANGED edrxMap

\* DoAddEdrx, for a UE that is suspended.
AddEdrx(r) == edrxMap' = IF redCap THEN edrxMap \cup {r} ELSE edrxMap

\* SendRrcRelease.  The suspend configuration names the first data radio bearer.
SendRrcRelease(r, c) ==
    IF redCap /\ ~c.drbs
    THEN GnbStops("BuildSuspendConfig")
    ELSE /\ Context(r, Released(c))
         /\ AddEdrx(r)
         /\ SendDown(IF redCap THEN "RrcReleaseSuspend" ELSE "RrcRelease", r)
         /\ UNCHANGED <<pagingList, s1Rnti, ccchDown, fatal>>

\* An empty buffer status report ends the connection early.
TriggerRelease(r) ==
    /\ EarlyRelease
    /\ ueMap[r].state = "CONNECTED_NORMALLY" /\ ~ueMap[r].inRACH
    /\ SendRrcRelease(r, ueMap[r])
    /\ UNCHANGED <<ccchUp, dcchUp, removals>>

\* NotifyDataActivity: a scheduling request, a grant or an assignment for r.
NotifyDataActivity(r) ==
    /\ HasUeManager(r)
    /\ Context(r, Refreshed(ueMap[r]))
    /\ UNCHANGED <<pagingList, edrxMap, s1Rnti>>

(***************************************************************************)
(* Events                                                                  *)
(***************************************************************************)
ConnectionTimeouts(r) ==
    /\ 0 \in {ueMap[r].requestTimeout, ueMap[r].setupTimeout, ueMap[r].rejectedTimeout}
    /\ RemoveUe(r)
    /\ UNCHANGED <<ccchUp, dcchUp, removals>>

\* DataInactivityTimeout, by the current event or by a forgotten one.
DataInactivityTimeout(r) ==
    /\ \/ /\ ueMap[r].inactivityTimeout = 0
          /\ SendRrcRelease(r, ueMap[r])
       \/ /\ 0 \in ueMap[r].forgotten
          /\ SendRrcRelease(r, [ueMap[r] EXCEPT !.forgotten = @ \ {0}])
    /\ UNCHANGED <<ccchUp, dcchUp, removals>>

\* The switch is over: a connection's data inactivity is timed from now on.
BwpSwitched(c) ==
    LET timed == c.state # "INACTIVE"
        old   == c.inactivityTimeout
    IN [c EXCEPT !.switchingBwp = Off,
                 !.inactivityTimeout = IF timed THEN DataInactivityInterval ELSE @,
                 !.forgotten = IF timed /\ IsRunning(old) THEN @ \cup {old} ELSE @]

BwpSwitchCompleted(r) ==
    /\ \/ /\ ueMap[r].switchingBwp = 0
          /\ Context(r, BwpSwitched(ueMap[r]))
       \/ /\ 0 \in ueMap[r].releaseBwp
          /\ Context(r, BwpSwitched([ueMap[r] EXCEPT !.releaseBwp = @ \ {0}]))
    /\ UNCHANGED <<pagingList, edrxMap, s1Rnti, messages, fatal>>

\* ScheduleRrcReconfiguration finds no bandwidth part being switched.
ScheduleRrcReconfiguration(r) ==
    LET c == [ueMap[r] EXCEPT !.polling = FALSE]
    IN /\ ueMap[r].polling /\ ~IsRunning(c.switchingBwp)
       /\ CASE c.state = "CONNECTED_NORMALLY" ->
                 /\ SendDown("RrcReconfiguration", r)
                 /\ Context(r, [c EXCEPT !.pending = FALSE,
                                         !.state = "CONNECTION_RECONFIGURATION"])
                 /\ UNCHANGED <<pagingList, edrxMap, s1Rnti, ccchDown, fatal>>
            [] c.state \in {"INITIAL_RANDOM_ACCESS", "CONNECTION_SETUP", "ATTACH_REQUEST",
                            "CONNECTION_RECONFIGURATION"} ->
                 /\ Context(r, [c EXCEPT !.pending = TRUE])
                 /\ UNCHANGED <<pagingList, edrxMap, s1Rnti, ccchDown, dcchDown, fatal>>
            [] OTHER -> GnbStops("ScheduleRrcReconfiguration")
       /\ UNCHANGED <<ccchUp, dcchUp, removals>>

\* Events of this instant that have not run yet.
GnbEventsDue ==
    \/ removals # {}
    \/ \E r \in Rntis :
        LET c == ueMap[r]
        IN \/ c.state = "ATTACH_REQUEST"
           \/ 0 \in {c.requestTimeout, c.setupTimeout, c.rejectedTimeout,
                     c.inactivityTimeout, c.switchingBwp} \cup c.forgotten \cup c.releaseBwp
           \/ c.polling /\ ~IsRunning(c.switchingBwp)

GnbTick ==
    /\ ueMap' = [r \in Rntis |-> [ueMap[r] EXCEPT
          !.requestTimeout = Countdown(@), !.setupTimeout = Countdown(@),
          !.rejectedTimeout = Countdown(@), !.inactivityTimeout = Countdown(@),
          !.forgotten = {Countdown(t) : t \in @}, !.switchingBwp = Countdown(@),
          !.releaseBwp = {Countdown(t) : t \in @}]]
    /\ UNCHANGED <<pagingList, edrxMap, s1Rnti>>
=============================================================================
