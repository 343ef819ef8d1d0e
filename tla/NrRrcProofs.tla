---------------------------- MODULE NrRrcProofs ----------------------------
(***************************************************************************)
(* Theorems about NrRrc, for every set of RNTIs and all durations.           *)
(*  - The gNB alone, whatever UE, channel and core do: GnbInductive joins    *)
(*    the types of the contexts with what makes a page and a downlink packet *)
(*    safe.                                                                  *)
(*  - Types of the UE and the channels.                                      *)
(*  - UE and gNB together, when the UE starts every connection: RrcInv says  *)
(*    what the UE's state, its context, the events of both and the messages  *)
(*    on their way have to do with each other.                               *)
(*  - The refinement of NrConnection, from RrcInv and AttemptsGuarded.       *)
(*  - UE and gNB together, when the core network sends as well: PagedInv     *)
(*    says what is left of RrcInv, and which errors end the simulation.      *)
(***************************************************************************)
EXTENDS NrRrc, TLAPS

\* The durations of the gNB RRC are numbers.
LEMMA DurationsAreNat ==
    /\ ConnectionRequestTimeoutDuration \in Nat
    /\ ConnectionSetupTimeoutDuration \in Nat
    /\ ConnectionRejectedTimeoutDuration \in Nat
    /\ DataInactivityInterval \in Nat
    /\ SetupBwpSwitch \in Nat
    /\ ResumeBwpSwitch \in Nat
    /\ ReleaseBwpSwitch \in Nat
    /\ MaxBuffered \in Nat
BY GnbRrcAssumption DEF Durations

\* What a countdown of a context is set to.
LEMMA ContextValues ==
    /\ Off \in Off..ConnectionRequestTimeoutDuration
    /\ Off \in Off..ConnectionSetupTimeoutDuration
    /\ Off \in Off..ConnectionRejectedTimeoutDuration
    /\ Off \in Off..DataInactivityInterval
    /\ Off \in Off..SetupBwpSwitch
    /\ ConnectionRequestTimeoutDuration \in Off..ConnectionRequestTimeoutDuration
    /\ ConnectionSetupTimeoutDuration \in Off..ConnectionSetupTimeoutDuration
    /\ ConnectionRejectedTimeoutDuration \in Off..ConnectionRejectedTimeoutDuration
    /\ DataInactivityInterval \in Off..DataInactivityInterval
    /\ SetupBwpSwitch \in Off..SetupBwpSwitch
    /\ ResumeBwpSwitch \in Off..ResumeBwpSwitch
    /\ ReleaseBwpSwitch \in 0..ReleaseBwpSwitch
    /\ 0 \in 0..MaxBuffered
BY DurationsAreNat DEF Off

\* The record of a missing UeManagerNr is a context.
LEMMA NoContextType == NoContext \in Contexts
BY ContextValues DEF NoContext, Contexts, GnbStates

\* Restarting the data-inactivity timer changes neither state nor bearers.
LEMMA RefreshedType ==
    ASSUME NEW c \in Contexts
    PROVE  /\ Refreshed(c) \in Contexts
           /\ Refreshed(c).state = c.state
           /\ Refreshed(c).drbs = c.drbs
BY ContextValues DEF Refreshed, Contexts

\* Cancelling the timers of a context changes neither state nor bearers.
LEMMA CancelledType ==
    ASSUME NEW c \in Contexts
    PROVE  /\ Cancelled(c) \in Contexts
           /\ Cancelled(c).state = c.state
           /\ Cancelled(c).drbs = c.drbs
BY ContextValues DEF Cancelled, Contexts

\* A released context is INACTIVE for a RedCap UE, else IDLE, and keeps its bearers.
LEMMA ReleasedType ==
    ASSUME NEW c \in Contexts
    PROVE  /\ Released(c) \in Contexts
           /\ Released(c).state = IF redCap THEN "INACTIVE" ELSE "IDLE"
           /\ Released(c).drbs = c.drbs
<1> DEFINE d == Cancelled(c)
<1>1. d \in Contexts /\ d.drbs = c.drbs
    BY CancelledType
<1>2. d.releaseBwp \cup {ReleaseBwpSwitch} \in SUBSET (0..ReleaseBwpSwitch)
    BY <1>1, ContextValues DEF Contexts
<1> HIDE DEF d
<1> QED BY <1>1, <1>2 DEF Released, Contexts, GnbStates, d

\* Becoming connected keeps the bearers.
LEMMA ConnectedType ==
    ASSUME NEW c \in Contexts
    PROVE  /\ Connected(c) \in Contexts
           /\ Connected(c).state = "CONNECTED_NORMALLY"
           /\ Connected(c).drbs = c.drbs
BY DEF Connected, Contexts, GnbStates

\* A bandwidth part switch changes neither state nor bearers.
LEMMA BwpSwitchedType ==
    ASSUME NEW c \in Contexts
    PROVE  /\ BwpSwitched(c) \in Contexts
           /\ BwpSwitched(c).state = c.state
           /\ BwpSwitched(c).drbs = c.drbs
<1>1. c.forgotten \in SUBSET (0..DataInactivityInterval)
    BY DEF Contexts
<1>2. c.inactivityTimeout # Off => c.inactivityTimeout \in 0..DataInactivityInterval
    BY DurationsAreNat DEF Contexts, Off
<1>3. ASSUME NEW t \in 0..DataInactivityInterval
      PROVE  c.forgotten \cup {t} \in SUBSET (0..DataInactivityInterval)
    BY <1>1
<1> QED BY <1>1, <1>2, <1>3, ContextValues DEF BwpSwitched, Contexts, IsRunning

-----------------------------------------------------------------------------
SuspendedStates == {"INACTIVE", "INACTIVE_CONNECTING"}

\* A context that was suspended has a paging cycle.
SuspendedHaveCycle ==
    \A r \in Rntis : ueMap[r].state \in SuspendedStates => r \in edrxMap

\* The context that the EPC's bearers lead to has bearers itself.
BearersHaveContext ==
    s1Rnti # NoRnti => HasUeManager(s1Rnti) /\ ueMap[s1Rnti].drbs

GnbInductive == GnbTypeOK /\ SuspendedHaveCycle /\ BearersHaveContext /\ PagingFrameIsDefined

\* A step that changes one context preserves the invariant if the new context has a
\* cycle where it needs one and bearers where the core network relies on them.
LEMMA ContextStep ==
    ASSUME GnbInductive, NEW r \in Rntis, NEW c \in Contexts, Context(r, c),
           s1Rnti' \in {s1Rnti, r, NoRnti},
           s1Rnti' = r => c.state # "NONE" /\ c.drbs,
           edrxMap' \in SUBSET Rntis, edrxMap \subseteq edrxMap',
           c.state \in SuspendedStates => r \in edrxMap',
           pagingList' \subseteq edrxMap'
    PROVE  GnbInductive'
<1> USE DEF GnbInductive
<1>1. ueMap' = [ueMap EXCEPT ![r] = c] /\ ueMap \in [Rntis -> Contexts]
    BY DEF Context, GnbTypeOK
<1>2. ueMap'[r] = c /\ \A q \in Rntis : q # r => ueMap'[q] = ueMap[q]
    BY <1>1
<1>3. GnbTypeOK'
    BY <1>1 DEF GnbTypeOK, AnyRnti
<1>4. SuspendedHaveCycle'
    BY <1>2 DEF SuspendedHaveCycle
<1>5. BearersHaveContext'
    BY <1>2 DEF BearersHaveContext, HasUeManager
<1> QED BY <1>3, <1>4, <1>5 DEF PagingFrameIsDefined

\* A step that changes none.
LEMMA ContextsUnchanged ==
    ASSUME GnbInductive, UNCHANGED <<ueMap, pagingList, edrxMap, s1Rnti>>
    PROVE  GnbInductive'
BY DEF GnbInductive, GnbTypeOK, SuspendedHaveCycle, BearersHaveContext, HasUeManager,
       PagingFrameIsDefined

\* What ContextStep asks for where a handler leaves the lists alone.
LEMMA PlainContextStep ==
    ASSUME GnbInductive, NEW r \in Rntis, NEW c \in Contexts, Context(r, c),
           UNCHANGED <<pagingList, edrxMap, s1Rnti>>,
           ueMap[r].state # "NONE" => c.state # "NONE", ueMap[r].drbs => c.drbs,
           c.state \in SuspendedStates => ueMap[r].state \in SuspendedStates
    PROVE  GnbInductive'
<1> USE DEF GnbInductive
<1>1. s1Rnti' \in {s1Rnti, r, NoRnti} /\ (s1Rnti' = r => c.state # "NONE" /\ c.drbs)
    BY RrcProtocolAssumption DEF BearersHaveContext, HasUeManager, NoRnti
<1>2. c.state \in SuspendedStates => r \in edrxMap'
    BY DEF SuspendedHaveCycle
<1> QED BY <1>1, <1>2, ContextStep DEF GnbTypeOK, PagingFrameIsDefined

\* A new temporary RNTI starts without bearers and is not the one of the S1 tunnel.
LEMMA AddUeStep ==
    ASSUME GnbInductive, NEW r \in Rntis, AddUe(r)
    PROVE  GnbInductive'
<1> DEFINE c == [NoContext EXCEPT !.state = "INITIAL_RANDOM_ACCESS",
                                  !.requestTimeout = ConnectionRequestTimeoutDuration]
<1>1. c \in Contexts /\ c.state = "INITIAL_RANDOM_ACCESS"
    BY NoContextType, ContextValues DEF Contexts, GnbStates
<1>2. s1Rnti' # r
    BY RrcProtocolAssumption DEF AddUe, GnbInductive, BearersHaveContext, HasUeManager, NoRnti
<1>3. Context(r, c)
    BY DEF AddUe
<1> HIDE DEF c
<1> QED BY <1>1, <1>2, <1>3, ContextStep
        DEF AddUe, GnbInductive, GnbTypeOK, PagingFrameIsDefined, SuspendedStates

\* A removed context leaves the S1 tunnel as well.
LEMMA RemoveUeStep ==
    ASSUME GnbInductive, NEW r \in Rntis, RemoveUe(r)
    PROVE  GnbInductive'
<1>1. CASE KeepsEvents(ueMap[r])
    BY <1>1, ContextsUnchanged DEF RemoveUe
<1>2. CASE ~KeepsEvents(ueMap[r])
    <2>1. Context(r, NoContext) /\ UeContextRelease(r) /\ UNCHANGED <<pagingList, edrxMap>>
        BY <1>2 DEF RemoveUe
    <2>2. s1Rnti' \in {s1Rnti, NoRnti} /\ s1Rnti' # r
        BY <2>1, RrcProtocolAssumption
        DEF UeContextRelease, GnbInductive, BearersHaveContext, NoRnti
    <2>3. NoContext.state \notin SuspendedStates
        BY DEF NoContext, SuspendedStates
    <2> QED BY <2>1, <2>2, <2>3, NoContextType, ContextStep
            DEF GnbInductive, GnbTypeOK, PagingFrameIsDefined
<1> QED BY <1>1, <1>2

\* A rejected context and one whose setup has begun.
LEMMA RejectStep ==
    ASSUME GnbInductive, NEW r \in Rntis, NEW c \in Contexts, c.drbs = ueMap[r].drbs,
           Reject(r, c), UNCHANGED <<pagingList, edrxMap, s1Rnti>>
    PROVE  GnbInductive'
<1> DEFINE d == [c EXCEPT !.inRACH = TRUE, !.state = "CONNECTION_REJECTED",
                          !.rejectedTimeout = ConnectionRejectedTimeoutDuration]
<1>1. d \in Contexts /\ d.state = "CONNECTION_REJECTED" /\ d.drbs = c.drbs
    BY ContextValues DEF Contexts, GnbStates
<1>2. Context(r, d)
    BY DEF Reject
<1> HIDE DEF d
<1> QED BY <1>1, <1>2, PlainContextStep DEF SuspendedStates

\* Msg3 with a connection request is admitted, rejected or ignored.
LEMMA ConnectionRequestStep ==
    ASSUME GnbInductive, NEW r \in Rntis, RecvRrcConnectionRequest(r)
    PROVE  GnbInductive'
<1> DEFINE c == ueMap[r]
           a == [c EXCEPT !.inRACH = TRUE, !.requestTimeout = Off,
                          !.state = "CONNECTION_SETUP",
                          !.setupTimeout = ConnectionSetupTimeoutDuration]
           d == [c EXCEPT !.requestTimeout = Off]
<1>0. c \in Contexts
    BY DEF GnbInductive, GnbTypeOK
<1>1. CASE c.state # "INITIAL_RANDOM_ACCESS"
    BY <1>1, ContextsUnchanged DEF RecvRrcConnectionRequest, GnbStops
<1>2. CASE c.state = "INITIAL_RANDOM_ACCESS"
    <2>1. /\ Context(r, a) \/ Reject(r, d)
          /\ UNCHANGED <<pagingList, edrxMap, s1Rnti>>
        BY <1>2 DEF RecvRrcConnectionRequest
    <2>2. a \in Contexts /\ a.state = "CONNECTION_SETUP" /\ a.drbs = c.drbs
        BY <1>0, ContextValues DEF Contexts, GnbStates
    <2>3. d \in Contexts /\ d.drbs = c.drbs
        BY <1>0, ContextValues DEF Contexts
    <2> HIDE DEF a, d
    <2>4. CASE Context(r, a)
        BY <2>1, <2>2, <2>4, PlainContextStep DEF SuspendedStates
    <2>5. CASE Reject(r, d)
        BY <2>1, <2>3, <2>5, RejectStep
    <2> QED BY <2>1, <2>4, <2>5
<1> QED BY <1>1, <1>2

\* Msg3 with a resume request: the context moves or becomes a small data transmission.
LEMMA ResumeRequestStep ==
    ASSUME GnbInductive, NEW m \in ccchUp, RecvRrcResumeRequest(m)
    PROVE  GnbInductive'
<1> DEFINE id == m.resumeIdentity
           c == ueMap[id]
<1>1. CASE ~HasUeManager(id)
    BY <1>1, ContextsUnchanged DEF RecvRrcResumeRequest, GnbStops
<1>2. CASE HasUeManager(id) /\ c.state \notin SuspendedStates
    BY <1>2, ContextsUnchanged DEF RecvRrcResumeRequest, GnbStops, SuspendedStates
<1>3. CASE HasUeManager(id) /\ c.state \in SuspendedStates
    <2>1. /\ Context(id, Resumed(c)) \/ Reject(id, c)
          /\ UNCHANGED <<pagingList, edrxMap, s1Rnti>>
        BY <1>3 DEF RecvRrcResumeRequest, SuspendedStates
    <2>2. id \in Rntis /\ c \in Contexts
        BY <1>3 DEF HasUeManager, GnbInductive, GnbTypeOK
    <2>3. /\ Resumed(c) \in Contexts /\ Resumed(c).drbs = c.drbs
          /\ Resumed(c).state = "INACTIVE_CONNECTING"
        BY <2>2 DEF Resumed, Contexts, GnbStates
    <2> HIDE DEF id, c
    <2>4. CASE Context(id, Resumed(c))
        BY <1>3, <2>1, <2>2, <2>3, <2>4, PlainContextStep DEF SuspendedStates, c
    <2>5. CASE Reject(id, c)
        BY <2>1, <2>2, <2>5, RejectStep DEF c
    <2> QED BY <2>1, <2>4, <2>5
<1> QED BY <1>1, <1>2, <1>3

\* RRCSetupComplete starts the reconfiguration of the bearers.
LEMMA SetupCompletedStep ==
    ASSUME GnbInductive, NEW r \in Rntis, RecvRrcConnectionSetupCompleted(r)
    PROVE  GnbInductive'
<1> DEFINE c == Refreshed(ueMap[r])
           d == AttachRequested(ueMap[r])
<1>1. CASE ueMap[r].state # "CONNECTION_SETUP"
    BY <1>1, ContextsUnchanged DEF RecvRrcConnectionSetupCompleted, GnbStops
<1>2. CASE ueMap[r].state = "CONNECTION_SETUP"
    <2>1. Context(r, d) /\ UNCHANGED <<pagingList, edrxMap, s1Rnti>>
        BY <1>2 DEF RecvRrcConnectionSetupCompleted
    <2>2. c \in Contexts /\ c.drbs = ueMap[r].drbs
        BY RefreshedType DEF GnbInductive, GnbTypeOK
    <2> HIDE DEF c
    <2>3. d \in Contexts /\ d.drbs = c.drbs /\ d.state = "ATTACH_REQUEST"
        BY <2>2, ContextValues DEF AttachRequested, Contexts, GnbStates, c
    <2> HIDE DEF d
    <2> QED BY <2>1, <2>2, <2>3, PlainContextStep DEF SuspendedStates
<1> QED BY <1>1, <1>2

\* RRCResumeComplete connects the UE.
LEMMA ResumeCompleteStep ==
    ASSUME GnbInductive, NEW r \in Rntis, RecvRrcResumeComplete(r)
    PROVE  GnbInductive'
<1> DEFINE c == Refreshed(ueMap[r])
           d == [c EXCEPT !.switchingBwp = ResumeBwpSwitch, !.pending = TRUE]
<1>1. CASE ueMap[r].state # "INACTIVE_CONNECTING"
    BY <1>1, ContextsUnchanged DEF RecvRrcResumeComplete, GnbStops
<1>2. CASE ueMap[r].state = "INACTIVE_CONNECTING"
    <2>1. Context(r, Connected(d)) /\ UNCHANGED <<pagingList, edrxMap, s1Rnti>>
        BY <1>2 DEF RecvRrcResumeComplete
    <2>2. c \in Contexts /\ c.drbs = ueMap[r].drbs
        BY RefreshedType DEF GnbInductive, GnbTypeOK
    <2> HIDE DEF c
    <2>3. d \in Contexts /\ d.drbs = c.drbs
        BY <2>2, ContextValues DEF Contexts
    <2> HIDE DEF d
    <2> QED BY <2>1, <2>2, <2>3, ConnectedType, PlainContextStep DEF SuspendedStates
<1> QED BY <1>1, <1>2

\* RRCReconfigurationComplete connects the UE.
LEMMA ReconfigurationCompletedStep ==
    ASSUME GnbInductive, NEW r \in Rntis, RecvRrcConnectionReconfigurationCompleted(r)
    PROVE  GnbInductive'
<1> DEFINE b == Refreshed(ueMap[r])
           c == [b EXCEPT !.inRACH = FALSE]
           d == [c EXCEPT !.buffered = 0]
           e == IF c.state = "CONNECTION_RECONFIGURATION" THEN Connected(d) ELSE c
<1>1. /\ Context(r, e) /\ HasUeManager(r)
      /\ UNCHANGED <<pagingList, edrxMap, s1Rnti>>
    BY DEF RecvRrcConnectionReconfigurationCompleted
<1>2. b \in Contexts /\ b.drbs = ueMap[r].drbs /\ b.state = ueMap[r].state
    BY RefreshedType DEF GnbInductive, GnbTypeOK
<1> HIDE DEF b
<1>3. c \in Contexts /\ c.drbs = b.drbs /\ c.state = b.state
    BY <1>2 DEF Contexts
<1> HIDE DEF c
<1>4. d \in Contexts /\ d.drbs = c.drbs
    BY <1>3, ContextValues DEF Contexts
<1> HIDE DEF d
<1>5. e \in Contexts /\ e.drbs = c.drbs /\ e.state \in {c.state, "CONNECTED_NORMALLY"}
    BY <1>3, <1>4, ConnectedType
<1> HIDE DEF e
<1> QED BY <1>1, <1>2, <1>3, <1>5, PlainContextStep DEF HasUeManager, SuspendedStates

\* The core points its tunnel at a context that has bearers.
LEMMA InitialContextSetupStep ==
    ASSUME GnbInductive, NEW r \in Rntis, InitialContextSetupRequest(r)
    PROVE  GnbInductive'
<1> DEFINE c == [ueMap[r] EXCEPT !.drbs = TRUE]
<1>1. Context(r, Connected(c)) /\ s1Rnti' = r /\ UNCHANGED <<pagingList, edrxMap>>
    BY DEF InitialContextSetupRequest
<1>2. c \in Contexts /\ c.drbs
    BY DEF GnbInductive, GnbTypeOK, Contexts
<1> HIDE DEF c
<1>3. /\ Connected(c) \in Contexts /\ Connected(c).state = "CONNECTED_NORMALLY"
      /\ Connected(c).drbs
    BY <1>2, ConnectedType
<1> QED BY <1>1, <1>3, ContextStep
        DEF GnbInductive, GnbTypeOK, PagingFrameIsDefined, SuspendedStates

\* Downlink data goes to a context, a page or the buffer.
LEMMA SendDataStep ==
    ASSUME GnbInductive, SendData
    PROVE  GnbInductive'
<1> DEFINE r == s1Rnti
           c == ueMap[r]
           d == [c EXCEPT !.buffered = @ + 1,
                          !.state = IF @ = "INACTIVE" THEN "INACTIVE_CONNECTING" ELSE @]
<1>1. CASE GnbStops("SendData")
    BY <1>1, ContextsUnchanged DEF GnbStops
<1>2. CASE ~GnbStops("SendData")
    <2>1. /\ HasUeManager(r) /\ c.buffered < MaxBuffered
          /\ Context(r, d)
          /\ pagingList' = IF c.state = "INACTIVE" THEN pagingList \cup {r} ELSE pagingList
          /\ UNCHANGED <<edrxMap, s1Rnti>>
        BY <1>2 DEF SendData
    <2>2. r \in Rntis /\ c \in Contexts /\ c.state # "NONE"
        BY <2>1 DEF HasUeManager, GnbInductive, GnbTypeOK
    <2>3. c.buffered + 1 \in 0..MaxBuffered
        BY <2>1, <2>2, DurationsAreNat DEF Contexts
    <2>4. d \in Contexts /\ d.drbs = c.drbs /\ d.state \in {c.state, "INACTIVE_CONNECTING"}
          /\ (d.state = "INACTIVE_CONNECTING" => c.state \in SuspendedStates)
        BY <2>2, <2>3 DEF Contexts, GnbStates, SuspendedStates
    <2>5. c.drbs /\ (c.state \in SuspendedStates => r \in edrxMap)
        BY <2>1, <2>2 DEF GnbInductive, BearersHaveContext, SuspendedHaveCycle, HasUeManager,
                          NoRnti, SendData
    <2>6. pagingList' \subseteq edrxMap'
        BY <2>1, <2>5 DEF GnbInductive, PagingFrameIsDefined, SuspendedStates
    <2>7. d.state # "NONE" /\ d.drbs /\ (d.state \in SuspendedStates => r \in edrxMap')
        BY <2>1, <2>2, <2>4, <2>5 DEF SuspendedStates
    <2> HIDE DEF d
    <2> QED BY <2>1, <2>2, <2>4, <2>6, <2>7, ContextStep DEF GnbInductive, GnbTypeOK
<1> QED BY <1>1, <1>2

\* A page is only computed for an RNTI with an eDRX cycle.
LEMMA SendPagingStep ==
    ASSUME GnbInductive, NEW p \in Rntis, SendPaging(p)
    PROVE  GnbInductive'
BY DEF GnbInductive, GnbTypeOK, SuspendedHaveCycle, BearersHaveContext, HasUeManager,
       PagingFrameIsDefined, SendPaging

\* A release configures the cycle in the step that suspends the context.
LEMMA SendRrcReleaseStep ==
    ASSUME GnbInductive, NEW r \in Rntis, NEW c \in Contexts, c.drbs = ueMap[r].drbs,
           SendRrcRelease(r, c)
    PROVE  GnbInductive'
<1>1. CASE redCap /\ ~c.drbs
    BY <1>1, ContextsUnchanged DEF SendRrcRelease, GnbStops
<1>2. CASE ~(redCap /\ ~c.drbs)
    <2>1. Context(r, Released(c)) /\ AddEdrx(r) /\ UNCHANGED <<pagingList, s1Rnti>>
        BY <1>2 DEF SendRrcRelease
    <2>2. /\ Released(c) \in Contexts /\ Released(c).drbs = c.drbs
          /\ Released(c).state = IF redCap THEN "INACTIVE" ELSE "IDLE"
        BY ReleasedType
    <2>3. /\ edrxMap' \in SUBSET Rntis /\ edrxMap \subseteq edrxMap'
          /\ redCap => r \in edrxMap'
        BY <2>1 DEF AddEdrx, GnbInductive, GnbTypeOK
    <2>4. Released(c).state \in SuspendedStates => r \in edrxMap'
        BY <2>2, <2>3 DEF SuspendedStates
    <2>5. s1Rnti' = r => Released(c).state # "NONE" /\ Released(c).drbs
        BY <2>1, <2>2, RrcProtocolAssumption DEF GnbInductive, BearersHaveContext, NoRnti
    <2>6. pagingList' \subseteq edrxMap'
        BY <2>1, <2>3 DEF GnbInductive, PagingFrameIsDefined
    <2> QED BY <2>1, <2>2, <2>3, <2>4, <2>5, <2>6, ContextStep
<1> QED BY <1>1, <1>2

\* The data-inactivity timer releases or suspends the UE.
LEMMA DataInactivityStep ==
    ASSUME GnbInductive, NEW r \in Rntis, DataInactivityTimeout(r) \/ TriggerRelease(r)
    PROVE  GnbInductive'
<1> DEFINE d == [ueMap[r] EXCEPT !.forgotten = @ \ {0}]
<1>1. SendRrcRelease(r, ueMap[r]) \/ SendRrcRelease(r, d)
    BY DEF DataInactivityTimeout, TriggerRelease
<1>2. ueMap[r] \in Contexts
    BY DEF GnbInductive, GnbTypeOK
<1>3. ueMap[r].forgotten \ {0} \in SUBSET (0..DataInactivityInterval)
    BY <1>2 DEF Contexts
<1>4. d \in Contexts /\ d.drbs = ueMap[r].drbs
    BY <1>2, <1>3 DEF Contexts
<1> HIDE DEF d
<1> QED BY <1>1, <1>2, <1>4, SendRrcReleaseStep

\* Reported activity restarts the data-inactivity timer.
LEMMA NotifyDataActivityStep ==
    ASSUME GnbInductive, NEW r, NotifyDataActivity(r)
    PROVE  GnbInductive'
<1>1. r \in Rntis /\ HasUeManager(r) /\ ueMap[r] \in Contexts
    BY DEF NotifyDataActivity, HasUeManager, GnbInductive, GnbTypeOK
<1> QED BY <1>1, RefreshedType, PlainContextStep DEF NotifyDataActivity, HasUeManager

\* The delayed bandwidth part switches and the release behind them.
LEMMA BwpSwitchStep ==
    ASSUME GnbInductive, NEW r \in Rntis, BwpSwitchCompleted(r)
    PROVE  GnbInductive'
<1> DEFINE c == ueMap[r]
           d == [c EXCEPT !.releaseBwp = @ \ {0}]
<1>1. /\ Context(r, BwpSwitched(c)) \/ Context(r, BwpSwitched(d))
      /\ UNCHANGED <<pagingList, edrxMap, s1Rnti>>
    BY DEF BwpSwitchCompleted
<1>2. c \in Contexts
    BY DEF GnbInductive, GnbTypeOK
<1>3. c.releaseBwp \ {0} \in SUBSET (0..ReleaseBwpSwitch)
    BY <1>2 DEF Contexts
<1>4. d \in Contexts /\ d.drbs = c.drbs /\ d.state = c.state
    BY <1>2, <1>3 DEF Contexts
<1> HIDE DEF c, d
<1> QED BY <1>1, <1>2, <1>4, BwpSwitchedType, PlainContextStep DEF c

\* ScheduleRrcReconfiguration, which reschedules itself until the UE may be reconfigured.
LEMMA ReconfigurationStep ==
    ASSUME GnbInductive, NEW r \in Rntis, ScheduleRrcReconfiguration(r)
    PROVE  GnbInductive'
<1> DEFINE c == [ueMap[r] EXCEPT !.polling = FALSE]
           d == [c EXCEPT !.pending = FALSE, !.state = "CONNECTION_RECONFIGURATION"]
           e == [c EXCEPT !.pending = TRUE]
           W == {"INITIAL_RANDOM_ACCESS", "CONNECTION_SETUP", "ATTACH_REQUEST",
                 "CONNECTION_RECONFIGURATION"}
<1>1. c \in Contexts /\ c.drbs = ueMap[r].drbs /\ c.state = ueMap[r].state
    BY DEF GnbInductive, GnbTypeOK, Contexts
<1>2. CASE c.state = "CONNECTED_NORMALLY"
    <2>1. Context(r, d) /\ UNCHANGED <<pagingList, edrxMap, s1Rnti>>
        BY <1>2 DEF ScheduleRrcReconfiguration
    <2>2. d \in Contexts /\ d.drbs = c.drbs /\ d.state = "CONNECTION_RECONFIGURATION"
        BY <1>1 DEF Contexts, GnbStates
    <2> HIDE DEF c, d
    <2> QED BY <1>1, <2>1, <2>2, PlainContextStep DEF SuspendedStates
<1>3. CASE c.state \in W
    <2>1. Context(r, e) /\ UNCHANGED <<pagingList, edrxMap, s1Rnti>>
        BY <1>3 DEF ScheduleRrcReconfiguration
    <2>2. e \in Contexts /\ e.drbs = c.drbs /\ e.state = c.state
        BY <1>1 DEF Contexts
    <2>3. c.state # "NONE" /\ c.state \notin SuspendedStates
        BY <1>3 DEF SuspendedStates
    <2> HIDE DEF c, e
    <2> QED BY <1>1, <2>1, <2>2, <2>3, PlainContextStep
<1>4. CASE c.state # "CONNECTED_NORMALLY" /\ c.state \notin W
    BY <1>4, ContextsUnchanged DEF ScheduleRrcReconfiguration, GnbStops
<1> QED BY <1>2, <1>3, <1>4

\* A countdown stays in its range.
LEMMA CountdownRange ==
    ASSUME NEW n \in Nat
    PROVE  /\ \A t \in Off..n : Countdown(t) \in Off..n
           /\ \A t \in 0..n : Countdown(t) \in 0..n
BY DEF Countdown, Off

\* A context after a tick.
Ticked(c) ==
    [c EXCEPT
      !.requestTimeout = Countdown(@), !.setupTimeout = Countdown(@),
      !.rejectedTimeout = Countdown(@), !.inactivityTimeout = Countdown(@),
      !.forgotten = {Countdown(t) : t \in @}, !.switchingBwp = Countdown(@),
      !.releaseBwp = {Countdown(t) : t \in @}]

\* Time passes for every context at once.
LEMMA GnbTickStep ==
    ASSUME GnbInductive, GnbTick
    PROVE  GnbInductive'
<1>1. /\ ueMap' = [r \in Rntis |-> Ticked(ueMap[r])]
      /\ UNCHANGED <<pagingList, edrxMap, s1Rnti>>
    BY DEF GnbTick, Ticked
<1>2. ASSUME NEW c \in Contexts
      PROVE  Ticked(c) \in Contexts /\ Ticked(c).state = c.state /\ Ticked(c).drbs = c.drbs
    <2>1. /\ Countdown(c.requestTimeout) \in Off..ConnectionRequestTimeoutDuration
          /\ Countdown(c.setupTimeout) \in Off..ConnectionSetupTimeoutDuration
          /\ Countdown(c.rejectedTimeout) \in Off..ConnectionRejectedTimeoutDuration
          /\ Countdown(c.inactivityTimeout) \in Off..DataInactivityInterval
          /\ Countdown(c.switchingBwp) \in Off..SetupBwpSwitch \cup Off..ResumeBwpSwitch
        BY DurationsAreNat, CountdownRange DEF Contexts
    <2>2. {Countdown(t) : t \in c.forgotten} \in SUBSET (0..DataInactivityInterval)
        BY DurationsAreNat, CountdownRange DEF Contexts
    <2>3. {Countdown(t) : t \in c.releaseBwp} \in SUBSET (0..ReleaseBwpSwitch)
        BY DurationsAreNat, CountdownRange DEF Contexts
    <2> QED BY <2>1, <2>2, <2>3 DEF Contexts, Ticked
<1>3. ueMap' \in [Rntis -> Contexts]
    BY <1>1, <1>2 DEF GnbInductive, GnbTypeOK
<1>4. \A r \in Rntis : ueMap'[r].state = ueMap[r].state /\ ueMap'[r].drbs = ueMap[r].drbs
    BY <1>1, <1>2 DEF GnbInductive, GnbTypeOK
<1> QED BY <1>1, <1>3, <1>4 DEF GnbInductive, GnbTypeOK, SuspendedHaveCycle,
            BearersHaveContext, HasUeManager, PagingFrameIsDefined

\* Every step of the composition preserves it.
LEMMA GnbNextInductive == GnbInductive /\ [Next]_vars => GnbInductive'
<1> SUFFICES ASSUME GnbInductive, [Next]_vars PROVE GnbInductive'
    OBVIOUS
<1>0. CASE UNCHANGED <<ueMap, pagingList, edrxMap, s1Rnti>>
    BY <1>0, ContextsUnchanged
<1>1. CASE UNCHANGED vars \/ Ended
    BY <1>0, <1>1 DEF vars, gnbVars, Ended
<1>2. CASE UeEvent \/ UeInput \/ Lose
    BY <1>0, <1>2 DEF UeEvent, UeInput, Lose, contexts
<1>3. CASE Deliver
    BY <1>3, NotifyDataActivityStep DEF Deliver
<1>4. CASE GnbReceive
    <2>1. CASE DropMsg3 \/ DropUp
        BY <1>0, <2>1 DEF DropMsg3, DropUp
    <2> QED BY <1>4, <2>1, ConnectionRequestStep, SetupCompletedStep, ResumeCompleteStep,
               ReconfigurationCompletedStep, ResumeRequestStep DEF GnbReceive
<1>5. CASE GnbEvent
    <2>1. ASSUME NEW r \in Rntis, ConnectionTimeouts(r)
          PROVE  GnbInductive'
        BY <2>1, RemoveUeStep DEF ConnectionTimeouts
    <2>2. ASSUME NEW r, DoRecvIdealUeContextRemoveRequest(r)
          PROVE  GnbInductive'
        BY <1>0, <2>2, RemoveUeStep DEF DoRecvIdealUeContextRemoveRequest, HasUeManager
    <2> QED BY <1>5, <2>1, <2>2, InitialContextSetupStep, DataInactivityStep, BwpSwitchStep,
               ReconfigurationStep DEF GnbEvent
<1>6. CASE Tick
    BY <1>6, GnbTickStep DEF Tick
<1>7. CASE GnbInput
    BY <1>7, SendDataStep, DataInactivityStep, NotifyDataActivityStep DEF GnbInput
<1>8. ASSUME NEW r \in Rntis, RandomAccess(r) \/ RarIsMissed(r) \/ Page(r)
      PROVE  GnbInductive'
    BY <1>8, AddUeStep, SendPagingStep DEF RandomAccess, RarIsMissed, Page
<1> QED BY <1>1, <1>2, <1>3, <1>4, <1>5, <1>6, <1>7, <1>8 DEF Next, Proceed, Input

\* The cell starts without contexts.
LEMMA GnbStartsEmpty == Init => GnbInductive
<1> SUFFICES ASSUME Init PROVE GnbInductive
    OBVIOUS
<1>1. ueMap \in [Rntis -> Contexts] /\ \A r \in Rntis : ueMap[r].state = "NONE"
    BY NoContextType DEF Init, GnbInit, NoContext
<1> QED BY <1>1 DEF Init, GnbInit, GnbInductive, GnbTypeOK, SuspendedHaveCycle,
        SuspendedStates, BearersHaveContext, PagingFrameIsDefined, AnyRnti

\* GnbInductive is an invariant of the composition.
LEMMA GnbInvariant == Spec => []GnbInductive
BY GnbStartsEmpty, GnbNextInductive, PTL DEF Spec

\* NrGnbMac::SendPaging finds a paging cycle for every RNTI on its list, whatever
\* the durations, delays and losses: UeManagerNr::SendData queues a page only for
\* a suspended context, and SendRrcRelease configures the cycle when it suspends.
THEOREM PagingFrameCorrect == Spec => []PagingFrameIsDefined
<1>1. GnbInductive => PagingFrameIsDefined BY DEF GnbInductive
<1> QED BY <1>1, GnbInvariant, PTL

\* The core network never sends to an RNTI without a context: RemoveUe tells the
\* EPC, and the context the bearers lead to is always one with bearers.
THEOREM DownlinkHasContextCorrect == Spec => []DownlinkHasContext
<1>1. GnbInductive => DownlinkHasContext
    BY DEF GnbInductive, BearersHaveContext, DownlinkHasContext
<1> QED BY <1>1, GnbInvariant, PTL

-----------------------------------------------------------------------------
(***************************************************************************)
(* Types of the UE and the channels                                         *)
(***************************************************************************)
UeConstants == /\ T300 \in Nat \ {0} /\ ConnEstFailLimit \in Nat \ {0}
               /\ MaxStored \in Nat \ {0} /\ ProcDelay \in Nat \ {0} /\ MaxDelay \in Nat

LEMMA UeConstantsAreNat == UeConstants
BY UeRrcAssumption, RrcProtocolAssumption, RrcAssumption DEF UeConstants

\* What StartConnection, ResumeConnection and SwitchToState compute.
Attempts == [state : UeStates, pending : BOOLEAN, access : BOOLEAN]

LEMMA AttemptTypes ==
    ASSUME NEW c \in Attempts
    PROVE  /\ StartConnection(c) \in Attempts
           /\ ResumeConnection(c) \in Attempts
           /\ \A sib2 : /\ SwitchToState(c, "IDLE_CAMPED_NORMALLY", sib2) \in Attempts
                        /\ SwitchToState(c, "INACTIVE", sib2) \in Attempts
           /\ Connect(c) \in Attempts
<1>1. ASSUME NEW d \in Attempts
      PROVE  StartConnection(d) \in Attempts /\ ResumeConnection(d) \in Attempts
    BY DEF StartConnection, ResumeConnection, Attempts, UeStates
<1>2. ASSUME NEW sib2, NEW s \in {"IDLE_CAMPED_NORMALLY", "INACTIVE"}
      PROVE  SwitchToState(c, s, sib2) \in Attempts
    <2> DEFINE e == [c EXCEPT !.state = s]
    <2>1. e \in Attempts
        BY DEF Attempts, UeStates
    <2> QED BY <1>1, <2>1 DEF SwitchToState
<1>3. Connect(c) \in Attempts
    BY <1>2 DEF Connect, Attempts
<1> QED BY <1>1, <1>2, <1>3

\* The three variables that an attempt changes.
LEMMA BecomesType ==
    ASSUME NEW c \in Attempts, Becomes(c)
    PROVE  ueState' \in UeStates /\ connectionPending' \in BOOLEAN /\ accessing' \in BOOLEAN
BY DEF Becomes, Attempts

LEMMA NowType ==
    ASSUME UeTypeOK
    PROVE  Now \in Attempts
BY DEF UeTypeOK, UeFlagsOK, Now, Attempts

UeSideOK == UeTypeOK /\ ChannelsOK

\* What a step leaves alone keeps its type.
LEMMA UeSideUnchanged ==
    ASSUME UeSideOK, UNCHANGED <<ueVars, messages>>
    PROVE  UeSideOK'
BY DEF UeSideOK, UeTypeOK, UeFlagsOK, ChannelsOK, ueVars, ueFlags, messages

LEMMA DoSendDataType ==
    ASSUME UeSideOK, DoSendData
    PROVE  UeSideOK'
<1> DEFINE c == IF nas = "OFF" THEN Connect(Now) ELSE Now
           d == CASE c.state = "IDLE_CAMPED_NORMALLY" -> StartConnection(c)
                  [] c.state = "INACTIVE" -> ResumeConnection(c)
                  [] OTHER -> c
<1>1. CASE UeStops("DoConnect")
    BY <1>1, UeSideUnchanged DEF UeStops
<1>2. CASE ~UeStops("DoConnect")
    <2>1. c \in Attempts
        BY NowType, AttemptTypes DEF UeSideOK
    <2>2. d \in Attempts
        BY <2>1, AttemptTypes
    <2>3. /\ packetStored < MaxStored /\ packetStored' = packetStored + 1
          /\ Becomes(d) /\ DataPending' \in BOOLEAN
          /\ UNCHANGED <<rnti, macRnti, resumeIdentity, connectionTimeout,
                         connEstFailCount, setupCompleted, releases, hasReceivedMib,
                         hasReceivedSib2, leaveConnectedMode, drbs, nas, nasConnects, messages>>
        BY <1>2 DEF DoSendData, UeSideOK, UeTypeOK, UeFlagsOK
    <2>4. packetStored' \in 0..MaxStored
        BY <2>3, UeConstantsAreNat DEF UeConstants, UeSideOK, UeTypeOK
    <2>5. ueState' \in UeStates /\ connectionPending' \in BOOLEAN /\ accessing' \in BOOLEAN
        BY <2>2, <2>3, BecomesType
    <2> QED BY <2>3, <2>4, <2>5 DEF UeSideOK, UeTypeOK, UeFlagsOK, ChannelsOK, messages
<1> QED BY <1>1, <1>2

LEMMA NasConnectType ==
    ASSUME UeSideOK, NasConnect
    PROVE  UeSideOK'
<1>1. CASE UeStops("DoConnect")
    BY <1>1, UeSideUnchanged DEF UeStops
<1>2. CASE ~UeStops("DoConnect")
    <2>1. /\ Becomes(Connect(Now)) /\ nasConnects' = FALSE
          /\ UNCHANGED <<rnti, macRnti, resumeIdentity, connectionTimeout,
                         connEstFailCount, packetStored, setupCompleted, releases,
                         hasReceivedMib, hasReceivedSib2, DataPending,
                         leaveConnectedMode, drbs, nas, messages>>
        BY <1>2 DEF NasConnect
    <2>2. ueState' \in UeStates /\ connectionPending' \in BOOLEAN /\ accessing' \in BOOLEAN
        BY <2>1, NowType, AttemptTypes, BecomesType DEF UeSideOK
    <2> QED BY <2>1, <2>2 DEF UeSideOK, UeTypeOK, UeFlagsOK, ChannelsOK, messages
<1> QED BY <1>1, <1>2

LEMMA BroadcastType ==
    ASSUME UeSideOK, DoRecvMasterInformationBlock \/ DoRecvSystemInformation
    PROVE  UeSideOK'
<1>1. CASE DoRecvMasterInformationBlock
    <2> DEFINE c == IF ueState = "IDLE_WAIT_MIB"
                    THEN SwitchToState(Now, "IDLE_CAMPED_NORMALLY", hasReceivedSib2) ELSE Now
    <2>1. Becomes(c) /\ c \in Attempts
        BY <1>1, NowType, AttemptTypes DEF DoRecvMasterInformationBlock, UeSideOK
    <2>2. ueState' \in UeStates /\ connectionPending' \in BOOLEAN /\ accessing' \in BOOLEAN
        BY <2>1, BecomesType
    <2> QED BY <1>1, <2>2 DEF DoRecvMasterInformationBlock, UeSideOK, UeTypeOK, UeFlagsOK,
                              ChannelsOK, messages
<1>2. CASE DoRecvSystemInformation
    BY <1>2 DEF DoRecvSystemInformation, UeSideOK, UeTypeOK, UeFlagsOK, ChannelsOK, messages
<1> QED BY <1>1, <1>2

LEMMA PagingType ==
    ASSUME UeSideOK, NEW p, ReceivePaging(p), UNCHANGED messages
    PROVE  UeSideOK'
BY DEF ReceivePaging, UeSideOK, UeTypeOK, UeFlagsOK, ChannelsOK, messages

LEMMA SendMsg3Type ==
    ASSUME ChannelsOK, NEW r \in Rntis, NEW id \in AnyRnti, NEW b \in BOOLEAN, SendMsg3(r, id, b)
    PROVE  ccchUp' \subseteq [rnti : Rntis, resumeIdentity : AnyRnti, sdt : BOOLEAN]
<1> DEFINE M == [rnti : Rntis, resumeIdentity : AnyRnti, sdt : BOOLEAN]
<1>1. [rnti |-> r, resumeIdentity |-> id, sdt |-> b] \in M
    OBVIOUS
<1>2. ccchUp \subseteq M
    BY DEF ChannelsOK
<1> HIDE DEF M
<1>3. ccchUp' \subseteq M
    BY <1>1, <1>2 DEF SendMsg3
<1> QED BY <1>3 DEF M

LEMMA RandomAccessType ==
    ASSUME UeSideOK, NEW r \in Rntis, DoNotifyRandomAccessSuccessful(r)
    PROVE  UeSideOK'
<1> USE DEF UeSideOK
<1>1. /\ UNCHANGED <<resumeIdentity, connEstFailCount, setupCompleted, releases,
                     hasReceivedMib, hasReceivedSib2, connectionPending, DataPending,
                     leaveConnectedMode, drbs, nas, nasConnects, ccchDown, dcchUp,
                     dcchDown, removals>>
      /\ T300 \in Off..T300 /\ NoRnti \in AnyRnti /\ r \in AnyRnti
    BY UeConstantsAreNat DEF DoNotifyRandomAccessSuccessful, UeConstants, Off, AnyRnti
<1>2. CASE ueState \in {"INACTIVE", "IDLE_RANDOM_ACCESS_INACTIVE"}
    <2>1. PICK taken \in 0..packetStored :
            /\ ueState' = IF sdt THEN "INACTIVE_SMALL_DATA_TRANSMISSION"
                                 ELSE "INACTIVE_CONNECTING"
            /\ packetStored' = packetStored - taken
            /\ SendMsg3(r, resumeIdentity, taken > 0)
            /\ rnti' = resumeIdentity /\ macRnti' = resumeIdentity
            /\ StartT300 /\ accessing' = FALSE
        BY <1>2 DEF DoNotifyRandomAccessSuccessful
    <2>2. packetStored' \in 0..MaxStored
        BY <2>1, UeConstantsAreNat DEF UeConstants, UeTypeOK
    <2>3. ccchUp' \subseteq [rnti : Rntis, resumeIdentity : AnyRnti, sdt : BOOLEAN]
        <3>1. resumeIdentity \in AnyRnti
            BY DEF UeTypeOK
        <3>2. CASE taken > 0
            <4>1. SendMsg3(r, resumeIdentity, TRUE)
                BY <2>1, <3>2
            <4> QED BY <3>1, <4>1, SendMsg3Type
        <3>3. CASE ~(taken > 0)
            <4>0. (taken > 0) = FALSE
                BY <3>3
            <4>1. SendMsg3(r, resumeIdentity, FALSE)
                BY <2>1, <4>0, Zenon
            <4> QED BY <3>1, <4>1, SendMsg3Type
        <3> QED BY <3>2, <3>3
    <2> QED BY <1>1, <2>1, <2>2, <2>3 DEF StartT300, UeTypeOK, UeFlagsOK, ChannelsOK, UeStates
<1>3. CASE ueState = "IDLE_RANDOM_ACCESS"
    <2>1. /\ ueState' = "IDLE_CONNECTING"
          /\ SendMsg3(r, NoRnti, FALSE)
          /\ rnti' = r /\ macRnti' = r
          /\ StartT300 /\ accessing' = FALSE
          /\ UNCHANGED packetStored
        BY <1>3 DEF DoNotifyRandomAccessSuccessful
    <2>3. ccchUp' \subseteq [rnti : Rntis, resumeIdentity : AnyRnti, sdt : BOOLEAN]
        BY <1>1, <2>1, SendMsg3Type
    <2> QED BY <1>1, <2>1, <2>3 DEF StartT300, UeTypeOK, UeFlagsOK, ChannelsOK, UeStates
<1>4. CASE ueState \notin {"INACTIVE", "IDLE_RANDOM_ACCESS_INACTIVE", "IDLE_RANDOM_ACCESS"}
    BY <1>1, <1>4 DEF DoNotifyRandomAccessSuccessful, UeTypeOK, UeFlagsOK, ChannelsOK
<1> QED BY <1>2, <1>3, <1>4

\* A message arrives at, or leaves, the UE.
LEMMA ReceiveCcchType ==
    ASSUME ChannelsOK, NEW type, ReceiveCcch(type)
    PROVE  ccchDown' \subseteq [type : CcchDownTypes, rnti : Rntis] /\ macRnti \in Rntis
BY DEF ReceiveCcch, ChannelsOK

LEMMA ReceiveDcchType ==
    ASSUME ChannelsOK, NEW type, ReceiveDcch(type)
    PROVE  dcchDown' \in [Rntis -> Seq(DcchDownTypes)] /\ macRnti \in Rntis
<1>1. macRnti \in Rntis /\ dcchDown[macRnti] # << >> /\ dcchDown[macRnti] \in Seq(DcchDownTypes)
    BY DEF ReceiveDcch, ChannelsOK
<1>2. Tail(dcchDown[macRnti]) \in Seq(DcchDownTypes)
    BY <1>1
<1> QED BY <1>1, <1>2 DEF ReceiveDcch, ChannelsOK

LEMMA SendUpType ==
    ASSUME ChannelsOK, NEW type \in DcchUpTypes, NEW r \in AnyRnti, SendUp(type, r)
    PROVE  dcchUp' \in Seq([type : DcchUpTypes, rnti : AnyRnti])
<1> DEFINE M == [type : DcchUpTypes, rnti : AnyRnti]
<1>1. [type |-> type, rnti |-> r] \in M
    OBVIOUS
<1>2. dcchUp \in Seq(M)
    BY DEF ChannelsOK
<1> HIDE DEF M
<1>3. dcchUp' \in Seq(M)
    BY <1>1, <1>2 DEF SendUp
<1> QED BY <1>3 DEF M

LEMMA SetupType ==
    ASSUME UeSideOK, DoRecvRrcSetup
    PROVE  UeSideOK'
<1>1. /\ UNCHANGED <<rnti, macRnti, resumeIdentity, packetStored, releases, hasReceivedMib,
                     hasReceivedSib2, connectionPending, DataPending, drbs, accessing,
                     nasConnects, ccchUp, dcchUp, dcchDown, removals>>
      /\ ccchDown' \subseteq [type : CcchDownTypes, rnti : Rntis]
    BY ReceiveCcchType DEF DoRecvRrcSetup, UeSideOK
<1>2. /\ ueState' \in UeStates /\ connEstFailCount' \in 0..(ConnEstFailLimit - 1)
      /\ connectionTimeout' \in Off..T300 /\ setupCompleted' \in Off..ProcDelay
      /\ nas' \in {"OFF", "ACTIVE"}
    BY UeConstantsAreNat DEF DoRecvRrcSetup, UeConstants, CancelT300, NotifyConnectionSuccessful,
       Off, UeSideOK, UeTypeOK, UeStates
<1>3. leaveConnectedMode' \in BOOLEAN
    BY DEF DoRecvRrcSetup, UeSideOK, UeTypeOK, UeFlagsOK
<1> QED BY <1>1, <1>2, <1>3 DEF UeSideOK, UeTypeOK, UeFlagsOK, ChannelsOK

LEMMA ConnectionRejectType ==
    ASSUME UeSideOK, DoRecvRrcConnectionReject
    PROVE  UeSideOK'
<1>1. /\ UNCHANGED <<rnti, resumeIdentity, connEstFailCount, packetStored, setupCompleted,
                   releases, hasReceivedMib, DataPending, leaveConnectedMode, drbs, nas,
                   ccchUp, dcchUp, dcchDown, removals>>
      /\ ccchDown' \subseteq [type : CcchDownTypes, rnti : Rntis]
      /\ hasReceivedSib2' = FALSE /\ nasConnects' = TRUE /\ macRnti' = NoRnti
      /\ connectionTimeout' = Off
    BY ReceiveCcchType DEF DoRecvRrcConnectionReject, UeSideOK, CancelT300
<1>2. ueState' \in UeStates /\ connectionPending' \in BOOLEAN /\ accessing' \in BOOLEAN
    BY NowType, AttemptTypes, BecomesType DEF DoRecvRrcConnectionReject, UeSideOK
<1>3. Off \in Off..T300 /\ NoRnti \in AnyRnti
    BY UeConstantsAreNat DEF UeConstants, Off, AnyRnti
<1> QED BY <1>1, <1>2, <1>3 DEF UeSideOK, UeTypeOK, UeFlagsOK, ChannelsOK

LEMMA ReconfigurationType ==
    ASSUME UeSideOK, DoRecvRrcReconfiguration
    PROVE  UeSideOK'
<1>1. /\ UNCHANGED <<ueState, rnti, macRnti, resumeIdentity, connectionTimeout,
                   connEstFailCount, setupCompleted, releases, hasReceivedMib,
                   hasReceivedSib2, connectionPending, leaveConnectedMode, accessing,
                   nas, nasConnects, ccchUp, ccchDown, removals>>
      /\ dcchDown' \in [Rntis -> Seq(DcchDownTypes)]
    BY ReceiveDcchType DEF DoRecvRrcReconfiguration, UeSideOK
<1>2. dcchUp' \in Seq([type : DcchUpTypes, rnti : AnyRnti])
    <2>1. rnti \in AnyRnti /\ "RrcReconfigurationCompleted" \in DcchUpTypes
        BY DEF UeSideOK, UeTypeOK, DcchUpTypes
    <2> QED BY <2>1, SendUpType DEF DoRecvRrcReconfiguration, UeSideOK, ChannelsOK
<1>3. packetStored' \in 0..MaxStored
    BY UeConstantsAreNat DEF DoRecvRrcReconfiguration, UeConstants, UeSideOK, UeTypeOK
<1>4. drbs' \in BOOLEAN /\ DataPending' \in BOOLEAN
    BY DEF DoRecvRrcReconfiguration, UeSideOK, UeTypeOK, UeFlagsOK
<1> QED BY <1>1, <1>2, <1>3, <1>4 DEF UeSideOK, UeTypeOK, UeFlagsOK, ChannelsOK

LEMMA ResumeType ==
    ASSUME UeSideOK, DoRecvRrcResume
    PROVE  UeSideOK'
<1>1. /\ UNCHANGED <<rnti, macRnti, resumeIdentity, connEstFailCount, packetStored,
                   setupCompleted, releases, ueFlags, ccchUp, ccchDown, removals>>
      /\ dcchDown' \in [Rntis -> Seq(DcchDownTypes)]
      /\ connectionTimeout' = Off /\ ueState' = "CONNECTED_NORMALLY"
    BY ReceiveDcchType DEF DoRecvRrcResume, UeSideOK, CancelT300
<1>2. dcchUp' \in Seq([type : DcchUpTypes, rnti : AnyRnti])
    <2>1. rnti \in AnyRnti /\ "RrcResumeComplete" \in DcchUpTypes
        BY DEF UeSideOK, UeTypeOK, DcchUpTypes
    <2> QED BY <2>1, SendUpType DEF DoRecvRrcResume, UeSideOK
<1>3. Off \in Off..T300
    BY UeConstantsAreNat DEF UeConstants, Off
<1> QED BY <1>1, <1>2, <1>3 DEF UeSideOK, UeTypeOK, UeFlagsOK, ChannelsOK, ueFlags, UeStates

Releases == [left : 0..ProcDelay, suspend : AnyRnti]

LEMMA ReleaseType ==
    ASSUME UeSideOK, DoRecvRrcRelease
    PROVE  UeSideOK'
<1>1. PICK suspend \in BOOLEAN :
        /\ ReceiveDcch(IF suspend THEN "RrcReleaseSuspend" ELSE "RrcRelease")
        /\ releases' = Append(releases, [left |-> ProcDelay,
                                         suspend |-> IF suspend THEN macRnti ELSE NoRnti])
    BY DEF DoRecvRrcRelease
<1>2. /\ UNCHANGED <<rnti, macRnti, resumeIdentity, connEstFailCount, packetStored,
                     setupCompleted, ueFlags, ccchUp, ccchDown, dcchUp, removals>>
      /\ dcchDown' \in [Rntis -> Seq(DcchDownTypes)] /\ macRnti \in Rntis
      /\ connectionTimeout' = Off /\ ueState' = "RELEASE_RECEIVED"
    BY <1>1, ReceiveDcchType DEF DoRecvRrcRelease, UeSideOK, CancelT300
<1>3. releases' \in Seq(Releases)
    <2>1. [left |-> ProcDelay, suspend |-> IF suspend THEN macRnti ELSE NoRnti] \in Releases
        BY <1>2, UeConstantsAreNat DEF UeConstants, AnyRnti, Releases
    <2>2. releases \in Seq(Releases)
        BY DEF UeSideOK, UeTypeOK, Releases
    <2> QED BY <1>1, <2>1, <2>2
<1>4. Off \in Off..T300
    BY UeConstantsAreNat DEF UeConstants, Off
<1> QED BY <1>2, <1>3, <1>4 DEF Releases, UeSideOK, UeTypeOK, UeFlagsOK, ChannelsOK, ueFlags,
                                UeStates

\* The events of the UE.
LEMMA SetupCompletedType ==
    ASSUME UeSideOK, SendRrcSetupCompleted
    PROVE  UeSideOK'
<1>1. dcchUp' \in Seq([type : DcchUpTypes, rnti : AnyRnti])
    <2>1. rnti \in AnyRnti /\ "RrcSetupCompleted" \in DcchUpTypes
        BY DEF UeSideOK, UeTypeOK, DcchUpTypes
    <2> QED BY <2>1, SendUpType DEF SendRrcSetupCompleted, UeSideOK
<1>2. Off \in Off..ProcDelay
    BY UeConstantsAreNat DEF UeConstants, Off
<1> QED BY <1>1, <1>2 DEF SendRrcSetupCompleted, UeSideOK, UeTypeOK, UeFlagsOK, ChannelsOK, ueFlags

LEMMA ReleaseTail ==
    ASSUME UeTypeOK, ReleaseIsDue
    PROVE  /\ Tail(releases) \in Seq([left : 0..ProcDelay, suspend : AnyRnti])
           /\ Head(releases) \in [left : 0..ProcDelay, suspend : AnyRnti]
<1> DEFINE M == [left : 0..ProcDelay, suspend : AnyRnti]
<1>1. releases \in Seq(M) /\ releases # << >>
    BY DEF UeTypeOK, ReleaseIsDue
<1> HIDE DEF M
<1>2. Tail(releases) \in Seq(M) /\ Head(releases) \in M
    BY <1>1
<1> QED BY <1>2 DEF M

LEMMA SuspendType ==
    ASSUME UeSideOK, Suspend
    PROVE  UeSideOK'
<1>1. CASE UeStops("ProcessRrcRelease")
    BY <1>1, UeSideUnchanged DEF UeStops
<1>2. CASE ~UeStops("ProcessRrcRelease")
    <2>1. /\ releases' = Tail(releases) /\ resumeIdentity' = Head(releases).suspend
          /\ macRnti' = NoRnti
          /\ \E access \in {accessing, FALSE} :
                Becomes(SwitchToState([Now EXCEPT !.access = access], "INACTIVE",
                                      hasReceivedSib2))
          /\ UNCHANGED <<rnti, connectionTimeout, connEstFailCount, packetStored,
                         setupCompleted, hasReceivedMib, hasReceivedSib2, DataPending,
                         leaveConnectedMode, drbs, nas, nasConnects, messages>>
        BY <1>2 DEF Suspend
    <2>2. PICK access \in {accessing, FALSE} :
            Becomes(SwitchToState([Now EXCEPT !.access = access], "INACTIVE", hasReceivedSib2))
        BY <2>1
    <2>3. [Now EXCEPT !.access = access] \in Attempts
        BY NowType DEF Attempts, UeSideOK, UeTypeOK, UeFlagsOK
    <2>4. ueState' \in UeStates /\ connectionPending' \in BOOLEAN /\ accessing' \in BOOLEAN
        BY <2>2, <2>3, AttemptTypes, BecomesType
    <2>5. /\ releases' \in Seq([left : 0..ProcDelay, suspend : AnyRnti])
          /\ resumeIdentity' \in AnyRnti
        BY <2>1, ReleaseTail DEF Suspend, UeSideOK
    <2>6. macRnti' \in AnyRnti
        BY <2>1 DEF AnyRnti
    <2> QED BY <2>1, <2>4, <2>5, <2>6 DEF UeSideOK, UeTypeOK, UeFlagsOK, ChannelsOK, messages
<1> QED BY <1>1, <1>2

LEMMA ReleaseEventType ==
    ASSUME UeSideOK, Release
    PROVE  UeSideOK'
<1> DEFINE camped(sib2) == SwitchToState(Now, "IDLE_CAMPED_NORMALLY", sib2)
<1>1. /\ releases' = Tail(releases)
      /\ UNCHANGED <<resumeIdentity, connectionTimeout, connEstFailCount, packetStored,
                     setupCompleted, DataPending, nasConnects, ccchUp, ccchDown, dcchUp,
                     dcchDown>>
    BY DEF Release
<1>2. releases' \in Seq([left : 0..ProcDelay, suspend : AnyRnti])
    BY <1>1, ReleaseTail DEF Release, UeSideOK
<1>3. Becomes(camped(hasReceivedSib2)) \/ Becomes(camped(FALSE)) \/ Becomes(Now)
    BY DEF Release
<1>4. ueState' \in UeStates /\ connectionPending' \in BOOLEAN /\ accessing' \in BOOLEAN
    BY <1>3, NowType, AttemptTypes, BecomesType DEF UeSideOK
<1>5. \/ UNCHANGED <<rnti, macRnti, hasReceivedMib, hasReceivedSib2, drbs, leaveConnectedMode,
                     nas, removals>>
      \/ removals' = removals \cup {rnti} /\ LeaveConnectedMode
    BY DEF Release
<1>6. /\ rnti' \in AnyRnti /\ macRnti' \in AnyRnti /\ removals' \subseteq AnyRnti
      /\ nas' \in {"OFF", "ACTIVE"}
    BY <1>5 DEF LeaveConnectedMode, UeSideOK, UeTypeOK, ChannelsOK, AnyRnti
<1>7. /\ hasReceivedMib' \in BOOLEAN /\ hasReceivedSib2' \in BOOLEAN /\ drbs' \in BOOLEAN
      /\ leaveConnectedMode' \in BOOLEAN
    BY <1>5 DEF LeaveConnectedMode, UeSideOK, UeTypeOK, UeFlagsOK
<1> QED BY <1>1, <1>2, <1>4, <1>6, <1>7 DEF UeSideOK, UeTypeOK, UeFlagsOK, ChannelsOK

LEMMA TimeoutType ==
    ASSUME UeSideOK, ConnectionTimeout
    PROVE  UeSideOK'
<1>1. /\ connectionTimeout' = Off
      /\ UNCHANGED <<resumeIdentity, packetStored, setupCompleted, releases, DataPending,
                     messages>>
    BY DEF ConnectionTimeout
<1>2. connectionTimeout' \in Off..T300
    BY <1>1, UeConstantsAreNat DEF UeConstants, Off
<1>3. connEstFailCount' \in 0..(ConnEstFailLimit - 1)
    <2>1. \/ connEstFailCount' = 0
          \/ /\ ~(connEstFailCount + 1 >= ConnEstFailLimit)
             /\ connEstFailCount' = connEstFailCount + 1
        BY DEF ConnectionTimeout
    <2> QED BY <2>1, UeConstantsAreNat DEF UeConstants, UeSideOK, UeTypeOK
<1>4. \/ /\ LeaveConnectedMode /\ ueState' = "CONNECTED_PHY_PROBLEM"
         /\ UNCHANGED <<connectionPending, accessing, nasConnects>>
      \/ /\ macRnti' = NoRnti /\ hasReceivedSib2' = FALSE /\ nasConnects' = TRUE
         /\ Becomes(SwitchToState(Now, "IDLE_CAMPED_NORMALLY", FALSE))
         /\ UNCHANGED <<rnti, hasReceivedMib, drbs, leaveConnectedMode, nas>>
    BY DEF ConnectionTimeout
<1>5. ueState' \in UeStates /\ connectionPending' \in BOOLEAN /\ accessing' \in BOOLEAN
    BY <1>4, NowType, AttemptTypes, BecomesType DEF UeSideOK, UeTypeOK, UeFlagsOK, UeStates
<1>6. rnti' \in AnyRnti /\ macRnti' \in AnyRnti /\ nas' \in {"OFF", "ACTIVE"}
    BY <1>4 DEF LeaveConnectedMode, UeSideOK, UeTypeOK, AnyRnti
<1>7. /\ hasReceivedMib' \in BOOLEAN /\ hasReceivedSib2' \in BOOLEAN /\ drbs' \in BOOLEAN
      /\ leaveConnectedMode' \in BOOLEAN /\ nasConnects' \in BOOLEAN
    BY <1>4 DEF LeaveConnectedMode, UeSideOK, UeTypeOK, UeFlagsOK
<1> QED BY <1>1, <1>2, <1>3, <1>5, <1>6, <1>7 DEF UeSideOK, UeTypeOK, UeFlagsOK, ChannelsOK,
                                                  messages

LEMMA UeTickType ==
    ASSUME UeSideOK, UeTick
    PROVE  UeSideOK'
<1> DEFINE M == [left : 0..ProcDelay, suspend : AnyRnti]
<1>1. connectionTimeout' \in Off..T300 /\ setupCompleted' \in Off..ProcDelay
    BY UeConstantsAreNat, CountdownRange DEF UeTick, UeConstants, UeSideOK, UeTypeOK
<1>2. releases' \in Seq(M)
    <2>1. releases \in Seq(M)
        BY DEF UeSideOK, UeTypeOK
    <2> HIDE DEF M
    <2>2. ASSUME NEW i \in DOMAIN releases
          PROVE  [releases[i] EXCEPT !.left = Countdown(@)] \in M
        <3>1. releases[i] \in M
            BY <2>1
        <3>2. Countdown(releases[i].left) \in 0..ProcDelay
            BY <3>1, UeConstantsAreNat, CountdownRange DEF UeConstants, M
        <3> QED BY <3>1, <3>2 DEF M
    <2>3. /\ releases' = [i \in DOMAIN releases |-> [releases[i] EXCEPT !.left = Countdown(@)]]
          /\ DOMAIN releases = 1..Len(releases) /\ Len(releases) \in Nat
        BY <2>1 DEF UeTick
    <2>4. releases' \in [1..Len(releases) -> M]
        BY <2>2, <2>3
    <2> QED BY <2>3, <2>4
<1> QED BY <1>1, <1>2 DEF UeTick, UeSideOK, UeTypeOK, UeFlagsOK, ChannelsOK, ueFlags, messages

\* Messages that the gNB sends, receives and forgets.
LEMMA SendDownType ==
    ASSUME ChannelsOK, NEW type \in DcchDownTypes, NEW r \in Rntis, SendDown(type, r)
    PROVE  dcchDown' \in [Rntis -> Seq(DcchDownTypes)]
<1>1. dcchDown \in [Rntis -> Seq(DcchDownTypes)]
    BY DEF ChannelsOK
<1>2. Append(dcchDown[r], type) \in Seq(DcchDownTypes)
    BY <1>1
<1> QED BY <1>1, <1>2 DEF SendDown

LEMMA SendCcchDownType ==
    ASSUME ChannelsOK, NEW type \in CcchDownTypes, NEW r \in Rntis, SendCcchDown(type, r)
    PROVE  ccchDown' \subseteq [type : CcchDownTypes, rnti : Rntis]
BY DEF SendCcchDown, ChannelsOK

LEMMA UpTailType ==
    ASSUME ChannelsOK, dcchUp # << >>
    PROVE  Tail(dcchUp) \in Seq([type : DcchUpTypes, rnti : AnyRnti])
<1> DEFINE M == [type : DcchUpTypes, rnti : AnyRnti]
<1>1. dcchUp \in Seq(M)
    BY DEF ChannelsOK
<1> HIDE DEF M
<1>2. Tail(dcchUp) \in Seq(M)
    BY <1>1
<1> QED BY <1>2 DEF M

LEMMA DropChannelsType ==
    ASSUME ChannelsOK, NEW r \in Rntis, DropChannels(r)
    PROVE  /\ ccchDown' \subseteq [type : CcchDownTypes, rnti : Rntis]
           /\ dcchDown' \in [Rntis -> Seq(DcchDownTypes)]
<1>1. << >> \in Seq(DcchDownTypes)
    OBVIOUS
<1> QED BY <1>1 DEF DropChannels, ChannelsOK

LEMMA RemoveUeType ==
    ASSUME ChannelsOK, NEW r \in Rntis, RemoveUe(r)
    PROVE  /\ ccchDown' \subseteq [type : CcchDownTypes, rnti : Rntis]
           /\ dcchDown' \in [Rntis -> Seq(DcchDownTypes)]
<1>1. CASE KeepsEvents(ueMap[r])
    BY <1>1 DEF RemoveUe, ChannelsOK
<1>2. CASE ~KeepsEvents(ueMap[r])
    BY <1>2, DropChannelsType DEF RemoveUe
<1> QED BY <1>1, <1>2

LEMMA SendRrcReleaseType ==
    ASSUME ChannelsOK, NEW r \in Rntis, NEW c, SendRrcRelease(r, c)
    PROVE  UNCHANGED ccchDown /\ dcchDown' \in [Rntis -> Seq(DcchDownTypes)]
<1>1. CASE redCap /\ ~c.drbs
    BY <1>1 DEF SendRrcRelease, GnbStops, ChannelsOK
<1>2. CASE ~(redCap /\ ~c.drbs)
    <2>1. /\ SendDown(IF redCap THEN "RrcReleaseSuspend" ELSE "RrcRelease", r)
          /\ UNCHANGED ccchDown
        BY <1>2 DEF SendRrcRelease
    <2>2. (IF redCap THEN "RrcReleaseSuspend" ELSE "RrcRelease") \in DcchDownTypes
        BY DEF DcchDownTypes
    <2> QED BY <2>1, <2>2, SendDownType
<1> QED BY <1>1, <1>2

\* The handlers of the gNB.
LEMMA GnbReceiveType ==
    ASSUME ChannelsOK, GnbReceive
    PROVE  ChannelsOK'
<1> USE DEF ChannelsOK
<1>1. CASE DropMsg3 \/ DropUp
    BY <1>1, UpTailType DEF DropMsg3, DropUp
<1>2. ASSUME NEW r \in Rntis, RecvRrcConnectionRequest(r)
      PROVE  ChannelsOK'
    <2>1. "RrcSetup" \in CcchDownTypes /\ "RrcConnectionReject" \in CcchDownTypes
        BY DEF CcchDownTypes
    <2>2. ccchDown' \subseteq [type : CcchDownTypes, rnti : Rntis]
        <3>1. \/ UNCHANGED ccchDown
              \/ SendCcchDown("RrcSetup", r) \/ SendCcchDown("RrcConnectionReject", r)
            BY <1>2 DEF RecvRrcConnectionRequest, GnbStops, Reject
        <3> QED BY <2>1, <3>1, SendCcchDownType
    <2>3. ccchUp' \subseteq ccchUp /\ UNCHANGED <<dcchUp, dcchDown, removals>>
        BY <1>2 DEF RecvRrcConnectionRequest, GnbStops
    <2> QED BY <2>2, <2>3
<1>3. ASSUME NEW r \in Rntis, \/ RecvRrcConnectionSetupCompleted(r)
                              \/ RecvRrcResumeComplete(r)
                              \/ RecvRrcConnectionReconfigurationCompleted(r)
      PROVE  ChannelsOK'
    <2>1. /\ dcchUp # << >> /\ dcchUp' = Tail(dcchUp)
          /\ UNCHANGED <<ccchUp, ccchDown, dcchDown, removals>>
        BY <1>3 DEF RecvRrcConnectionSetupCompleted, RecvRrcResumeComplete, ReceiveUp, GnbStops,
                    RecvRrcConnectionReconfigurationCompleted
    <2> QED BY <2>1, UpTailType
<1>4. ASSUME NEW m \in ccchUp, RecvRrcResumeRequest(m)
      PROVE  ChannelsOK'
    <2> DEFINE id == m.resumeIdentity
    <2>1. ccchUp' \subseteq ccchUp /\ UNCHANGED <<dcchUp, removals>>
        BY <1>4 DEF RecvRrcResumeRequest
    <2>2. \/ UNCHANGED <<ccchDown, dcchDown>>
          \/ /\ SendDown(IF m.sdt THEN "RrcReleaseSuspend" ELSE "RrcResume", id)
             /\ UNCHANGED ccchDown /\ id \in Rntis
          \/ SendCcchDown("RrcConnectionReject", id) /\ UNCHANGED dcchDown /\ id \in Rntis
        BY <1>4 DEF RecvRrcResumeRequest, GnbStops, Reject, HasUeManager
    <2>3. /\ (IF m.sdt THEN "RrcReleaseSuspend" ELSE "RrcResume") \in DcchDownTypes
          /\ "RrcConnectionReject" \in CcchDownTypes
        BY DEF DcchDownTypes, CcchDownTypes
    <2> HIDE DEF id
    <2>4. CASE UNCHANGED <<ccchDown, dcchDown>>
        BY <2>1, <2>4
    <2>5. CASE SendDown(IF m.sdt THEN "RrcReleaseSuspend" ELSE "RrcResume", id)
               /\ UNCHANGED ccchDown /\ id \in Rntis
        <3>1. dcchDown' \in [Rntis -> Seq(DcchDownTypes)]
            BY <2>3, <2>5, SendDownType
        <3> QED BY <2>1, <2>5, <3>1
    <2>6. CASE SendCcchDown("RrcConnectionReject", id) /\ UNCHANGED dcchDown /\ id \in Rntis
        <3>1. ccchDown' \subseteq [type : CcchDownTypes, rnti : Rntis]
            BY <2>3, <2>6, SendCcchDownType
        <3> QED BY <2>1, <2>6, <3>1
    <2> QED BY <2>2, <2>4, <2>5, <2>6
<1> QED BY <1>1, <1>2, <1>3, <1>4 DEF GnbReceive

LEMMA GnbEventType ==
    ASSUME ChannelsOK, GnbEvent
    PROVE  ChannelsOK'
<1> USE DEF ChannelsOK
<1>1. ASSUME NEW r \in Rntis, InitialContextSetupRequest(r) \/ BwpSwitchCompleted(r)
      PROVE  ChannelsOK'
    BY <1>1 DEF InitialContextSetupRequest, BwpSwitchCompleted, messages
<1>2. ASSUME NEW r \in Rntis, ConnectionTimeouts(r)
      PROVE  ChannelsOK'
    BY <1>2, RemoveUeType DEF ConnectionTimeouts
<1>3. ASSUME NEW r \in Rntis, DataInactivityTimeout(r)
      PROVE  ChannelsOK'
    BY <1>3, SendRrcReleaseType DEF DataInactivityTimeout
<1>4. ASSUME NEW r \in Rntis, ScheduleRrcReconfiguration(r)
      PROVE  ChannelsOK'
    <2>1. /\ UNCHANGED <<ccchUp, ccchDown, dcchUp, removals>>
          /\ UNCHANGED dcchDown \/ SendDown("RrcReconfiguration", r)
        BY <1>4 DEF ScheduleRrcReconfiguration, GnbStops
    <2>2. "RrcReconfiguration" \in DcchDownTypes
        BY DEF DcchDownTypes
    <2>3. dcchDown' \in [Rntis -> Seq(DcchDownTypes)]
        BY <2>1, <2>2, SendDownType
    <2> QED BY <2>1, <2>3
<1>5. ASSUME NEW r \in removals, DoRecvIdealUeContextRemoveRequest(r)
      PROVE  ChannelsOK'
    <2>1. removals' \subseteq removals /\ UNCHANGED <<ccchUp, dcchUp>>
        BY <1>5 DEF DoRecvIdealUeContextRemoveRequest
    <2>2. CASE HasUeManager(r)
        BY <1>5, <2>1, <2>2, RemoveUeType DEF DoRecvIdealUeContextRemoveRequest, HasUeManager
    <2>3. CASE ~HasUeManager(r)
        BY <1>5, <2>1, <2>3 DEF DoRecvIdealUeContextRemoveRequest
    <2> QED BY <2>2, <2>3
<1> QED BY <1>1, <1>2, <1>3, <1>4, <1>5 DEF GnbEvent

LEMMA LoseType ==
    ASSUME ChannelsOK, Lose
    PROVE  ChannelsOK'
<1> USE DEF ChannelsOK
<1>1. CASE LoseCcch
    BY <1>1 DEF LoseCcch
<1>2. CASE ~LoseCcch
    BY <1>2, UpTailType DEF Lose
<1> QED BY <1>1, <1>2

\* Every step preserves the types of the UE and of the channels.
LEMMA UeSideStep ==
    ASSUME UeSideOK, [Next]_vars
    PROVE  UeSideOK'
<1>1. CASE UNCHANGED <<ueVars, messages>>
    BY <1>1, UeSideUnchanged
<1>2. CASE ChannelsOK' /\ UNCHANGED ueVars
    BY <1>2 DEF UeSideOK, UeTypeOK, UeFlagsOK, ueVars, ueFlags
<1>3. CASE UNCHANGED vars \/ Ended
    BY <1>1, <1>3 DEF vars, Ended
<1>4. CASE UeEvent
    BY <1>4, NasConnectType, SetupCompletedType, SuspendType, ReleaseEventType, TimeoutType
       DEF UeEvent, ProcessRrcRelease
<1>5. CASE UeInput
    BY <1>5, DoSendDataType, BroadcastType DEF UeInput
<1>6. CASE Deliver
    BY <1>6, SetupType, ConnectionRejectType, ReconfigurationType, ResumeType, ReleaseType
       DEF Deliver
<1>7. CASE GnbReceive
    BY <1>2, <1>7, GnbReceiveType DEF GnbReceive, UeSideOK
<1>8. CASE GnbEvent
    BY <1>2, <1>8, GnbEventType DEF GnbEvent, UeSideOK
<1>9. CASE Lose
    BY <1>2, <1>9, LoseType DEF Lose, UeSideOK
<1>10. CASE Tick
    BY <1>10, UeTickType DEF Tick
<1>11. CASE GnbInput
    <2>1. CASE SendData
        BY <1>1, <1>11, <2>1 DEF GnbInput, SendData, GnbStops, messages
    <2>2. ASSUME NEW r \in Rntis, TriggerRelease(r)
          PROVE  UeSideOK'
        <3>1. ChannelsOK'
            BY <2>2, SendRrcReleaseType DEF TriggerRelease, UeSideOK, ChannelsOK
        <3> QED BY <1>2, <1>11, <3>1 DEF GnbInput
    <2> QED BY <1>1, <1>11, <2>1, <2>2 DEF GnbInput
<1>12. ASSUME NEW r \in Rntis, RandomAccess(r) \/ RarIsMissed(r) \/ Page(r)
       PROVE  UeSideOK'
    BY <1>1, <1>12, RandomAccessType, PagingType DEF RandomAccess, RarIsMissed, Page, SendPaging
<1> QED BY <1>3, <1>4, <1>5, <1>6, <1>7, <1>8, <1>9, <1>10, <1>11, <1>12 DEF Next, Proceed, Input

\* Both sides together: no state is left that has a type the other relies on.
TypeInv == TypeOK /\ GnbInductive

LEMMA TypeInvStep == TypeInv /\ [Next]_vars => TypeInv'
<1> SUFFICES ASSUME TypeInv, [Next]_vars PROVE TypeInv'
    OBVIOUS
<1>1. GnbInductive' /\ GnbTypeOK'
    BY GnbNextInductive DEF TypeInv, GnbInductive
<1>2. UeSideOK'
    BY UeSideStep DEF TypeInv, TypeOK, UeSideOK
<1>3. waited' \in 0..MaxDelay
    <2>1. \/ UNCHANGED waited
          \/ waited' = 0
          \/ waited' = waited + 1 /\ waited < MaxDelay
        BY DEF Next, Proceed, Input, Ended, Tick, vars
    <2> QED BY <2>1, RrcAssumption DEF TypeInv, TypeOK
<1>4. UNCHANGED <<sdt, redCap>>
    BY DEF Next, Proceed, Input, Ended, chosen, vars, gnbVars
<1>5. sdt' \in BOOLEAN /\ redCap' \in BOOLEAN
    BY <1>4 DEF TypeInv, TypeOK
<1> QED BY <1>1, <1>2, <1>3, <1>5 DEF TypeInv, TypeOK, UeSideOK

\* The initial state has its types.
LEMMA TypeInvStarts == Init => TypeInv
<1> SUFFICES ASSUME Init PROVE TypeInv
    OBVIOUS
<1>1. GnbInductive
    BY GnbStartsEmpty
<1>2. ChannelsOK
    BY DEF Init, ChannelsInit, ChannelsOK
<1>3. UeTypeOK
    <2>1. /\ Off \in Off..T300 /\ Off \in Off..ProcDelay /\ NoRnti \in AnyRnti
          /\ 0 \in 0..(ConnEstFailLimit - 1) /\ 0 \in 0..MaxStored
        BY UeConstantsAreNat DEF UeConstants, Off, AnyRnti
    <2>2. << >> \in Seq([left : 0..ProcDelay, suspend : AnyRnti])
        OBVIOUS
    <2>3. UeFlagsOK
        BY DEF Init, UeInit, UeFlagsOK
    <2> QED BY <2>1, <2>2, <2>3 DEF Init, UeInit, UeTypeOK, UeStates
<1>4. sdt \in BOOLEAN /\ redCap \in BOOLEAN
    BY UeRrcAssumption, GnbRrcAssumption DEF Init, UeInit, GnbInit
<1>5. waited \in 0..MaxDelay
    BY RrcAssumption DEF Init
<1> QED BY <1>1, <1>2, <1>3, <1>4, <1>5 DEF TypeInv, TypeOK, GnbInductive

\* Every variable of the two RRC entities and of the channels between them keeps its
\* type, for all durations and delays: the counters and the queues of nr-ue-rrc.cc
\* stay in their bounds (m_connEstFailCount below its limit), no timer of
\* nr-gnb-rrc.cc runs longer than its duration, and no message names an RNTI or a
\* message type that is none.
THEOREM RrcTypeCorrect == Spec => []TypeOK
<1>1. TypeInv => TypeOK
    BY DEF TypeInv
<1> QED BY <1>1, TypeInvStarts, TypeInvStep, PTL DEF Spec

(***************************************************************************)
(* Without downlink data every connection is the UE's.  What its states,     *)
(* its context and the messages between them have to do with each other.     *)
(***************************************************************************)
\* A message reaches a connected UE and its answer the gNB before the data-inactivity
\* timer runs out (50 ms; a comment at nr-gnb-rrc.cc:196 warns of values that are too
\* small), and RrcSetup and its answer before the setup times out (150 ms, which "must
\* account for" both, nr-gnb-rrc.cc:2508); the gNB switches a released UE's bandwidth
\* part no later than the UE acts on the release (both wait 10 ms).
DurationsInOrder ==
    /\ ReleaseBwpSwitch <= ProcDelay
    /\ MaxDelay < DataInactivityInterval
    /\ 2 * MaxDelay + ProcDelay < ConnectionSetupTimeoutDuration

\* Then the UE starts every connection, if there is no downlink data.
UeInitiated == DurationsInOrder /\ MaxBuffered = 0

IdleStates == {"IDLE_WAIT_MIB", "IDLE_CAMPED_NORMALLY", "IDLE_RANDOM_ACCESS",
               "CONNECTED_PHY_PROBLEM"}
AsleepStates == {"INACTIVE", "IDLE_RANDOM_ACCESS_INACTIVE"}
ResumingStates == {"INACTIVE_CONNECTING", "INACTIVE_SMALL_DATA_TRANSMISSION"}
ActiveStates == {"IDLE_CONNECTING", "CONNECTED_NORMALLY", "RELEASE_RECEIVED"} \cup ResumingStates

\* The events and the flags of a context fit its state.
Fits(c) ==
    /\ IsRunning(c.requestTimeout) <=> c.state = "INITIAL_RANDOM_ACCESS"
    /\ IsRunning(c.setupTimeout) <=> c.state = "CONNECTION_SETUP"
    /\ IsRunning(c.rejectedTimeout) <=> c.state = "CONNECTION_REJECTED"
    /\ c.forgotten = {}
    /\ c.releaseBwp # {} => c.state = "INACTIVE" /\ redCap
    /\ c.polling <=> c.state = "CONNECTED_NORMALLY" /\ c.inRACH
    /\ c.pending <=> c.state = "ATTACH_REQUEST" \/ c.polling
    /\ c.state \in {"CONNECTED_NORMALLY", "CONNECTION_RECONFIGURATION", "INACTIVE",
                    "INACTIVE_CONNECTING", "IDLE"} => c.drbs
    /\ c.state \in {"CONNECTION_SETUP", "ATTACH_REQUEST", "CONNECTION_RECONFIGURATION",
                    "INACTIVE_CONNECTING"} => c.inRACH
    /\ IsRunning(c.switchingBwp) => c.state = "ATTACH_REQUEST" \/ c.polling
    /\ c.state = "ATTACH_REQUEST" => c.switchingBwp > 0
    /\ IsRunning(c.inactivityTimeout) <=>
           \/ c.state = "CONNECTION_RECONFIGURATION"
           \/ c.state = "CONNECTED_NORMALLY" /\ ~IsRunning(c.switchingBwp)
    /\ c.polling /\ ~IsRunning(c.switchingBwp) => c.inactivityTimeout = DataInactivityInterval

\* The UE's own variables.
UeFits ==
    /\ macRnti = IF ueState \in ActiveStates THEN rnti ELSE NoRnti
    /\ ueState \in ActiveStates \cup AsleepStates => rnti \in Rntis
    /\ accessing <=> ueState \in {"IDLE_RANDOM_ACCESS", "IDLE_RANDOM_ACCESS_INACTIVE"}
    /\ ueState \in AsleepStates \cup ResumingStates => resumeIdentity = rnti /\ drbs
    /\ nas = "OFF" => ueState \in IdleStates \cup {"IDLE_CONNECTING"}
    /\ nasConnects => \/ ueState \in IdleStates \cup {"IDLE_CONNECTING"}
                      \/ ueState = "CONNECTED_NORMALLY" /\ setupCompleted > 0
    /\ IsRunning(setupCompleted) => ueState = "CONNECTED_NORMALLY"
    /\ IsRunning(connectionTimeout) => ueState \in ResumingStates \cup {"IDLE_CONNECTING"}
    /\ ueState \notin IdleStates \cup {"IDLE_CONNECTING"} => ~leaveConnectedMode
    /\ releases # << >> <=> ueState = "RELEASE_RECEIVED"
    /\ Len(releases) <= 1

\* What is on its way to the UE of a context.
DownFits(q) ==
    LET down == dcchDown[q]
    IN CASE ueMap[q].state = "CONNECTION_RECONFIGURATION" ->
                down \in {<< >>, <<"RrcReconfiguration">>}
         [] ueMap[q].state = "INACTIVE" -> down \in {<< >>, <<"RrcReleaseSuspend">>}
         [] ueMap[q].state = "INACTIVE_CONNECTING" ->
                down \in {<< >>, <<"RrcResume">>, <<"RrcReleaseSuspend">>}
         [] ueMap[q].state = "IDLE" -> down \in {<< >>, <<"RrcRelease">>}
         [] OTHER -> down = << >>

\* A context of a connection, or one that is being released, is the UE's.
ServesUe(q) ==
    /\ ueMap[q].state \in {"ATTACH_REQUEST", "CONNECTED_NORMALLY", "CONNECTION_RECONFIGURATION"} =>
           rnti = q /\ ueState = "CONNECTED_NORMALLY"
    /\ ueMap[q].state = "IDLE" =>
           \/ rnti = q /\ ueState \in {"CONNECTED_NORMALLY", "RELEASE_RECEIVED"}
           \/ q \in removals

ContextsFit == \A q \in Rntis : Fits(ueMap[q]) /\ DownFits(q) /\ ServesUe(q)

\* Msg3 belongs to a temporary context; the one it wants to resume waits for it.
Msg3Fits(m) ==
    /\ ueMap[m.rnti].state \in {"NONE", "INITIAL_RANDOM_ACCESS"}
    /\ m.resumeIdentity # NoRnti =>
        /\ ueMap[m.resumeIdentity].state \in SuspendedStates
        /\ ueMap[m.resumeIdentity].releaseBwp = {}
        /\ dcchDown[m.resumeIdentity] = << >>
        /\ rnti = m.resumeIdentity => ueState \in ResumingStates \cup IdleStates

Msg3sFit ==
    /\ \A m \in ccchUp : Msg3Fits(m)
    /\ \A m, n \in ccchUp : m.rnti = n.rnti => m = n
    /\ \A m, n \in ccchUp :
           m.resumeIdentity = n.resumeIdentity /\ m.resumeIdentity # NoRnti => m = n

AnswerFits(m) ==
    /\ m.type = "RrcSetup" =>
        /\ ueMap[m.rnti].state = "CONNECTION_SETUP"
        /\ rnti = m.rnti =>
            \/ ueState \in IdleStates
            \/ /\ ueState = "IDLE_CONNECTING"
               /\ ueMap[rnti].setupTimeout + waited >= ConnectionSetupTimeoutDuration
    /\ m.type = "RrcConnectionReject" => ueMap[m.rnti].state = "CONNECTION_REJECTED"

AnswersFit == \A m \in ccchDown : AnswerFits(m)

RemovalsFit == \A q \in removals : q \in Rntis /\ q # rnti /\ ueMap[q].state = "IDLE"

Up(type) == <<[type |-> type, rnti |-> rnti]>>

\* A connected UE and its context.
ConnectedFits(c, down) ==
    \/ /\ c.state = "CONNECTION_SETUP"
       /\ \/ /\ IsRunning(setupCompleted) /\ dcchUp = << >>
             /\ c.setupTimeout + MaxDelay + ProcDelay >= ConnectionSetupTimeoutDuration + setupCompleted
          \/ /\ ~IsRunning(setupCompleted) /\ dcchUp = Up("RrcSetupCompleted")
             /\ c.setupTimeout + MaxDelay + ProcDelay + waited >= ConnectionSetupTimeoutDuration
    \/ /\ ~IsRunning(setupCompleted)
       /\ \/ c.state = "ATTACH_REQUEST" /\ dcchUp = << >>
          \/ c.state = "CONNECTED_NORMALLY" /\ dcchUp = << >> /\ (drbs \/ c.inRACH)
          \/ /\ c.state = "CONNECTION_RECONFIGURATION"
             /\ c.inactivityTimeout + waited >= DataInactivityInterval
             /\ \/ down = <<"RrcReconfiguration">> /\ dcchUp = << >>
                \/ down = << >> /\ dcchUp = Up("RrcReconfigurationCompleted") /\ drbs
          \/ c.state = "INACTIVE" /\ down = <<"RrcReleaseSuspend">> /\ dcchUp = << >> /\ drbs
          \/ c.state = "IDLE" /\ down = <<"RrcRelease">> /\ dcchUp = << >>
          \/ c.state = "INACTIVE_CONNECTING" /\ down = << >> /\ dcchUp = Up("RrcResumeComplete") /\ drbs

ReleasedFits(c, down, event) ==
    /\ down = << >>
    /\ \/ /\ c.state \in SuspendedStates /\ event.suspend = rnti /\ drbs
          /\ \A t \in c.releaseBwp : t <= event.left
       \/ c.state = "IDLE" /\ event.suspend = NoRnti

AsleepFits(c, down) == c.state \in SuspendedStates /\ c.releaseBwp = {} /\ down = << >>

ResumingFits(c, down) ==
    \/ AsleepFits(c, down)
    \/ c.state = "INACTIVE_CONNECTING"
    \/ c.state \in {"CONNECTION_REJECTED", "NONE"}

ServingFits ==
    LET c == ueMap[rnti]
        down == dcchDown[rnti]
    IN /\ ueState # "CONNECTED_NORMALLY" => dcchUp = << >>
       /\ ueState = "IDLE_CONNECTING" =>
            c.state \in {"NONE", "INITIAL_RANDOM_ACCESS", "CONNECTION_SETUP", "CONNECTION_REJECTED"}
       /\ ueState = "CONNECTED_NORMALLY" => ConnectedFits(c, down)
       /\ ueState = "RELEASE_RECEIVED" => ReleasedFits(c, down, Head(releases))
       /\ ueState \in AsleepStates => AsleepFits(c, down)
       /\ ueState \in ResumingStates => ResumingFits(c, down)

RrcInv ==
    /\ TypeInv /\ NoUnexpectedEvent /\ pagingList = {}
    /\ UeFits /\ ContextsFit /\ Msg3sFit /\ AnswersFit /\ RemovalsFit /\ ServingFits

-----------------------------------------------------------------------------
\* A step of the gNB that changes the context r and what is on its way to or from it.
LEMMA GnbStep ==
    ASSUME RrcInv, TypeInv', NEW r \in Rntis, NEW c \in Contexts, Context(r, c),
           UNCHANGED <<ueVars, redCap, pagingList, fatal, waited>>,
           \A q \in Rntis \ {r} : dcchDown'[q] = dcchDown[q],
           Fits(c), DownFits(r)', ServesUe(r)',
           ccchUp' \subseteq ccchUp,
           \A m \in ccchUp' : m.rnti = r => c.state \in {"NONE", "INITIAL_RANDOM_ACCESS"},
           \A m \in ccchUp' : m.resumeIdentity = r =>
               c.state \in SuspendedStates /\ c.releaseBwp = {} /\ dcchDown'[r] = << >>,
           \A m \in ccchDown' : IF m.rnti = r THEN AnswerFits(m)' ELSE m \in ccchDown,
           removals' \subseteq removals, removals \subseteq removals' \cup {r},
           r \in removals' => c.state = "IDLE",
           rnti = r => ServingFits',
           rnti # r => UNCHANGED dcchUp
    PROVE  RrcInv'
<1>t. /\ ueMap' = [ueMap EXCEPT ![r] = c] /\ ueMap \in [Rntis -> Contexts]
      /\ ccchUp \subseteq [rnti : Rntis, resumeIdentity : AnyRnti, sdt : BOOLEAN]
      /\ ccchDown \subseteq [type : CcchDownTypes, rnti : Rntis]
    BY DEF Context, RrcInv, TypeInv, TypeOK, GnbTypeOK, ChannelsOK
<1>1. ueMap'[r] = c /\ \A q \in Rntis \ {r} : ueMap'[q] = ueMap[q]
    BY <1>t
<1>2. UeFits'
    BY DEF RrcInv, UeFits, ueVars, ueFlags
<1>u. UNCHANGED <<ueState, rnti, setupCompleted, releases, drbs>>
    BY DEF ueVars, ueFlags
<1>3. ContextsFit'
    <2>1. ASSUME NEW q \in Rntis \ {r}
          PROVE  Fits(ueMap[q])' /\ DownFits(q)' /\ ServesUe(q)'
        <3>1. Fits(ueMap[q]) /\ DownFits(q) /\ ServesUe(q)
            BY DEF RrcInv, ContextsFit
        <3>2. Fits(ueMap[q])'
            BY <3>1, <1>1 DEF Fits
        <3>3. DownFits(q)'
            BY <3>1, <1>1 DEF DownFits
        <3>4. ServesUe(q)'
            BY <3>1, <1>1, <1>u DEF ServesUe
        <3> QED BY <3>2, <3>3, <3>4
    <2>2. Fits(ueMap[r])'
        BY <1>1 DEF Fits
    <2> QED BY <2>1, <2>2 DEF ContextsFit
<1>4. Msg3sFit'
    <2>1. ASSUME NEW m \in ccchUp'
          PROVE  Msg3Fits(m)'
        <3>1. Msg3Fits(m) /\ m \in ccchUp
            BY DEF RrcInv, Msg3sFit
        <3>2. m.rnti \in Rntis /\ m.resumeIdentity \in Rntis \cup {NoRnti}
            BY <3>1, <1>t DEF AnyRnti
        <3> QED BY <3>1, <3>2, <1>1, <1>u DEF Msg3Fits
    <2> QED BY <2>1 DEF RrcInv, Msg3sFit
<1>5. AnswersFit'
    <2>1. ASSUME NEW m \in ccchDown', m.rnti # r
          PROVE  AnswerFits(m)'
        <3>1. AnswerFits(m) /\ m \in ccchDown
            BY <2>1 DEF RrcInv, AnswersFit
        <3>2. ueMap'[m.rnti] = ueMap[m.rnti]
            BY <3>1, <2>1, <1>1, <1>t
        <3> QED BY <3>1, <3>2, <1>u DEF AnswerFits
    <2> QED BY <2>1 DEF AnswersFit
<1>6. RemovalsFit'
    BY <1>1, <1>u DEF RrcInv, RemovalsFit
<1>7. ServingFits'
    <2>1. CASE rnti = r
        BY <2>1
    <2>2. CASE rnti \in Rntis \ {r}
        <3>1. ueMap'[rnti'] = ueMap[rnti] /\ dcchDown'[rnti'] = dcchDown[rnti]
            BY <2>2, <1>1, <1>u
        <3>2. UNCHANGED <<dcchUp, waited>>
            BY <2>2
        <3> QED BY <3>1, <3>2, <1>u DEF RrcInv, ServingFits, ConnectedFits, ReleasedFits, AsleepFits,
                   ResumingFits, Up
    <2>3. CASE rnti \notin Rntis
        <3>1. ueState \notin ActiveStates \cup AsleepStates
            BY <2>3 DEF RrcInv, UeFits
        <3> QED BY <2>3, <3>1, <1>u DEF RrcInv, ServingFits, ActiveStates, AsleepStates,
                   ResumingStates
    <2> QED BY <2>1, <2>2, <2>3
<1> QED BY <1>2, <1>3, <1>4, <1>5, <1>6, <1>7 DEF RrcInv, NoUnexpectedEvent

\* A step of the UE that keeps its RNTI, and may be data activity of its context.
LEMMA UeStep ==
    ASSUME RrcInv, TypeInv', rnti \in Rntis, NEW c \in Contexts, Context(rnti, c),
           UNCHANGED <<rnti, redCap, pagingList, fatal, waited, ccchUp, removals>>,
           \A q \in Rntis \ {rnti} : dcchDown'[q] = dcchDown[q],
           UeFits', Fits(c), DownFits(rnti)', ServesUe(rnti)', ServingFits',
           c.state = ueMap[rnti].state, c.releaseBwp = ueMap[rnti].releaseBwp,
           \A m \in ccchUp : m.resumeIdentity = rnti =>
               dcchDown'[rnti] = << >> /\ ueState' \in ResumingStates \cup IdleStates,
           ccchDown' \subseteq ccchDown,
           \A m \in ccchDown' : m.rnti = rnti => AnswerFits(m)'
    PROVE  RrcInv'
<1>t. /\ ueMap' = [ueMap EXCEPT ![rnti] = c] /\ ueMap \in [Rntis -> Contexts]
      /\ ccchUp \subseteq [rnti : Rntis, resumeIdentity : AnyRnti, sdt : BOOLEAN]
      /\ ccchDown \subseteq [type : CcchDownTypes, rnti : Rntis]
    BY DEF Context, RrcInv, TypeInv, TypeOK, GnbTypeOK, ChannelsOK
<1>1. ueMap'[rnti] = c /\ \A q \in Rntis \ {rnti} : ueMap'[q] = ueMap[q]
    BY <1>t
<1>3. ContextsFit'
    <2>1. ASSUME NEW q \in Rntis \ {rnti}
          PROVE  Fits(ueMap[q])' /\ DownFits(q)' /\ ServesUe(q)'
        <3>1. Fits(ueMap[q]) /\ DownFits(q) /\ ServesUe(q)
            BY DEF RrcInv, ContextsFit
        <3>2. Fits(ueMap[q])'
            BY <3>1, <1>1 DEF Fits
        <3>3. DownFits(q)'
            BY <3>1, <1>1 DEF DownFits
        <3>4. ServesUe(q)'
            BY <3>1, <1>1 DEF ServesUe
        <3> QED BY <3>2, <3>3, <3>4
    <2>2. Fits(ueMap[rnti])'
        BY <1>1 DEF Fits
    <2>3. \A q \in Rntis : q = rnti \/ q \in Rntis \ {rnti}
        OBVIOUS
    <2>4. Fits(ueMap[rnti])' /\ DownFits(rnti)' /\ ServesUe(rnti)'
        BY <2>2
    <2>5. ASSUME NEW q \in Rntis, q = rnti
          PROVE  Fits(ueMap[q])' /\ DownFits(q)' /\ ServesUe(q)'
        BY <2>4, <2>5 DEF Fits, DownFits, ServesUe
    <2> QED BY <2>1, <2>3, <2>5 DEF ContextsFit
<1>4. Msg3sFit'
    <2>1. ASSUME NEW m \in ccchUp'
          PROVE  Msg3Fits(m)'
        <3>1. Msg3Fits(m) /\ m \in ccchUp
            BY DEF RrcInv, Msg3sFit
        <3>2. m.rnti \in Rntis /\ m.resumeIdentity \in Rntis \cup {NoRnti}
            BY <3>1, <1>t DEF AnyRnti
        <3> QED BY <3>1, <3>2, <1>1 DEF Msg3Fits
    <2> QED BY <2>1 DEF RrcInv, Msg3sFit
<1>5. AnswersFit'
    <2>1. ASSUME NEW m \in ccchDown', m.rnti # rnti
          PROVE  AnswerFits(m)'
        <3>1. AnswerFits(m) /\ m \in ccchDown
            BY <2>1 DEF RrcInv, AnswersFit
        <3>2. ueMap'[m.rnti] = ueMap[m.rnti]
            BY <3>1, <2>1, <1>1, <1>t
        <3> QED BY <2>1, <3>1, <3>2 DEF AnswerFits
    <2> QED BY <2>1 DEF AnswersFit
<1>6. RemovalsFit'
    BY <1>1 DEF RrcInv, RemovalsFit
<1> QED BY <1>3, <1>4, <1>5, <1>6 DEF RrcInv, NoUnexpectedEvent

\* A step of the UE that nobody notices.
LEMMA QuietStep ==
    ASSUME RrcInv, TypeInv', UeFits',
           UNCHANGED <<contexts, redCap, messages, fatal, waited, rnti, setupCompleted,
                       releases, drbs>>,
           \/ ueState' = ueState
           \/ ueState \in IdleStates /\ ueState' \in IdleStates
           \/ ueState \in AsleepStates /\ ueState' \in AsleepStates
    PROVE  RrcInv'
<1>u. UNCHANGED <<ueMap, pagingList, removals, dcchUp, dcchDown, ccchUp, ccchDown>>
    BY DEF contexts, messages
<1>1. ContextsFit'
    <2>1. ASSUME NEW q \in Rntis
          PROVE  Fits(ueMap[q])' /\ DownFits(q)' /\ ServesUe(q)'
        <3>1. Fits(ueMap[q]) /\ DownFits(q) /\ ServesUe(q)
            BY DEF RrcInv, ContextsFit
        <3>2. Fits(ueMap[q])'
            BY <3>1, <1>u DEF Fits
        <3>3. DownFits(q)'
            BY <3>1, <1>u DEF DownFits
        <3>4. ServesUe(q)'
            BY <3>1, <1>u DEF ServesUe, IdleStates, AsleepStates
        <3> QED BY <3>2, <3>3, <3>4
    <2> QED BY <2>1 DEF ContextsFit
<1>2. Msg3sFit'
    <2>1. ASSUME NEW m \in ccchUp
          PROVE  Msg3Fits(m)'
        <3>1. Msg3Fits(m)
            BY DEF RrcInv, Msg3sFit
        <3> QED BY <3>1, <1>u DEF Msg3Fits, IdleStates, AsleepStates, ResumingStates
    <2> QED BY <2>1, <1>u DEF RrcInv, Msg3sFit
<1>3. AnswersFit'
    <2>1. ASSUME NEW m \in ccchDown
          PROVE  AnswerFits(m)'
        <3>1. AnswerFits(m)
            BY DEF RrcInv, AnswersFit
        <3> QED BY <3>1, <1>u DEF AnswerFits, IdleStates, AsleepStates
    <2> QED BY <2>1, <1>u DEF AnswersFit
<1>4. RemovalsFit'
    BY <1>u DEF RrcInv, RemovalsFit
<1>5. ServingFits'
    <2>1. CASE ueState' = ueState
        BY <2>1, <1>u DEF RrcInv, ServingFits, ConnectedFits, ReleasedFits, AsleepFits,
           ResumingFits, Up
    <2>2. CASE ueState \in IdleStates /\ ueState' \in IdleStates
        BY <2>2, <1>u DEF RrcInv, ServingFits, IdleStates, AsleepStates, ResumingStates
    <2>3. CASE ueState \in AsleepStates /\ ueState' \in AsleepStates
        BY <2>3, <1>u DEF RrcInv, ServingFits, AsleepStates, ResumingStates, AsleepFits
    <2> QED BY <2>1, <2>2, <2>3
<1> QED BY <1>u, <1>1, <1>2, <1>3, <1>4, <1>5 DEF RrcInv, NoUnexpectedEvent

\* What an attempt leads to: an idle UE stays idle, a suspended one suspended.
LEMMA AttemptStates ==
    ASSUME NEW c \in Attempts, ~c.access
    PROVE  /\ StartConnection(c).state \in IdleStates
           /\ StartConnection(c).access <=> StartConnection(c).state = "IDLE_RANDOM_ACCESS"
           /\ ResumeConnection(c).state = "IDLE_RANDOM_ACCESS_INACTIVE"
           /\ ResumeConnection(c).access
<1>1. CASE hasReceivedMib
    BY <1>1 DEF StartConnection, ResumeConnection, IdleStates
<1>2. CASE ~hasReceivedMib
    BY <1>2 DEF StartConnection, ResumeConnection, IdleStates, Attempts
<1> QED BY <1>1, <1>2

LEMMA SwitchStates ==
    ASSUME NEW c \in Attempts, ~c.access, NEW sib2
    PROVE  LET i == SwitchToState(c, "IDLE_CAMPED_NORMALLY", sib2)
               j == SwitchToState(c, "INACTIVE", sib2)
           IN /\ i.state \in IdleStates
              /\ i.access <=> i.state = "IDLE_RANDOM_ACCESS"
              /\ j.state \in AsleepStates
              /\ j.access <=> j.state = "IDLE_RANDOM_ACCESS_INACTIVE"
<1> DEFINE d == [c EXCEPT !.state = "IDLE_CAMPED_NORMALLY"]
           e == [c EXCEPT !.state = "INACTIVE"]
<1>1. /\ d \in Attempts /\ ~d.access /\ d.state = "IDLE_CAMPED_NORMALLY"
      /\ e \in Attempts /\ ~e.access /\ e.state = "INACTIVE"
    BY DEF Attempts, UeStates
<1>2. /\ SwitchToState(c, "IDLE_CAMPED_NORMALLY", sib2) \in {d, StartConnection(d)}
      /\ SwitchToState(c, "INACTIVE", sib2) \in {e, ResumeConnection(e)}
    BY DEF SwitchToState
<1> HIDE DEF d, e
<1> QED BY <1>1, <1>2, AttemptStates DEF IdleStates, AsleepStates

LEMMA BecomesQuiet ==
    ASSUME RrcInv, TypeInv', NEW d \in Attempts, Becomes(d),
           \/ d = Now
           \/ d.state = ueState /\ (d.access <=> accessing)
           \/ /\ ueState \in IdleStates /\ d.state \in IdleStates
              /\ d.access <=> d.state = "IDLE_RANDOM_ACCESS"
           \/ /\ ueState \in AsleepStates /\ d.state \in AsleepStates
              /\ d.access <=> d.state = "IDLE_RANDOM_ACCESS_INACTIVE",
           UNCHANGED <<contexts, redCap, messages, fatal, waited, rnti, macRnti, resumeIdentity,
                       connectionTimeout, setupCompleted, releases, leaveConnectedMode, drbs, nas>>,
           nasConnects' => nasConnects
    PROVE  RrcInv'
<1>1. \/ ueState' = ueState /\ (accessing' <=> accessing)
      \/ /\ ueState \in IdleStates /\ ueState' \in IdleStates
         /\ accessing' <=> ueState' = "IDLE_RANDOM_ACCESS"
      \/ /\ ueState \in AsleepStates /\ ueState' \in AsleepStates
         /\ accessing' <=> ueState' = "IDLE_RANDOM_ACCESS_INACTIVE"
    BY DEF Becomes, Now
<1>2. UeFits'
    <2>1. UeFits
        BY DEF RrcInv
    <2>2. CASE ueState' = ueState /\ (accessing' <=> accessing)
        BY <2>1, <2>2 DEF UeFits
    <2>3. CASE /\ ueState \in IdleStates /\ ueState' \in IdleStates
               /\ accessing' <=> ueState' = "IDLE_RANDOM_ACCESS"
        BY <2>1, <2>3 DEF UeFits, IdleStates, AsleepStates, ResumingStates, ActiveStates
    <2>4. CASE /\ ueState \in AsleepStates /\ ueState' \in AsleepStates
               /\ accessing' <=> ueState' = "IDLE_RANDOM_ACCESS_INACTIVE"
        BY <2>1, <2>4 DEF UeFits, IdleStates, AsleepStates, ResumingStates, ActiveStates
    <2> QED BY <1>1, <2>2, <2>3, <2>4
<1> QED BY <1>1, <1>2, QuietStep

\* Connect of the NAS, from every state in which it is called.
LEMMA ConnectQuiet ==
    ASSUME UeTypeOK, UeFits
    PROVE  \/ Connect(Now) = Now
           \/ Connect(Now).state = ueState /\ (Connect(Now).access <=> accessing)
           \/ /\ ueState \in IdleStates /\ Connect(Now).state \in IdleStates
              /\ Connect(Now).access <=> Connect(Now).state = "IDLE_RANDOM_ACCESS"
<1>0. Now \in Attempts /\ Now.state = ueState /\ Now.access = accessing
    BY NowType DEF Now
<1>1. CASE ueState = "IDLE_CAMPED_NORMALLY"
    BY <1>0, <1>1 DEF Connect, Attempts
<1>2. CASE ueState = "CONNECTED_PHY_PROBLEM"
    <2> DEFINE d == SwitchToState(Now, "IDLE_CAMPED_NORMALLY", hasReceivedSib2)
    <2>1. ~Now.access
        BY <1>0, <1>2 DEF UeFits
    <2>2. /\ d \in Attempts /\ d.state \in IdleStates
          /\ d.access <=> d.state = "IDLE_RANDOM_ACCESS"
        BY <1>0, <2>1, SwitchStates, AttemptTypes
    <2>3. Connect(Now) = [d EXCEPT !.pending = TRUE]
        BY <1>0, <1>2 DEF Connect
    <2> HIDE DEF d
    <2> QED BY <1>2, <2>2, <2>3 DEF IdleStates, Attempts
<1>3. CASE ueState \notin {"IDLE_CAMPED_NORMALLY", "CONNECTED_PHY_PROBLEM"}
    BY <1>0, <1>3 DEF Connect
<1> QED BY <1>1, <1>2, <1>3

LEMMA NasConnectFits ==
    ASSUME RrcInv, TypeInv', NasConnect, UNCHANGED <<contexts, redCap, waited>>
    PROVE  RrcInv'
<1>1. ueState \notin ConnectUnexpected
    BY DEF NasConnect, RrcInv, UeFits, ConnectUnexpected, IdleStates
<1>2. Connect(Now) \in Attempts
    BY NowType, AttemptTypes DEF RrcInv, TypeInv, TypeOK
<1>3. /\ Becomes(Connect(Now)) /\ ~nasConnects'
      /\ UNCHANGED <<contexts, redCap, messages, fatal, waited, rnti, macRnti, resumeIdentity,
                     connectionTimeout, setupCompleted, releases, leaveConnectedMode, drbs, nas>>
    BY <1>1 DEF NasConnect
<1> QED BY <1>2, <1>3, ConnectQuiet, BecomesQuiet DEF RrcInv, TypeInv, TypeOK

LEMMA DoSendDataFits ==
    ASSUME RrcInv, TypeInv', DoSendData, UNCHANGED <<contexts, redCap, waited>>
    PROVE  RrcInv'
<1> DEFINE c == IF nas = "OFF" THEN Connect(Now) ELSE Now
           d == CASE c.state = "IDLE_CAMPED_NORMALLY" -> StartConnection(c)
                  [] c.state = "INACTIVE" -> ResumeConnection(c)
                  [] OTHER -> c
<1>1. ~(nas = "OFF" /\ ueState \in ConnectUnexpected)
    BY DEF RrcInv, UeFits, ConnectUnexpected, IdleStates
<1>2. c \in Attempts
    BY NowType, AttemptTypes DEF RrcInv, TypeInv, TypeOK
<1>3. /\ Becomes(d) /\ nasConnects' = nasConnects
      /\ UNCHANGED <<contexts, redCap, messages, fatal, waited, rnti, macRnti, resumeIdentity,
                     connectionTimeout, setupCompleted, releases, leaveConnectedMode, drbs, nas>>
    BY <1>1 DEF DoSendData
<1>4. /\ ueState = Now.state /\ accessing = Now.access
      /\ accessing <=> ueState \in {"IDLE_RANDOM_ACCESS", "IDLE_RANDOM_ACCESS_INACTIVE"}
    BY DEF Now, RrcInv, UeFits
<1>5. \/ c.state = ueState /\ (c.access <=> accessing)
      \/ /\ ueState \in IdleStates /\ c.state \in IdleStates
         /\ c.access <=> c.state = "IDLE_RANDOM_ACCESS"
    BY <1>4, ConnectQuiet DEF RrcInv, TypeInv, TypeOK
<1> HIDE DEF c
<1>6. d \in Attempts
    BY <1>2, AttemptTypes
<1>7. \/ d.state = ueState /\ (d.access <=> accessing)
      \/ /\ ueState \in IdleStates /\ d.state \in IdleStates
         /\ d.access <=> d.state = "IDLE_RANDOM_ACCESS"
      \/ /\ ueState \in AsleepStates /\ d.state \in AsleepStates
         /\ d.access <=> d.state = "IDLE_RANDOM_ACCESS_INACTIVE"
    <2>1. CASE c.state = "IDLE_CAMPED_NORMALLY"
        <3>1. ~c.access /\ ueState \in IdleStates
            BY <2>1, <1>4, <1>5 DEF IdleStates
        <3> QED BY <2>1, <3>1, <1>2, AttemptStates
    <2>2. CASE c.state = "INACTIVE"
        <3>1. ~c.access /\ ueState \in AsleepStates
            BY <2>2, <1>4, <1>5 DEF IdleStates, AsleepStates
        <3> QED BY <2>2, <3>1, <1>2, AttemptStates DEF AsleepStates
    <2>3. CASE c.state \notin {"IDLE_CAMPED_NORMALLY", "INACTIVE"}
        BY <2>3, <1>5
    <2> QED BY <2>1, <2>2, <2>3
<1> HIDE DEF d
<1> QED BY <1>3, <1>6, <1>7, BecomesQuiet

LEMMA BroadcastFits ==
    ASSUME RrcInv, TypeInv', DoRecvMasterInformationBlock \/ DoRecvSystemInformation,
           UNCHANGED <<contexts, redCap, waited>>
    PROVE  RrcInv'
<1>1. CASE DoRecvMasterInformationBlock
    <2> DEFINE d == SwitchToState(Now, "IDLE_CAMPED_NORMALLY", hasReceivedSib2)
               e == IF ueState = "IDLE_WAIT_MIB" THEN d ELSE Now
    <2>1. Now \in Attempts /\ Now.state = ueState /\ Now.access = accessing
        BY NowType DEF Now, RrcInv, TypeInv, TypeOK
    <2>2. d \in Attempts
        BY <2>1, AttemptTypes
    <2>3. ueState = "IDLE_WAIT_MIB" => /\ ueState \in IdleStates /\ d.state \in IdleStates
                                       /\ d.access <=> d.state = "IDLE_RANDOM_ACCESS"
        BY <2>1, SwitchStates DEF RrcInv, UeFits, IdleStates
    <2>4. Becomes(e)
        BY <1>1 DEF DoRecvMasterInformationBlock
    <2> HIDE DEF d
    <2>5. /\ e \in Attempts
          /\ \/ e = Now
             \/ /\ ueState \in IdleStates /\ e.state \in IdleStates
                /\ e.access <=> e.state = "IDLE_RANDOM_ACCESS"
        BY <2>1, <2>2, <2>3
    <2> HIDE DEF e
    <2> QED BY <1>1, <2>4, <2>5, BecomesQuiet DEF DoRecvMasterInformationBlock
<1>2. CASE DoRecvSystemInformation
    <2>1. UeFits'
        BY <1>2 DEF DoRecvSystemInformation, RrcInv, UeFits
    <2> QED BY <1>2, <2>1, QuietStep DEF DoRecvSystemInformation
<1> QED BY <1>1, <1>2

\* The invariant at one context.
LEMMA AtContext ==
    ASSUME RrcInv, NEW r \in Rntis
    PROVE  /\ ueMap[r] \in Contexts /\ ueMap \in [Rntis -> Contexts]
           /\ Fits(ueMap[r]) /\ DownFits(r) /\ ServesUe(r)
           /\ dcchDown[r] \in Seq(DcchDownTypes)
           /\ UNCHANGED ueMap => Context(r, ueMap[r])
<1>1. ueMap \in [Rntis -> Contexts] /\ dcchDown \in [Rntis -> Seq(DcchDownTypes)]
    BY DEF RrcInv, TypeInv, TypeOK, GnbTypeOK, ChannelsOK
<1>2. Fits(ueMap[r]) /\ DownFits(r) /\ ServesUe(r)
    BY DEF RrcInv, ContextsFit
<1>3. UNCHANGED ueMap => Context(r, ueMap[r])
    BY <1>1 DEF Context
<1> QED BY <1>1, <1>2, <1>3

\* 10 ms after RrcSetup the UE answers.
LEMMA SetupCompletedFits ==
    ASSUME RrcInv, TypeInv', SendRrcSetupCompleted, UNCHANGED <<contexts, redCap, waited>>
    PROVE  RrcInv'
<1> DEFINE c == ueMap[rnti]
<1>1. /\ setupCompleted = 0 /\ IsRunning(setupCompleted) /\ ~IsRunning(setupCompleted')
      /\ ueState = "CONNECTED_NORMALLY" /\ rnti \in Rntis
    BY DEF SendRrcSetupCompleted, RrcInv, UeFits, IsRunning, Off, ActiveStates
<1>2. /\ c.state = "CONNECTION_SETUP" /\ dcchUp = << >>
      /\ c.setupTimeout + MaxDelay + ProcDelay >= ConnectionSetupTimeoutDuration
    BY <1>1, DurationsAreNat DEF RrcInv, ServingFits, ConnectedFits
<1>3. /\ UNCHANGED <<ueState, rnti, macRnti, resumeIdentity, connectionTimeout, releases, drbs,
                     leaveConnectedMode, accessing, nas, nasConnects, ueMap, redCap, pagingList,
                     fatal, waited, ccchUp, ccchDown, dcchDown, removals>>
      /\ dcchUp' = Up("RrcSetupCompleted")'
    BY <1>2 DEF SendRrcSetupCompleted, contexts, ueFlags, SendUp, Up
<1>4. /\ c \in Contexts /\ Fits(c) /\ Context(rnti, c)
      /\ DownFits(rnti)' /\ ServesUe(rnti)'
    BY <1>1, <1>3, AtContext DEF DownFits, ServesUe
<1>5. UeFits'
    BY <1>1, <1>3 DEF RrcInv, UeFits, IdleStates
<1>6. c.setupTimeout + MaxDelay + ProcDelay + waited >= ConnectionSetupTimeoutDuration
    <2>1. c.setupTimeout \in Int /\ MaxDelay \in Nat /\ ProcDelay \in Nat /\ waited \in Nat
          /\ ConnectionSetupTimeoutDuration \in Nat
        BY <1>4, DurationsAreNat, RrcAssumption, RrcProtocolAssumption
           DEF Contexts, Off, RrcInv, TypeInv, TypeOK
    <2> HIDE DEF c
    <2> QED BY <1>2, <2>1
<1>7. ServingFits'
    BY <1>1, <1>2, <1>3, <1>6 DEF ServingFits, ConnectedFits, AsleepStates, ResumingStates
<1>8. /\ \A m \in ccchDown' : AnswerFits(m)'
      /\ \A m \in ccchUp : m.resumeIdentity # rnti
    BY <1>1, <1>3, RrcProtocolAssumption DEF RrcInv, AnswersFit, AnswerFits, Msg3sFit, Msg3Fits, NoRnti,
       ResumingStates, IdleStates
<1> HIDE DEF c
<1>9. c.state = ueMap[rnti].state /\ c.releaseBwp = ueMap[rnti].releaseBwp
    BY DEF c
<1> QED BY <1>1, <1>3, <1>4, <1>5, <1>7, <1>8, <1>9, UeStep

-----------------------------------------------------------------------------
\* What the handlers do to a context that fits.
LEMMA NoContextFits == NoContext \in Contexts /\ Fits(NoContext)
BY NoContextType DEF Fits, NoContext, IsRunning

LEMMA InitialFits ==
    LET c == [NoContext EXCEPT !.state = "INITIAL_RANDOM_ACCESS",
                               !.requestTimeout = ConnectionRequestTimeoutDuration]
    IN c \in Contexts /\ Fits(c) /\ c.state = "INITIAL_RANDOM_ACCESS"
<1>1. ConnectionRequestTimeoutDuration # Off
    BY DurationsAreNat DEF Off
<1>2. [NoContext EXCEPT !.state = "INITIAL_RANDOM_ACCESS",
                        !.requestTimeout = ConnectionRequestTimeoutDuration] \in Contexts
    BY ContextValues, NoContextType DEF NoContext, Contexts, GnbStates
<1> QED BY <1>1, <1>2 DEF Fits, NoContext, IsRunning

LEMMA RefreshedFits ==
    ASSUME NEW c \in Contexts, Fits(c)
    PROVE  /\ Refreshed(c) \in Contexts /\ Fits(Refreshed(c))
           /\ Refreshed(c).state = c.state /\ Refreshed(c).releaseBwp = c.releaseBwp
           /\ Refreshed(c).setupTimeout = c.setupTimeout /\ Refreshed(c).inRACH = c.inRACH
           /\ c.state = "CONNECTION_RECONFIGURATION" =>
                  Refreshed(c).inactivityTimeout = DataInactivityInterval
<1>1. DataInactivityInterval # Off /\ ConnectionRequestTimeoutDuration # Off
    BY DurationsAreNat DEF Off
<1>2. Refreshed(c) \in Contexts
    BY RefreshedType
<1>3. /\ Refreshed(c).state = c.state /\ Refreshed(c).releaseBwp = c.releaseBwp
      /\ Refreshed(c).setupTimeout = c.setupTimeout
      /\ Refreshed(c).rejectedTimeout = c.rejectedTimeout
      /\ Refreshed(c).forgotten = c.forgotten /\ Refreshed(c).polling = c.polling
      /\ Refreshed(c).pending = c.pending /\ Refreshed(c).drbs = c.drbs
      /\ Refreshed(c).inRACH = c.inRACH /\ Refreshed(c).switchingBwp = c.switchingBwp
      /\ Refreshed(c).inactivityTimeout =
             IF IsRunning(c.inactivityTimeout) THEN DataInactivityInterval ELSE Off
      /\ Refreshed(c).requestTimeout =
             IF IsRunning(c.requestTimeout) THEN ConnectionRequestTimeoutDuration ELSE Off
    BY DEF Refreshed, Contexts
<1> DEFINE d == Refreshed(c)
<1> HIDE DEF d
<1> QED BY <1>1, <1>2, <1>3 DEF Fits, IsRunning

LEMMA AdmittedFits ==
    ASSUME NEW c \in Contexts, Fits(c), c.state = "INITIAL_RANDOM_ACCESS"
    PROVE  LET d == [c EXCEPT !.inRACH = TRUE, !.requestTimeout = Off,
                              !.state = "CONNECTION_SETUP",
                              !.setupTimeout = ConnectionSetupTimeoutDuration]
           IN d \in Contexts /\ Fits(d)
<1>1. ConnectionSetupTimeoutDuration # Off
    BY DurationsAreNat DEF Off
<1>2. [c EXCEPT !.inRACH = TRUE, !.requestTimeout = Off, !.state = "CONNECTION_SETUP",
                !.setupTimeout = ConnectionSetupTimeoutDuration] \in Contexts
    BY ContextValues DEF Contexts, GnbStates
<1> QED BY <1>1, <1>2 DEF Fits, Contexts, IsRunning

LEMMA RejectedFits ==
    ASSUME NEW c \in Contexts, Fits(c), c.releaseBwp = {},
           c.state \in {"INITIAL_RANDOM_ACCESS"} \cup SuspendedStates
    PROVE  LET d == [[c EXCEPT !.requestTimeout = Off] EXCEPT
                        !.inRACH = TRUE, !.state = "CONNECTION_REJECTED",
                        !.rejectedTimeout = ConnectionRejectedTimeoutDuration]
           IN /\ d \in Contexts /\ Fits(d) /\ d.state = "CONNECTION_REJECTED"
              /\ c.state \in SuspendedStates => [c EXCEPT !.requestTimeout = Off] = c
<1>1. ConnectionRejectedTimeoutDuration # Off
    BY DurationsAreNat DEF Off
<1>2. [[c EXCEPT !.requestTimeout = Off] EXCEPT
                        !.inRACH = TRUE, !.state = "CONNECTION_REJECTED",
                        !.rejectedTimeout = ConnectionRejectedTimeoutDuration] \in Contexts
    BY ContextValues DEF Contexts, GnbStates
<1>3. c.state \in SuspendedStates => [c EXCEPT !.requestTimeout = Off] = c
    <2>1. c.state \in SuspendedStates => c.requestTimeout = Off
        BY DEF Fits, IsRunning, SuspendedStates
    <2> QED BY <2>1 DEF Contexts
<1> QED BY <1>1, <1>2, <1>3 DEF Fits, Contexts, IsRunning, SuspendedStates

LEMMA ResumedFits ==
    ASSUME NEW c \in Contexts, Fits(c), c.releaseBwp = {}, c.state \in SuspendedStates
    PROVE  /\ Resumed(c) \in Contexts /\ Fits(Resumed(c))
           /\ Resumed(c).state = "INACTIVE_CONNECTING"
<1>1. Resumed(c) \in Contexts
    BY DEF Resumed, Contexts, GnbStates
<1> QED BY <1>1 DEF Fits, Contexts, IsRunning, SuspendedStates, Resumed

LEMMA AttachRequestedFits ==
    ASSUME NEW c \in Contexts, Fits(c), c.state = "CONNECTION_SETUP"
    PROVE  /\ AttachRequested(c) \in Contexts /\ Fits(AttachRequested(c))
           /\ AttachRequested(c).state = "ATTACH_REQUEST"
<1> DEFINE e == Refreshed(c)
           d == [e EXCEPT !.state = "ATTACH_REQUEST", !.setupTimeout = Off,
                          !.switchingBwp = SetupBwpSwitch, !.pending = TRUE]
<1>1. SetupBwpSwitch # Off /\ SetupBwpSwitch > 0
    BY GnbRrcAssumption DEF Off, Durations
<1>2. e \in Contexts /\ Fits(e) /\ e.state = "CONNECTION_SETUP"
    BY RefreshedFits
<1> HIDE DEF e
<1>3. d \in Contexts
    BY <1>2, ContextValues DEF Contexts, GnbStates
<1>4. Fits(d) /\ d.state = "ATTACH_REQUEST"
    BY <1>1, <1>2, <1>3 DEF Fits, Contexts, IsRunning
<1> QED BY <1>3, <1>4 DEF AttachRequested, d, e

LEMMA AttachedFits ==
    ASSUME NEW c \in Contexts, Fits(c), c.state = "ATTACH_REQUEST"
    PROVE  LET d == Connected([c EXCEPT !.drbs = TRUE])
           IN d \in Contexts /\ Fits(d) /\ d.state = "CONNECTED_NORMALLY" /\ d.inRACH
<1>1. Connected([c EXCEPT !.drbs = TRUE]) \in Contexts
    BY DEF Connected, Contexts, GnbStates
<1>2. c.switchingBwp # Off
    BY DEF Fits, Off
<1> QED BY <1>1, <1>2 DEF Fits, Contexts, IsRunning, Connected

LEMMA ResumeCompletedFits ==
    ASSUME NEW c \in Contexts, Fits(c), c.state = "INACTIVE_CONNECTING"
    PROVE  LET d == Connected([Refreshed(c) EXCEPT !.switchingBwp = ResumeBwpSwitch,
                                                   !.pending = TRUE])
           IN d \in Contexts /\ Fits(d) /\ d.state = "CONNECTED_NORMALLY" /\ d.inRACH
<1> DEFINE e == Refreshed(c)
           d == Connected([e EXCEPT !.switchingBwp = ResumeBwpSwitch, !.pending = TRUE])
<1>1. ResumeBwpSwitch # Off
    BY DurationsAreNat DEF Off
<1>2. e \in Contexts /\ Fits(e) /\ e.state = "INACTIVE_CONNECTING"
    BY RefreshedFits
<1> HIDE DEF e
<1>3. d \in Contexts
    BY <1>2, ContextValues DEF Contexts, GnbStates, Connected
<1>4. Fits(d) /\ d.state = "CONNECTED_NORMALLY" /\ d.inRACH
    BY <1>1, <1>2, <1>3 DEF Fits, Contexts, IsRunning, Connected
<1> QED BY <1>3, <1>4 DEF e

LEMMA ReconfiguredFits ==
    ASSUME NEW c \in Contexts, Fits(c), c.state = "CONNECTION_RECONFIGURATION"
    PROVE  LET d == Connected([[Refreshed(c) EXCEPT !.inRACH = FALSE] EXCEPT !.buffered = 0])
           IN d \in Contexts /\ Fits(d) /\ d.state = "CONNECTED_NORMALLY"
<1> DEFINE e == Refreshed(c)
           d == Connected([[e EXCEPT !.inRACH = FALSE] EXCEPT !.buffered = 0])
<1>2. e \in Contexts /\ Fits(e) /\ e.state = "CONNECTION_RECONFIGURATION"
    BY RefreshedFits
<1> HIDE DEF e
<1>3. d \in Contexts
    BY <1>2, ContextValues DEF Contexts, GnbStates, Connected
<1>4. Fits(d) /\ d.state = "CONNECTED_NORMALLY"
    BY <1>2, <1>3 DEF Fits, Contexts, IsRunning, Connected
<1> QED BY <1>3, <1>4 DEF e

\* Nothing but a connected context without a pending reconfiguration is released.
LEMMA ReleasedContextFits ==
    ASSUME NEW c \in Contexts, Fits(c), c.state = "CONNECTED_NORMALLY", ~c.polling
    PROVE  /\ Released(c) \in Contexts /\ Fits(Released(c)) /\ c.drbs
           /\ Released(c).state = IF redCap THEN "INACTIVE" ELSE "IDLE"
<1> DEFINE e == Cancelled(c)
           d == Released(c)
<1>1. /\ e \in Contexts /\ e.state = c.state /\ e.drbs = c.drbs /\ e.forgotten = c.forgotten
      /\ e.polling = c.polling /\ e.pending = c.pending /\ e.inRACH = c.inRACH
      /\ e.switchingBwp = c.switchingBwp /\ e.releaseBwp = c.releaseBwp
      /\ e.requestTimeout = Off /\ e.setupTimeout = Off /\ e.rejectedTimeout = Off
      /\ e.inactivityTimeout = Off
    BY CancelledType DEF Cancelled, Contexts
<1>2. d = [e EXCEPT !.state = IF redCap THEN "INACTIVE" ELSE "IDLE",
                    !.releaseBwp = IF redCap THEN @ \cup {ReleaseBwpSwitch} ELSE @]
    BY DEF Released
<1> HIDE DEF e
<1>3. d \in Contexts /\ d.state = IF redCap THEN "INACTIVE" ELSE "IDLE"
    BY ReleasedType
<1>4. /\ d.drbs = c.drbs /\ d.forgotten = c.forgotten /\ d.polling = c.polling
      /\ d.pending = c.pending /\ d.inRACH = c.inRACH /\ d.switchingBwp = c.switchingBwp
      /\ d.requestTimeout = Off /\ d.setupTimeout = Off /\ d.rejectedTimeout = Off
      /\ d.inactivityTimeout = Off /\ (~redCap => d.releaseBwp = c.releaseBwp)
    BY <1>1, <1>2 DEF Contexts
<1> HIDE DEF d
<1>5. Fits(d)
    BY <1>3, <1>4 DEF Fits, IsRunning
<1> QED BY <1>3, <1>5 DEF d, Fits

LEMMA BwpSwitchedFits ==
    ASSUME NEW c \in Contexts, Fits(c)
    PROVE  /\ c.switchingBwp = 0 =>
                  Fits(BwpSwitched(c)) /\ c.state = "CONNECTED_NORMALLY"
           /\ 0 \in c.releaseBwp =>
                  LET d == BwpSwitched([c EXCEPT !.releaseBwp = @ \ {0}])
                  IN /\ d \in Contexts /\ Fits(d) /\ c.state = "INACTIVE" /\ d.state = "INACTIVE"
                     /\ d.releaseBwp \subseteq c.releaseBwp
<1>0. DataInactivityInterval # Off
    BY DurationsAreNat DEF Off
<1>1. CASE c.switchingBwp = 0
    <2>1. /\ c.state = "CONNECTED_NORMALLY" /\ c.polling /\ c.inactivityTimeout = Off
          /\ IsRunning(c.switchingBwp)
        BY <1>1 DEF Fits, IsRunning, Off
    <2> DEFINE d == BwpSwitched(c)
    <2>2. /\ d.state = c.state /\ d.pending = c.pending /\ d.inRACH = c.inRACH /\ d.drbs = c.drbs
          /\ d.requestTimeout = c.requestTimeout /\ d.setupTimeout = c.setupTimeout
          /\ d.rejectedTimeout = c.rejectedTimeout /\ d.forgotten = c.forgotten
          /\ d.releaseBwp = c.releaseBwp /\ d.polling = c.polling
          /\ d.switchingBwp = Off /\ d.inactivityTimeout = DataInactivityInterval
        BY <2>1 DEF BwpSwitched, IsRunning, Contexts
    <2> HIDE DEF d
    <2>3. Fits(d)
        BY <1>0, <2>1, <2>2 DEF Fits, IsRunning
    <2>4. 0 \notin c.releaseBwp
        BY <2>1 DEF Fits
    <2> QED BY <2>1, <2>3, <2>4 DEF d
<1>2. CASE 0 \in c.releaseBwp
    <2> DEFINE e == [c EXCEPT !.releaseBwp = @ \ {0}]
    <2>1. c.state = "INACTIVE" /\ redCap
        BY <1>2 DEF Fits
    <2>2. /\ e \in Contexts /\ e.state = "INACTIVE" /\ e.releaseBwp \subseteq c.releaseBwp
          /\ Fits(e)
        BY <2>1 DEF Contexts, Fits, IsRunning
    <2>3. c.switchingBwp # 0
        BY <2>1 DEF Fits, IsRunning, Off
    <2> HIDE DEF e
    <2> DEFINE d == BwpSwitched(e)
    <2>4. /\ d.state = e.state /\ d.pending = e.pending /\ d.inRACH = e.inRACH /\ d.drbs = e.drbs
          /\ d.requestTimeout = e.requestTimeout /\ d.setupTimeout = e.setupTimeout
          /\ d.rejectedTimeout = e.rejectedTimeout /\ d.forgotten = e.forgotten
          /\ d.releaseBwp = e.releaseBwp /\ d.polling = e.polling /\ d \in Contexts
          /\ d.switchingBwp = Off /\ d.inactivityTimeout = e.inactivityTimeout
        BY <2>2, BwpSwitchedType DEF BwpSwitched, Contexts
    <2> HIDE DEF d
    <2>5. Fits(d)
        BY <2>1, <2>2, <2>4 DEF Fits, IsRunning
    <2> QED BY <2>1, <2>2, <2>3, <2>4, <2>5 DEF e, d
<1> QED BY <1>1, <1>2

LEMMA ReconfigurationSentFits ==
    ASSUME NEW c \in Contexts, Fits(c), c.polling, ~IsRunning(c.switchingBwp)
    PROVE  LET d == [[c EXCEPT !.polling = FALSE] EXCEPT
                        !.pending = FALSE, !.state = "CONNECTION_RECONFIGURATION"]
           IN /\ c.state = "CONNECTED_NORMALLY" /\ [c EXCEPT !.polling = FALSE] \in Contexts
              /\ d \in Contexts /\ Fits(d) /\ d.state = "CONNECTION_RECONFIGURATION"
              /\ d.inactivityTimeout = DataInactivityInterval
<1> DEFINE d == [[c EXCEPT !.polling = FALSE] EXCEPT
                    !.pending = FALSE, !.state = "CONNECTION_RECONFIGURATION"]
<1>0. DataInactivityInterval # Off
    BY DurationsAreNat DEF Off
<1>1. c.state = "CONNECTED_NORMALLY" /\ c.inRACH /\ c.inactivityTimeout = DataInactivityInterval
    BY DEF Fits
<1>2. d \in Contexts /\ [c EXCEPT !.polling = FALSE] \in Contexts
    BY DEF Contexts, GnbStates
<1>3. Fits(d) /\ d.state = "CONNECTION_RECONFIGURATION" /\ d.inactivityTimeout = DataInactivityInterval
    BY <1>0, <1>1, <1>2 DEF Fits, IsRunning, Contexts
<1> QED BY <1>1, <1>2, <1>3

-----------------------------------------------------------------------------
\* Messages that disappear from SRB0.
LEMMA CcchLostFits ==
    ASSUME RrcInv, TypeInv', NEW r \in Rntis,
           ccchUp' \subseteq ccchUp, ccchDown' \subseteq ccchDown,
           UNCHANGED <<ueVars, contexts, redCap, waited, dcchUp, dcchDown, removals, fatal>>
    PROVE  RrcInv'
<1> DEFINE c == ueMap[r]
<1>u. /\ UNCHANGED <<ueMap, pagingList, ueState, rnti, setupCompleted, releases, drbs>>
    BY DEF contexts, ueVars, ueFlags
<1>1. /\ c \in Contexts /\ Fits(c) /\ Context(r, c) /\ DownFits(r)' /\ ServesUe(r)'
    BY <1>u, AtContext DEF DownFits, ServesUe
<1>2. \A m \in ccchUp : Msg3Fits(m)
    BY DEF RrcInv, Msg3sFit
<1>3. /\ \A m \in ccchUp' : m.rnti = r => c.state \in {"NONE", "INITIAL_RANDOM_ACCESS"}
      /\ \A m \in ccchUp' : m.resumeIdentity = r =>
               c.state \in SuspendedStates /\ c.releaseBwp = {} /\ dcchDown'[r] = << >>
    BY <1>2, RrcProtocolAssumption DEF Msg3Fits, NoRnti
<1>4. \A m \in ccchDown' : AnswerFits(m)'
    BY <1>u DEF RrcInv, AnswersFit, AnswerFits
<1>5. ServingFits'
    BY <1>u DEF RrcInv, ServingFits, ConnectedFits, ReleasedFits, AsleepFits, ResumingFits, Up
<1>6. r \in removals => c.state = "IDLE"
    BY DEF RrcInv, RemovalsFit
<1> HIDE DEF c
<1> QED BY <1>u, <1>1, <1>3, <1>4, <1>5, <1>6, GnbStep

\* What is on SRB1 towards the gNB is the answer of the connected UE to its context.
LEMMA UpIsMine ==
    ASSUME RrcInv, dcchUp # << >>
    PROVE  /\ ueState = "CONNECTED_NORMALLY" /\ rnti \in Rntis /\ macRnti = rnti
           /\ ConnectedFits(ueMap[rnti], dcchDown[rnti])
           /\ ueMap[rnti].state # "NONE"
           /\ \E type \in DcchUpTypes : dcchUp = Up(type)
<1>1. ueState = "CONNECTED_NORMALLY" /\ rnti \in Rntis /\ macRnti = rnti
    BY DEF RrcInv, ServingFits, UeFits, ActiveStates
<1>2. ConnectedFits(ueMap[rnti], dcchDown[rnti])
    BY <1>1 DEF RrcInv, ServingFits
<1>3. ueMap[rnti].state # "NONE" /\ \E type \in DcchUpTypes : dcchUp = Up(type)
    BY <1>2 DEF ConnectedFits, DcchUpTypes
<1> QED BY <1>1, <1>2, <1>3

LEMMA LoseFits ==
    ASSUME RrcInv, TypeInv', UNCHANGED <<redCap, waited>>,
           \/ DropMsg3 /\ UNCHANGED ueVars
           \/ DropUp /\ UNCHANGED ueVars
           \/ Lose
    PROVE  RrcInv'
<1>t. /\ ccchUp \subseteq [rnti : Rntis, resumeIdentity : AnyRnti, sdt : BOOLEAN]
      /\ ccchDown \subseteq [type : CcchDownTypes, rnti : Rntis]
    BY DEF RrcInv, TypeInv, TypeOK, ChannelsOK
<1>1. dcchUp # << >> => Head(dcchUp).rnti = macRnti /\ HasUeManager(macRnti)
    BY UpIsMine DEF Up, HasUeManager
<1>2. /\ ~DropUp
      /\ \E m \in ccchUp \cup ccchDown :
             ccchUp' \subseteq ccchUp /\ ccchDown' \subseteq ccchDown
      /\ UNCHANGED <<ueVars, contexts, dcchUp, dcchDown, removals, fatal>>
    BY <1>1 DEF DropUp, DropMsg3, Lose, LoseCcch, contexts
<1>3. PICK m \in ccchUp \cup ccchDown :
            ccchUp' \subseteq ccchUp /\ ccchDown' \subseteq ccchDown
    BY <1>2
<1>4. m.rnti \in Rntis
    BY <1>t
<1> QED BY <1>2, <1>3, <1>4, CcchLostFits

\* The messages on SRB0 that can concern a context in its state.
LEMMA CcchOf ==
    ASSUME RrcInv, NEW r \in Rntis
    PROVE  /\ ueMap[r].state \notin {"NONE", "INITIAL_RANDOM_ACCESS"} =>
                  \A m \in ccchUp : m.rnti # r
           /\ ueMap[r].state \notin SuspendedStates \/ ueMap[r].releaseBwp # {} \/ dcchDown[r] # << >> =>
                  \A m \in ccchUp : m.resumeIdentity # r
           /\ rnti = r /\ ueState \notin ResumingStates \cup IdleStates =>
                  \A m \in ccchUp : m.resumeIdentity # r
           /\ ueMap[r].state \notin {"CONNECTION_SETUP", "CONNECTION_REJECTED"} =>
                  \A m \in ccchDown : m.rnti # r
           /\ rnti = r /\ ueState = "CONNECTED_NORMALLY" => \A m \in ccchDown : m.rnti # r
           /\ ueMap[r].state # "IDLE" => r \notin removals
<1>0. r # NoRnti
    BY RrcProtocolAssumption DEF NoRnti
<1>1. ASSUME NEW m \in ccchUp
      PROVE  /\ m.rnti = r => ueMap[r].state \in {"NONE", "INITIAL_RANDOM_ACCESS"}
             /\ m.resumeIdentity = r => /\ ueMap[r].state \in SuspendedStates
                                        /\ ueMap[r].releaseBwp = {} /\ dcchDown[r] = << >>
                                        /\ rnti = r => ueState \in ResumingStates \cup IdleStates
    <2>1. Msg3Fits(m)
        BY DEF RrcInv, Msg3sFit
    <2> QED BY <1>0, <2>1 DEF Msg3Fits
<1>2. ASSUME NEW m \in ccchDown, m.rnti = r
      PROVE  /\ ueMap[r].state \in {"CONNECTION_SETUP", "CONNECTION_REJECTED"}
             /\ ~(rnti = r /\ ueState = "CONNECTED_NORMALLY")
    <2>1. AnswerFits(m) /\ m.type \in CcchDownTypes
        BY DEF RrcInv, AnswersFit, TypeInv, TypeOK, ChannelsOK
    <2>2. rnti = r /\ ueState = "CONNECTED_NORMALLY" => ueMap[r].state # "CONNECTION_REJECTED"
        BY DEF RrcInv, ServingFits, ConnectedFits
    <2> QED BY <1>2, <2>1, <2>2 DEF AnswerFits, CcchDownTypes, IdleStates
<1>3. ueMap[r].state # "IDLE" => r \notin removals
    BY DEF RrcInv, RemovalsFit
<1> QED BY <1>1, <1>2, <1>3

\* A UE whose RNTI has a context in these states is waiting for nothing of it.
LEMMA UeOf ==
    ASSUME RrcInv, rnti \in Rntis
    PROVE  LET s == ueMap[rnti].state
           IN /\ s = "INITIAL_RANDOM_ACCESS" => ueState \in IdleStates \cup {"IDLE_CONNECTING"}
              /\ s = "CONNECTION_SETUP" =>
                     ueState \in IdleStates \cup {"IDLE_CONNECTING", "CONNECTED_NORMALLY"}
              /\ s = "CONNECTION_REJECTED" =>
                     ueState \in IdleStates \cup {"IDLE_CONNECTING"} \cup ResumingStates
              /\ ueState # "CONNECTED_NORMALLY" => dcchUp = << >>
<1>1. ueState \in UeStates
    BY DEF RrcInv, TypeInv, TypeOK, UeTypeOK
<1> QED BY <1>1 DEF RrcInv, ServingFits, ConnectedFits, ReleasedFits, AsleepFits, ResumingFits, UeStates,
            IdleStates, ResumingStates, AsleepStates, SuspendedStates

LEMMA ConnectionRequestFits ==
    ASSUME RrcInv, TypeInv', NEW r \in Rntis, RecvRrcConnectionRequest(r),
           UNCHANGED <<ueVars, redCap, waited>>
    PROVE  RrcInv'
<1> DEFINE c == ueMap[r]
           n == [rnti |-> r, resumeIdentity |-> NoRnti, sdt |-> FALSE]
           d == [c EXCEPT !.inRACH = TRUE, !.requestTimeout = Off,
                          !.state = "CONNECTION_SETUP",
                          !.setupTimeout = ConnectionSetupTimeoutDuration]
           e == [[c EXCEPT !.requestTimeout = Off] EXCEPT
                    !.inRACH = TRUE, !.state = "CONNECTION_REJECTED",
                    !.rejectedTimeout = ConnectionRejectedTimeoutDuration]
<1>u. UNCHANGED <<ueState, rnti, setupCompleted, releases, drbs>>
    BY DEF ueVars, ueFlags
<1>1. c \in Contexts /\ Fits(c) /\ DownFits(r) /\ ueMap \in [Rntis -> Contexts]
    BY AtContext
<1>2. n \in ccchUp /\ ccchUp' = ccchUp \ {n} /\ c.state = "INITIAL_RANDOM_ACCESS"
    BY DEF RecvRrcConnectionRequest, RrcInv, Msg3sFit, Msg3Fits, HasUeManager
<1>3. /\ UNCHANGED <<pagingList, fatal, dcchDown, dcchUp, removals>>
      /\ \/ Context(r, d) /\ SendCcchDown("RrcSetup", r)
         \/ Context(r, e) /\ SendCcchDown("RrcConnectionReject", r)
    BY <1>2 DEF RecvRrcConnectionRequest, Reject
<1>4. c.releaseBwp = {} /\ dcchDown[r] = << >>
    BY <1>1, <1>2 DEF Fits, DownFits
<1>5. /\ \A m \in ccchUp' : m.rnti # r /\ m.resumeIdentity # r
      /\ \A m \in ccchDown : m.rnti # r
      /\ r \notin removals
    <2>1. \A m \in ccchUp' : m.rnti # r
        BY <1>2 DEF RrcInv, Msg3sFit
    <2> QED BY <2>1, <1>2, CcchOf DEF SuspendedStates
<1>6. rnti = r => /\ ueState \in IdleStates \cup {"IDLE_CONNECTING"}
                  /\ dcchUp = << >>
    BY <1>2, UeOf DEF IdleStates
<1>7. CASE Context(r, d) /\ SendCcchDown("RrcSetup", r)
    <2>1. d \in Contexts /\ Fits(d)
        BY <1>1, <1>2, AdmittedFits
    <2>2. d.state = "CONNECTION_SETUP" /\ d.setupTimeout = ConnectionSetupTimeoutDuration
        BY <1>1 DEF Contexts
    <2>3. ueMap'[r] = d
        BY <1>1, <1>7 DEF Context
    <2> HIDE DEF d, c, n
    <2>4. DownFits(r)' /\ ServesUe(r)'
        BY <2>2, <2>3, <1>3, <1>4 DEF DownFits, ServesUe
    <2>5. \A m \in ccchDown' : IF m.rnti = r THEN AnswerFits(m)' ELSE m \in ccchDown
        <3>1. ASSUME NEW m \in ccchDown', m.rnti = r
              PROVE  AnswerFits(m)'
            <4>1. m = [type |-> "RrcSetup", rnti |-> r]
                BY <3>1, <1>5, <1>7 DEF SendCcchDown
            <4>2. ueMap[r]'.setupTimeout + waited' >= ConnectionSetupTimeoutDuration
                <5>1. waited' \in Nat /\ ConnectionSetupTimeoutDuration \in Nat
                    BY DurationsAreNat, RrcAssumption DEF TypeInv, TypeOK
                <5> QED BY <5>1, <2>2, <2>3
            <4> QED BY <4>1, <4>2, <2>2, <2>3, <1>6, <1>u DEF AnswerFits
        <3> QED BY <3>1, <1>7 DEF SendCcchDown
    <2>6. rnti = r => ServingFits'
        BY <1>3, <1>6, <1>u, <2>2, <2>3 DEF ServingFits, IdleStates, AsleepStates, ResumingStates
    <2> QED BY <1>2, <1>3, <1>5, <1>7, <2>1, <2>4, <2>5, <2>6, GnbStep
<1>8. CASE Context(r, e) /\ SendCcchDown("RrcConnectionReject", r)
    <2>1. e \in Contexts /\ Fits(e) /\ e.state = "CONNECTION_REJECTED"
        BY <1>1, <1>2, <1>4, RejectedFits
    <2>3. ueMap'[r] = e
        BY <1>1, <1>8 DEF Context
    <2> HIDE DEF e, c, n
    <2>4. DownFits(r)' /\ ServesUe(r)'
        BY <2>1, <2>3, <1>3, <1>4 DEF DownFits, ServesUe
    <2>5. \A m \in ccchDown' : IF m.rnti = r THEN AnswerFits(m)' ELSE m \in ccchDown
        BY <1>5, <1>8, <2>1, <2>3 DEF SendCcchDown, AnswerFits
    <2>6. rnti = r => ServingFits'
        BY <1>3, <1>6, <1>u, <2>1, <2>3 DEF ServingFits, IdleStates, AsleepStates, ResumingStates
    <2> QED BY <1>2, <1>3, <1>5, <1>8, <2>1, <2>4, <2>5, <2>6, GnbStep
<1> QED BY <1>3, <1>7, <1>8

LEMMA ResumeRequestFits ==
    ASSUME RrcInv, TypeInv', NEW n \in ccchUp, RecvRrcResumeRequest(n),
           UNCHANGED <<ueVars, redCap, waited>>
    PROVE  RrcInv'
<1> DEFINE r == n.resumeIdentity
           c == ueMap[r]
           e == [c EXCEPT !.inRACH = TRUE, !.state = "CONNECTION_REJECTED",
                          !.rejectedTimeout = ConnectionRejectedTimeoutDuration]
<1>u. UNCHANGED <<ueState, rnti, setupCompleted, releases, drbs>>
    BY DEF ueVars, ueFlags
<1>0. r \in Rntis /\ ccchUp' = ccchUp \ {n}
    BY DEF RecvRrcResumeRequest, RrcInv, TypeInv, TypeOK, ChannelsOK, AnyRnti
<1>1. c \in Contexts /\ Fits(c) /\ ueMap \in [Rntis -> Contexts]
      /\ dcchDown \in [Rntis -> Seq(DcchDownTypes)]
    BY <1>0, AtContext DEF RrcInv, TypeInv, TypeOK, ChannelsOK
<1>2. /\ c.state \in SuspendedStates /\ c.releaseBwp = {} /\ dcchDown[r] = << >>
      /\ rnti = r => ueState \in ResumingStates \cup IdleStates
    BY DEF RecvRrcResumeRequest, RrcInv, Msg3sFit, Msg3Fits
<1>3. /\ UNCHANGED <<pagingList, fatal, dcchUp, removals>>
      /\ \/ /\ Context(r, Resumed(c)) /\ UNCHANGED ccchDown
            /\ SendDown("RrcReleaseSuspend", r) \/ SendDown("RrcResume", r)
         \/ Context(r, e) /\ SendCcchDown("RrcConnectionReject", r) /\ UNCHANGED dcchDown
    BY <1>0, <1>2 DEF RecvRrcResumeRequest, Reject, HasUeManager, SuspendedStates
<1>5. /\ \A m \in ccchUp' : m.rnti # r /\ m.resumeIdentity # r
      /\ \A m \in ccchDown : m.rnti # r
      /\ r \notin removals
    <2>1. \A m \in ccchUp' : m.resumeIdentity # r
        BY <1>0 DEF RrcInv, Msg3sFit, RecvRrcResumeRequest
    <2> QED BY <2>1, <1>0, <1>2, CcchOf DEF SuspendedStates
<1>6. rnti = r => dcchUp = << >>
    BY <1>0, <1>2, UeOf DEF IdleStates, ResumingStates
<1>7. CASE /\ Context(r, Resumed(c)) /\ UNCHANGED ccchDown
           /\ SendDown("RrcReleaseSuspend", r) \/ SendDown("RrcResume", r)
    <2> DEFINE d == Resumed(c)
    <2>1. d \in Contexts /\ Fits(d) /\ d.state = "INACTIVE_CONNECTING"
        BY <1>1, <1>2, ResumedFits
    <2>2. ueMap'[r] = d
        BY <1>0, <1>1, <1>7 DEF Context
    <2>3. /\ dcchDown'[r] \in {<<"RrcReleaseSuspend">>, <<"RrcResume">>}
          /\ \A q \in Rntis \ {r} : dcchDown'[q] = dcchDown[q]
        <3>1. PICK type \in {"RrcReleaseSuspend", "RrcResume"} : SendDown(type, r)
            BY <1>7
        <3>2. dcchDown' = [dcchDown EXCEPT ![r] = Append(dcchDown[r], type)]
            BY <3>1 DEF SendDown
        <3>3. Append(dcchDown[r], type) = <<type>>
            BY <1>2
        <3> QED BY <3>2, <3>3, <1>0, <1>1
    <2> HIDE DEF d, c, r
    <2>4. DownFits(r)' /\ ServesUe(r)'
        BY <2>1, <2>2, <2>3 DEF DownFits, ServesUe
    <2>6. rnti = r => ServingFits'
        BY <1>2, <1>3, <1>6, <1>u, <2>1, <2>2 DEF ServingFits, ResumingFits, IdleStates,
           AsleepStates, ResumingStates
    <2>7. Context(r, d)
        BY <1>7 DEF d
    <2> QED BY <1>0, <1>3, <1>5, <1>7, <2>1, <2>3, <2>4, <2>6, <2>7, GnbStep
<1>8. CASE Context(r, e) /\ SendCcchDown("RrcConnectionReject", r) /\ UNCHANGED dcchDown
    <2>1. e \in Contexts /\ Fits(e) /\ e.state = "CONNECTION_REJECTED"
        BY <1>1, <1>2, RejectedFits
    <2>3. ueMap'[r] = e
        BY <1>0, <1>1, <1>8 DEF Context
    <2> HIDE DEF e, c, r
    <2>4. DownFits(r)' /\ ServesUe(r)'
        BY <2>1, <2>3, <1>2, <1>8 DEF DownFits, ServesUe
    <2>5. \A m \in ccchDown' : IF m.rnti = r THEN AnswerFits(m)' ELSE m \in ccchDown
        BY <1>5, <1>8, <2>1, <2>3 DEF SendCcchDown, AnswerFits
    <2>6. rnti = r => ServingFits'
        BY <1>2, <1>3, <1>6, <1>u, <2>1, <2>3 DEF ServingFits, ResumingFits, IdleStates,
           AsleepStates, ResumingStates
    <2> QED BY <1>0, <1>3, <1>5, <1>8, <2>1, <2>4, <2>5, <2>6, GnbStep
<1> QED BY <1>3, <1>7, <1>8

\* The message of SRB1 that the gNB receives is the only one, and of its own UE.
LEMMA UpReceived ==
    ASSUME RrcInv, NEW type, NEW r, ReceiveUp(type, r)
    PROVE  /\ r = rnti /\ rnti \in Rntis /\ ueState = "CONNECTED_NORMALLY"
           /\ dcchUp = Up(type) /\ dcchUp' = << >>
           /\ ConnectedFits(ueMap[rnti], dcchDown[rnti])
<1>1. dcchUp # << >> /\ Head(dcchUp) = [type |-> type, rnti |-> r] /\ dcchUp' = Tail(dcchUp)
    BY DEF ReceiveUp
<1>2. PICK t \in DcchUpTypes : dcchUp = Up(t)
    BY <1>1, UpIsMine
<1>3. Head(Up(t)) = [type |-> t, rnti |-> rnti] /\ Tail(Up(t)) = << >>
    BY DEF Up
<1>4. t = type /\ r = rnti
    BY <1>1, <1>2, <1>3
<1> QED BY <1>1, <1>2, <1>3, <1>4, UpIsMine

\* A message of the connected UE changes its context, which stays connected.
LEMMA ReceivedFits ==
    ASSUME RrcInv, TypeInv', ueState = "CONNECTED_NORMALLY",
           ~IsRunning(setupCompleted),
           NEW c \in Contexts, NEW r \in Rntis, r = rnti, Context(r, c), Fits(c), dcchUp' = << >>, dcchDown[r] = << >>,
           c.state \in {"ATTACH_REQUEST", "CONNECTED_NORMALLY"},
           c.state = "ATTACH_REQUEST" \/ drbs \/ c.inRACH,
           ueMap[r].state \notin {"NONE", "INITIAL_RANDOM_ACCESS", "IDLE"},
           UNCHANGED <<ueVars, redCap, pagingList, fatal, waited, ccchUp, ccchDown, dcchDown, removals>>
    PROVE  RrcInv'
<1>u. UNCHANGED <<ueState, rnti, setupCompleted, releases, drbs>>
    BY DEF ueVars, ueFlags
<1>1. ueMap'[r] = c
    BY AtContext DEF Context
<1>2. DownFits(r)' /\ ServesUe(r)'
    BY <1>1, <1>u DEF DownFits, ServesUe
<1>3. ServingFits'
    BY <1>1, <1>u DEF ServingFits, ConnectedFits, AsleepStates, ResumingStates
<1>4. /\ \A m \in ccchUp' : m.rnti # r /\ m.resumeIdentity # r
      /\ \A m \in ccchDown : m.rnti # r
      /\ r \notin removals
    BY CcchOf DEF ResumingStates, IdleStates
<1> QED BY <1>1, <1>2, <1>3, <1>4, GnbStep

LEMMA SetupCompletedReceived ==
    ASSUME RrcInv, TypeInv', NEW r \in Rntis, RecvRrcConnectionSetupCompleted(r),
           UNCHANGED <<ueVars, redCap, waited>>
    PROVE  RrcInv'
<1> DEFINE c == ueMap[rnti]
           d == AttachRequested(c)
<1>1. /\ r = rnti /\ rnti \in Rntis /\ ueState = "CONNECTED_NORMALLY"
      /\ dcchUp = Up("RrcSetupCompleted") /\ dcchUp' = << >> /\ ConnectedFits(c, dcchDown[rnti])
    BY UpReceived DEF RecvRrcConnectionSetupCompleted
<1>2. c.state = "CONNECTION_SETUP" /\ ~IsRunning(setupCompleted)
    BY <1>1 DEF ConnectedFits, Up
<1>3. c \in Contexts /\ Fits(c) /\ dcchDown[rnti] = << >>
    BY <1>1, <1>2, AtContext DEF DownFits
<1>4. d \in Contexts /\ Fits(d) /\ d.state = "ATTACH_REQUEST"
    BY <1>2, <1>3, AttachRequestedFits
<1>5. /\ Context(rnti, d)
      /\ UNCHANGED <<pagingList, fatal, ccchUp, ccchDown, dcchDown, removals>>
    BY <1>1, <1>2 DEF RecvRrcConnectionSetupCompleted
<1> HIDE DEF d
<1> QED BY <1>1, <1>2, <1>3, <1>4, <1>5, ReceivedFits

LEMMA ResumeCompleteReceived ==
    ASSUME RrcInv, TypeInv', NEW r \in Rntis, RecvRrcResumeComplete(r),
           UNCHANGED <<ueVars, redCap, waited>>
    PROVE  RrcInv'
<1> DEFINE c == ueMap[rnti]
           d == Connected([Refreshed(c) EXCEPT !.switchingBwp = ResumeBwpSwitch, !.pending = TRUE])
<1>1. /\ r = rnti /\ rnti \in Rntis /\ ueState = "CONNECTED_NORMALLY"
      /\ dcchUp = Up("RrcResumeComplete") /\ dcchUp' = << >> /\ ConnectedFits(c, dcchDown[rnti])
    BY UpReceived DEF RecvRrcResumeComplete
<1>2. c.state = "INACTIVE_CONNECTING" /\ ~IsRunning(setupCompleted) /\ dcchDown[rnti] = << >>
    BY <1>1 DEF ConnectedFits, Up
<1>3. c \in Contexts /\ Fits(c)
    BY <1>1, AtContext
<1>4. d \in Contexts /\ Fits(d) /\ d.state = "CONNECTED_NORMALLY" /\ d.inRACH
    BY <1>2, <1>3, ResumeCompletedFits
<1>5. /\ Context(rnti, d)
      /\ UNCHANGED <<pagingList, fatal, ccchUp, ccchDown, dcchDown, removals>>
    BY <1>1, <1>2 DEF RecvRrcResumeComplete
<1> HIDE DEF d
<1> QED BY <1>1, <1>2, <1>3, <1>4, <1>5, ReceivedFits

LEMMA ReconfigurationCompletedReceived ==
    ASSUME RrcInv, TypeInv', NEW r \in Rntis, RecvRrcConnectionReconfigurationCompleted(r),
           UNCHANGED <<ueVars, redCap, waited>>
    PROVE  RrcInv'
<1> DEFINE c == ueMap[rnti]
           e == [Refreshed(c) EXCEPT !.inRACH = FALSE]
           d == Connected([e EXCEPT !.buffered = 0])
<1>1. /\ r = rnti /\ rnti \in Rntis /\ ueState = "CONNECTED_NORMALLY"
      /\ dcchUp = Up("RrcReconfigurationCompleted") /\ dcchUp' = << >>
      /\ ConnectedFits(c, dcchDown[rnti])
    BY UpReceived DEF RecvRrcConnectionReconfigurationCompleted
<1>2. /\ c.state = "CONNECTION_RECONFIGURATION" /\ ~IsRunning(setupCompleted) /\ drbs
      /\ dcchDown[rnti] = << >>
    BY <1>1 DEF ConnectedFits, Up
<1>3. c \in Contexts /\ Fits(c)
    BY <1>1, AtContext
<1>4. d \in Contexts /\ Fits(d) /\ d.state = "CONNECTED_NORMALLY"
    BY <1>2, <1>3, ReconfiguredFits
<1>5. e.state = "CONNECTION_RECONFIGURATION"
    BY <1>2, <1>3, RefreshedType DEF Contexts
<1>6. /\ Context(rnti, d)
      /\ UNCHANGED <<pagingList, fatal, ccchUp, ccchDown, dcchDown, removals>>
    BY <1>1, <1>5 DEF RecvRrcConnectionReconfigurationCompleted
<1> HIDE DEF d
<1> QED BY <1>1, <1>2, <1>3, <1>4, <1>6, ReceivedFits

LEMMA InitialContextSetupFits ==
    ASSUME RrcInv, TypeInv', NEW r \in Rntis, InitialContextSetupRequest(r),
           UNCHANGED <<ueVars, redCap, waited>>
    PROVE  RrcInv'
<1> DEFINE c == ueMap[rnti]
           d == Connected([c EXCEPT !.drbs = TRUE])
<1>1. c \in Contexts /\ Fits(c) /\ rnti = r /\ ueState = "CONNECTED_NORMALLY"
      /\ c.state = "ATTACH_REQUEST" /\ dcchDown[rnti] = << >>
    BY AtContext DEF InitialContextSetupRequest, ServesUe, DownFits
<1>2. ~IsRunning(setupCompleted) /\ dcchUp = << >>
    BY <1>1 DEF RrcInv, ServingFits, ConnectedFits
<1>3. d \in Contexts /\ Fits(d) /\ d.state = "CONNECTED_NORMALLY" /\ d.inRACH
    BY <1>1, AttachedFits
<1>4. Context(rnti, d) /\ UNCHANGED <<pagingList, fatal, messages>>
    BY <1>1 DEF InitialContextSetupRequest
<1> HIDE DEF d
<1> QED BY <1>1, <1>2, <1>3, <1>4, ReceivedFits DEF messages

\* The release of a connection.
LEMMA ReleaseSentFits ==
    ASSUME RrcInv, TypeInv', NEW r \in Rntis, SendRrcRelease(r, ueMap[r]),
           ueMap[r].state = "CONNECTED_NORMALLY", ~ueMap[r].polling,
           UNCHANGED <<ueVars, redCap, waited, ccchUp, dcchUp, removals>>
    PROVE  RrcInv'
<1> DEFINE c == ueMap[r]
           d == Released(c)
           type == IF redCap THEN "RrcReleaseSuspend" ELSE "RrcRelease"
<1>u. UNCHANGED <<ueState, rnti, setupCompleted, releases, drbs>>
    BY DEF ueVars, ueFlags
<1>1. /\ c \in Contexts /\ Fits(c) /\ rnti = r /\ ueState = "CONNECTED_NORMALLY"
      /\ dcchDown[r] = << >> /\ ueMap \in [Rntis -> Contexts]
      /\ dcchDown \in [Rntis -> Seq(DcchDownTypes)]
    BY AtContext DEF ServesUe, DownFits, RrcInv, TypeInv, TypeOK, ChannelsOK
<1>2. ~IsRunning(setupCompleted) /\ dcchUp = << >> /\ drbs
    BY <1>1 DEF RrcInv, ServingFits, ConnectedFits, Fits
<1>3. d \in Contexts /\ Fits(d) /\ c.drbs /\ d.state = IF redCap THEN "INACTIVE" ELSE "IDLE"
    BY <1>1, ReleasedContextFits
<1>4. Context(r, d) /\ SendDown(type, r) /\ UNCHANGED <<pagingList, fatal, ccchDown>>
    BY <1>3 DEF SendRrcRelease
<1> HIDE DEF d
<1>5. ueMap'[r] = d
    BY <1>1, <1>4 DEF Context
<1>6. dcchDown'[r] = <<type>> /\ \A q \in Rntis \ {r} : dcchDown'[q] = dcchDown[q]
    <2>1. dcchDown' = [dcchDown EXCEPT ![r] = Append(dcchDown[r], type)]
        BY <1>4 DEF SendDown
    <2>2. Append(dcchDown[r], type) = <<type>>
        BY <1>1
    <2> QED BY <2>1, <2>2, <1>1
<1>7. DownFits(r)' /\ ServesUe(r)'
    BY <1>1, <1>3, <1>5, <1>6, <1>u DEF DownFits, ServesUe
<1>8. ServingFits'
    BY <1>1, <1>2, <1>3, <1>5, <1>6, <1>u DEF ServingFits, ConnectedFits, AsleepStates, ResumingStates
<1>9. /\ \A m \in ccchUp : m.rnti # r /\ m.resumeIdentity # r
      /\ \A m \in ccchDown : m.rnti # r
      /\ r \notin removals
    BY <1>1, CcchOf DEF SuspendedStates
<1> QED BY <1>1, <1>3, <1>4, <1>6, <1>7, <1>8, <1>9, GnbStep

LEMMA DataInactivityFits ==
    ASSUME RrcInv, TypeInv', DurationsInOrder, NEW r \in Rntis, DataInactivityTimeout(r),
           UNCHANGED <<ueVars, redCap, waited>>
    PROVE  RrcInv'
<1> DEFINE c == ueMap[r]
<1>1. c \in Contexts /\ Fits(c) /\ ServesUe(r)
    BY AtContext
<1>2. c.inactivityTimeout = 0 /\ SendRrcRelease(r, c)
    BY <1>1 DEF DataInactivityTimeout, Fits
<1>3. IsRunning(c.inactivityTimeout)
    BY <1>2 DEF IsRunning, Off
<1>4. c.state # "CONNECTION_RECONFIGURATION"
    <2>1. SUFFICES ASSUME c.state = "CONNECTION_RECONFIGURATION" PROVE FALSE
        OBVIOUS
    <2>2. rnti = r /\ ueState = "CONNECTED_NORMALLY"
        BY <2>1, <1>1 DEF ServesUe
    <2>3. c.inactivityTimeout + waited >= DataInactivityInterval
        BY <2>1, <2>2 DEF RrcInv, ServingFits, ConnectedFits
    <2>4. waited \in 0..MaxDelay /\ MaxDelay < DataInactivityInterval
        BY DEF RrcInv, TypeInv, TypeOK, DurationsInOrder
    <2> HIDE DEF c
    <2> QED BY <1>2, <2>3, <2>4, DurationsAreNat, RrcAssumption
<1>5. c.state = "CONNECTED_NORMALLY" /\ ~IsRunning(c.switchingBwp)
    BY <1>1, <1>3, <1>4 DEF Fits
<1>6. DataInactivityInterval # 0
    BY GnbRrcAssumption DEF Durations
<1>7. ~c.polling
    BY <1>1, <1>2, <1>5, <1>6 DEF Fits
<1> QED BY <1>2, <1>5, <1>7, ReleaseSentFits DEF DataInactivityTimeout

LEMMA TriggerReleaseFits ==
    ASSUME RrcInv, TypeInv', NEW r \in Rntis, TriggerRelease(r), UNCHANGED <<ueVars, redCap, waited>>
    PROVE  RrcInv'
<1>1. Fits(ueMap[r])
    BY AtContext
<1>2. ~ueMap[r].polling
    BY <1>1 DEF Fits, TriggerRelease
<1> QED BY <1>2, ReleaseSentFits DEF TriggerRelease

\* A context that a timeout removes has no event that nobody cancels.
LEMMA NoEventsLeft ==
    ASSUME NEW c \in Contexts, Fits(c),
           c.state \in {"INITIAL_RANDOM_ACCESS", "CONNECTION_SETUP", "CONNECTION_REJECTED", "IDLE"}
    PROVE  ~KeepsEvents(c)
BY DEF Fits, KeepsEvents

\* The removal of a context that serves no connection.
LEMMA RemovedFits ==
    ASSUME RrcInv, TypeInv', NEW r \in Rntis, RemoveUe(r), ~KeepsEvents(ueMap[r]),
           ueMap[r].state # "NONE",
           rnti = r => ueState \in IdleStates \cup {"IDLE_CONNECTING"} \cup ResumingStates,
           \A m \in ccchUp : m.resumeIdentity # r,
           removals' = removals \ {r},
           UNCHANGED <<ueVars, redCap, waited, ccchUp, dcchUp>>
    PROVE  RrcInv'
<1>u. UNCHANGED <<ueState, rnti, setupCompleted, releases, drbs>>
    BY DEF ueVars, ueFlags
<1>1. /\ Context(r, NoContext) /\ DropChannels(r) /\ UNCHANGED <<pagingList, fatal>>
    BY DEF RemoveUe
<1>2. /\ ueMap \in [Rntis -> Contexts] /\ dcchDown \in [Rntis -> Seq(DcchDownTypes)]
    BY DEF RrcInv, TypeInv, TypeOK, ChannelsOK, GnbTypeOK
<1>3. ueMap'[r] = NoContext /\ NoContext.state = "NONE"
    BY <1>1, <1>2 DEF Context, NoContext
<1>4. /\ dcchDown'[r] = << >> /\ \A q \in Rntis \ {r} : dcchDown'[q] = dcchDown[q]
      /\ \A m \in ccchDown' : m.rnti # r /\ m \in ccchDown
    BY <1>1, <1>2 DEF DropChannels
<1>5. DownFits(r)' /\ ServesUe(r)'
    BY <1>3, <1>4 DEF DownFits, ServesUe
<1>6. rnti = r => ServingFits'
    <2>1. rnti = r => dcchUp = << >>
        BY UeOf DEF IdleStates, ResumingStates
    <2> QED BY <2>1, <1>3, <1>u DEF ServingFits, ResumingFits, IdleStates, AsleepStates, ResumingStates
<1> QED BY <1>1, <1>3, <1>4, <1>5, <1>6, NoContextFits, GnbStep

LEMMA ConnectionTimeoutsFits ==
    ASSUME RrcInv, TypeInv', DurationsInOrder, NEW r \in Rntis, ConnectionTimeouts(r),
           UNCHANGED <<ueVars, redCap, waited>>
    PROVE  RrcInv'
<1> DEFINE c == ueMap[r]
<1>1. c \in Contexts /\ Fits(c)
    BY AtContext
<1>2. c.state \in {"INITIAL_RANDOM_ACCESS", "CONNECTION_SETUP", "CONNECTION_REJECTED"}
    BY <1>1 DEF ConnectionTimeouts, Fits, IsRunning, Off
<1>3. c.state = "CONNECTION_SETUP" => c.setupTimeout = 0
    BY <1>1 DEF ConnectionTimeouts, Fits, IsRunning, Off
<1>4. rnti = r => ueState \in IdleStates \cup {"IDLE_CONNECTING"} \cup ResumingStates
    <2>1. rnti = r => \/ ueState \in IdleStates \cup {"IDLE_CONNECTING"} \cup ResumingStates
                      \/ c.state = "CONNECTION_SETUP" /\ ueState = "CONNECTED_NORMALLY"
        BY <1>2, UeOf
    <2>2. ASSUME rnti = r, c.state = "CONNECTION_SETUP", ueState = "CONNECTED_NORMALLY"
          PROVE  FALSE
        <3>1. \/ /\ IsRunning(setupCompleted)
                 /\ c.setupTimeout + MaxDelay + ProcDelay >=
                        ConnectionSetupTimeoutDuration + setupCompleted
              \/ c.setupTimeout + MaxDelay + ProcDelay + waited >= ConnectionSetupTimeoutDuration
            BY <2>2 DEF RrcInv, ServingFits, ConnectedFits
        <3>2. /\ waited \in 0..MaxDelay /\ setupCompleted \in Off..ProcDelay
              /\ 2 * MaxDelay + ProcDelay < ConnectionSetupTimeoutDuration
            BY DEF RrcInv, TypeInv, TypeOK, UeTypeOK, DurationsInOrder
        <3>3. MaxDelay \in Nat /\ ProcDelay \in Nat /\ ConnectionSetupTimeoutDuration \in Nat
            BY DurationsAreNat, RrcAssumption, RrcProtocolAssumption
        <3>4. c.setupTimeout = 0
            BY <2>2, <1>3
        <3> HIDE DEF c
        <3> QED BY <3>1, <3>2, <3>3, <3>4 DEF IsRunning, Off
    <2> QED BY <2>1, <2>2
<1>5. ~KeepsEvents(c)
    BY <1>1, <1>2, NoEventsLeft
<1>6. (\A m \in ccchUp : m.resumeIdentity # r) /\ r \notin removals
    BY <1>2, CcchOf DEF SuspendedStates
<1> QED BY <1>2, <1>4, <1>5, <1>6, RemovedFits DEF ConnectionTimeouts

LEMMA RemoveRequestFits ==
    ASSUME RrcInv, TypeInv', NEW r \in removals, DoRecvIdealUeContextRemoveRequest(r),
           UNCHANGED <<ueVars, redCap, waited>>
    PROVE  RrcInv'
<1>1. r \in Rntis /\ r # rnti /\ ueMap[r].state = "IDLE"
    BY DEF RrcInv, RemovalsFit
<1>2. ~KeepsEvents(ueMap[r])
    BY <1>1, AtContext, NoEventsLeft
<1>3. \A m \in ccchUp : m.resumeIdentity # r
    BY <1>1, CcchOf DEF SuspendedStates
<1> QED BY <1>1, <1>2, <1>3, RemovedFits DEF DoRecvIdealUeContextRemoveRequest, HasUeManager

\* A step of the gNB that changes nothing but the events of a context.
LEMMA EventFits ==
    ASSUME RrcInv, TypeInv', NEW r \in Rntis, NEW c \in Contexts, Context(r, c), Fits(c),
           c.state = ueMap[r].state, c.releaseBwp \subseteq ueMap[r].releaseBwp,
           c.state = "CONNECTION_SETUP" => c.setupTimeout = ueMap[r].setupTimeout,
           c.state = "CONNECTED_NORMALLY" => c.inRACH = ueMap[r].inRACH,
           c.state = "CONNECTION_RECONFIGURATION" => c.inactivityTimeout = DataInactivityInterval,
           UNCHANGED <<ueVars, redCap, pagingList, messages, fatal, waited>>
    PROVE  RrcInv'
<1>u. UNCHANGED <<ueState, rnti, setupCompleted, releases, drbs, ccchUp, ccchDown, dcchUp, dcchDown,
                  removals>>
    BY DEF ueVars, ueFlags, messages
<1>1. ueMap'[r] = c /\ DownFits(r) /\ ServesUe(r)
    BY AtContext DEF Context
<1>2. DownFits(r)' /\ ServesUe(r)'
    BY <1>1, <1>u DEF DownFits, ServesUe
<1>3. /\ \A m \in ccchUp : m.rnti = r => c.state \in {"NONE", "INITIAL_RANDOM_ACCESS"}
      /\ \A m \in ccchUp : m.resumeIdentity = r =>
               c.state \in SuspendedStates /\ c.releaseBwp = {} /\ dcchDown[r] = << >>
      /\ r \in removals => c.state = "IDLE"
    BY CcchOf
<1>4. ASSUME NEW m \in ccchDown, m.rnti = r
      PROVE  AnswerFits(m)'
    <2>1. AnswerFits(m)
        BY DEF RrcInv, AnswersFit
    <2> QED BY <1>4, <2>1, <1>1, <1>u DEF AnswerFits
<1>5. rnti = r => ServingFits'
    <2>1. DataInactivityInterval + waited >= DataInactivityInterval
        BY DurationsAreNat, RrcAssumption DEF RrcInv, TypeInv, TypeOK
    <2> SUFFICES ASSUME rnti = r PROVE ServingFits'
        OBVIOUS
    <2>2. ueState = "CONNECTED_NORMALLY" => ConnectedFits(ueMap[rnti], dcchDown[rnti])'
        <3> SUFFICES ASSUME ueState = "CONNECTED_NORMALLY"
                     PROVE  ConnectedFits(ueMap[rnti], dcchDown[rnti])'
            OBVIOUS
        <3>1. ConnectedFits(ueMap[r], dcchDown[r])
            BY DEF RrcInv, ServingFits
        <3>2. ConnectedFits(c, dcchDown[r])
            BY <3>1, <2>1 DEF ConnectedFits
        <3> QED BY <3>2, <1>1, <1>u DEF ConnectedFits, Up
    <2>3. c.state \in SuspendedStates => \A t \in c.releaseBwp : t \in ueMap[r].releaseBwp
        OBVIOUS
    <2> QED BY <2>2, <2>3, <1>1, <1>u DEF RrcInv, ServingFits, ReleasedFits, AsleepFits, ResumingFits
<1> QED BY <1>u, <1>2, <1>3, <1>4, <1>5, GnbStep

LEMMA BwpSwitchFits ==
    ASSUME RrcInv, TypeInv', NEW r \in Rntis, BwpSwitchCompleted(r), UNCHANGED <<ueVars, redCap, waited>>
    PROVE  RrcInv'
<1> DEFINE c == ueMap[r]
           d == BwpSwitched(c)
           e == BwpSwitched([c EXCEPT !.releaseBwp = @ \ {0}])
<1>1. c \in Contexts /\ Fits(c)
    BY AtContext
<1>2. UNCHANGED <<pagingList, messages, fatal>>
    BY DEF BwpSwitchCompleted
<1>3. CASE c.switchingBwp = 0 /\ Context(r, d)
    <2>1. d \in Contexts /\ d.state = c.state
        BY <1>1, BwpSwitchedType
    <2>2. d.releaseBwp = c.releaseBwp /\ d.inRACH = c.inRACH
        BY <1>1 DEF BwpSwitched, Contexts
    <2>3. Fits(d) /\ c.state = "CONNECTED_NORMALLY"
        BY <1>1, <1>3, BwpSwitchedFits
    <2> HIDE DEF d
    <2> QED BY <1>2, <1>3, <2>1, <2>2, <2>3, EventFits
<1>4. CASE 0 \in c.releaseBwp /\ Context(r, e)
    <2>1. /\ e \in Contexts /\ Fits(e) /\ c.state = "INACTIVE" /\ e.state = "INACTIVE"
          /\ e.releaseBwp \subseteq c.releaseBwp
        BY <1>1, <1>4, BwpSwitchedFits
    <2> HIDE DEF e
    <2> QED BY <1>2, <1>4, <2>1, EventFits
<1> QED BY <1>3, <1>4 DEF BwpSwitchCompleted

LEMMA DataActivityFits ==
    ASSUME RrcInv, TypeInv', NEW r \in Rntis, NotifyDataActivity(r),
           UNCHANGED <<ueVars, redCap, waited, messages, fatal>>
    PROVE  RrcInv'
<1> DEFINE d == Refreshed(ueMap[r])
<1>1. ueMap[r] \in Contexts /\ Fits(ueMap[r])
    BY AtContext
<1>2. /\ d \in Contexts /\ Fits(d) /\ d.state = ueMap[r].state
      /\ d.releaseBwp = ueMap[r].releaseBwp /\ d.setupTimeout = ueMap[r].setupTimeout
      /\ d.inRACH = ueMap[r].inRACH
      /\ d.state = "CONNECTION_RECONFIGURATION" => d.inactivityTimeout = DataInactivityInterval
    BY <1>1, RefreshedFits
<1>3. Context(r, d) /\ UNCHANGED pagingList
    BY DEF NotifyDataActivity
<1> HIDE DEF d
<1> QED BY <1>2, <1>3, EventFits

LEMMA ReconfigurationSent ==
    ASSUME RrcInv, TypeInv', NEW r \in Rntis, ScheduleRrcReconfiguration(r),
           UNCHANGED <<ueVars, redCap, waited>>
    PROVE  RrcInv'
<1> DEFINE c == ueMap[r]
           d == [[c EXCEPT !.polling = FALSE] EXCEPT
                    !.pending = FALSE, !.state = "CONNECTION_RECONFIGURATION"]
<1>u. UNCHANGED <<ueState, rnti, setupCompleted, releases, drbs>>
    BY DEF ueVars, ueFlags
<1>1. c \in Contexts /\ Fits(c) /\ ServesUe(r) /\ DownFits(r) /\ ueMap \in [Rntis -> Contexts]
      /\ dcchDown \in [Rntis -> Seq(DcchDownTypes)]
    BY AtContext DEF RrcInv, TypeInv, TypeOK, ChannelsOK
<1>2. c.polling /\ ~IsRunning(c.switchingBwp)
    BY <1>1 DEF ScheduleRrcReconfiguration, Contexts
<1>3. /\ c.state = "CONNECTED_NORMALLY"
      /\ d \in Contexts /\ Fits(d) /\ d.state = "CONNECTION_RECONFIGURATION"
      /\ d.inactivityTimeout = DataInactivityInterval
    BY <1>1, <1>2, ReconfigurationSentFits
<1>4. [c EXCEPT !.polling = FALSE].state = "CONNECTED_NORMALLY"
    BY <1>1, <1>3 DEF Contexts
<1>5. /\ Context(r, d) /\ SendDown("RrcReconfiguration", r)
      /\ UNCHANGED <<pagingList, fatal, ccchUp, ccchDown, dcchUp, removals>>
    BY <1>4 DEF ScheduleRrcReconfiguration
<1>6. rnti = r /\ ueState = "CONNECTED_NORMALLY" /\ dcchDown[r] = << >>
    BY <1>1, <1>3 DEF ServesUe, DownFits
<1>7. ~IsRunning(setupCompleted) /\ dcchUp = << >>
    BY <1>3, <1>6 DEF RrcInv, ServingFits, ConnectedFits
<1> HIDE DEF d
<1>8. ueMap'[r] = d
    BY <1>1, <1>5 DEF Context
<1>9. dcchDown'[r] = <<"RrcReconfiguration">> /\ \A q \in Rntis \ {r} : dcchDown'[q] = dcchDown[q]
    <2>1. dcchDown' = [dcchDown EXCEPT ![r] = Append(dcchDown[r], "RrcReconfiguration")]
        BY <1>5 DEF SendDown
    <2>2. Append(dcchDown[r], "RrcReconfiguration") = <<"RrcReconfiguration">>
        BY <1>6
    <2> QED BY <2>1, <2>2, <1>1
<1>10. DownFits(r)' /\ ServesUe(r)'
    BY <1>3, <1>6, <1>8, <1>9, <1>u DEF DownFits, ServesUe
<1>11. ServingFits'
    <2>1. DataInactivityInterval + waited >= DataInactivityInterval
        BY DurationsAreNat, RrcAssumption DEF RrcInv, TypeInv, TypeOK
    <2> QED BY <2>1, <1>3, <1>5, <1>6, <1>7, <1>8, <1>9, <1>u DEF ServingFits, ConnectedFits,
               AsleepStates, ResumingStates
<1>12. /\ \A m \in ccchUp : m.rnti # r /\ m.resumeIdentity # r
       /\ \A m \in ccchDown : m.rnti # r
       /\ r \notin removals
    BY <1>3, CcchOf DEF SuspendedStates
<1> QED BY <1>3, <1>5, <1>9, <1>10, <1>11, <1>12, GnbStep

\* A RAR that the UE misses leaves a context that nobody uses.
LEMMA RarIsMissedFits ==
    ASSUME RrcInv, TypeInv', NEW r \in Rntis, RarIsMissed(r), UNCHANGED <<redCap, waited>>
    PROVE  RrcInv'
<1> DEFINE c == [NoContext EXCEPT !.state = "INITIAL_RANDOM_ACCESS",
                                  !.requestTimeout = ConnectionRequestTimeoutDuration]
<1>1. c \in Contexts /\ Fits(c) /\ c.state = "INITIAL_RANDOM_ACCESS"
    BY InitialFits
<1>2. Context(r, c) /\ UNCHANGED <<ueVars, messages, fatal, pagingList>>
    BY DEF RarIsMissed, AddUe
<1>3. /\ r # rnti /\ r \notin removals /\ dcchDown[r] = << >>
      /\ \A m \in ccchUp : m.resumeIdentity # r
      /\ \A m \in ccchDown : m.rnti # r
    BY DEF RarIsMissed, IsNext, IsFresh
<1> HIDE DEF c
<1>4. ueMap'[r] = c
    BY <1>2, AtContext DEF Context
<1>5. DownFits(r)' /\ ServesUe(r)'
    BY <1>1, <1>2, <1>3, <1>4 DEF DownFits, ServesUe, messages
<1> QED BY <1>1, <1>2, <1>3, <1>5, GnbStep DEF messages

-----------------------------------------------------------------------------
\* The switch to a state that starts no connection.
LEMMA CampedStates ==
    ASSUME UeTypeOK, ~accessing, Becomes(SwitchToState(Now, "IDLE_CAMPED_NORMALLY", FALSE))
    PROVE  ueState' = "IDLE_CAMPED_NORMALLY" /\ ~accessing'
<1>1. Now \in Attempts /\ Now.access = accessing
    BY NowType DEF Now
<1>2. /\ SwitchToState(Now, "IDLE_CAMPED_NORMALLY", FALSE) =
             [Now EXCEPT !.state = "IDLE_CAMPED_NORMALLY"]
    BY DEF SwitchToState
<1> QED BY <1>1, <1>2 DEF Becomes, Attempts

\* The UE gives its RNTI up and is idle.
LEMMA LeaveStep ==
    ASSUME RrcInv, TypeInv', rnti \in Rntis, rnti' = NoRnti, UeFits', ueState' \in IdleStates,
           UNCHANGED <<contexts, redCap, fatal, waited, ccchUp, ccchDown, dcchUp, dcchDown>>,
           ueState # "CONNECTED_NORMALLY",
           \/ removals' = removals /\ ueMap[rnti].state # "IDLE"
           \/ removals' = removals \cup {rnti} /\ ueMap[rnti].state = "IDLE"
    PROVE  RrcInv'
<1>u. UNCHANGED <<ueMap, pagingList>>
    BY DEF contexts
<1>0. NoRnti \notin Rntis
    BY RrcProtocolAssumption DEF NoRnti
<1>t. /\ ccchUp \subseteq [rnti : Rntis, resumeIdentity : AnyRnti, sdt : BOOLEAN]
      /\ ccchDown \subseteq [type : CcchDownTypes, rnti : Rntis]
    BY DEF RrcInv, TypeInv, TypeOK, ChannelsOK
<1>1. ContextsFit'
    <2>1. ASSUME NEW q \in Rntis
          PROVE  Fits(ueMap[q])' /\ DownFits(q)' /\ ServesUe(q)'
        <3>1. Fits(ueMap[q]) /\ DownFits(q) /\ ServesUe(q)
            BY DEF RrcInv, ContextsFit
        <3>2. Fits(ueMap[q])'
            BY <3>1, <1>u DEF Fits
        <3>3. DownFits(q)'
            BY <3>1, <1>u DEF DownFits
        <3>4. ServesUe(q)'
            BY <3>1, <1>u DEF ServesUe
        <3> QED BY <3>2, <3>3, <3>4
    <2> QED BY <2>1 DEF ContextsFit
<1>2. Msg3sFit'
    <2>1. ASSUME NEW m \in ccchUp
          PROVE  Msg3Fits(m)'
        <3>1. Msg3Fits(m)
            BY DEF RrcInv, Msg3sFit
        <3> QED BY <3>1, <1>u DEF Msg3Fits
    <2> QED BY <2>1 DEF RrcInv, Msg3sFit
<1>3. AnswersFit'
    <2>1. ASSUME NEW m \in ccchDown
          PROVE  AnswerFits(m)'
        <3>1. AnswerFits(m) /\ m.rnti # NoRnti
            BY <1>0, <1>t DEF RrcInv, AnswersFit
        <3> QED BY <3>1, <1>u DEF AnswerFits
    <2> QED BY <2>1 DEF AnswersFit
<1>4. RemovalsFit'
    <2>1. \A q \in removals' : q \in Rntis /\ ueMap[q].state = "IDLE"
        BY DEF RrcInv, RemovalsFit
    <2> QED BY <2>1, <1>0, <1>u DEF RemovalsFit
<1>5. ServingFits'
    <2>1. dcchUp = << >>
        BY DEF RrcInv, ServingFits
    <2> QED BY <2>1 DEF ServingFits, IdleStates, AsleepStates, ResumingStates
<1> QED BY <1>u, <1>1, <1>2, <1>3, <1>4, <1>5 DEF RrcInv, NoUnexpectedEvent

\* The release that a UE acts on is the only one.
LEMMA ReleaseOf ==
    ASSUME RrcInv, ReleaseIsDue
    PROVE  /\ ueState = "RELEASE_RECEIVED" /\ rnti \in Rntis /\ Tail(releases) = << >>
           /\ Head(releases).left = 0
           /\ ReleasedFits(ueMap[rnti], dcchDown[rnti], Head(releases))
<1>1. ueState = "RELEASE_RECEIVED" /\ Len(releases) <= 1 /\ Head(releases).left = 0
    BY DEF RrcInv, UeFits, ReleaseIsDue
<1>2. rnti \in Rntis /\ ReleasedFits(ueMap[rnti], dcchDown[rnti], Head(releases))
    BY <1>1 DEF RrcInv, UeFits, ServingFits, ActiveStates
<1>3. Tail(releases) = << >>
    <2> DEFINE M == [left : 0..ProcDelay, suspend : AnyRnti]
    <2>1. releases \in Seq(M) /\ releases # << >>
        BY DEF RrcInv, TypeInv, TypeOK, UeTypeOK, ReleaseIsDue
    <2> HIDE DEF M
    <2> QED BY <1>1, <2>1
<1> QED BY <1>1, <1>2, <1>3

\* The UE acts on a release that suspends it.
LEMMA SuspendFits ==
    ASSUME RrcInv, TypeInv', ReleaseIsOver, Suspend, UNCHANGED <<contexts, redCap, waited>>
    PROVE  RrcInv'
<1> DEFINE c == ueMap[rnti]
<1>0. NoRnti \notin Rntis
    BY RrcProtocolAssumption DEF NoRnti
<1>1. /\ ueState = "RELEASE_RECEIVED" /\ rnti \in Rntis /\ Tail(releases) = << >>
      /\ Head(releases).left = 0 /\ ReleasedFits(c, dcchDown[rnti], Head(releases))
    BY ReleaseOf DEF Suspend
<1>2. /\ c.state \in SuspendedStates /\ Head(releases).suspend = rnti /\ drbs
      /\ dcchDown[rnti] = << >> /\ \A t \in c.releaseBwp : t <= 0
    BY <1>1 DEF Suspend, ReleasedFits
<1>3. c \in Contexts /\ Fits(c) /\ DownFits(rnti) /\ ServesUe(rnti)
    BY <1>1, AtContext
<1>4. c.releaseBwp = {}
    <2>1. c.releaseBwp \in SUBSET (0..ReleaseBwpSwitch) /\ 0 \notin c.releaseBwp
        BY <1>1, <1>3 DEF Contexts, ReleaseIsOver
    <2>2. \A t \in c.releaseBwp : t \in Nat /\ t <= 0 /\ t # 0
        BY <2>1, <1>2, DurationsAreNat
    <2> QED BY <2>2
<1>5. /\ releases' = << >> /\ resumeIdentity' = rnti /\ macRnti' = NoRnti
      /\ \E access \in {accessing, FALSE} :
             Becomes(SwitchToState([Now EXCEPT !.access = access], "INACTIVE", hasReceivedSib2))
      /\ UNCHANGED <<rnti, connectionTimeout, setupCompleted, leaveConnectedMode, drbs, nas,
                     nasConnects, messages, fatal>>
    BY <1>1, <1>2 DEF Suspend
<1>6. ~accessing /\ ~IsRunning(setupCompleted) /\ ~IsRunning(connectionTimeout)
      /\ nas # "OFF" /\ ~nasConnects /\ ~leaveConnectedMode
    BY <1>1 DEF RrcInv, UeFits, IdleStates, ResumingStates
<1>7. /\ ueState' \in AsleepStates
      /\ accessing' <=> ueState' = "IDLE_RANDOM_ACCESS_INACTIVE"
    <2>1. PICK access \in {accessing, FALSE} :
             Becomes(SwitchToState([Now EXCEPT !.access = access], "INACTIVE", hasReceivedSib2))
        BY <1>5
    <2> DEFINE n == [Now EXCEPT !.access = access]
    <2>2. Now \in Attempts /\ accessing \in BOOLEAN
        BY NowType DEF RrcInv, TypeInv, TypeOK, UeTypeOK, UeFlagsOK
    <2>a. access = FALSE
        BY <1>6, <2>2, Zenon
    <2>3. n \in Attempts /\ ~n.access
        BY <2>2, <2>a DEF Attempts
    <2>4. Becomes(SwitchToState(n, "INACTIVE", hasReceivedSib2))
        BY <2>1
    <2> HIDE DEF n
    <2>5. /\ SwitchToState(n, "INACTIVE", hasReceivedSib2).state \in AsleepStates
          /\ SwitchToState(n, "INACTIVE", hasReceivedSib2).access <=>
                 SwitchToState(n, "INACTIVE", hasReceivedSib2).state = "IDLE_RANDOM_ACCESS_INACTIVE"
        BY <2>3, SwitchStates
    <2> QED BY <2>4, <2>5 DEF Becomes
<1>8. UeFits'
    BY <1>1, <1>2, <1>5, <1>6, <1>7 DEF UeFits, ActiveStates, AsleepStates, IdleStates, ResumingStates
<1>u. UNCHANGED <<ueMap, pagingList, removals, dcchUp, dcchDown, ccchUp, ccchDown>>
    BY <1>5 DEF contexts, messages
<1>9. Context(rnti, c) /\ DownFits(rnti)' /\ ServesUe(rnti)'
    <2>1. Context(rnti, c)
        BY <1>1, <1>u, AtContext
    <2> QED BY <2>1, <1>2, <1>3, <1>5, <1>u DEF DownFits, ServesUe, SuspendedStates
<1>10. ServingFits'
    <2>1. dcchUp = << >>
        BY <1>1 DEF RrcInv, ServingFits
    <2> QED BY <2>1, <1>2, <1>4, <1>5, <1>7, <1>u DEF ServingFits, AsleepFits, AsleepStates, ResumingStates
<1>11. /\ \A m \in ccchUp : m.resumeIdentity # rnti
       /\ \A m \in ccchDown : m.rnti # rnti
    BY <1>1, <1>2, CcchOf DEF ResumingStates, IdleStates, SuspendedStates
<1>12. c.state = ueMap[rnti].state /\ c.releaseBwp = ueMap[rnti].releaseBwp
    OBVIOUS
<1> HIDE DEF c
<1> QED BY <1>1, <1>3, <1>5, <1>8, <1>9, <1>10, <1>11, <1>12, <1>u, UeStep

\* The UE acts on a release that does not.
LEMMA ReleaseFits ==
    ASSUME RrcInv, TypeInv', Release, UNCHANGED <<contexts, redCap, waited>>
    PROVE  RrcInv'
<1>0. NoRnti \notin Rntis
    BY RrcProtocolAssumption DEF NoRnti
<1>1. /\ ueState = "RELEASE_RECEIVED" /\ rnti \in Rntis /\ Tail(releases) = << >>
      /\ ReleasedFits(ueMap[rnti], dcchDown[rnti], Head(releases))
    BY ReleaseOf DEF Release
<1>2. ueMap[rnti].state = "IDLE"
    BY <1>0, <1>1 DEF Release, ReleasedFits
<1>3. ~accessing /\ ~IsRunning(setupCompleted) /\ ~IsRunning(connectionTimeout)
      /\ ~nasConnects /\ ~leaveConnectedMode
    BY <1>1 DEF RrcInv, UeFits, IdleStates, ResumingStates
<1>4. /\ releases' = << >> /\ removals' = removals \cup {rnti} /\ LeaveConnectedMode
      /\ Becomes(SwitchToState(Now, "IDLE_CAMPED_NORMALLY", FALSE))
      /\ UNCHANGED <<resumeIdentity, connectionTimeout, setupCompleted, nasConnects, ccchUp,
                     ccchDown, dcchUp, dcchDown, fatal>>
    BY <1>1, <1>3 DEF Release, DisconnectUnexpected
<1>5. ueState' = "IDLE_CAMPED_NORMALLY" /\ ~accessing'
    BY <1>3, <1>4, CampedStates DEF RrcInv, TypeInv, TypeOK
<1>6. rnti' = NoRnti /\ UeFits' /\ ueState' \in IdleStates
    BY <1>3, <1>4, <1>5 DEF UeFits, LeaveConnectedMode, ActiveStates, AsleepStates, IdleStates,
       ResumingStates
<1> QED BY <1>1, <1>2, <1>4, <1>6, LeaveStep

\* An attempt that was not answered.
LEMMA ConnectionTimeoutFits ==
    ASSUME RrcInv, TypeInv', ConnectionTimeout, UNCHANGED <<contexts, redCap, waited>>
    PROVE  RrcInv'
<1>1. /\ ueState \in ResumingStates \cup {"IDLE_CONNECTING"} /\ rnti \in Rntis
      /\ ~accessing /\ ~IsRunning(setupCompleted) /\ releases = << >>
    BY DEF ConnectionTimeout, RrcInv, UeFits, IsRunning, Off, ActiveStates, ResumingStates
<1>2. /\ connectionTimeout' = Off
      /\ UNCHANGED <<resumeIdentity, setupCompleted, releases, messages, fatal>>
    BY DEF ConnectionTimeout
<1>u. UNCHANGED <<ueMap, pagingList, removals, dcchUp, dcchDown, ccchUp, ccchDown>>
    BY <1>2 DEF contexts, messages
<1>d. dcchUp = << >>
    BY <1>1, UeOf DEF ResumingStates
<1>3. CASE LeaveConnectedMode /\ ueState' = "CONNECTED_PHY_PROBLEM" /\ UNCHANGED <<accessing, nasConnects>>
    <2>1. rnti' = NoRnti /\ UeFits' /\ ueState' \in IdleStates
        BY <1>1, <1>2, <1>3 DEF UeFits, LeaveConnectedMode, ActiveStates, AsleepStates, IdleStates,
           ResumingStates, IsRunning
    <2>2. ueMap[rnti].state # "IDLE"
        BY <1>1 DEF RrcInv, ServingFits, ResumingFits, AsleepFits, SuspendedStates, AsleepStates,
           ResumingStates
    <2> QED BY <1>1, <1>2, <1>u, <2>1, <2>2, LeaveStep DEF ResumingStates
<1>4. CASE /\ macRnti' = NoRnti /\ nasConnects'
           /\ Becomes(SwitchToState(Now, "IDLE_CAMPED_NORMALLY", FALSE))
           /\ UNCHANGED <<rnti, drbs, leaveConnectedMode, nas>>
    <2> DEFINE c == ueMap[rnti]
    <2>1. ueState' = "IDLE_CAMPED_NORMALLY" /\ ~accessing'
        BY <1>1, <1>4, CampedStates DEF RrcInv, TypeInv, TypeOK
    <2>2. UeFits'
        BY <1>1, <1>2, <1>4, <2>1 DEF UeFits, ActiveStates, AsleepStates, IdleStates, ResumingStates,
           IsRunning
    <2>3. c \in Contexts /\ Fits(c) /\ Context(rnti, c) /\ DownFits(rnti) /\ ServesUe(rnti)
        BY <1>1, <1>u, AtContext
    <2>4. DownFits(rnti)' /\ ServesUe(rnti)'
        BY <1>1, <1>4, <1>u, <2>3 DEF DownFits, ServesUe, ResumingStates
    <2>5. ServingFits'
        BY <1>d, <1>u, <2>1 DEF ServingFits, AsleepStates, ResumingStates
    <2>6. /\ \A m \in ccchUp : m.resumeIdentity = rnti =>
                 dcchDown'[rnti] = << >> /\ ueState' \in ResumingStates \cup IdleStates
          /\ \A m \in ccchDown' : m.rnti = rnti => AnswerFits(m)'
        <3>1. \A m \in ccchUp : m.resumeIdentity = rnti => dcchDown[rnti] = << >>
            BY <1>1, CcchOf
        <3>2. \A m \in ccchDown : AnswerFits(m)
            BY DEF RrcInv, AnswersFit
        <3> QED BY <3>1, <3>2, <1>u, <1>4, <2>1 DEF AnswerFits, IdleStates
    <2>7. c.state = ueMap[rnti].state /\ c.releaseBwp = ueMap[rnti].releaseBwp
        OBVIOUS
    <2> HIDE DEF c
    <2> QED BY <1>1, <1>2, <1>4, <1>u, <2>2, <2>3, <2>4, <2>5, <2>6, <2>7, UeStep
<1> QED BY <1>3, <1>4 DEF ConnectionTimeout

-----------------------------------------------------------------------------
\* A message that reaches the UE is data activity of the UE's context.
LEMMA DeliveredStep ==
    ASSUME RrcInv, TypeInv', rnti \in Rntis, macRnti = rnti, NotifyDataActivity(macRnti),
           UNCHANGED <<rnti, redCap, fatal, waited, ccchUp, removals>>,
           \A q \in Rntis \ {rnti} : dcchDown'[q] = dcchDown[q],
           UeFits', DownFits(rnti)', ServesUe(rnti)', ServingFits',
           \A m \in ccchUp : m.resumeIdentity # rnti,
           ccchDown' \subseteq ccchDown, \A m \in ccchDown' : m.rnti # rnti
    PROVE  RrcInv'
<1> DEFINE c == Refreshed(ueMap[rnti])
<1>1. /\ c \in Contexts /\ Fits(c) /\ c.state = ueMap[rnti].state
      /\ c.releaseBwp = ueMap[rnti].releaseBwp
    BY AtContext, RefreshedFits
<1>2. Context(rnti, c) /\ UNCHANGED pagingList
    BY DEF NotifyDataActivity
<1> HIDE DEF c
<1> QED BY <1>1, <1>2, UeStep

LEMMA DeliveredContext ==
    ASSUME RrcInv, rnti \in Rntis, macRnti = rnti, NotifyDataActivity(macRnti), UNCHANGED rnti
    PROVE  /\ ueMap'[rnti].state = ueMap[rnti].state
           /\ ueMap'[rnti].releaseBwp = ueMap[rnti].releaseBwp
           /\ ueMap'[rnti].setupTimeout = ueMap[rnti].setupTimeout
           /\ ueMap'[rnti].inRACH = ueMap[rnti].inRACH
           /\ ueMap[rnti].state = "CONNECTION_RECONFIGURATION" =>
                  ueMap'[rnti].inactivityTimeout = DataInactivityInterval
<1> DEFINE c == ueMap[rnti]
<1>1. c \in Contexts /\ Fits(c) /\ ueMap \in [Rntis -> Contexts]
    BY AtContext
<1>2. ueMap' = [ueMap EXCEPT ![rnti] = Refreshed(c)]
    BY DEF NotifyDataActivity, Context
<1>3. ueMap'[rnti] = Refreshed(c)
    BY <1>1, <1>2
<1> HIDE DEF c
<1>4. /\ Refreshed(c).state = c.state /\ Refreshed(c).releaseBwp = c.releaseBwp
      /\ Refreshed(c).setupTimeout = c.setupTimeout /\ Refreshed(c).inRACH = c.inRACH
      /\ c.state = "CONNECTION_RECONFIGURATION" =>
             Refreshed(c).inactivityTimeout = DataInactivityInterval
    BY <1>1, RefreshedFits
<1> QED BY <1>3, <1>4 DEF c

\* A UE that receives something on SRB0 or SRB1 has an RNTI.
LEMMA ListensWithRnti ==
    ASSUME RrcInv, macRnti \in Rntis
    PROVE  rnti \in Rntis /\ macRnti = rnti /\ ueState \in ActiveStates
BY RrcProtocolAssumption DEF RrcInv, UeFits, NoRnti

LEMMA SetupFits ==
    ASSUME RrcInv, TypeInv', DoRecvRrcSetup, NotifyDataActivity(macRnti), UNCHANGED <<redCap, waited>>
    PROVE  RrcInv'
<1> DEFINE n == [type |-> "RrcSetup", rnti |-> macRnti]
<1>1. n \in ccchDown /\ ccchDown' = ccchDown \ {n}
    BY DEF DoRecvRrcSetup, ReceiveCcch
<1>t. ccchDown \subseteq [type : CcchDownTypes, rnti : Rntis]
    BY DEF RrcInv, TypeInv, TypeOK, ChannelsOK
<1>2. rnti \in Rntis /\ macRnti = rnti /\ ueState \in ActiveStates
    <2>1. n.rnti \in Rntis
        BY <1>1, <1>t
    <2> QED BY <2>1, ListensWithRnti
<1>3. /\ ueMap[rnti].state = "CONNECTION_SETUP" /\ ueState = "IDLE_CONNECTING"
      /\ ueMap[rnti].setupTimeout + waited >= ConnectionSetupTimeoutDuration
    <2>1. AnswerFits(n)
        BY <1>1 DEF RrcInv, AnswersFit
    <2> QED BY <2>1, <1>2 DEF AnswerFits, ActiveStates, IdleStates, ResumingStates
<1>4. /\ ueState' = "CONNECTED_NORMALLY" /\ connectionTimeout' = Off /\ ~leaveConnectedMode'
      /\ nas' = "ACTIVE" /\ setupCompleted' = ProcDelay
      /\ UNCHANGED <<rnti, macRnti, resumeIdentity, releases, drbs, accessing, nasConnects, fatal,
                     ccchUp, dcchUp, dcchDown, removals>>
    BY <1>3 DEF DoRecvRrcSetup, CancelT300, NotifyConnectionSuccessful
<1>5. ProcDelay > 0 /\ IsRunning(ProcDelay)
    BY RrcProtocolAssumption DEF IsRunning, Off
<1>6. UeFits'
    BY <1>2, <1>3, <1>4, <1>5 DEF RrcInv, UeFits, ActiveStates, AsleepStates, IdleStates, ResumingStates,
       IsRunning
<1>7. ueMap'[rnti].state = "CONNECTION_SETUP" /\ ueMap'[rnti].setupTimeout = ueMap[rnti].setupTimeout
    BY <1>2, <1>3, <1>4, DeliveredContext
<1>8. DownFits(rnti)' /\ ServesUe(rnti)'
    BY <1>2, <1>3, <1>4, <1>7, AtContext DEF DownFits, ServesUe
<1>9. ServingFits'
    <2>1. dcchUp = << >>
        BY <1>3 DEF RrcInv, ServingFits
    <2>2. ueMap[rnti].setupTimeout + MaxDelay + ProcDelay >= ConnectionSetupTimeoutDuration + ProcDelay
        <3> DEFINE t == ueMap[rnti].setupTimeout
        <3>1. /\ t \in Int /\ MaxDelay \in Nat /\ ProcDelay \in Nat /\ waited \in 0..MaxDelay
              /\ ConnectionSetupTimeoutDuration \in Nat
            BY <1>2, AtContext, DurationsAreNat, RrcAssumption, RrcProtocolAssumption
               DEF Contexts, Off, RrcInv, TypeInv, TypeOK
        <3>2. t + waited >= ConnectionSetupTimeoutDuration
            BY <1>3
        <3> HIDE DEF t
        <3>3. t + MaxDelay + ProcDelay >= ConnectionSetupTimeoutDuration + ProcDelay
            BY <3>1, <3>2
        <3> QED BY <3>3 DEF t
    <2> QED BY <2>1, <2>2, <1>4, <1>5, <1>7 DEF ServingFits, ConnectedFits, AsleepStates, ResumingStates
<1>10. /\ \A m \in ccchUp : m.resumeIdentity # rnti
       /\ \A m \in ccchDown' : m.rnti # rnti
    <2>1. ASSUME NEW m \in ccchDown', m.rnti = rnti
          PROVE  FALSE
        <3>1. AnswerFits(m) /\ m \in [type : CcchDownTypes, rnti : Rntis]
            BY <1>1, <1>t DEF RrcInv, AnswersFit
        <3>2. m.type = "RrcSetup"
            BY <3>1, <2>1, <1>3 DEF AnswerFits, CcchDownTypes
        <3>3. m = n
            BY <3>1, <3>2, <2>1, <1>2
        <3> QED BY <3>3, <1>1
    <2> QED BY <2>1, <1>2, <1>3, CcchOf DEF SuspendedStates
<1> QED BY <1>1, <1>2, <1>4, <1>6, <1>8, <1>9, <1>10, DeliveredStep

LEMMA RejectFits ==
    ASSUME RrcInv, TypeInv', DoRecvRrcConnectionReject, NotifyDataActivity(macRnti),
           UNCHANGED <<redCap, waited>>
    PROVE  RrcInv'
<1> DEFINE n == [type |-> "RrcConnectionReject", rnti |-> macRnti]
<1>1. n \in ccchDown /\ ccchDown' = ccchDown \ {n}
    BY DEF DoRecvRrcConnectionReject, ReceiveCcch
<1>t. ccchDown \subseteq [type : CcchDownTypes, rnti : Rntis]
    BY DEF RrcInv, TypeInv, TypeOK, ChannelsOK
<1>2. rnti \in Rntis /\ macRnti = rnti /\ ueState \in ActiveStates
    <2>1. n.rnti \in Rntis
        BY <1>1, <1>t
    <2> QED BY <2>1, ListensWithRnti
<1>3. /\ ueMap[rnti].state = "CONNECTION_REJECTED"
      /\ ueState \in {"IDLE_CONNECTING"} \cup ResumingStates
    <2>1. AnswerFits(n)
        BY <1>1 DEF RrcInv, AnswersFit
    <2>2. ueMap[rnti].state = "CONNECTION_REJECTED"
        BY <2>1, <1>2 DEF AnswerFits
    <2> QED BY <2>2, <1>2, UeOf DEF ActiveStates, IdleStates, ResumingStates
<1>4. /\ connectionTimeout' = Off /\ macRnti' = NoRnti /\ nasConnects'
      /\ Becomes(SwitchToState(Now, "IDLE_CAMPED_NORMALLY", FALSE))
      /\ UNCHANGED <<rnti, resumeIdentity, setupCompleted, releases, leaveConnectedMode, drbs, nas,
                     ccchUp, dcchUp, dcchDown, removals, fatal>>
    BY DEF DoRecvRrcConnectionReject, CancelT300
<1>5. ~accessing /\ ~IsRunning(setupCompleted) /\ releases = << >>
    BY <1>3 DEF RrcInv, UeFits, ResumingStates
<1>6. ueState' = "IDLE_CAMPED_NORMALLY" /\ ~accessing'
    BY <1>4, <1>5, CampedStates DEF RrcInv, TypeInv, TypeOK
<1>7. UeFits'
    BY <1>4, <1>5, <1>6 DEF UeFits, ActiveStates, AsleepStates, IdleStates, ResumingStates, IsRunning
<1>8. ueMap'[rnti].state = "CONNECTION_REJECTED"
    BY <1>2, <1>3, <1>4, DeliveredContext
<1>9. DownFits(rnti)' /\ ServesUe(rnti)'
    BY <1>2, <1>3, <1>4, <1>8, AtContext DEF DownFits, ServesUe
<1>10. ServingFits'
    <2>1. dcchUp = << >>
        BY <1>2, <1>3, UeOf DEF ResumingStates
    <2> QED BY <2>1, <1>4, <1>6 DEF ServingFits, AsleepStates, ResumingStates
<1>11. /\ \A m \in ccchUp : m.resumeIdentity # rnti
       /\ \A m \in ccchDown' : m.rnti # rnti
    <2>1. ASSUME NEW m \in ccchDown', m.rnti = rnti
          PROVE  FALSE
        <3>1. AnswerFits(m) /\ m \in [type : CcchDownTypes, rnti : Rntis]
            BY <1>1, <1>t DEF RrcInv, AnswersFit
        <3>2. m.type = "RrcConnectionReject"
            BY <3>1, <2>1, <1>3 DEF AnswerFits, CcchDownTypes
        <3>3. m = n
            BY <3>1, <3>2, <2>1, <1>2
        <3> QED BY <3>3, <1>1
    <2> QED BY <2>1, <1>2, <1>3, CcchOf DEF SuspendedStates
<1> QED BY <1>1, <1>2, <1>4, <1>7, <1>9, <1>10, <1>11, DeliveredStep

\* A message on SRB1 is the only one on its way to the UE.
LEMMA DcchDelivered ==
    ASSUME RrcInv, NEW type \in DcchDownTypes, ReceiveDcch(type)
    PROVE  /\ rnti \in Rntis /\ macRnti = rnti /\ ueState \in ActiveStates
           /\ dcchDown[rnti] = <<type>> /\ dcchDown'[rnti] = << >>
           /\ \A q \in Rntis \ {rnti} : dcchDown'[q] = dcchDown[q]
           /\ type = "RrcReconfiguration" => ueMap[rnti].state = "CONNECTION_RECONFIGURATION"
           /\ type = "RrcResume" => ueMap[rnti].state = "INACTIVE_CONNECTING"
           /\ type = "RrcRelease" => ueMap[rnti].state = "IDLE"
           /\ type = "RrcReleaseSuspend" => ueMap[rnti].state \in SuspendedStates
           /\ \A m \in ccchUp : m.resumeIdentity # rnti
           /\ \A m \in ccchDown : m.rnti # rnti
<1>1. rnti \in Rntis /\ macRnti = rnti /\ ueState \in ActiveStates
    BY ListensWithRnti DEF ReceiveDcch
<1>2. /\ dcchDown[rnti] # << >> /\ Head(dcchDown[rnti]) = type
      /\ dcchDown' = [dcchDown EXCEPT ![rnti] = Tail(dcchDown[rnti])]
    BY <1>1 DEF ReceiveDcch
<1>3. dcchDown \in [Rntis -> Seq(DcchDownTypes)] /\ DownFits(rnti) /\ ueMap[rnti] \in Contexts
    BY <1>1, AtContext DEF RrcInv, TypeInv, TypeOK, ChannelsOK
<1>4. \E t \in DcchDownTypes :
          /\ dcchDown[rnti] = <<t>>
          /\ t = "RrcReconfiguration" => ueMap[rnti].state = "CONNECTION_RECONFIGURATION"
          /\ t = "RrcResume" => ueMap[rnti].state = "INACTIVE_CONNECTING"
          /\ t = "RrcRelease" => ueMap[rnti].state = "IDLE"
          /\ t = "RrcReleaseSuspend" => ueMap[rnti].state \in SuspendedStates
    BY <1>2, <1>3 DEF DownFits, DcchDownTypes, SuspendedStates
<1>5. PICK t \in DcchDownTypes :
          /\ dcchDown[rnti] = <<t>>
          /\ t = "RrcReconfiguration" => ueMap[rnti].state = "CONNECTION_RECONFIGURATION"
          /\ t = "RrcResume" => ueMap[rnti].state = "INACTIVE_CONNECTING"
          /\ t = "RrcRelease" => ueMap[rnti].state = "IDLE"
          /\ t = "RrcReleaseSuspend" => ueMap[rnti].state \in SuspendedStates
    BY <1>4
<1>6. t = type /\ Tail(dcchDown[rnti]) = << >>
    BY <1>2, <1>5
<1>7. dcchDown'[rnti] = << >> /\ \A q \in Rntis \ {rnti} : dcchDown'[q] = dcchDown[q]
    BY <1>1, <1>2, <1>3, <1>6
<1>8. \A m \in ccchUp : m.resumeIdentity # rnti
    BY <1>1, <1>2, CcchOf
<1>9. \A m \in ccchDown : m.rnti # rnti
    BY <1>1, <1>5, CcchOf DEF SuspendedStates, DcchDownTypes
<1> QED BY <1>1, <1>5, <1>6, <1>7, <1>8, <1>9

LEMMA ReconfigurationFits ==
    ASSUME RrcInv, TypeInv', DoRecvRrcReconfiguration, NotifyDataActivity(macRnti),
           UNCHANGED <<redCap, waited>>
    PROVE  RrcInv'
<1>1. /\ rnti \in Rntis /\ macRnti = rnti
      /\ dcchDown[rnti] = <<"RrcReconfiguration">> /\ dcchDown'[rnti] = << >>
      /\ \A q \in Rntis \ {rnti} : dcchDown'[q] = dcchDown[q]
      /\ ueMap[rnti].state = "CONNECTION_RECONFIGURATION"
      /\ \A m \in ccchUp : m.resumeIdentity # rnti
      /\ \A m \in ccchDown : m.rnti # rnti
    <2>1. "RrcReconfiguration" \in DcchDownTypes /\ ReceiveDcch("RrcReconfiguration")
        BY DEF DoRecvRrcReconfiguration, DcchDownTypes
    <2> QED BY <2>1, DcchDelivered
<1>2. ueState = "CONNECTED_NORMALLY"
    BY <1>1, AtContext DEF ServesUe
<1>3. ~IsRunning(setupCompleted) /\ dcchUp = << >>
    BY <1>1, <1>2 DEF RrcInv, ServingFits, ConnectedFits
<1>4. /\ drbs' /\ dcchUp' = Up("RrcReconfigurationCompleted")
      /\ UNCHANGED <<ueState, rnti, macRnti, resumeIdentity, connectionTimeout, setupCompleted,
                     releases, leaveConnectedMode, accessing, nas, nasConnects, ccchUp, ccchDown,
                     removals, fatal>>
    BY <1>2, <1>3 DEF DoRecvRrcReconfiguration, SendUp, Up
<1>5. UeFits'
    BY <1>2, <1>4 DEF RrcInv, UeFits, AsleepStates, ResumingStates
<1>6. /\ ueMap'[rnti].state = "CONNECTION_RECONFIGURATION"
      /\ ueMap'[rnti].inactivityTimeout = DataInactivityInterval
    BY <1>1, <1>4, DeliveredContext
<1>7. DownFits(rnti)' /\ ServesUe(rnti)'
    BY <1>1, <1>2, <1>4, <1>6 DEF DownFits, ServesUe
<1>8. ServingFits'
    <2>1. DataInactivityInterval + waited >= DataInactivityInterval
        BY DurationsAreNat, RrcAssumption DEF RrcInv, TypeInv, TypeOK
    <2> QED BY <2>1, <1>1, <1>2, <1>3, <1>4, <1>6 DEF ServingFits, ConnectedFits, Up, AsleepStates,
               ResumingStates
<1> QED BY <1>1, <1>4, <1>5, <1>7, <1>8, DeliveredStep

LEMMA ResumeFits ==
    ASSUME RrcInv, TypeInv', DoRecvRrcResume, NotifyDataActivity(macRnti), UNCHANGED <<redCap, waited>>
    PROVE  RrcInv'
<1>1. /\ rnti \in Rntis /\ macRnti = rnti /\ ueState \in ActiveStates
      /\ dcchDown[rnti] = <<"RrcResume">> /\ dcchDown'[rnti] = << >>
      /\ \A q \in Rntis \ {rnti} : dcchDown'[q] = dcchDown[q]
      /\ ueMap[rnti].state = "INACTIVE_CONNECTING"
      /\ \A m \in ccchUp : m.resumeIdentity # rnti
      /\ \A m \in ccchDown : m.rnti # rnti
    <2>1. "RrcResume" \in DcchDownTypes /\ ReceiveDcch("RrcResume")
        BY DEF DoRecvRrcResume, DcchDownTypes
    <2> QED BY <2>1, DcchDelivered
<1>2. ueState \in ResumingStates
    BY <1>1 DEF RrcInv, ServingFits, ConnectedFits, ReleasedFits, ActiveStates, ResumingStates
<1>3. /\ dcchUp = << >> /\ drbs /\ ~IsRunning(setupCompleted) /\ releases = << >> /\ ~nasConnects
      /\ nas # "OFF" /\ ~leaveConnectedMode /\ ~accessing
    BY <1>1, <1>2, UeOf DEF RrcInv, UeFits, ResumingStates, IdleStates
<1>4. /\ connectionTimeout' = Off /\ ueState' = "CONNECTED_NORMALLY"
      /\ dcchUp' = Up("RrcResumeComplete")
      /\ UNCHANGED <<rnti, macRnti, resumeIdentity, setupCompleted, releases, leaveConnectedMode, drbs,
                     accessing, nas, nasConnects, ccchUp, ccchDown, removals, fatal>>
    BY <1>3 DEF DoRecvRrcResume, SendUp, Up, CancelT300, ueFlags
<1>5. UeFits'
    BY <1>1, <1>3, <1>4 DEF UeFits, ActiveStates, AsleepStates, ResumingStates, IdleStates, IsRunning
<1>6. ueMap'[rnti].state = "INACTIVE_CONNECTING"
    BY <1>1, <1>4, DeliveredContext
<1>7. DownFits(rnti)' /\ ServesUe(rnti)'
    BY <1>1, <1>4, <1>6 DEF DownFits, ServesUe
<1>8. ServingFits'
    BY <1>1, <1>3, <1>4, <1>6 DEF ServingFits, ConnectedFits, Up, AsleepStates, ResumingStates
<1> QED BY <1>1, <1>4, <1>5, <1>7, <1>8, DeliveredStep

LEMMA ReleaseReceivedFits ==
    ASSUME RrcInv, TypeInv', DurationsInOrder, DoRecvRrcRelease, NotifyDataActivity(macRnti),
           UNCHANGED <<redCap, waited>>
    PROVE  RrcInv'
<1> DEFINE type(b) == IF b THEN "RrcReleaseSuspend" ELSE "RrcRelease"
           event(b) == [left |-> ProcDelay, suspend |-> IF b THEN macRnti ELSE NoRnti]
<1>0. PICK b \in BOOLEAN : ReceiveDcch(type(b)) /\ releases' = Append(releases, event(b))
    BY DEF DoRecvRrcRelease
<1>1. /\ rnti \in Rntis /\ macRnti = rnti /\ ueState \in ActiveStates
      /\ dcchDown[rnti] = <<type(b)>> /\ dcchDown'[rnti] = << >>
      /\ \A q \in Rntis \ {rnti} : dcchDown'[q] = dcchDown[q]
      /\ IF b THEN ueMap[rnti].state \in SuspendedStates ELSE ueMap[rnti].state = "IDLE"
      /\ \A m \in ccchUp : m.resumeIdentity # rnti
      /\ \A m \in ccchDown : m.rnti # rnti
    <2>1. type(b) \in DcchDownTypes
        BY DEF DcchDownTypes
    <2>2. /\ type(b) = "RrcRelease" => ~b
          /\ type(b) = "RrcReleaseSuspend" => b
          /\ b => type(b) = "RrcReleaseSuspend"
          /\ ~b => type(b) = "RrcRelease"
        OBVIOUS
    <2> HIDE DEF type
    <2> QED BY <1>0, <2>1, <2>2, DcchDelivered
<1>2. /\ \/ ueState \in ResumingStates /\ b
         \/ ueState = "CONNECTED_NORMALLY" /\ ~IsRunning(setupCompleted) /\ (b => drbs)
      /\ dcchUp = << >>
    <2>1. CASE b
        BY <2>1, <1>1 DEF RrcInv, ServingFits, ConnectedFits, ReleasedFits, ActiveStates, ResumingStates,
           SuspendedStates
    <2>2. CASE ~b
        BY <2>2, <1>1 DEF RrcInv, ServingFits, ConnectedFits, ReleasedFits, ResumingFits, AsleepFits,
           ActiveStates, ResumingStates, SuspendedStates
    <2> QED BY <2>1, <2>2
<1>3. /\ b => drbs
      /\ ~IsRunning(setupCompleted) /\ releases = << >> /\ ~nasConnects
      /\ nas # "OFF" /\ ~leaveConnectedMode /\ ~accessing
    <2>1. IsRunning(setupCompleted) <=> setupCompleted # Off
        BY DEF IsRunning
    <2> QED BY <2>1, <1>2 DEF RrcInv, UeFits, ResumingStates, IdleStates, Off
<1>4. /\ connectionTimeout' = Off /\ ueState' = "RELEASE_RECEIVED" /\ releases' = <<event(b)>>
      /\ UNCHANGED <<rnti, macRnti, resumeIdentity, setupCompleted, leaveConnectedMode, drbs,
                     accessing, nas, nasConnects, ccchUp, ccchDown, dcchUp, removals, fatal>>
    BY <1>0, <1>3 DEF DoRecvRrcRelease, CancelT300, ueFlags
<1>5. UeFits'
    <2>1. releases' # << >> /\ Len(releases') <= 1
        BY <1>4
    <2> QED BY <2>1, <1>1, <1>3, <1>4 DEF UeFits, ActiveStates, AsleepStates, ResumingStates, IdleStates,
               IsRunning
<1>6. ueMap'[rnti].state = ueMap[rnti].state /\ ueMap'[rnti].releaseBwp = ueMap[rnti].releaseBwp
    BY <1>1, <1>4, DeliveredContext
<1>7. DownFits(rnti)' /\ ServesUe(rnti)'
    BY <1>1, <1>4, <1>6 DEF DownFits, ServesUe, SuspendedStates
<1>8. ServingFits'
    <2>1. \A t \in ueMap[rnti].releaseBwp : t <= ProcDelay
        <3>1. ueMap[rnti].releaseBwp \subseteq 0..ReleaseBwpSwitch
            BY <1>1, AtContext DEF Contexts
        <3>2. ReleaseBwpSwitch <= ProcDelay /\ ReleaseBwpSwitch \in Nat /\ ProcDelay \in Nat
            BY DurationsAreNat, RrcProtocolAssumption DEF DurationsInOrder
        <3> QED BY <3>1, <3>2
    <2>2. Head(releases') = event(b) /\ event(b).left = ProcDelay
        BY <1>4
    <2>3. event(b).suspend = IF b THEN rnti ELSE NoRnti
        BY <1>1
    <2>4. ReleasedFits(ueMap[rnti], dcchDown[rnti], Head(releases))'
        BY <2>1, <2>2, <2>3, <1>1, <1>3, <1>4, <1>6 DEF ReleasedFits
    <2> QED BY <2>4, <1>2, <1>4 DEF ServingFits, AsleepStates, ResumingStates
<1> QED BY <1>1, <1>4, <1>5, <1>7, <1>8, DeliveredStep

-----------------------------------------------------------------------------
\* Random access gives the UE a new context, or leads it back to its old one.
LEMMA RandomAccessFits ==
    ASSUME RrcInv, TypeInv', NEW r \in Rntis, RandomAccess(r), UNCHANGED <<redCap, waited>>
    PROVE  RrcInv'
<1> DEFINE c == [NoContext EXCEPT !.state = "INITIAL_RANDOM_ACCESS",
                                  !.requestTimeout = ConnectionRequestTimeoutDuration]
<1>0. NoRnti \notin Rntis
    BY RrcProtocolAssumption DEF NoRnti
<1>t. /\ ccchUp \subseteq [rnti : Rntis, resumeIdentity : AnyRnti, sdt : BOOLEAN]
      /\ ccchDown \subseteq [type : CcchDownTypes, rnti : Rntis]
      /\ ueMap \in [Rntis -> Contexts]
    BY DEF RrcInv, TypeInv, TypeOK, GnbTypeOK, ChannelsOK
<1>1. c \in Contexts /\ Fits(c) /\ c.state = "INITIAL_RANDOM_ACCESS"
    BY InitialFits
<1>2. /\ Context(r, c) /\ UNCHANGED pagingList /\ ueMap[r].state = "NONE"
      /\ accessing /\ DoNotifyRandomAccessSuccessful(r)
    BY DEF RandomAccess, AddUe, DoNotifyRandomAccessSuccessful
<1>3. /\ r # rnti /\ r \notin removals /\ dcchDown[r] = << >>
      /\ \A m \in ccchUp : m.rnti # r /\ m.resumeIdentity # r
      /\ \A m \in ccchDown : m.rnti # r
    BY DEF RandomAccess, IsNext, IsFresh
<1> HIDE DEF c
<1>4. ueMap'[r] = c /\ \A q \in Rntis \ {r} : ueMap'[q] = ueMap[q]
    BY <1>2, <1>t DEF Context
<1>5. /\ UNCHANGED <<resumeIdentity, setupCompleted, releases, leaveConnectedMode, drbs, nas, nasConnects,
                     ccchDown, dcchUp, dcchDown, removals>>
      /\ ueState \in {"IDLE_RANDOM_ACCESS", "IDLE_RANDOM_ACCESS_INACTIVE"}
    BY <1>2 DEF DoNotifyRandomAccessSuccessful, RrcInv, UeFits
<1>6. /\ dcchUp = << >> /\ ~IsRunning(setupCompleted) /\ releases = << >>
    BY <1>5 DEF RrcInv, ServingFits, UeFits
\* The contexts, apart from what the UE's new state means for them.
<1>7. ContextsFit'
    <2>1. ASSUME NEW q \in Rntis \ {r}
          PROVE  Fits(ueMap[q])' /\ DownFits(q)' /\ ServesUe(q)'
        <3>1. Fits(ueMap[q]) /\ DownFits(q) /\ ServesUe(q)
            BY DEF RrcInv, ContextsFit
        <3>2. Fits(ueMap[q])'
            BY <3>1, <1>4 DEF Fits
        <3>3. DownFits(q)'
            BY <3>1, <1>4, <1>5 DEF DownFits
        <3>4. ServesUe(q)'
            BY <3>1, <1>4, <1>5 DEF ServesUe
        <3> QED BY <3>2, <3>3, <3>4
    <2>2. Fits(ueMap[r])'
        BY <1>1, <1>4 DEF Fits
    <2>3. DownFits(r)' /\ ServesUe(r)'
        BY <1>1, <1>3, <1>4, <1>5 DEF DownFits, ServesUe
    <2> QED BY <2>1, <2>2, <2>3 DEF ContextsFit
<1>8. CASE ueState = "IDLE_RANDOM_ACCESS"
    <2> DEFINE n == [rnti |-> r, resumeIdentity |-> NoRnti, sdt |-> FALSE]
    <2>1. /\ ueState' = "IDLE_CONNECTING" /\ ccchUp' = ccchUp \cup {n} /\ rnti' = r /\ macRnti' = r
          /\ ~accessing' /\ UNCHANGED fatal
        BY <1>2, <1>8 DEF DoNotifyRandomAccessSuccessful, SendMsg3
    <2>2. UeFits'
        BY <1>5, <1>6, <1>8, <2>1 DEF RrcInv, UeFits, ActiveStates, AsleepStates, IdleStates,
           ResumingStates
    <2>3. Msg3sFit'
        <3>1. ASSUME NEW m \in ccchUp
              PROVE  Msg3Fits(m)'
            <4>1. Msg3Fits(m) /\ m.rnti \in Rntis \ {r} /\ m.resumeIdentity \in (Rntis \ {r}) \cup {NoRnti}
                BY <1>3, <1>t DEF RrcInv, Msg3sFit, AnyRnti
            <4> QED BY <4>1, <1>4, <1>5, <2>1 DEF Msg3Fits
        <3>2. Msg3Fits(n)'
            BY <1>1, <1>4 DEF Msg3Fits
        <3>3. \A m \in ccchUp : m.rnti # n.rnti
            BY <1>3
        <3>4. n.resumeIdentity = NoRnti
            OBVIOUS
        <3> HIDE DEF n
        <3> QED BY <3>1, <3>2, <3>3, <3>4, <2>1 DEF RrcInv, Msg3sFit
    <2>4. AnswersFit'
        <3>1. ASSUME NEW m \in ccchDown
              PROVE  AnswerFits(m)'
            <4>1. AnswerFits(m) /\ m.rnti \in Rntis \ {r}
                BY <1>3, <1>t DEF RrcInv, AnswersFit
            <4> QED BY <4>1, <1>4, <2>1 DEF AnswerFits
        <3> QED BY <3>1, <1>5 DEF AnswersFit
    <2>5. RemovalsFit'
        BY <1>3, <1>4, <1>5, <2>1 DEF RrcInv, RemovalsFit
    <2>6. ServingFits'
        BY <1>1, <1>4, <1>5, <1>6, <2>1 DEF ServingFits, AsleepStates, ResumingStates
    <2> QED BY <1>2, <1>7, <2>1, <2>2, <2>3, <2>4, <2>5, <2>6 DEF RrcInv, NoUnexpectedEvent
<1>9. CASE ueState = "IDLE_RANDOM_ACCESS_INACTIVE"
    <2>0. rnti \in Rntis /\ resumeIdentity = rnti /\ drbs /\ nas # "OFF" /\ ~nasConnects
          /\ ~leaveConnectedMode
        BY <1>9 DEF RrcInv, UeFits, AsleepStates, IdleStates
    <2>1. PICK taken \in 0..packetStored :
            /\ ueState' = IF sdt THEN "INACTIVE_SMALL_DATA_TRANSMISSION" ELSE "INACTIVE_CONNECTING"
            /\ SendMsg3(r, resumeIdentity, taken > 0)
            /\ rnti' = resumeIdentity /\ macRnti' = resumeIdentity
            /\ accessing' = FALSE /\ UNCHANGED fatal
        BY <1>2, <1>9 DEF DoNotifyRandomAccessSuccessful
    <2>n. PICK n : n = [rnti |-> r, resumeIdentity |-> rnti, sdt |-> taken > 0]
        OBVIOUS
    <2>2. /\ ueState' \in ResumingStates /\ ccchUp' = ccchUp \cup {n} /\ UNCHANGED <<rnti, fatal>>
          /\ macRnti' = rnti /\ ~accessing'
        BY <2>0, <2>1, <2>n DEF ResumingStates, SendMsg3
    <2>3. UeFits'
        BY <1>5, <1>6, <2>0, <2>2 DEF UeFits, ActiveStates, AsleepStates, IdleStates, ResumingStates
    <2>4. AsleepFits(ueMap[rnti], dcchDown[rnti])
        BY <1>9 DEF RrcInv, ServingFits, AsleepStates
    <2>5. ueMap'[rnti] = ueMap[rnti]
        BY <1>3, <1>4, <2>0
    <2>6. Msg3sFit'
        <3>1. ASSUME NEW m \in ccchUp
              PROVE  Msg3Fits(m)'
            <4>1. Msg3Fits(m) /\ m.rnti \in Rntis \ {r} /\ m.resumeIdentity \in (Rntis \ {r}) \cup {NoRnti}
                BY <1>3, <1>t DEF RrcInv, Msg3sFit, AnyRnti
            <4> QED BY <4>1, <1>4, <1>5, <2>2 DEF Msg3Fits
        <3>2. n.rnti = r /\ n.resumeIdentity = rnti
            BY <2>n
        <3>3. /\ \A m \in ccchUp : m.rnti # n.rnti
              /\ \A m \in ccchUp : m.resumeIdentity # n.resumeIdentity
            BY <3>2, <1>3, <1>9, <2>0, CcchOf DEF ResumingStates, IdleStates
        <3>4. Msg3Fits(n)'
            <4>1. ueMap'[n.rnti].state = "INITIAL_RANDOM_ACCESS" /\ ueMap'[n.resumeIdentity] = ueMap[rnti]
                  /\ dcchDown'[n.resumeIdentity] = dcchDown[rnti]
                BY <3>2, <1>1, <1>4, <1>5, <2>5
            <4> QED BY <4>1, <2>2, <2>4 DEF Msg3Fits, AsleepFits
        <3> QED BY <3>1, <3>3, <3>4, <2>2 DEF RrcInv, Msg3sFit
    <2>7. AnswersFit'
        <3>1. ASSUME NEW m \in ccchDown
              PROVE  AnswerFits(m)'
            <4>1. AnswerFits(m) /\ m.rnti \in Rntis \ {r}
                BY <1>3, <1>t DEF RrcInv, AnswersFit
            <4>2. m.rnti # rnti
                BY <2>0, <2>4, CcchOf DEF AsleepFits, SuspendedStates
            <4> QED BY <4>1, <4>2, <1>4, <2>2 DEF AnswerFits
        <3> QED BY <3>1, <1>5 DEF AnswersFit
    <2>8. RemovalsFit'
        BY <1>3, <1>4, <1>5, <2>2 DEF RrcInv, RemovalsFit
    <2>9. ServingFits'
        BY <1>5, <1>6, <2>2, <2>4, <2>5 DEF ServingFits, ResumingFits, AsleepFits, AsleepStates, ResumingStates
    <2> QED BY <1>2, <1>7, <2>2, <2>3, <2>6, <2>7, <2>8, <2>9 DEF RrcInv, NoUnexpectedEvent
<1> QED BY <1>5, <1>8, <1>9

-----------------------------------------------------------------------------
\* A countdown that is not due stays as it is, running or off.
LEMMA CountdownRuns ==
    ASSUME NEW n \in Nat, NEW t \in Off..n, t # 0
    PROVE  /\ IsRunning(Countdown(t)) <=> IsRunning(t)
           /\ IsRunning(t) => t > 0 /\ Countdown(t) = t - 1
BY DEF Countdown, IsRunning, Off

LEMMA TickedFits ==
    ASSUME NEW c \in Contexts, Fits(c), c.state # "ATTACH_REQUEST",
           0 \notin {c.requestTimeout, c.setupTimeout, c.rejectedTimeout,
                     c.inactivityTimeout, c.switchingBwp} \cup c.releaseBwp,
           ~(c.polling /\ ~IsRunning(c.switchingBwp))
    PROVE  /\ Fits(Ticked(c)) /\ Ticked(c).state = c.state /\ Ticked(c).inRACH = c.inRACH
           /\ c.releaseBwp = {} => Ticked(c).releaseBwp = {}
           /\ \A t \in Ticked(c).releaseBwp : \E u \in c.releaseBwp : t = u - 1
           /\ c.state = "CONNECTION_SETUP" => Ticked(c).setupTimeout = c.setupTimeout - 1
           /\ c.state = "CONNECTION_RECONFIGURATION" =>
                  Ticked(c).inactivityTimeout = c.inactivityTimeout - 1
<1> DEFINE d == Ticked(c)
<1>1. /\ d.state = c.state /\ d.pending = c.pending /\ d.inRACH = c.inRACH /\ d.drbs = c.drbs
      /\ d.polling = c.polling
      /\ d.requestTimeout = Countdown(c.requestTimeout)
      /\ d.setupTimeout = Countdown(c.setupTimeout)
      /\ d.rejectedTimeout = Countdown(c.rejectedTimeout)
      /\ d.inactivityTimeout = Countdown(c.inactivityTimeout)
      /\ d.switchingBwp = Countdown(c.switchingBwp)
      /\ d.forgotten = {Countdown(t) : t \in c.forgotten}
      /\ d.releaseBwp = {Countdown(t) : t \in c.releaseBwp}
    BY DEF Ticked, Contexts
<1> HIDE DEF d
<1>2. /\ IsRunning(d.requestTimeout) <=> IsRunning(c.requestTimeout)
      /\ IsRunning(d.setupTimeout) <=> IsRunning(c.setupTimeout)
      /\ IsRunning(d.rejectedTimeout) <=> IsRunning(c.rejectedTimeout)
      /\ IsRunning(d.inactivityTimeout) <=> IsRunning(c.inactivityTimeout)
      /\ IsRunning(c.setupTimeout) => d.setupTimeout = c.setupTimeout - 1
      /\ IsRunning(c.inactivityTimeout) => d.inactivityTimeout = c.inactivityTimeout - 1
    BY <1>1, CountdownRuns, DurationsAreNat DEF Contexts
<1>3. IsRunning(d.switchingBwp) <=> IsRunning(c.switchingBwp)
    BY <1>1, CountdownRuns, DurationsAreNat DEF Contexts
<1>4. \A t \in d.releaseBwp : \E u \in c.releaseBwp : t = u - 1
    <2>1. \A u \in c.releaseBwp : u \in 0..ReleaseBwpSwitch /\ u # 0
        BY DEF Contexts
    <2>2. \A u \in c.releaseBwp : Countdown(u) = u - 1
        BY <2>1, DurationsAreNat DEF Countdown
    <2> QED BY <2>2, <1>1
<1>5. /\ c.forgotten = {} => d.forgotten = {}
      /\ c.releaseBwp = {} => d.releaseBwp = {}
    BY <1>1
<1>6. Fits(d)
    BY <1>1, <1>2, <1>3, <1>5 DEF Fits
<1> QED BY <1>1, <1>2, <1>4, <1>5, <1>6 DEF d, Fits

\* Time passes.
LEMMA TickFits ==
    ASSUME RrcInv, TypeInv', Tick, UNCHANGED redCap
    PROVE  RrcInv'
<1>u. /\ UNCHANGED <<ueState, rnti, macRnti, resumeIdentity, ueFlags, ccchUp, ccchDown, dcchUp, dcchDown,
                     removals, fatal, pagingList>>
    BY DEF Tick, UeTick, GnbTick, messages
<1>v. UNCHANGED <<leaveConnectedMode, drbs, accessing, nas, nasConnects>>
    BY <1>u DEF ueFlags
<1>w. waited \in 0..MaxDelay /\ MaxDelay \in Nat /\ waited' = IF IsWaiting THEN waited + 1 ELSE 0
    BY RrcAssumption DEF Tick, RrcInv, TypeInv, TypeOK
<1>1. ASSUME NEW q \in Rntis
      PROVE  /\ ueMap[q] \in Contexts /\ ueMap'[q] = Ticked(ueMap[q])
             /\ ueMap[q].state # "ATTACH_REQUEST"
             /\ 0 \notin {ueMap[q].requestTimeout, ueMap[q].setupTimeout, ueMap[q].rejectedTimeout,
                          ueMap[q].inactivityTimeout, ueMap[q].switchingBwp} \cup ueMap[q].releaseBwp
             /\ ~(ueMap[q].polling /\ ~IsRunning(ueMap[q].switchingBwp))
             /\ Fits(ueMap[q]) /\ DownFits(q) /\ ServesUe(q)
    BY AtContext DEF Tick, GnbEventsDue, GnbTick, Ticked
<1>2. ASSUME NEW q \in Rntis
      PROVE  /\ Fits(ueMap'[q]) /\ ueMap'[q].state = ueMap[q].state /\ ueMap'[q].inRACH = ueMap[q].inRACH
             /\ ueMap[q].releaseBwp = {} => ueMap'[q].releaseBwp = {}
             /\ \A t \in ueMap'[q].releaseBwp : \E v \in ueMap[q].releaseBwp : t = v - 1
             /\ ueMap[q].state = "CONNECTION_SETUP" =>
                    ueMap'[q].setupTimeout = ueMap[q].setupTimeout - 1
             /\ ueMap[q].state = "CONNECTION_RECONFIGURATION" =>
                    ueMap'[q].inactivityTimeout = ueMap[q].inactivityTimeout - 1
    <2> DEFINE c == ueMap[q]
    <2>1. /\ c \in Contexts /\ Fits(c) /\ c.state # "ATTACH_REQUEST"
          /\ 0 \notin {c.requestTimeout, c.setupTimeout, c.rejectedTimeout,
                       c.inactivityTimeout, c.switchingBwp} \cup c.releaseBwp
          /\ ~(c.polling /\ ~IsRunning(c.switchingBwp))
          /\ ueMap'[q] = Ticked(c)
        BY <1>1
    <2> HIDE DEF c
    <2>2. /\ Fits(Ticked(c)) /\ Ticked(c).state = c.state /\ Ticked(c).inRACH = c.inRACH
          /\ c.releaseBwp = {} => Ticked(c).releaseBwp = {}
          /\ \A t \in Ticked(c).releaseBwp : \E v \in c.releaseBwp : t = v - 1
          /\ c.state = "CONNECTION_SETUP" => Ticked(c).setupTimeout = c.setupTimeout - 1
          /\ c.state = "CONNECTION_RECONFIGURATION" =>
                 Ticked(c).inactivityTimeout = c.inactivityTimeout - 1
        BY <2>1, TickedFits
    <2> QED BY <2>1, <2>2 DEF c
<1>3. ContextsFit'
    <2>1. ASSUME NEW q \in Rntis
          PROVE  Fits(ueMap[q])' /\ DownFits(q)' /\ ServesUe(q)'
        <3>1. Fits(ueMap'[q]) /\ ueMap'[q].state = ueMap[q].state
            BY <1>2
        <3>2. Fits(ueMap[q])'
            BY <3>1 DEF Fits
        <3>3. DownFits(q)'
            BY <1>1, <1>u, <3>1 DEF DownFits
        <3>4. ServesUe(q)'
            BY <1>1, <1>u, <3>1 DEF ServesUe
        <3> QED BY <3>2, <3>3, <3>4
    <2> QED BY <2>1 DEF ContextsFit
<1>t. /\ ccchUp \subseteq [rnti : Rntis, resumeIdentity : AnyRnti, sdt : BOOLEAN]
      /\ ccchDown \subseteq [type : CcchDownTypes, rnti : Rntis]
    BY DEF RrcInv, TypeInv, TypeOK, ChannelsOK
<1>4. Msg3sFit'
    <2>1. ASSUME NEW m \in ccchUp
          PROVE  Msg3Fits(m)'
        <3>1. Msg3Fits(m) /\ m.rnti \in Rntis /\ m.resumeIdentity \in Rntis \cup {NoRnti}
            BY <1>t DEF RrcInv, Msg3sFit, AnyRnti
        <3>2. /\ ueMap'[m.rnti].state = ueMap[m.rnti].state
              /\ m.resumeIdentity # NoRnti =>
                    /\ ueMap'[m.resumeIdentity].state = ueMap[m.resumeIdentity].state
                    /\ ueMap[m.resumeIdentity].releaseBwp = {} =>
                           ueMap'[m.resumeIdentity].releaseBwp = {}
            BY <3>1, <1>2
        <3> QED BY <3>1, <3>2, <1>u DEF Msg3Fits
    <2> QED BY <2>1, <1>u DEF RrcInv, Msg3sFit
<1>5. AnswersFit'
    <2>1. ASSUME NEW m \in ccchDown
          PROVE  AnswerFits(m)'
        <3>1. AnswerFits(m) /\ m.rnti \in Rntis
            BY <1>t DEF RrcInv, AnswersFit
        <3>2. ueMap'[m.rnti].state = ueMap[m.rnti].state
            BY <3>1, <1>2
        <3>3. ASSUME rnti = m.rnti, ueMap[rnti].state = "CONNECTION_SETUP",
                     ueMap[rnti].setupTimeout + waited >= ConnectionSetupTimeoutDuration
              PROVE  ueMap'[rnti].setupTimeout + waited' >= ConnectionSetupTimeoutDuration
            <4>1. ueMap'[rnti].setupTimeout = ueMap[rnti].setupTimeout - 1 /\ waited' = waited + 1
                BY <3>1, <3>3, <1>2, <1>w DEF IsWaiting
            <4>2. ueMap[rnti].setupTimeout \in Int
                BY <3>1, <3>3, <1>1, DurationsAreNat DEF Contexts, Off
            <4> QED BY <4>1, <4>2, <3>3, <1>w, DurationsAreNat
        <3> QED BY <3>1, <3>2, <3>3, <1>u DEF AnswerFits
    <2> QED BY <2>1, <1>u DEF AnswersFit
<1>6. RemovalsFit'
    BY <1>2, <1>u DEF RrcInv, RemovalsFit
<1>7. /\ setupCompleted # 0 /\ setupCompleted' = Countdown(setupCompleted)
      /\ setupCompleted \in Off..ProcDelay /\ ProcDelay \in Nat
      /\ connectionTimeout # 0 /\ connectionTimeout' = Countdown(connectionTimeout)
      /\ connectionTimeout \in Off..T300 /\ T300 \in Nat /\ ~nasConnects
    BY RrcProtocolAssumption, UeRrcAssumption DEF Tick, UeEventsDue, UeTick, RrcInv, TypeInv, TypeOK, UeTypeOK
<1>8. /\ IsRunning(setupCompleted') <=> IsRunning(setupCompleted)
      /\ IsRunning(setupCompleted) => setupCompleted' = setupCompleted - 1
      /\ IsRunning(connectionTimeout') <=> IsRunning(connectionTimeout)
    BY <1>7, CountdownRuns
<1>9. /\ releases' # << >> <=> releases # << >>
      /\ Len(releases') <= 1
      /\ releases # << >> => /\ Head(releases').left = Head(releases).left - 1
                             /\ Head(releases').suspend = Head(releases).suspend
                             /\ Head(releases).left \in Nat
    <2> DEFINE M == [left : 0..ProcDelay, suspend : AnyRnti]
    <2>1. /\ releases \in Seq(M) /\ Len(releases) <= 1
          /\ releases' = [i \in DOMAIN releases |-> [releases[i] EXCEPT !.left = Countdown(@)]]
          /\ ~ReleaseIsDue
        BY DEF Tick, UeTick, UeEventsDue, RrcInv, TypeInv, TypeOK, UeTypeOK, UeFits
    <2>2. CASE releases = << >>
        BY <2>1, <2>2
    <2>3. CASE releases # << >>
        <3> HIDE DEF M
        <3>0. Len(releases) = 1
            <4>1. Len(releases) \in Nat /\ Len(releases) # 0
                BY <2>1, <2>3
            <4>2. Len(releases) <= 1
                BY <2>1
            <4> QED BY <4>1, <4>2
        <3>1. releases[1] \in M /\ Head(releases) = releases[1] /\ DOMAIN releases = 1..1
            BY <2>1, <2>3, <3>0
        <3> DEFINE e == [releases[1] EXCEPT !.left = Countdown(@)]
        <3>2. releases' = [i \in 1..1 |-> e]
            BY <2>1, <3>1
        <3> HIDE DEF e
        <3>3. releases' = <<e>> /\ Head(releases') = e
            BY <3>2
        <3>4. releases[1].left \in 0..ProcDelay /\ releases[1].left # 0
            BY <2>1, <2>3, <3>1 DEF M, ReleaseIsDue
        <3>5. e.left = releases[1].left - 1 /\ e.suspend = releases[1].suspend
            BY <3>1, <3>4, RrcProtocolAssumption DEF M, e, Countdown
        <3> QED BY <2>3, <3>1, <3>3, <3>4, <3>5, RrcProtocolAssumption
    <2> QED BY <2>2, <2>3
<1>10. UeFits'
    BY <1>7, <1>8, <1>9, <1>u, <1>v DEF RrcInv, UeFits
<1>11. ServingFits'
    <2>1. CASE rnti \notin Rntis
        <3>1. ueState \notin ActiveStates \cup AsleepStates
            BY <2>1 DEF RrcInv, UeFits
        <3> QED BY <3>1, <1>u DEF RrcInv, ServingFits, ActiveStates, AsleepStates, ResumingStates
    <2>2. CASE rnti \in Rntis
        <3> DEFINE c == ueMap[rnti]
                   d == ueMap'[rnti]
        <3>1. /\ d.state = c.state /\ d.inRACH = c.inRACH
              /\ c.releaseBwp = {} => d.releaseBwp = {}
              /\ \A t \in d.releaseBwp : \E v \in c.releaseBwp : t = v - 1
              /\ c.state = "CONNECTION_SETUP" => d.setupTimeout = c.setupTimeout - 1
              /\ c.state = "CONNECTION_RECONFIGURATION" =>
                     d.inactivityTimeout = c.inactivityTimeout - 1
            BY <2>2, <1>2
        <3>2. /\ c.setupTimeout \in Int /\ c.inactivityTimeout \in Int
              /\ c.releaseBwp \subseteq Nat /\ c.state # "ATTACH_REQUEST"
            BY <2>2, <1>1, DurationsAreNat DEF Contexts, Off
        <3>3. ASSUME ueState = "CONNECTED_NORMALLY"
              PROVE  ConnectedFits(ueMap[rnti], dcchDown[rnti])'
            <4>1. ConnectedFits(c, dcchDown[rnti]) /\ macRnti = rnti
                BY <3>3 DEF RrcInv, ServingFits, UeFits, ActiveStates
            <4>2. CASE c.state = "CONNECTION_SETUP"
                <5>1. IsRunning(setupCompleted) =>
                        (c.setupTimeout + MaxDelay + ProcDelay >=
                             ConnectionSetupTimeoutDuration + setupCompleted
                         => d.setupTimeout + MaxDelay + ProcDelay >=
                             ConnectionSetupTimeoutDuration + setupCompleted')
                    <6> HIDE DEF c, d
                    <6> QED BY <4>2, <3>1, <3>2, <1>7, <1>8, <1>w, DurationsAreNat DEF Off
                <5>2. dcchUp # << >> =>
                        (c.setupTimeout + MaxDelay + ProcDelay + waited >= ConnectionSetupTimeoutDuration
                         => d.setupTimeout + MaxDelay + ProcDelay + waited' >=
                                ConnectionSetupTimeoutDuration)
                    <6>1. dcchUp # << >> => waited' = waited + 1
                        BY <1>w DEF IsWaiting
                    <6>2. d.setupTimeout = c.setupTimeout - 1 /\ c.setupTimeout \in Int
                        BY <4>2, <3>1, <3>2
                    <6>3. waited \in Int /\ MaxDelay \in Int /\ ProcDelay \in Int
                        BY <1>7, RrcAssumption, RrcProtocolAssumption DEF RrcInv, TypeInv, TypeOK
                    <6> HIDE DEF c, d
                    <6>4. (c.setupTimeout - 1) + MaxDelay + ProcDelay + (waited + 1) =
                              c.setupTimeout + MaxDelay + ProcDelay + waited
                        BY <6>2, <6>3
                    <6> QED BY <6>1, <6>2, <6>4
                <5>3. Up("RrcSetupCompleted") # << >>
                    BY DEF Up
                <5> QED BY <4>1, <4>2, <5>1, <5>2, <5>3, <3>1, <1>8, <1>u DEF ConnectedFits, Up
            <4>3. CASE c.state = "CONNECTION_RECONFIGURATION"
                <5>1. IsWaiting
                    <6>0. \/ dcchDown[rnti] = <<"RrcReconfiguration">>
                          \/ dcchUp = Up("RrcReconfigurationCompleted")
                        BY <4>1, <4>3 DEF ConnectedFits
                    <6>1. dcchDown[rnti] # << >> \/ dcchUp # << >>
                        BY <6>0 DEF Up
                    <6>2. macRnti # NoRnti
                        BY <4>1, <2>2, RrcProtocolAssumption DEF NoRnti
                    <6> QED BY <6>1, <6>2, <4>1 DEF IsWaiting
                <5>2. c.inactivityTimeout + waited >= DataInactivityInterval
                      => d.inactivityTimeout + waited' >= DataInactivityInterval
                    <6> HIDE DEF c, d
                    <6> QED BY <5>1, <4>3, <3>1, <3>2, <1>w, DurationsAreNat
                <5> QED BY <4>1, <4>3, <5>2, <3>1, <1>8, <1>u, <1>v DEF ConnectedFits, Up
            <4>4. CASE c.state \notin {"CONNECTION_SETUP", "CONNECTION_RECONFIGURATION"}
                BY <4>1, <4>4, <3>1, <1>8, <1>u, <1>v DEF ConnectedFits, Up
            <4> QED BY <4>2, <4>3, <4>4
        <3>4. ASSUME ueState = "RELEASE_RECEIVED"
              PROVE  ReleasedFits(ueMap[rnti], dcchDown[rnti], Head(releases))'
            <4>1. ReleasedFits(c, dcchDown[rnti], Head(releases)) /\ releases # << >>
                BY <3>4 DEF RrcInv, ServingFits, UeFits
            <4>2. ASSUME \A t \in c.releaseBwp : t <= Head(releases).left
                  PROVE  \A t \in d.releaseBwp : t <= Head(releases').left
                <5> HIDE DEF c, d
                <5>1. SUFFICES ASSUME NEW t \in d.releaseBwp PROVE t <= Head(releases').left
                    OBVIOUS
                <5>2. PICK v \in c.releaseBwp : t = v - 1
                    BY <5>1, <3>1
                <5>3. v \in Nat /\ v <= Head(releases).left
                    BY <5>2, <4>2, <3>2
                <5> QED BY <5>2, <5>3, <4>1, <1>9
            <4> QED BY <4>1, <4>2, <3>1, <1>9, <1>u, <1>v DEF ReleasedFits
        <3>5. ueState \in AsleepStates \cup ResumingStates =>
                  (AsleepFits(c, dcchDown[rnti]) => AsleepFits(ueMap[rnti], dcchDown[rnti])')
            BY <3>1, <1>u DEF AsleepFits
        <3> QED BY <3>1, <3>3, <3>4, <3>5, <1>u DEF RrcInv, ServingFits, ResumingFits
    <2> QED BY <2>1, <2>2
<1> QED BY <1>u, <1>3, <1>4, <1>5, <1>6, <1>10, <1>11 DEF RrcInv, NoUnexpectedEvent

-----------------------------------------------------------------------------
\* Every step but one with downlink data preserves the joint invariant.
LEMMA RrcInvKept ==
    ASSUME DurationsInOrder, RrcInv, [Next]_vars, ~SendData
    PROVE  RrcInv'
<1>0. TypeInv'
    BY TypeInvStep DEF RrcInv
<1>1. CASE UNCHANGED vars
    <2>1. UNCHANGED <<ueVars, contexts, redCap, messages, fatal, waited, rnti, setupCompleted, releases,
                      drbs, ueState>>
        BY <1>1 DEF vars, ueVars, ueFlags, gnbVars, contexts
    <2>2. UeFits'
        BY <2>1 DEF RrcInv, UeFits, ueVars, ueFlags
    <2> QED BY <1>0, <2>1, <2>2, QuietStep
<1>2. CASE Proceed
    <2>u. UNCHANGED redCap
        BY <1>2 DEF Proceed, chosen
    <2>1. CASE UeEvent /\ UNCHANGED waited
        BY <1>0, <2>u, <2>1, NasConnectFits, SetupCompletedFits, SuspendFits, ReleaseFits,
           ConnectionTimeoutFits DEF UeEvent, ProcessRrcRelease
    <2>2. CASE Deliver /\ UNCHANGED waited
        BY <1>0, <2>u, <2>2, SetupFits, RejectFits, ReconfigurationFits, ResumeFits,
           ReleaseReceivedFits DEF Deliver
    <2>3. CASE GnbReceive /\ UNCHANGED waited
        BY <1>0, <2>u, <2>3, LoseFits, ConnectionRequestFits, SetupCompletedReceived,
           ResumeCompleteReceived, ReconfigurationCompletedReceived, ResumeRequestFits DEF GnbReceive
    <2>4. CASE GnbEvent /\ UNCHANGED waited
        BY <1>0, <2>u, <2>4, InitialContextSetupFits, ConnectionTimeoutsFits, DataInactivityFits,
           BwpSwitchFits, ReconfigurationSent, RemoveRequestFits DEF GnbEvent
    <2>5. CASE Lose /\ UNCHANGED waited
        BY <1>0, <2>u, <2>5, LoseFits
    <2>6. CASE Tick
        BY <1>0, <2>u, <2>6, TickFits
    <2> QED BY <1>2, <2>1, <2>2, <2>3, <2>4, <2>5, <2>6 DEF Proceed
<1>3. CASE Input
    <2>u. UNCHANGED <<redCap, waited>>
        BY <1>3 DEF Input, chosen
    <2>1. CASE UeInput
        BY <1>0, <2>u, <2>1, DoSendDataFits, BroadcastFits DEF UeInput
    <2>2. CASE GnbInput
        BY <1>0, <2>u, <2>2, TriggerReleaseFits, DataActivityFits DEF GnbInput
    <2>3. CASE \E r \in Rntis : RandomAccess(r) \/ RarIsMissed(r)
        BY <1>0, <2>u, <2>3, RandomAccessFits, RarIsMissedFits
    <2>4. ~\E r \in Rntis : Page(r)
        BY DEF RrcInv, Page, SendPaging
    <2> QED BY <1>3, <2>1, <2>2, <2>3, <2>4 DEF Input
<1>4. ~Ended
    BY DEF Ended, RrcInv, NoUnexpectedEvent
<1> QED BY <1>1, <1>2, <1>3, <1>4 DEF Next

\* With no room for a buffered packet there is no downlink data.
LEMMA NoSendData ==
    ASSUME UeInitiated, RrcInv
    PROVE  ~SendData
<1>1. s1Rnti # NoRnti => HasUeManager(s1Rnti)
    BY DEF RrcInv, TypeInv, GnbInductive, BearersHaveContext
<1>2. HasUeManager(s1Rnti) => ueMap[s1Rnti].buffered \in 0..0
    BY AtContext DEF HasUeManager, Contexts, UeInitiated
<1>3. HasUeManager(s1Rnti) => ~(ueMap[s1Rnti].buffered < MaxBuffered)
    BY <1>2 DEF UeInitiated
<1> QED BY <1>1, <1>3 DEF SendData

\* Every step preserves the joint invariant when the UE starts the connections.
LEMMA RrcInvStep ==
    ASSUME UeInitiated, RrcInv, [Next]_vars
    PROVE  RrcInv'
BY NoSendData, RrcInvKept DEF UeInitiated

LEMMA RrcStarts == Init => RrcInv
<1> SUFFICES ASSUME Init PROVE RrcInv
    OBVIOUS
<1>0. TypeInv
    BY TypeInvStarts
<1>1. NoUnexpectedEvent /\ pagingList = {} /\ removals = {} /\ ccchUp = {} /\ ccchDown = {}
      /\ dcchUp = << >> /\ dcchDown = [r \in Rntis |-> << >>] /\ ueMap = [r \in Rntis |-> NoContext]
      /\ ueState = "IDLE_WAIT_MIB"
    BY DEF Init, UeInit, GnbInit, ChannelsInit, NoUnexpectedEvent
<1>2. UeFits
    <2>1. Len(<< >>) <= 1
        OBVIOUS
    <2> QED BY <2>1 DEF Init, UeInit, UeFits, ActiveStates, AsleepStates, ResumingStates, IdleStates, IsRunning
<1>3. ContextsFit
    <2>1. ASSUME NEW q \in Rntis
          PROVE  Fits(ueMap[q]) /\ DownFits(q) /\ ServesUe(q)
        <3>1. ueMap[q] = NoContext /\ NoContext.state = "NONE" /\ dcchDown[q] = << >>
            BY <1>1 DEF NoContext
        <3> QED BY <3>1, NoContextFits DEF DownFits, ServesUe
    <2> QED BY <2>1 DEF ContextsFit
<1>4. Msg3sFit /\ AnswersFit /\ RemovalsFit
    BY <1>1 DEF Msg3sFit, AnswersFit, RemovalsFit
<1>5. ServingFits
    BY <1>1 DEF ServingFits, AsleepStates, ResumingStates
<1> QED BY <1>0, <1>1, <1>2, <1>3, <1>4, <1>5 DEF RrcInv

\* The joint invariant holds in every run in which the UE starts the connections.
LEMMA RrcInvariant == ASSUME UeInitiated PROVE Spec => []RrcInv
<1>1. RrcInv /\ [Next]_vars => RrcInv'
    BY RrcInvStep
<1> QED BY <1>1, RrcStarts, PTL DEF Spec

\* What the joint invariant says of the events and of the two sides.
LEMMA RrcInvShows ==
    ASSUME RrcInv
    PROVE  NoUnexpectedEvent /\ EventsFitTheContext /\ EventsFitTheUe /\ ContextsAgree
<1>1. NoUnexpectedEvent
    BY DEF RrcInv
<1>2. EventsFitTheContext
    <2>1. ASSUME NEW r \in Rntis
          PROVE  Fits(ueMap[r])
        BY AtContext
    <2> QED BY <2>1 DEF EventsFitTheContext, Fits
<1>3. EventsFitTheUe
    <2>1. IsRunning(setupCompleted) => ueState = "CONNECTED_NORMALLY" /\ rnti = macRnti
        BY DEF RrcInv, UeFits, ActiveStates
    <2>2. ASSUME releases # << >>
          PROVE  /\ ueState = "RELEASE_RECEIVED" /\ Len(releases) = 1
                 /\ Head(releases).suspend \in {NoRnti, rnti}
        <3>1. ueState = "RELEASE_RECEIVED" /\ Len(releases) <= 1
            BY <2>2 DEF RrcInv, UeFits
        <3>2. Len(releases) = 1
            <4> DEFINE M == [left : 0..ProcDelay, suspend : AnyRnti]
            <4>1. releases \in Seq(M)
                BY DEF RrcInv, TypeInv, TypeOK, UeTypeOK
            <4> HIDE DEF M
            <4>2. Len(releases) \in Nat /\ Len(releases) # 0
                BY <2>2, <4>1
            <4> QED BY <3>1, <4>2
        <3>3. Head(releases).suspend \in {NoRnti, rnti}
            BY <3>1 DEF RrcInv, ServingFits, ReleasedFits
        <3> QED BY <3>1, <3>2, <3>3
    <2> QED BY <2>1, <2>2 DEF EventsFitTheUe
<1>4. ContextsAgree
    <2>0. ueState \in UeStates /\ NoRnti \notin Rntis
        BY RrcProtocolAssumption DEF RrcInv, TypeInv, TypeOK, UeTypeOK, NoRnti
    <2>1. UeMode = "Connected" => NetMode \in {"Admitted", "Resuming", "Suspended", "Released"}
        <3>1. UeMode = "Connected" => ueState = "CONNECTED_NORMALLY"
            BY <2>0 DEF UeMode, UeStates
        <3>2. ueState = "CONNECTED_NORMALLY" => rnti # NoRnti /\ ConnectedFits(ueMap[rnti], dcchDown[rnti])
            BY <2>0 DEF RrcInv, UeFits, ServingFits, ActiveStates
        <3> QED BY <3>1, <3>2 DEF ConnectedFits, NetMode
    <2>2. UeMode = "Released" => NetMode \in {"Suspended", "Resuming", "Released"}
        <3>1. UeMode = "Released" => ueState = "RELEASE_RECEIVED"
            BY <2>0 DEF UeMode, UeStates
        <3>2. ueState = "RELEASE_RECEIVED" =>
                  rnti # NoRnti /\ ReleasedFits(ueMap[rnti], dcchDown[rnti], Head(releases))
            BY <2>0 DEF RrcInv, UeFits, ServingFits, ActiveStates
        <3> QED BY <3>1, <3>2 DEF ReleasedFits, NetMode, SuspendedStates
    <2>3. UeMode = "Suspended" => NetMode \in {"Suspended", "Resuming"}
        <3>1. UeMode = "Suspended" => ueState \in AsleepStates
            BY <2>0 DEF UeMode, UeStates, AsleepStates
        <3>2. ueState \in AsleepStates => rnti # NoRnti /\ AsleepFits(ueMap[rnti], dcchDown[rnti])
            BY <2>0 DEF RrcInv, UeFits, ServingFits
        <3> QED BY <3>1, <3>2 DEF AsleepFits, NetMode, SuspendedStates
    <2>4. UeMode = "Resuming" => NetMode \in {"Suspended", "Resuming", "Refused", "None"}
        <3>1. UeMode = "Resuming" => ueState \in ResumingStates
            BY <2>0 DEF UeMode, UeStates, ResumingStates
        <3>2. ueState \in ResumingStates => rnti # NoRnti /\ ResumingFits(ueMap[rnti], dcchDown[rnti])
            BY <2>0 DEF RrcInv, UeFits, ServingFits, ActiveStates
        <3> QED BY <3>1, <3>2 DEF ResumingFits, AsleepFits, NetMode, SuspendedStates
    <2>5. NetMode = "Released" => UeMode \in {"Connected", "Released"}
        <3>1. NetMode = "Released" => rnti \in Rntis /\ ueMap[rnti].state = "IDLE"
            BY DEF NetMode, RrcInv, TypeInv, TypeOK, UeTypeOK, AnyRnti
        <3>2. rnti \in Rntis /\ ueMap[rnti].state = "IDLE" =>
                  ueState \in {"CONNECTED_NORMALLY", "RELEASE_RECEIVED"}
            BY AtContext DEF ServesUe, RrcInv, RemovalsFit
        <3> QED BY <3>1, <3>2 DEF UeMode
    <2> QED BY <2>1, <2>2, <2>3, <2>4, <2>5 DEF ContextsAgree, Connection!Agreement
<1> QED BY <1>1, <1>2, <1>3, <1>4

\* As long as the UE starts every connection, no handler of either side meets a
\* state it does not expect, no context is looked up that is gone and none is
\* removed while an event that nobody cancels refers to it: for every set of RNTIs
\* and every duration that UeInitiated allows, through loss on SRB0, missed RARs,
\* rejections and timeouts.
THEOREM NoUnexpectedEventCorrect == ASSUME UeInitiated PROVE Spec => []NoUnexpectedEvent
<1>1. RrcInv => NoUnexpectedEvent
    BY RrcInvShows
<1> QED BY <1>1, RrcInvariant, PTL

\* Then every scheduled event of a context fits the state it will find.
THEOREM EventsFitTheContextCorrect == ASSUME UeInitiated PROVE Spec => []EventsFitTheContext
<1>1. RrcInv => EventsFitTheContext
    BY RrcInvShows
<1> QED BY <1>1, RrcInvariant, PTL

\* And SendRrcSetupCompleted and ProcessRrcRelease run in the connection that they
\* were scheduled for.
THEOREM EventsFitTheUeCorrect == ASSUME UeInitiated PROVE Spec => []EventsFitTheUe
<1>1. RrcInv => EventsFitTheUe
    BY RrcInvShows
<1> QED BY <1>1, RrcInvariant, PTL

\* And a connected, released or suspended UE has a context in a state that fits.
THEOREM ContextsAgreeCorrect == ASSUME UeInitiated PROVE Spec => []ContextsAgree
<1>1. RrcInv => ContextsAgree
    BY RrcInvShows
<1> QED BY <1>1, RrcInvariant, PTL

(***************************************************************************)
(* The refinement of NrConnection.                                           *)
(***************************************************************************)
\* Msg3 of the UE's attempt arrives or is lost before T300 gives the attempt up.
AttemptsGuarded ==
    \A m \in ccchUp : rnti \in {m.rnti, m.resumeIdentity} /\ rnti # NoRnti =>
        IsRunning(connectionTimeout) /\ connectionTimeout + waited >= T300

\* T300 is 2 s in the code, at least 100 ms.
T300IsLongEnough == MaxDelay < T300

\* A step that touches neither the attempt nor the clock.
LEMMA AttemptKept ==
    ASSUME AttemptsGuarded, UNCHANGED <<rnti, connectionTimeout, waited>>, ccchUp' \subseteq ccchUp
    PROVE  AttemptsGuarded'
BY DEF AttemptsGuarded

\* A step that ends the attempt, of whose Msg3 nothing is left.
LEMMA AttemptOver ==
    ASSUME \A m \in ccchUp : rnti \notin {m.rnti, m.resumeIdentity}, UNCHANGED <<rnti, ccchUp>>
    PROVE  AttemptsGuarded'
BY DEF AttemptsGuarded

\* The answer to an attempt: its Msg3 has arrived.
LEMMA AnswerEndsAttempt ==
    ASSUME RrcInv, AttemptsGuarded, Deliver, UNCHANGED waited
    PROVE  AttemptsGuarded'
<1>u. UNCHANGED <<rnti, ccchUp>>
    BY DEF Deliver, DoRecvRrcSetup, DoRecvRrcConnectionReject, DoRecvRrcReconfiguration, DoRecvRrcResume,
       DoRecvRrcRelease
<1>1. ASSUME NEW type \in CcchDownTypes, ReceiveCcch(type)
      PROVE  AttemptsGuarded'
    <2> DEFINE n == [type |-> type, rnti |-> macRnti]
    <2>1. n \in ccchDown /\ ccchDown \subseteq [type : CcchDownTypes, rnti : Rntis]
        BY <1>1 DEF ReceiveCcch, RrcInv, TypeInv, TypeOK, ChannelsOK
    <2>2. n.rnti \in Rntis /\ AnswerFits(n)
        BY <2>1 DEF RrcInv, AnswersFit
    <2>3. rnti \in Rntis /\ macRnti = rnti
        BY <2>2, ListensWithRnti
    <2>4. ueMap[rnti].state \in {"CONNECTION_SETUP", "CONNECTION_REJECTED"}
        BY <2>2, <2>3 DEF AnswerFits, CcchDownTypes
    <2>5. \A m \in ccchUp : rnti \notin {m.rnti, m.resumeIdentity}
        BY <2>3, <2>4, CcchOf DEF SuspendedStates
    <2> QED BY <1>u, <2>5, AttemptOver
<1>2. ASSUME NEW type \in DcchDownTypes, ReceiveDcch(type)
      PROVE  AttemptsGuarded'
    <2>1. /\ rnti \in Rntis /\ \A m \in ccchUp : m.resumeIdentity # rnti
          /\ ueMap[rnti].state \notin {"NONE", "INITIAL_RANDOM_ACCESS"}
        BY <1>2, DcchDelivered DEF DcchDownTypes, SuspendedStates
    <2>2. \A m \in ccchUp : rnti \notin {m.rnti, m.resumeIdentity}
        BY <2>1, CcchOf
    <2> QED BY <1>u, <2>2, AttemptOver
<1>3. \/ \E type \in CcchDownTypes : ReceiveCcch(type)
      \/ \E type \in DcchDownTypes : ReceiveDcch(type)
    BY DEF Deliver, DoRecvRrcSetup, DoRecvRrcConnectionReject, DoRecvRrcReconfiguration, DoRecvRrcResume,
       DoRecvRrcRelease, CcchDownTypes, DcchDownTypes
<1> QED BY <1>1, <1>2, <1>3

\* T300 expires only after Msg3 has left.
LEMMA TimeoutEndsAttempt ==
    ASSUME RrcInv, AttemptsGuarded, T300IsLongEnough, ConnectionTimeout
    PROVE  AttemptsGuarded'
<1>1. \A m \in ccchUp : ~(rnti \in {m.rnti, m.resumeIdentity} /\ rnti # NoRnti)
    <2>1. waited \in 0..MaxDelay /\ MaxDelay \in Nat /\ T300 \in Nat /\ connectionTimeout = 0
        BY RrcAssumption, UeRrcAssumption DEF RrcInv, TypeInv, TypeOK, ConnectionTimeout
    <2>2. ~(connectionTimeout + waited >= T300)
        BY <2>1 DEF T300IsLongEnough
    <2> QED BY <2>2 DEF AttemptsGuarded
<1>2. rnti' \in {rnti, NoRnti} /\ UNCHANGED ccchUp
    BY DEF ConnectionTimeout, LeaveConnectedMode, messages
<1> QED BY <1>1, <1>2 DEF AttemptsGuarded

\* A new attempt starts T300 with its Msg3.
LEMMA AccessGuarded ==
    ASSUME RrcInv, AttemptsGuarded, NEW r \in Rntis, RandomAccess(r), UNCHANGED waited
    PROVE  AttemptsGuarded'
<1>1. accessing /\ DoNotifyRandomAccessSuccessful(r)
    BY DEF RandomAccess, DoNotifyRandomAccessSuccessful
<1>2. ueState \in {"IDLE_RANDOM_ACCESS", "IDLE_RANDOM_ACCESS_INACTIVE"}
    BY <1>1 DEF RrcInv, UeFits
<1>3. connectionTimeout' = T300
    BY <1>1, <1>2 DEF DoNotifyRandomAccessSuccessful, StartT300
<1>4. T300 \in Nat /\ waited' \in Nat
    BY RrcAssumption, UeRrcAssumption DEF RrcInv, TypeInv, TypeOK
<1>5. IsRunning(connectionTimeout') /\ connectionTimeout' + waited' >= T300
    BY <1>3, <1>4 DEF IsRunning, Off
<1> QED BY <1>5 DEF AttemptsGuarded

LEMMA TickKeepsAttempt ==
    ASSUME RrcInv, AttemptsGuarded, Tick
    PROVE  AttemptsGuarded'
<1>1. /\ connectionTimeout # 0 /\ connectionTimeout' = Countdown(connectionTimeout)
      /\ connectionTimeout \in Off..T300 /\ T300 \in Nat /\ UNCHANGED <<rnti, ccchUp>>
    BY UeRrcAssumption DEF Tick, UeEventsDue, UeTick, RrcInv, TypeInv, TypeOK, UeTypeOK, messages
<1>2. /\ IsRunning(connectionTimeout') <=> IsRunning(connectionTimeout)
      /\ IsRunning(connectionTimeout) => connectionTimeout' = connectionTimeout - 1
    BY <1>1, CountdownRuns
<1>3. ccchUp # {} => waited' = waited + 1
    BY DEF Tick, IsWaiting
<1>4. waited \in Nat
    BY RrcAssumption DEF RrcInv, TypeInv, TypeOK
<1>5. ccchUp # {} /\ IsRunning(connectionTimeout) =>
          connectionTimeout' + waited' = connectionTimeout + waited
    BY <1>1, <1>2, <1>3, <1>4 DEF Off
<1> QED BY <1>1, <1>2, <1>5 DEF AttemptsGuarded

LEMMA AttemptsGuardedStep ==
    ASSUME UeInitiated, T300IsLongEnough, RrcInv, AttemptsGuarded, [Next]_vars
    PROVE  AttemptsGuarded'
<1>1. CASE UNCHANGED vars
    BY <1>1, AttemptKept DEF vars, ueVars, messages
<1>2. CASE Proceed
    <2>1. CASE UeEvent /\ UNCHANGED waited
        <3>1. CASE ConnectionTimeout
            BY <3>1, TimeoutEndsAttempt
        <3>2. CASE Release
            <4>1. CASE rnti' = NoRnti
                BY <4>1 DEF AttemptsGuarded
            <4>2. CASE rnti' = rnti
                BY <2>1, <3>2, <4>2, AttemptKept DEF Release
            <4> QED BY <3>2, <4>1, <4>2 DEF Release, LeaveConnectedMode
        <3>3. CASE NasConnect \/ SendRrcSetupCompleted \/ Suspend
            BY <2>1, <3>3, AttemptKept DEF NasConnect, SendRrcSetupCompleted, Suspend, UeStops, ueVars,
               messages
        <3> QED BY <2>1, <3>1, <3>2, <3>3 DEF UeEvent, ProcessRrcRelease
    <2>2. CASE Deliver /\ UNCHANGED waited
        BY <2>2, AnswerEndsAttempt
    <2>3. CASE GnbReceive /\ UNCHANGED waited
        <3>1. ccchUp' \subseteq ccchUp
            BY <2>3 DEF GnbReceive, DropMsg3, DropUp, RecvRrcConnectionRequest,
               RecvRrcConnectionSetupCompleted, RecvRrcResumeComplete,
               RecvRrcConnectionReconfigurationCompleted, RecvRrcResumeRequest
        <3>2. UNCHANGED <<rnti, connectionTimeout>>
            BY <2>3 DEF GnbReceive, ueVars
        <3> QED BY <2>3, <3>1, <3>2, AttemptKept
    <2>4. CASE GnbEvent /\ UNCHANGED waited
        <3>1. UNCHANGED ccchUp
            BY <2>4 DEF GnbEvent, InitialContextSetupRequest, ConnectionTimeouts, DataInactivityTimeout,
               BwpSwitchCompleted, ScheduleRrcReconfiguration, DoRecvIdealUeContextRemoveRequest, messages
        <3>2. UNCHANGED <<rnti, connectionTimeout>>
            BY <2>4 DEF GnbEvent, ueVars
        <3> QED BY <2>4, <3>1, <3>2, AttemptKept
    <2>5. CASE Lose /\ UNCHANGED waited
        <3>1. ccchUp' \subseteq ccchUp /\ UNCHANGED <<rnti, connectionTimeout>>
            BY <2>5 DEF Lose, LoseCcch, ueVars
        <3> QED BY <2>5, <3>1, AttemptKept
    <2>6. CASE Tick
        BY <2>6, TickKeepsAttempt
    <2> QED BY <1>2, <2>1, <2>2, <2>3, <2>4, <2>5, <2>6 DEF Proceed
<1>3. CASE Input
    <2>u. UNCHANGED waited
        BY <1>3 DEF Input
    <2>1. CASE UeInput
        BY <2>1, <2>u, AttemptKept DEF UeInput, DoSendData, DoRecvMasterInformationBlock,
           DoRecvSystemInformation, UeStops, ueVars, messages
    <2>2. CASE GnbInput
        <3>1. UNCHANGED ccchUp
            BY <2>2 DEF GnbInput, SendData, TriggerRelease, messages
        <3> QED BY <2>2, <2>u, <3>1, AttemptKept DEF GnbInput, ueVars
    <2>3. CASE \E r \in Rntis : RandomAccess(r)
        BY <2>3, <2>u, AccessGuarded
    <2>4. CASE \E r \in Rntis : RarIsMissed(r)
        BY <2>4, <2>u, AttemptKept DEF RarIsMissed, ueVars, messages
    <2>5. CASE \E r \in Rntis : Page(r)
        BY <2>5, <2>u, AttemptKept DEF Page, SendPaging, ReceivePaging, messages
    <2> QED BY <1>3, <2>1, <2>2, <2>3, <2>4, <2>5 DEF Input
<1>4. CASE Ended
    BY <1>1, <1>4 DEF Ended
<1> QED BY <1>1, <1>2, <1>3, <1>4 DEF Next

-----------------------------------------------------------------------------
\* The mode of the network, as a function of the state of the serving context.
ModeOf(state) ==
    CASE state = "NONE" -> "None"
      [] state = "INITIAL_RANDOM_ACCESS" -> "Asked"
      [] state = "CONNECTION_REJECTED" -> "Refused"
      [] state = "INACTIVE" -> "Suspended"
      [] state = "INACTIVE_CONNECTING" -> "Resuming"
      [] state = "IDLE" -> "Released"
      [] OTHER -> "Admitted"

ConnectionStep == Connection!Next \/ UNCHANGED <<UeMode, NetMode>>

LEMMA NetModeIs ==
    /\ NetMode = ModeOf(IF rnti = NoRnti THEN "NONE" ELSE ueMap[rnti].state)
    /\ NetMode' = ModeOf(IF rnti' = NoRnti THEN "NONE" ELSE ueMap'[rnti'].state)
BY DEF NetMode, ModeOf

LEMMA UeModeIs ==
    ASSUME UeTypeOK
    PROVE  /\ ueState \in IdleStates => UeMode = "Idle"
           /\ ueState = "IDLE_CONNECTING" => UeMode = "Connecting"
           /\ ueState = "CONNECTED_NORMALLY" => UeMode = "Connected"
           /\ ueState = "RELEASE_RECEIVED" => UeMode = "Released"
           /\ ueState \in AsleepStates => UeMode = "Suspended"
           /\ ueState \in ResumingStates => UeMode = "Resuming"
BY DEF UeMode, IdleStates, AsleepStates, ResumingStates

LEMMA NextUeModeIs ==
    /\ ueState' \in IdleStates => UeMode' = "Idle"
    /\ ueState' = "IDLE_CONNECTING" => UeMode' = "Connecting"
    /\ ueState' = "CONNECTED_NORMALLY" => UeMode' = "Connected"
    /\ ueState' = "RELEASE_RECEIVED" => UeMode' = "Released"
    /\ ueState' \in AsleepStates => UeMode' = "Suspended"
    /\ ueState' \in ResumingStates => UeMode' = "Resuming"
    /\ ueState' = ueState => UeMode' = UeMode
BY DEF UeMode, IdleStates, AsleepStates, ResumingStates

\* A step of the gNB that changes one context.
LEMMA GnbModes ==
    ASSUME RrcInv, NEW r \in Rntis, NEW c, Context(r, c), UNCHANGED <<ueState, rnti>>
    PROVE  /\ UeMode' = UeMode
           /\ rnti # r => NetMode' = NetMode
           /\ rnti = r => NetMode = ModeOf(ueMap[r].state) /\ NetMode' = ModeOf(c.state)
           /\ c.state = ueMap[r].state => NetMode' = NetMode
<1>0. NoRnti \notin Rntis
    BY RrcProtocolAssumption DEF NoRnti
<1>1. /\ ueMap \in [Rntis -> Contexts] /\ rnti \in Rntis \cup {NoRnti}
      /\ ueMap' = [ueMap EXCEPT ![r] = c]
    BY DEF RrcInv, TypeInv, TypeOK, GnbTypeOK, UeTypeOK, AnyRnti, Context
<1>2. ueMap'[r] = c /\ \A q \in Rntis \ {r} : ueMap'[q] = ueMap[q]
    BY <1>1
<1> QED BY <1>0, <1>1, <1>2, NetModeIs, NextUeModeIs

\* The modes that do not change.
LEMMA SameModes ==
    ASSUME UNCHANGED <<rnti, ueMap>>,
           UeMode' = UeMode
    PROVE  ConnectionStep
BY NetModeIs DEF ConnectionStep

LEMMA ModeOfStates ==
    /\ ModeOf("NONE") = "None" /\ ModeOf("INITIAL_RANDOM_ACCESS") = "Asked"
    /\ ModeOf("CONNECTION_REJECTED") = "Refused" /\ ModeOf("INACTIVE") = "Suspended"
    /\ ModeOf("INACTIVE_CONNECTING") = "Resuming" /\ ModeOf("IDLE") = "Released"
    /\ \A s \in {"CONNECTION_SETUP", "ATTACH_REQUEST", "CONNECTED_NORMALLY",
                 "CONNECTION_RECONFIGURATION"} : ModeOf(s) = "Admitted"
BY DEF ModeOf

-----------------------------------------------------------------------------
\* The steps of the UE alone.
LEMMA UeQuietRefines ==
    ASSUME RrcInv, RrcInv', UNCHANGED contexts,
           DoSendData \/ DoRecvMasterInformationBlock \/ DoRecvSystemInformation \/ NasConnect
               \/ SendRrcSetupCompleted
    PROVE  ConnectionStep
<1>u. UNCHANGED <<rnti, ueMap>> /\ fatal = "none" /\ fatal' = "none"
    BY DEF DoSendData, DoRecvMasterInformationBlock, DoRecvSystemInformation,
       NasConnect, SendRrcSetupCompleted, UeStops, ueVars, contexts, RrcInv, NoUnexpectedEvent
<1>0. UeTypeOK /\ UeFits /\ Now \in Attempts /\ ueState = Now.state /\ accessing = Now.access
    BY NowType DEF RrcInv, TypeInv, TypeOK, Now
<1>1. CASE SendRrcSetupCompleted \/ DoRecvSystemInformation
    BY <1>1, <1>u, NextUeModeIs, SameModes DEF SendRrcSetupCompleted, DoRecvSystemInformation
<1>2. CASE DoRecvMasterInformationBlock
    <2>1. CASE ueState = "IDLE_WAIT_MIB"
        <3>1. SwitchToState(Now, "IDLE_CAMPED_NORMALLY", hasReceivedSib2).state \in IdleStates
            BY <1>0, <2>1, SwitchStates DEF UeFits
        <3>2. ueState' \in IdleStates /\ ueState \in IdleStates
            BY <1>2, <2>1, <3>1 DEF DoRecvMasterInformationBlock, Becomes, IdleStates
        <3> QED BY <1>0, <1>u, <3>2, UeModeIs, NextUeModeIs, SameModes
    <2>2. CASE ueState # "IDLE_WAIT_MIB"
        BY <1>0, <1>2, <1>u, <2>2, NextUeModeIs, SameModes DEF DoRecvMasterInformationBlock, Becomes
    <2> QED BY <2>1, <2>2
<1>3. CASE NasConnect
    <2>1. UeMode' = UeMode
        <3>1. ueState' = Connect(Now).state
            BY <1>3, <1>u DEF NasConnect, Becomes, UeStops
        <3>2. \/ ueState' = ueState
              \/ ueState \in IdleStates /\ ueState' \in IdleStates
            BY <1>0, <3>1, ConnectQuiet
        <3> QED BY <1>0, <3>2, UeModeIs, NextUeModeIs
    <2> QED BY <1>u, <2>1, SameModes
<1>4. CASE DoSendData
    <2> DEFINE c == IF nas = "OFF" THEN Connect(Now) ELSE Now
               d == CASE c.state = "IDLE_CAMPED_NORMALLY" -> StartConnection(c)
                      [] c.state = "INACTIVE" -> ResumeConnection(c)
                      [] OTHER -> c
    <2>1. ueState' = d.state
        BY <1>4, <1>u DEF DoSendData, Becomes, UeStops
    <2>2. /\ \/ c.state = ueState /\ (c.access <=> accessing)
             \/ /\ ueState \in IdleStates /\ c.state \in IdleStates
                /\ c.access <=> c.state = "IDLE_RANDOM_ACCESS"
          /\ c \in Attempts
        BY <1>0, ConnectQuiet, AttemptTypes
    <2>3. accessing <=> ueState \in {"IDLE_RANDOM_ACCESS", "IDLE_RANDOM_ACCESS_INACTIVE"}
        BY <1>0 DEF UeFits
    <2> HIDE DEF c
    <2>4. \/ ueState' = ueState
          \/ ueState \in IdleStates /\ ueState' \in IdleStates
          \/ ueState \in AsleepStates /\ ueState' \in AsleepStates
        <3>1. CASE c.state = "IDLE_CAMPED_NORMALLY"
            <4>1. ~c.access /\ ueState \in IdleStates
                BY <3>1, <2>2, <2>3 DEF IdleStates
            <4> QED BY <2>1, <2>2, <3>1, <4>1, AttemptStates
        <3>2. CASE c.state = "INACTIVE"
            <4>1. ~c.access /\ ueState \in AsleepStates
                BY <3>2, <2>2, <2>3 DEF IdleStates, AsleepStates
            <4> QED BY <2>1, <2>2, <3>2, <4>1, AttemptStates DEF AsleepStates
        <3>3. CASE c.state \notin {"IDLE_CAMPED_NORMALLY", "INACTIVE"}
            BY <2>1, <2>2, <3>3
        <3> QED BY <3>1, <3>2, <3>3
    <2>5. UeMode' = UeMode
        BY <1>0, <2>4, UeModeIs, NextUeModeIs
    <2> QED BY <1>u, <2>5, SameModes
<1> QED BY <1>1, <1>2, <1>3, <1>4

\* The UE acts on a release, or gives an attempt up.
LEMMA UeLeavesRefines ==
    ASSUME RrcInv, RrcInv', UeEvent, ProcessRrcRelease \/ ConnectionTimeout
    PROVE  ConnectionStep
<1>0. UeTypeOK /\ NoRnti \notin Rntis
    BY RrcProtocolAssumption DEF RrcInv, TypeInv, TypeOK, NoRnti
<1>u. UNCHANGED ueMap /\ fatal' = "none"
    BY DEF UeEvent, contexts, RrcInv, NoUnexpectedEvent
<1>1. CASE Suspend
    <2>1. /\ ueState = "RELEASE_RECEIVED" /\ rnti \in Rntis
          /\ ReleasedFits(ueMap[rnti], dcchDown[rnti], Head(releases))
        BY <1>1, ReleaseOf DEF Suspend
    <2>2. ueMap[rnti].state \in SuspendedStates /\ drbs
        BY <1>1, <2>1 DEF Suspend, ReleasedFits
    <2>3. UNCHANGED rnti /\ resumeIdentity' = Head(releases).suspend /\ releases' = Tail(releases)
        BY <1>1, <2>2 DEF Suspend
    <2>4. ueState' \in AsleepStates
        <3>1. PICK access \in {accessing, FALSE} :
                Becomes(SwitchToState([Now EXCEPT !.access = access], "INACTIVE", hasReceivedSib2))
            BY <1>1, <2>2 DEF Suspend
        <3> DEFINE n == [Now EXCEPT !.access = access]
        <3>2. Now \in Attempts /\ accessing \in BOOLEAN /\ ~accessing
            BY <1>0, <2>1, NowType DEF UeTypeOK, UeFlagsOK, RrcInv, UeFits
        <3>3. access = FALSE
            BY <3>2, Zenon
        <3>4. n \in Attempts /\ ~n.access
            BY <3>2, <3>3 DEF Attempts
        <3>5. Becomes(SwitchToState(n, "INACTIVE", hasReceivedSib2))
            BY <3>1
        <3> HIDE DEF n
        <3> QED BY <3>4, <3>5, SwitchStates DEF Becomes
    <2>5. UeMode = "Released" /\ UeMode' = "Suspended"
        BY <1>0, <2>1, <2>4, UeModeIs, NextUeModeIs
    <2>6. NetMode \in {"Suspended", "Resuming"} /\ NetMode' = NetMode
        BY <1>0, <1>u, <2>1, <2>2, <2>3, NetModeIs, ModeOfStates DEF SuspendedStates
    <2> QED BY <2>5, <2>6 DEF ConnectionStep, Connection!Next, Connection!Leave
<1>2. CASE Release
    <2>1. /\ ueState = "RELEASE_RECEIVED" /\ rnti \in Rntis /\ ~accessing /\ ~leaveConnectedMode
          /\ ReleasedFits(ueMap[rnti], dcchDown[rnti], Head(releases))
        BY <1>2, ReleaseOf DEF Release, RrcInv, UeFits, IdleStates
    <2>2. ueMap[rnti].state = "IDLE"
        BY <1>0, <1>2, <2>1 DEF Release, ReleasedFits
    <2>3. rnti' = NoRnti /\ Becomes(SwitchToState(Now, "IDLE_CAMPED_NORMALLY", FALSE))
        BY <1>2, <2>1 DEF Release, DisconnectUnexpected, LeaveConnectedMode
    <2>4. ueState' \in IdleStates
        BY <1>0, <2>1, <2>3, CampedStates DEF IdleStates
    <2>5. UeMode = "Released" /\ UeMode' = "Idle"
        BY <1>0, <2>1, <2>4, UeModeIs, NextUeModeIs
    <2>6. NetMode = "Released" /\ NetMode' = "None"
        BY <1>0, <2>1, <2>2, <2>3, NetModeIs, ModeOfStates
    <2> QED BY <2>5, <2>6 DEF ConnectionStep, Connection!Next, Connection!Leave
<1>3. CASE ConnectionTimeout
    <2>1. ueState \in ResumingStates \cup {"IDLE_CONNECTING"} /\ ~accessing
        BY <1>3 DEF ConnectionTimeout, RrcInv, UeFits, IsRunning, Off, ResumingStates
    <2>2. \/ rnti' = NoRnti /\ ueState' = "CONNECTED_PHY_PROBLEM"
          \/ rnti' = rnti /\ Becomes(SwitchToState(Now, "IDLE_CAMPED_NORMALLY", FALSE))
        BY <1>3 DEF ConnectionTimeout, LeaveConnectedMode
    <2>3. ueState' \in IdleStates
        BY <1>0, <2>1, <2>2, CampedStates DEF IdleStates
    <2>4. UeMode \in {"Connecting", "Resuming"} /\ UeMode' = "Idle"
        BY <1>0, <2>1, <2>3, UeModeIs, NextUeModeIs
    <2>5. NetMode' \in {NetMode, "None"}
        BY <1>u, <2>2, NetModeIs, ModeOfStates
    <2> QED BY <2>4, <2>5 DEF ConnectionStep, Connection!Next, Connection!Fail
<1> QED BY <1>1, <1>2, <1>3 DEF ProcessRrcRelease

\* A message that reaches the UE changes no mode of the network.
LEMMA DeliveredModes ==
    ASSUME RrcInv, rnti \in Rntis, macRnti = rnti, NotifyDataActivity(macRnti), UNCHANGED rnti
    PROVE  NetMode = ModeOf(ueMap[rnti].state) /\ NetMode' = NetMode
<1>1. ueMap'[rnti].state = ueMap[rnti].state /\ rnti # NoRnti
    BY DeliveredContext, RrcProtocolAssumption DEF NoRnti
<1> QED BY <1>1, NetModeIs

LEMMA CcchRefines ==
    ASSUME RrcInv, NEW type \in CcchDownTypes, ReceiveCcch(type)
    PROVE  /\ rnti \in Rntis /\ macRnti = rnti /\ ueState \in ActiveStates
           /\ AnswerFits([type |-> type, rnti |-> rnti])
<1> DEFINE n == [type |-> type, rnti |-> macRnti]
<1>1. n \in ccchDown /\ ccchDown \subseteq [type : CcchDownTypes, rnti : Rntis]
    BY DEF ReceiveCcch, RrcInv, TypeInv, TypeOK, ChannelsOK
<1>2. n.rnti \in Rntis /\ AnswerFits(n)
    BY <1>1 DEF RrcInv, AnswersFit
<1>3. rnti \in Rntis /\ macRnti = rnti /\ ueState \in ActiveStates
    BY <1>2, ListensWithRnti
<1> QED BY <1>2, <1>3

LEMMA DeliverRefines ==
    ASSUME RrcInv, RrcInv', Deliver
    PROVE  ConnectionStep
<1>u. UNCHANGED rnti /\ NotifyDataActivity(macRnti) /\ UeTypeOK /\ UeTypeOK'
    BY DEF Deliver, DoRecvRrcSetup, DoRecvRrcConnectionReject, DoRecvRrcReconfiguration,
       DoRecvRrcResume, DoRecvRrcRelease, RrcInv, TypeInv, TypeOK
<1>1. CASE DoRecvRrcSetup
    <2>1. "RrcSetup" \in CcchDownTypes /\ ReceiveCcch("RrcSetup")
        BY <1>1 DEF DoRecvRrcSetup, CcchDownTypes
    <2>2. rnti \in Rntis /\ macRnti = rnti /\ ueState \in ActiveStates
        BY <2>1, CcchRefines
    <2>3. AnswerFits([type |-> "RrcSetup", rnti |-> rnti])
        BY <2>1, CcchRefines
    <2>4. ueMap[rnti].state = "CONNECTION_SETUP" /\ ueState = "IDLE_CONNECTING"
        BY <2>2, <2>3 DEF AnswerFits, ActiveStates, IdleStates, ResumingStates
    <2>5. ueState' = "CONNECTED_NORMALLY"
        BY <1>1, <2>4 DEF DoRecvRrcSetup
    <2>6. UeMode = "Connecting" /\ UeMode' = "Connected"
        BY <1>u, <2>4, <2>5, UeModeIs, NextUeModeIs
    <2>7. NetMode = "Admitted" /\ NetMode' = NetMode
        BY <1>u, <2>2, <2>4, DeliveredModes, ModeOfStates
    <2> QED BY <2>6, <2>7 DEF ConnectionStep, Connection!Next, Connection!Establish
<1>2. CASE DoRecvRrcConnectionReject
    <2>1. "RrcConnectionReject" \in CcchDownTypes /\ ReceiveCcch("RrcConnectionReject")
        BY <1>2 DEF DoRecvRrcConnectionReject, CcchDownTypes
    <2>2. rnti \in Rntis /\ macRnti = rnti /\ ueState \in ActiveStates
        BY <2>1, CcchRefines
    <2>3. AnswerFits([type |-> "RrcConnectionReject", rnti |-> rnti])
        BY <2>1, CcchRefines
    <2>4. ueMap[rnti].state = "CONNECTION_REJECTED"
        BY <2>3 DEF AnswerFits
    <2>5. ueState \in {"IDLE_CONNECTING"} \cup ResumingStates /\ ~accessing
        BY <2>2, <2>4, UeOf DEF ActiveStates, IdleStates, ResumingStates, RrcInv, UeFits
    <2>6. ueState' \in IdleStates
        BY <1>u, <1>2, <2>5, CampedStates DEF DoRecvRrcConnectionReject, IdleStates
    <2>7. UeMode \in {"Connecting", "Resuming"} /\ UeMode' = "Idle"
        BY <1>u, <2>5, <2>6, UeModeIs, NextUeModeIs
    <2>8. NetMode' = NetMode
        BY <1>u, <2>2, DeliveredModes
    <2> QED BY <2>7, <2>8 DEF ConnectionStep, Connection!Next, Connection!Fail
<1>3. CASE DoRecvRrcReconfiguration
    <2>1. rnti \in Rntis /\ macRnti = rnti
        <3>1. "RrcReconfiguration" \in DcchDownTypes /\ ReceiveDcch("RrcReconfiguration")
            BY <1>3 DEF DoRecvRrcReconfiguration, DcchDownTypes
        <3> QED BY <3>1, DcchDelivered
    <2>2. UeMode' = UeMode
        BY <1>3, NextUeModeIs DEF DoRecvRrcReconfiguration
    <2>3. NetMode' = NetMode
        BY <1>u, <2>1, DeliveredModes
    <2> QED BY <2>2, <2>3 DEF ConnectionStep
<1>4. CASE DoRecvRrcResume
    <2>1. /\ rnti \in Rntis /\ macRnti = rnti /\ ueState \in ActiveStates
          /\ dcchDown[rnti] = <<"RrcResume">> /\ ueMap[rnti].state = "INACTIVE_CONNECTING"
        <3>1. "RrcResume" \in DcchDownTypes /\ ReceiveDcch("RrcResume")
            BY <1>4 DEF DoRecvRrcResume, DcchDownTypes
        <3> QED BY <3>1, DcchDelivered
    <2>2. ueState \in ResumingStates
        BY <2>1 DEF RrcInv, ServingFits, ConnectedFits, ReleasedFits, ActiveStates, ResumingStates
    <2>3. UeMode = "Resuming" /\ UeMode' = "Connected"
        BY <1>u, <1>4, <2>2, UeModeIs, NextUeModeIs DEF DoRecvRrcResume
    <2>4. NetMode = "Resuming" /\ NetMode' = NetMode
        BY <1>u, <2>1, DeliveredModes, ModeOfStates
    <2> QED BY <2>3, <2>4 DEF ConnectionStep, Connection!Next, Connection!Establish
<1>5. CASE DoRecvRrcRelease
    <2>1. PICK type \in {"RrcRelease", "RrcReleaseSuspend"} : ReceiveDcch(type)
        BY <1>5 DEF DoRecvRrcRelease
    <2>2. type \in DcchDownTypes
        BY DEF DcchDownTypes
    <2>3. /\ rnti \in Rntis /\ macRnti = rnti /\ ueState \in ActiveStates /\ dcchDown[rnti] = <<type>>
          /\ ueMap[rnti].state \in SuspendedStates \cup {"IDLE"}
        BY <2>1, <2>2, DcchDelivered
    <2>4. \/ ueState = "CONNECTED_NORMALLY" /\ ueMap[rnti].state \in {"INACTIVE", "IDLE"}
          \/ ueState \in ResumingStates /\ ueMap[rnti].state = "INACTIVE_CONNECTING"
        BY <2>3 DEF RrcInv, ServingFits, ConnectedFits, ReleasedFits, ResumingFits, AsleepFits,
           ActiveStates, ResumingStates, SuspendedStates
    <2>5. /\ ueState = "CONNECTED_NORMALLY" => UeMode = "Connected"
          /\ ueState \in ResumingStates => UeMode = "Resuming"
          /\ UeMode' = "Released"
        BY <1>u, <1>5, UeModeIs, NextUeModeIs DEF DoRecvRrcRelease
    <2>6. /\ ueMap[rnti].state \in {"INACTIVE", "IDLE"} => NetMode \in {"Suspended", "Released"}
          /\ ueMap[rnti].state = "INACTIVE_CONNECTING" => NetMode = "Resuming"
          /\ NetMode' = NetMode
        BY <1>u, <2>3, DeliveredModes, ModeOfStates
    <2> QED BY <2>4, <2>5, <2>6 DEF ConnectionStep, Connection!Next, Connection!ReceiveRelease
<1> QED BY <1>1, <1>2, <1>3, <1>4, <1>5 DEF Deliver

-----------------------------------------------------------------------------
\* The steps of the gNB.  One that leaves the context of the UE in its mode.
LEMMA GnbStutters ==
    ASSUME RrcInv, NEW r \in Rntis, NEW c, Context(r, c), UNCHANGED <<ueState, rnti>>,
           r # rnti \/ ModeOf(c.state) = ModeOf(ueMap[r].state)
    PROVE  ConnectionStep
<1>1. UeMode' = UeMode /\ NetMode' = NetMode
    <2>1. CASE rnti # r
        BY <2>1, GnbModes
    <2>2. CASE rnti = r
        BY <2>2, GnbModes
    <2> QED BY <2>1, <2>2
<1> QED BY <1>1 DEF ConnectionStep

\* The gNB answers a UE that T300 has not made give up.
LEMMA ConnectionRequestRefines ==
    ASSUME RrcInv, AttemptsGuarded, NEW r \in Rntis, RecvRrcConnectionRequest(r), UNCHANGED ueVars
    PROVE  ConnectionStep
<1> DEFINE n == [rnti |-> r, resumeIdentity |-> NoRnti, sdt |-> FALSE]
           c == ueMap[r]
           d == [c EXCEPT !.inRACH = TRUE, !.requestTimeout = Off,
                          !.state = "CONNECTION_SETUP",
                          !.setupTimeout = ConnectionSetupTimeoutDuration]
           e == [[c EXCEPT !.requestTimeout = Off] EXCEPT
                    !.inRACH = TRUE, !.state = "CONNECTION_REJECTED",
                    !.rejectedTimeout = ConnectionRejectedTimeoutDuration]
<1>u. UNCHANGED <<ueState, rnti>> /\ UeTypeOK /\ c \in Contexts
    BY AtContext DEF ueVars, RrcInv, TypeInv, TypeOK
<1>1. n \in ccchUp /\ c.state = "INITIAL_RANDOM_ACCESS"
    BY DEF RecvRrcConnectionRequest, RrcInv, Msg3sFit, Msg3Fits, HasUeManager
<1>2. Context(r, d) \/ Context(r, e)
    BY <1>1 DEF RecvRrcConnectionRequest, Reject
<1>3. d.state = "CONNECTION_SETUP" /\ e.state = "CONNECTION_REJECTED"
    BY <1>u DEF Contexts
<1> HIDE DEF d, e
<1>4. CASE rnti = r
    <2>1. r # NoRnti
        BY RrcProtocolAssumption DEF NoRnti
    <2>2. IsRunning(connectionTimeout)
        BY <1>1, <1>4, <2>1 DEF AttemptsGuarded
    <2>3. ueState = "IDLE_CONNECTING"
        BY <1>1, <1>4, <2>2, UeOf DEF RrcInv, UeFits, IdleStates, ResumingStates
    <2>4. UeMode = "Connecting" /\ UeMode' = UeMode
        BY <1>u, <2>3, UeModeIs, NextUeModeIs
    <2>5. NetMode = "Asked" /\ NetMode' \in {"Admitted", "Refused"}
        BY <1>u, <1>1, <1>2, <1>3, <1>4, GnbModes, ModeOfStates
    <2> QED BY <2>4, <2>5 DEF ConnectionStep, Connection!Next, Connection!Answer
<1>5. CASE rnti # r
    BY <1>u, <1>2, <1>5, GnbStutters
<1> QED BY <1>4, <1>5

LEMMA ResumeRequestRefines ==
    ASSUME RrcInv, AttemptsGuarded, NEW n \in ccchUp, RecvRrcResumeRequest(n), UNCHANGED ueVars
    PROVE  ConnectionStep
<1>0. PICK r \in Rntis : r = n.resumeIdentity
    BY DEF RecvRrcResumeRequest, RrcInv, TypeInv, TypeOK, ChannelsOK, AnyRnti
<1> DEFINE c == ueMap[r]
           e == [c EXCEPT !.inRACH = TRUE, !.state = "CONNECTION_REJECTED",
                          !.rejectedTimeout = ConnectionRejectedTimeoutDuration]
<1>u. UNCHANGED <<ueState, rnti>> /\ UeTypeOK /\ c \in Contexts
    BY AtContext DEF ueVars, RrcInv, TypeInv, TypeOK
<1>1. /\ c.state \in SuspendedStates
      /\ rnti = r => ueState \in ResumingStates \cup IdleStates
    BY <1>0 DEF RecvRrcResumeRequest, RrcInv, Msg3sFit, Msg3Fits
<1>2. Context(r, Resumed(c)) \/ Context(r, e)
    BY <1>0, <1>1 DEF RecvRrcResumeRequest, Reject, HasUeManager, SuspendedStates
<1>3. Resumed(c).state = "INACTIVE_CONNECTING" /\ e.state = "CONNECTION_REJECTED"
    BY <1>u DEF Resumed, Contexts
<1> HIDE DEF e
<1>4. CASE rnti = r
    <2>1. r # NoRnti
        BY RrcProtocolAssumption DEF NoRnti
    <2>2. IsRunning(connectionTimeout)
        BY <1>0, <1>4, <2>1 DEF AttemptsGuarded
    <2>3. ueState \in ResumingStates
        BY <1>1, <1>4, <2>2 DEF RrcInv, UeFits, IdleStates, ResumingStates
    <2>4. UeMode = "Resuming" /\ UeMode' = UeMode
        BY <1>u, <2>3, UeModeIs, NextUeModeIs
    <2>5. NetMode \in {"Suspended", "Resuming"} /\ NetMode' \in {"Resuming", "Refused"}
        BY <1>u, <1>1, <1>2, <1>3, <1>4, GnbModes, ModeOfStates DEF SuspendedStates
    <2> QED BY <2>4, <2>5 DEF ConnectionStep, Connection!Next, Connection!Answer
<1>5. CASE rnti # r
    BY <1>u, <1>2, <1>5, GnbStutters
<1> QED BY <1>4, <1>5

\* The gNB receives what the connected UE sends.
LEMMA ReceiveRefines ==
    ASSUME RrcInv, RrcInv', AttemptsGuarded, GnbReceive
    PROVE  ConnectionStep
<1>u. UNCHANGED <<ueState, rnti>> /\ UeTypeOK /\ ueMap \in [Rntis -> Contexts]
    BY DEF GnbReceive, ueVars, RrcInv, TypeInv, TypeOK, GnbTypeOK
<1>1. CASE DropMsg3 \/ DropUp
    BY <1>1, <1>u, NextUeModeIs, SameModes DEF DropMsg3, DropUp
<1>2. CASE \/ \E r \in Rntis : RecvRrcConnectionRequest(r)
           \/ \E m \in ccchUp : RecvRrcResumeRequest(m)
    BY <1>2, ConnectionRequestRefines, ResumeRequestRefines DEF GnbReceive
<1>3. ASSUME NEW r \in Rntis, RecvRrcConnectionSetupCompleted(r)
      PROVE  ConnectionStep
    <2> DEFINE c == ueMap[r]
    <2>1. /\ r = rnti /\ dcchUp = Up("RrcSetupCompleted") /\ c \in Contexts
          /\ ConnectedFits(c, dcchDown[r])
        BY <1>3, <1>u, UpReceived DEF RecvRrcConnectionSetupCompleted
    <2>2. c.state = "CONNECTION_SETUP"
        BY <2>1 DEF ConnectedFits, Up
    <2>3. Context(r, AttachRequested(c))
        BY <1>3, <2>2 DEF RecvRrcConnectionSetupCompleted
    <2>4. AttachRequested(c).state = "ATTACH_REQUEST"
        BY <2>1, RefreshedType DEF AttachRequested, Contexts
    <2> QED BY <1>u, <2>2, <2>3, <2>4, ModeOfStates, GnbStutters
<1>4. ASSUME NEW r \in Rntis, RecvRrcResumeComplete(r)
      PROVE  ConnectionStep
    <2> DEFINE c == ueMap[r]
               d == Connected([Refreshed(c) EXCEPT !.switchingBwp = ResumeBwpSwitch, !.pending = TRUE])
    <2>1. /\ r = rnti /\ dcchUp = Up("RrcResumeComplete") /\ c \in Contexts
          /\ ueState = "CONNECTED_NORMALLY" /\ ConnectedFits(c, dcchDown[r])
        BY <1>4, <1>u, UpReceived DEF RecvRrcResumeComplete
    <2>2. c.state = "INACTIVE_CONNECTING"
        BY <2>1 DEF ConnectedFits, Up
    <2>3. Context(r, d)
        BY <1>4, <2>2 DEF RecvRrcResumeComplete
    <2>4. d.state = "CONNECTED_NORMALLY"
        BY <2>1, RefreshedType DEF Connected, Contexts
    <2>5. UeMode = "Connected" /\ UeMode' = UeMode
        BY <1>u, <2>1, UeModeIs, NextUeModeIs
    <2> HIDE DEF d
    <2>6. NetMode = "Resuming" /\ NetMode' = "Admitted"
        BY <1>u, <2>1, <2>2, <2>3, <2>4, GnbModes, ModeOfStates
    <2> QED BY <2>5, <2>6 DEF ConnectionStep, Connection!Next, Connection!Confirm
<1>5. ASSUME NEW r \in Rntis, RecvRrcConnectionReconfigurationCompleted(r)
      PROVE  ConnectionStep
    <2> DEFINE c == ueMap[r]
               e == [Refreshed(c) EXCEPT !.inRACH = FALSE]
    <2>1. /\ r = rnti /\ dcchUp = Up("RrcReconfigurationCompleted") /\ c \in Contexts
          /\ ConnectedFits(c, dcchDown[r])
        BY <1>5, <1>u, UpReceived DEF RecvRrcConnectionReconfigurationCompleted
    <2>2. c.state = "CONNECTION_RECONFIGURATION"
        BY <2>1 DEF ConnectedFits, Up
    <2>3. e \in Contexts /\ e.state = "CONNECTION_RECONFIGURATION"
        BY <2>1, <2>2, RefreshedType DEF Contexts
    <2>4. Context(r, Connected([e EXCEPT !.buffered = 0]))
        BY <1>5, <2>3 DEF RecvRrcConnectionReconfigurationCompleted
    <2>5. Connected([e EXCEPT !.buffered = 0]).state = "CONNECTED_NORMALLY"
        BY <2>3 DEF Connected, Contexts
    <2> QED BY <1>u, <2>2, <2>4, <2>5, ModeOfStates, GnbStutters
<1> QED BY <1>1, <1>2, <1>3, <1>4, <1>5 DEF GnbReceive

\* The gNB ends a connection.
LEMMA ReleaseRefines ==
    ASSUME RrcInv, NEW r \in Rntis, SendRrcRelease(r, ueMap[r]), fatal' = "none",
           ueMap[r].state \in {"CONNECTED_NORMALLY", "CONNECTION_RECONFIGURATION"},
           UNCHANGED ueVars
    PROVE  ConnectionStep
<1> DEFINE c == ueMap[r]
<1>u. UNCHANGED <<ueState, rnti>> /\ UeTypeOK /\ c \in Contexts
    BY AtContext DEF ueVars, RrcInv, TypeInv, TypeOK
<1>1. Context(r, Released(c))
    BY DEF SendRrcRelease, GnbStops
<1>2. Released(c).state \in {"INACTIVE", "IDLE"}
    BY <1>u, CancelledType DEF Released, Contexts
<1>3. rnti = r /\ ueState = "CONNECTED_NORMALLY"
    BY AtContext DEF ServesUe
<1>4. UeMode = "Connected" /\ UeMode' = UeMode
    BY <1>u, <1>3, UeModeIs, NextUeModeIs
<1>5. NetMode = "Admitted" /\ NetMode' \in {"Suspended", "Released"}
    BY <1>u, <1>1, <1>2, <1>3, GnbModes, ModeOfStates
<1> QED BY <1>4, <1>5 DEF ConnectionStep, Connection!Next, Connection!Release

\* The gNB forgets a context that no connection uses: the joint invariant of the
\* next state says what the UE can be in.
LEMMA TimeoutsRefine ==
    ASSUME RrcInv, RrcInv', NEW r \in Rntis, ConnectionTimeouts(r), UNCHANGED ueVars
    PROVE  ConnectionStep
<1> DEFINE c == ueMap[r]
<1>u. UNCHANGED <<ueState, rnti>> /\ UeTypeOK /\ fatal' = "none" /\ ueMap \in [Rntis -> Contexts]
    BY DEF ueVars, RrcInv, TypeInv, TypeOK, GnbTypeOK, NoUnexpectedEvent
<1>1. c.state \in {"INITIAL_RANDOM_ACCESS", "CONNECTION_SETUP", "CONNECTION_REJECTED"}
    BY AtContext DEF ConnectionTimeouts, Fits, IsRunning, Off
<1>2. Context(r, NoContext) /\ NoContext.state = "NONE"
    BY <1>u DEF ConnectionTimeouts, RemoveUe, NoContext
<1>3. CASE rnti = r
    <2>1. ueMap'[rnti'].state = "NONE"
        BY <1>u, <1>2, <1>3 DEF Context
    <2>2. ueState' \in UeStates \ ({"CONNECTED_NORMALLY", "RELEASE_RECEIVED"} \cup AsleepStates)
        BY <2>1 DEF RrcInv, TypeInv, TypeOK, UeTypeOK, ServingFits, ConnectedFits, ReleasedFits, AsleepFits,
           SuspendedStates
    <2>3. ueState \in IdleStates \cup {"IDLE_CONNECTING"} \cup ResumingStates
        BY <1>u, <2>2 DEF UeStates, IdleStates, ResumingStates, AsleepStates
    <2>4. UeMode \in {"Idle", "Connecting", "Resuming"} /\ UeMode' = UeMode
        BY <1>u, <2>3, UeModeIs, NextUeModeIs
    <2>5. NetMode \in {"Asked", "Admitted", "Refused"} /\ NetMode' = "None"
        BY <1>u, <1>1, <1>2, <1>3, GnbModes, ModeOfStates
    <2> QED BY <2>4, <2>5 DEF ConnectionStep, Connection!Next, Connection!Expire
<1>4. CASE rnti # r
    BY <1>u, <1>2, <1>4, GnbStutters
<1> QED BY <1>3, <1>4

LEMMA GnbEventRefines ==
    ASSUME RrcInv, RrcInv', GnbEvent
    PROVE  ConnectionStep
<1>u. UNCHANGED <<ueState, rnti, ueVars>> /\ fatal' = "none"
    BY DEF GnbEvent, ueVars, RrcInv, NoUnexpectedEvent
<1>1. ASSUME NEW r \in Rntis, InitialContextSetupRequest(r)
      PROVE  ConnectionStep
    <2> DEFINE d == Connected([ueMap[r] EXCEPT !.drbs = TRUE])
    <2>1. Context(r, d) /\ ueMap[r].state = "ATTACH_REQUEST" /\ ueMap[r] \in Contexts
        BY <1>1, AtContext DEF InitialContextSetupRequest
    <2>2. d.state = "CONNECTED_NORMALLY"
        BY <2>1 DEF Connected, Contexts
    <2> HIDE DEF d
    <2> QED BY <1>u, <2>1, <2>2, ModeOfStates, GnbStutters
<1>2. ASSUME NEW r \in Rntis, ConnectionTimeouts(r)
      PROVE  ConnectionStep
    BY <1>u, <1>2, TimeoutsRefine
<1>3. ASSUME NEW r \in Rntis, DataInactivityTimeout(r)
      PROVE  ConnectionStep
    <2> DEFINE c == ueMap[r]
    <2>1. Fits(c)
        BY AtContext
    <2>2. c.inactivityTimeout = 0 /\ SendRrcRelease(r, c)
        BY <1>3, <2>1 DEF DataInactivityTimeout, Fits
    <2>3. c.state \in {"CONNECTED_NORMALLY", "CONNECTION_RECONFIGURATION"}
        BY <2>1, <2>2 DEF Fits, IsRunning, Off
    <2> QED BY <1>u, <2>2, <2>3, ReleaseRefines
<1>4. ASSUME NEW r \in Rntis, BwpSwitchCompleted(r)
      PROVE  ConnectionStep
    <2> DEFINE c == ueMap[r]
               e == [c EXCEPT !.releaseBwp = @ \ {0}]
    <2>1. Context(r, BwpSwitched(c)) \/ Context(r, BwpSwitched(e))
        BY <1>4 DEF BwpSwitchCompleted
    <2>2. BwpSwitched(c).state = c.state /\ BwpSwitched(e).state = c.state
        BY AtContext DEF BwpSwitched, Contexts
    <2> HIDE DEF e
    <2> QED BY <1>u, <2>1, <2>2, GnbStutters
<1>5. ASSUME NEW r \in Rntis, ScheduleRrcReconfiguration(r)
      PROVE  ConnectionStep
    <2> DEFINE c == ueMap[r]
               d == [[c EXCEPT !.polling = FALSE] EXCEPT
                        !.pending = FALSE, !.state = "CONNECTION_RECONFIGURATION"]
    <2>1. c \in Contexts /\ c.state = "CONNECTED_NORMALLY"
        BY <1>5, AtContext DEF ScheduleRrcReconfiguration, Fits
    <2>2. [c EXCEPT !.polling = FALSE].state = "CONNECTED_NORMALLY"
        BY <2>1 DEF Contexts
    <2>3. Context(r, d)
        BY <1>5, <2>2 DEF ScheduleRrcReconfiguration
    <2>4. d.state = "CONNECTION_RECONFIGURATION"
        BY <2>1 DEF Contexts
    <2> HIDE DEF d
    <2> QED BY <1>u, <2>1, <2>3, <2>4, ModeOfStates, GnbStutters
<1>6. ASSUME NEW r \in removals, DoRecvIdealUeContextRemoveRequest(r)
      PROVE  ConnectionStep
    <2>1. r \in Rntis /\ r # rnti /\ ueMap[r].state = "IDLE"
        BY DEF RrcInv, RemovalsFit
    <2>2. Context(r, NoContext)
        BY <1>u, <1>6, <2>1 DEF DoRecvIdealUeContextRemoveRequest, RemoveUe, HasUeManager
    <2> QED BY <1>u, <2>1, <2>2, GnbStutters
<1> QED BY <1>1, <1>2, <1>3, <1>4, <1>5, <1>6 DEF GnbEvent

\* Random access takes the UE to a new context, or back to its own.
LEMMA RandomAccessRefines ==
    ASSUME RrcInv, NEW r \in Rntis, RandomAccess(r)
    PROVE  ConnectionStep
<1> DEFINE c == [NoContext EXCEPT !.state = "INITIAL_RANDOM_ACCESS",
                                  !.requestTimeout = ConnectionRequestTimeoutDuration]
<1>0. NoRnti \notin Rntis /\ UeTypeOK /\ ueMap \in [Rntis -> Contexts]
    BY RrcProtocolAssumption DEF NoRnti, RrcInv, TypeInv, TypeOK, GnbTypeOK
<1>1. c.state = "INITIAL_RANDOM_ACCESS"
    BY DEF NoContext
<1>2. Context(r, c) /\ accessing /\ DoNotifyRandomAccessSuccessful(r) /\ r # rnti
    BY DEF RandomAccess, AddUe, DoNotifyRandomAccessSuccessful, IsNext, IsFresh
<1> HIDE DEF c
<1>3. ueMap'[r] = c /\ \A q \in Rntis \ {r} : ueMap'[q] = ueMap[q]
    BY <1>0, <1>2 DEF Context
<1>4. CASE ueState = "IDLE_RANDOM_ACCESS"
    <2>1. ueState' = "IDLE_CONNECTING" /\ rnti' = r
        BY <1>2, <1>4 DEF DoNotifyRandomAccessSuccessful
    <2>2. UeMode = "Idle" /\ UeMode' = "Connecting"
        BY <1>0, <1>4, <2>1, UeModeIs, NextUeModeIs DEF IdleStates
    <2>3. NetMode' = "Asked"
        BY <1>0, <1>1, <1>3, <2>1, NetModeIs, ModeOfStates
    <2> QED BY <2>2, <2>3 DEF ConnectionStep, Connection!Next, Connection!Request
<1>5. CASE ueState = "IDLE_RANDOM_ACCESS_INACTIVE"
    <2>1. /\ ueState \in AsleepStates /\ rnti \in Rntis /\ resumeIdentity = rnti
          /\ ueMap[rnti].state \in SuspendedStates
        BY <1>5 DEF RrcInv, UeFits, ServingFits, AsleepFits, AsleepStates
    <2>2. ueState' \in ResumingStates /\ rnti' = rnti
        BY <1>2, <1>5, <2>1 DEF DoNotifyRandomAccessSuccessful, ResumingStates
    <2>3. UeMode = "Suspended" /\ UeMode' = "Resuming"
        BY <1>0, <2>1, <2>2, UeModeIs, NextUeModeIs
    <2>4. NetMode \in {"Suspended", "Resuming"} /\ NetMode' = NetMode
        BY <1>0, <1>2, <1>3, <2>1, <2>2, NetModeIs, ModeOfStates DEF SuspendedStates
    <2> QED BY <2>3, <2>4 DEF ConnectionStep, Connection!Next, Connection!Resume
<1> QED BY <1>2, <1>4, <1>5 DEF RrcInv, UeFits

\* Time changes no mode.
LEMMA TickRefines ==
    ASSUME RrcInv, Tick
    PROVE  ConnectionStep
<1>1. UNCHANGED <<ueState, rnti>> /\ rnti \in AnyRnti /\ ueMap \in [Rntis -> Contexts]
    BY DEF Tick, UeTick, RrcInv, TypeInv, TypeOK, UeTypeOK, GnbTypeOK
<1>2. \A q \in Rntis : ueMap'[q].state = ueMap[q].state
    <2>1. ASSUME NEW q \in Rntis
          PROVE  ueMap'[q].state = ueMap[q].state
        <3>1. ueMap' = [r \in Rntis |-> Ticked(ueMap[r])]
            BY DEF Tick, GnbTick, Ticked
        <3>2. \A c \in Contexts : Ticked(c).state = c.state
            BY DEF Ticked, Contexts
        <3> QED BY <1>1, <3>1, <3>2
    <2> QED BY <2>1
<1>3. NetMode' = NetMode /\ UeMode' = UeMode
    BY <1>1, <1>2, NetModeIs, NextUeModeIs DEF AnyRnti
<1> QED BY <1>3 DEF ConnectionStep

LEMMA ConnectionRefines ==
    ASSUME UeInitiated, RrcInv, RrcInv', AttemptsGuarded, [Next]_vars
    PROVE  ConnectionStep
<1>1. CASE UNCHANGED vars
    BY <1>1, NextUeModeIs, SameModes DEF vars, ueVars, gnbVars
<1>2. CASE Proceed
    <2>1. CASE UeEvent
        BY <2>1, UeQuietRefines, UeLeavesRefines DEF UeEvent
    <2>2. CASE Lose
        BY <2>2, NextUeModeIs, SameModes DEF Lose, ueVars, contexts
    <2> QED BY <1>2, <2>1, <2>2, DeliverRefines, ReceiveRefines, GnbEventRefines, TickRefines DEF Proceed
<1>3. CASE Input
    <2>1. CASE UeInput
        BY <2>1, UeQuietRefines DEF UeInput
    <2>2. CASE GnbInput
        <3>u. UNCHANGED <<ueState, rnti, ueVars>> /\ fatal' = "none"
            BY <2>2 DEF GnbInput, ueVars, RrcInv, NoUnexpectedEvent
        <3>1. ~SendData
            BY NoSendData
        <3>2. ASSUME NEW r \in Rntis, TriggerRelease(r)
              PROVE  ConnectionStep
            BY <3>u, <3>2, ReleaseRefines DEF TriggerRelease
        <3>3. ASSUME NEW r \in Rntis, NotifyDataActivity(r)
              PROVE  ConnectionStep
            <4>1. Context(r, Refreshed(ueMap[r])) /\ ueMap[r] \in Contexts /\ Fits(ueMap[r])
                BY <3>3, AtContext DEF NotifyDataActivity
            <4>2. Refreshed(ueMap[r]).state = ueMap[r].state
                BY <4>1, RefreshedFits
            <4> QED BY <3>u, <4>1, <4>2, GnbStutters
        <3> QED BY <2>2, <3>1, <3>2, <3>3 DEF GnbInput
    <2>3. ASSUME NEW r \in Rntis, RarIsMissed(r)
          PROVE  ConnectionStep
        <3>1. PICK c : Context(r, c)
            BY <2>3 DEF RarIsMissed, AddUe
        <3>2. r # rnti /\ UNCHANGED <<ueState, rnti>>
            BY <2>3 DEF RarIsMissed, IsNext, IsFresh, ueVars
        <3> QED BY <3>1, <3>2, GnbStutters
    <2>4. ~\E r \in Rntis : Page(r)
        BY DEF RrcInv, Page, SendPaging
    <2> QED BY <1>3, <2>1, <2>2, <2>3, <2>4, RandomAccessRefines DEF Input
<1>4. ~Ended
    BY DEF Ended, RrcInv, NoUnexpectedEvent
<1> QED BY <1>1, <1>2, <1>3, <1>4 DEF Next

LEMMA ConnectionStarts == Init => AttemptsGuarded /\ Connection!Init
<1> SUFFICES ASSUME Init PROVE AttemptsGuarded /\ Connection!Init
    OBVIOUS
<1>1. ccchUp = {} /\ ueState = "IDLE_WAIT_MIB" /\ rnti = NoRnti
    BY DEF Init, UeInit, ChannelsInit
<1>2. UeMode = "Idle" /\ NetMode = "None"
    BY <1>1, NetModeIs, ModeOfStates DEF UeMode
<1> QED BY <1>1, <1>2 DEF AttemptsGuarded, Connection!Init

\* The two RRC entities implement the life of a connection that NrConnection
\* promises, for every set of RNTIs and all durations: loss on SRB0, missed RARs,
\* timeouts and late events take the UE and its context through no other modes,
\* when the UE starts every connection and Msg3 arrives before T300 expires.
THEOREM ConnectionRefinement == ASSUME UeInitiated, T300IsLongEnough PROVE Spec => ConnectionSpec
<1>1. RrcInv /\ AttemptsGuarded /\ [Next]_vars => RrcInv' /\ AttemptsGuarded' /\ ConnectionStep
    BY RrcInvStep, AttemptsGuardedStep, ConnectionRefines
<1>2. Init => RrcInv /\ AttemptsGuarded /\ Connection!Init
    BY RrcStarts, ConnectionStarts
<1>3. ConnectionStep => [Connection!Next]_(Connection!vars)
    BY DEF ConnectionStep, Connection!vars
<1> QED BY <1>1, <1>2, <1>3, PTL DEF Spec, ConnectionSpec, Connection!Spec

(***************************************************************************)
(* With downlink data a page may come at any time, so that a connection is *)
(* released twice, or while it is being resumed.  What still holds, of a   *)
(* RedCap UE, until one of the DownlinkErrors ends the simulation.         *)
(***************************************************************************)
\* The states of a context whose bearers have been set up and that is not removed.
Established == {"CONNECTED_NORMALLY", "CONNECTION_RECONFIGURATION"} \cup SuspendedStates

\* The states of the UE with bearers and without a connection of its own making.
Settled == {"RELEASE_RECEIVED"} \cup AsleepStates \cup ResumingStates

\* The timeouts that remove a context fit its state, and before its bearers are set up
\* nothing else is scheduled for it but the switch of its bandwidth part.
PagedFits(c) ==
    /\ IsRunning(c.requestTimeout) => c.state = "INITIAL_RANDOM_ACCESS"
    /\ IsRunning(c.setupTimeout) => c.state = "CONNECTION_SETUP"
    /\ c.rejectedTimeout = Off
    /\ c.state \in {"NONE", "INITIAL_RANDOM_ACCESS", "CONNECTION_SETUP", "ATTACH_REQUEST"}
                   \cup Established
    /\ c.state \in Established => c.drbs
    /\ c.state \notin Established =>
          /\ c.inactivityTimeout = Off /\ c.forgotten = {} /\ c.releaseBwp = {} /\ ~c.polling
          /\ IF c.state = "ATTACH_REQUEST" THEN c.switchingBwp > 0 ELSE c.switchingBwp = Off

\* The first reconfiguration of a connection has not been sent.
Unconfigured(c) ==
    /\ c.state \in {"ATTACH_REQUEST", "CONNECTED_NORMALLY"} /\ c.inRACH /\ c.pending
    /\ c.forgotten = {} /\ c.releaseBwp = {}
    /\ c.state = "CONNECTED_NORMALLY" =>
          /\ c.polling
          /\ c.inactivityTimeout = IF IsRunning(c.switchingBwp) THEN Off ELSE DataInactivityInterval

\* No release without suspension is on its way.
NoRelease(down) == \A i \in 1..Len(down) : down[i] # "RrcRelease"

\* The releases that the UE has received suspend the connection it has, each no later
\* than the next and before T300 gives up an attempt.
PendingReleases ==
    \A i \in 1..Len(releases) :
        /\ releases[i].suspend = rnti
        /\ IsRunning(connectionTimeout) => releases[i].left < connectionTimeout
        /\ \A j \in 1..Len(releases) : i < j => releases[i].left <= releases[j].left

\* The UE's own variables.
UePaged ==
    /\ macRnti = IF ueState \in ActiveStates THEN rnti ELSE NoRnti
    /\ ueState \in ActiveStates \cup AsleepStates => rnti \in Rntis
    /\ ueState \in AsleepStates => resumeIdentity = rnti
    /\ ueState \in Settled => drbs /\ nas = "ACTIVE" /\ ~nasConnects
    /\ nas = "OFF" => ueState \in IdleStates \cup {"IDLE_CONNECTING"}
    /\ nasConnects => \/ ueState \in IdleStates \cup {"IDLE_CONNECTING"}
                      \/ ueState = "CONNECTED_NORMALLY" /\ setupCompleted > 0
    /\ IsRunning(setupCompleted) => ueState = "CONNECTED_NORMALLY"
    /\ IsRunning(connectionTimeout) =>
           ueState \in {"IDLE_CONNECTING"} \cup AsleepStates \cup ResumingStates
    /\ releases # << >> => ueState \in Settled \/ (ueState = "CONNECTED_NORMALLY" /\ drbs)
    /\ PendingReleases

\* Msg3 asks for its temporary context or for one with bearers.
Msg3Paged(m) ==
    IF m.resumeIdentity = NoRnti
    THEN ~m.sdt /\ ueMap[m.rnti].state \in {"NONE", "INITIAL_RANDOM_ACCESS"}
    ELSE ueMap[m.resumeIdentity].state \in Established

\* Nobody is rejected, and RrcSetup finds the UE waiting or long gone.
AnswerPaged(m) ==
    /\ m.type = "RrcSetup" /\ ueMap[m.rnti].state = "CONNECTION_SETUP"
    /\ m.rnti = rnti =>
          \/ ueState \in IdleStates
          \/ /\ ueState = "IDLE_CONNECTING"
             /\ ueMap[rnti].setupTimeout + waited >= ConnectionSetupTimeoutDuration

\* What is on its way on SRB1 to the gNB.
NoUpOf(r) == \A i \in 1..Len(dcchUp) : dcchUp[i].rnti # r
\* No connection is being completed.
NoSetupCompleted == \A i \in 1..Len(dcchUp) : dcchUp[i].type # "RrcSetupCompleted"
\* The one being completed is the UE's, and the gNB has nothing else of it.
SetupCompletedIsLast ==
    /\ Len(dcchUp) > 0
    /\ dcchUp[Len(dcchUp)] = [type |-> "RrcSetupCompleted", rnti |-> rnti]
    /\ \A i \in 1..(Len(dcchUp) - 1) :
           dcchUp[i].rnti # rnti /\ dcchUp[i].type # "RrcSetupCompleted"

\* The UE is connected and the gNB has not heard of it, which happens before the setup
\* of its context times out.
SettingUp(c) ==
    /\ c.state = "CONNECTION_SETUP" /\ c.inRACH
    /\ \/ /\ IsRunning(setupCompleted) /\ NoUpOf(rnti) /\ NoSetupCompleted
          /\ c.setupTimeout + MaxDelay + ProcDelay >= ConnectionSetupTimeoutDuration + setupCompleted
       \/ /\ ~IsRunning(setupCompleted) /\ SetupCompletedIsLast
          /\ c.setupTimeout + MaxDelay + ProcDelay + waited >= ConnectionSetupTimeoutDuration

\* The UE has bearers, or they come first.
HasBearers(down) == drbs \/ (down # << >> /\ Head(down) = "RrcReconfiguration")

\* A connected UE, its context and what is on its way to the UE: the connection is being
\* set up, or its bearers are there or come with the next message.
ConnectedPaged(c, down) ==
    \/ SettingUp(c) /\ down = << >> /\ releases = << >>
    \/ /\ ~IsRunning(setupCompleted) /\ NoSetupCompleted
       /\ \/ Unconfigured(c) /\ down = << >> /\ releases = << >> /\ NoUpOf(rnti)
          \/ c.state \in Established /\ HasBearers(down)

\* The UE and the context it is served by.
ServingPaged ==
    LET c == ueMap[rnti]
        down == dcchDown[rnti]
    IN /\ ueState = "IDLE_CONNECTING" =>
             /\ c.state \in {"NONE", "INITIAL_RANDOM_ACCESS", "CONNECTION_SETUP"}
             /\ c.state = "CONNECTION_SETUP" => c.inRACH
             /\ down = << >> /\ NoUpOf(rnti)
       /\ ueState = "CONNECTED_NORMALLY" => ConnectedPaged(c, down)
       /\ ueState # "CONNECTED_NORMALLY" => NoSetupCompleted
       /\ ueState \in Settled => c.state \in Established

\* The invariant that downlink data leaves of a RedCap UE and its cell.
PagedInv ==
    /\ \A q \in Rntis : PagedFits(ueMap[q]) /\ NoRelease(dcchDown[q])
    /\ UePaged
    /\ removals = {}
    /\ \A m \in ccchUp : Msg3Paged(m)
    /\ \A m \in ccchDown : AnswerPaged(m)
    /\ ServingPaged

\* With the types, and as long as no error has ended the simulation.
Paged == TypeInv /\ NoUnexpectedEvent /\ redCap /\ PagedInv

-----------------------------------------------------------------------------
\* What it says of one context.
LEMMA PagedContext ==
    ASSUME Paged, NEW r \in Rntis
    PROVE  /\ ueMap[r] \in Contexts /\ ueMap \in [Rntis -> Contexts]
           /\ PagedFits(ueMap[r]) /\ NoRelease(dcchDown[r])
           /\ dcchDown[r] \in Seq(DcchDownTypes) /\ dcchDown \in [Rntis -> Seq(DcchDownTypes)]
           /\ UNCHANGED ueMap => Context(r, ueMap[r])
           /\ r # NoRnti
<1>1. ueMap \in [Rntis -> Contexts] /\ dcchDown \in [Rntis -> Seq(DcchDownTypes)]
    BY DEF Paged, TypeInv, TypeOK, GnbTypeOK, ChannelsOK
<1>2. PagedFits(ueMap[r]) /\ NoRelease(dcchDown[r])
    BY DEF Paged, PagedInv
<1>3. UNCHANGED ueMap => Context(r, ueMap[r])
    BY <1>1 DEF Context
<1>4. r # NoRnti
    BY RrcProtocolAssumption DEF NoRnti
<1> QED BY <1>1, <1>2, <1>3, <1>4

\* The types of the variables and messages, as the proofs below use them.
LEMMA PagedTypes ==
    ASSUME Paged
    PROVE  /\ ccchUp \subseteq [rnti : Rntis, resumeIdentity : AnyRnti, sdt : BOOLEAN]
           /\ ccchDown \subseteq [type : CcchDownTypes, rnti : Rntis]
           /\ dcchUp \in Seq([type : DcchUpTypes, rnti : AnyRnti])
           /\ ueState \in UeStates /\ rnti \in AnyRnti /\ macRnti \in AnyRnti
           /\ resumeIdentity \in AnyRnti
           /\ connectionTimeout \in Off..T300 /\ setupCompleted \in Off..ProcDelay
           /\ releases \in Seq(Releases)
           /\ waited \in 0..MaxDelay
BY DEF Paged, TypeInv, TypeOK, ChannelsOK, UeTypeOK, Releases

\* The durations are numbers.
LEMMA PagedConstants ==
    /\ MaxDelay \in Nat /\ ProcDelay \in Nat \ {0} /\ T300 \in Nat \ {0}
    /\ ConnectionSetupTimeoutDuration \in Nat \ {0} /\ DataInactivityInterval \in Nat \ {0}
    /\ NoRnti \notin Rntis
<1>1. ConnectionSetupTimeoutDuration \in Nat \ {0} /\ DataInactivityInterval \in Nat \ {0}
    BY GnbRrcAssumption DEF Durations
<1>2. NoRnti \notin Rntis
    BY RrcProtocolAssumption DEF NoRnti
<1> QED BY <1>1, <1>2, UeConstantsAreNat DEF UeConstants

\* The states of the UE exclude each other.
LEMMA PagedStates ==
    /\ \A s : s \in IdleStates => s \notin ActiveStates /\ s \notin AsleepStates /\ s \notin Settled
    /\ \A s : s \in AsleepStates => s \notin ActiveStates /\ s \in Settled
    /\ \A s : s \in Settled => s \in ActiveStates \/ s \in AsleepStates
    /\ \A s : s \in ResumingStates => s \in ActiveStates /\ s \in Settled
    /\ "IDLE_CONNECTING" \in ActiveStates /\ "IDLE_CONNECTING" \notin Settled
    /\ "CONNECTED_NORMALLY" \in ActiveStates /\ "CONNECTED_NORMALLY" \notin Settled
    /\ "RELEASE_RECEIVED" \in ActiveStates /\ "RELEASE_RECEIVED" \in Settled
    /\ \A s \in UeStates : \/ s \in IdleStates \/ s \in Settled
                            \/ s = "IDLE_CONNECTING" \/ s = "CONNECTED_NORMALLY"
BY DEF IdleStates, ActiveStates, AsleepStates, ResumingStates, Settled, UeStates

\* What happens to SRB1 towards the gNB: its first message goes, or one is added.
LEMMA UpTail ==
    ASSUME NEW T, dcchUp \in Seq(T), dcchUp # << >>, dcchUp' = Tail(dcchUp), UNCHANGED rnti
    PROVE  /\ NoUpOf(rnti) => NoUpOf(rnti)'
           /\ NoSetupCompleted => NoSetupCompleted'
           /\ SetupCompletedIsLast /\ Head(dcchUp).rnti # rnti => SetupCompletedIsLast'
           /\ SetupCompletedIsLast /\ Head(dcchUp).rnti = rnti =>
                  dcchUp' = << >> /\ Head(dcchUp).type = "RrcSetupCompleted"
<1> DEFINE n == Len(dcchUp)
<1>1. /\ n \in Nat /\ n > 0 /\ Len(dcchUp') = n - 1 /\ Head(dcchUp) = dcchUp[1]
      /\ \A i \in 1..(n - 1) : dcchUp'[i] = dcchUp[i + 1]
    OBVIOUS
<1>2. \A i \in 1..(n - 1) : i + 1 \in 1..n
    BY <1>1
<1>3. NoUpOf(rnti) => NoUpOf(rnti)'
    BY <1>1, <1>2 DEF NoUpOf
<1>4. NoSetupCompleted => NoSetupCompleted'
    BY <1>1, <1>2 DEF NoSetupCompleted
<1>5. ASSUME SetupCompletedIsLast
      PROVE  /\ Head(dcchUp).rnti # rnti => SetupCompletedIsLast'
             /\ Head(dcchUp).rnti = rnti => dcchUp' = << >> /\ Head(dcchUp).type = "RrcSetupCompleted"
    <2>1. CASE n = 1
        <3>1. dcchUp' = << >>
            BY <1>1, <2>1
        <3>2. Head(dcchUp) = [type |-> "RrcSetupCompleted", rnti |-> rnti]
            BY <1>1, <1>5, <2>1 DEF SetupCompletedIsLast
        <3> QED BY <3>1, <3>2
    <2>2. CASE n > 1
        <3>1. n - 1 \in 1..(n - 1) /\ Len(dcchUp') > 0 /\ 1 \in 1..(n - 1)
            BY <1>1, <2>2
        <3>2. dcchUp'[n - 1] = [type |-> "RrcSetupCompleted", rnti |-> rnti]
            BY <1>1, <1>5, <3>1 DEF SetupCompletedIsLast
        <3>3. \A i \in 1..(n - 2) : i \in 1..(n - 1) /\ i + 1 \in 1..(n - 1)
            BY <1>1, <2>2
        <3>4. \A i \in 1..(n - 2) :
                  dcchUp'[i].rnti # rnti /\ dcchUp'[i].type # "RrcSetupCompleted"
            BY <1>1, <1>5, <3>3 DEF SetupCompletedIsLast
        <3>5. Head(dcchUp).rnti # rnti
            BY <1>1, <1>5, <3>1 DEF SetupCompletedIsLast
        <3>6. Len(dcchUp') - 1 = n - 2
            BY <1>1
        <3> QED BY <1>1, <3>1, <3>2, <3>4, <3>5, <3>6 DEF SetupCompletedIsLast
    <2> QED BY <1>1, <2>1, <2>2
<1> QED BY <1>3, <1>4, <1>5

\* The UE adds a message to SRB1 towards the gNB.
LEMMA UpAppended ==
    ASSUME NEW T, dcchUp \in Seq(T), NEW type, SendUp(type, rnti), UNCHANGED rnti
    PROVE  /\ type # "RrcSetupCompleted" /\ NoSetupCompleted => NoSetupCompleted'
           /\ type = "RrcSetupCompleted" /\ NoSetupCompleted /\ NoUpOf(rnti) => SetupCompletedIsLast'
<1> DEFINE n == Len(dcchUp)
           e == [type |-> type, rnti |-> rnti]
<1>1. dcchUp' = Append(dcchUp, e)
    BY DEF SendUp
<1> HIDE DEF e
<1>2. /\ n \in Nat /\ Len(dcchUp') = n + 1 /\ dcchUp'[n + 1] = e
      /\ \A i \in 1..n : dcchUp'[i] = dcchUp[i]
    BY <1>1
<1>3. \A i \in 1..(n + 1) : i \in 1..n \/ i = n + 1
    BY <1>2
<1>4. (n + 1) - 1 = n
    BY <1>2
<1> QED BY <1>2, <1>3, <1>4 DEF NoSetupCompleted, NoUpOf, SetupCompletedIsLast, e

\* And to SRB1 towards the UE.
LEMMA DownAppended ==
    ASSUME NEW s \in Seq(DcchDownTypes), NEW t \in DcchDownTypes
    PROVE  /\ t # "RrcRelease" /\ NoRelease(s) => NoRelease(Append(s, t))
           /\ HasBearers(s) => HasBearers(Append(s, t))
           /\ s = << >> => Append(s, t) # << >> /\ Head(Append(s, t)) = t
<1>1. /\ Len(s) \in Nat /\ Len(Append(s, t)) = Len(s) + 1 /\ Append(s, t)[Len(s) + 1] = t
      /\ \A i \in 1..Len(s) : Append(s, t)[i] = s[i]
      /\ Append(s, t) # << >>
    OBVIOUS
<1>2. \A i \in 1..(Len(s) + 1) : i \in 1..Len(s) \/ i = Len(s) + 1
    BY <1>1
<1>3. t # "RrcRelease" /\ NoRelease(s) => NoRelease(Append(s, t))
    BY <1>1, <1>2 DEF NoRelease
<1>4. s # << >> => Head(Append(s, t)) = Head(s)
    OBVIOUS
<1>5. s = << >> => Head(Append(s, t)) = t
    OBVIOUS
<1> QED BY <1>1, <1>3, <1>4, <1>5 DEF HasBearers

\* The first message towards the UE is received.
LEMMA DownTail ==
    ASSUME NEW s \in Seq(DcchDownTypes), s # << >>, NoRelease(s)
    PROVE  NoRelease(Tail(s)) /\ Head(s) # "RrcRelease"
<1>1. /\ Len(s) \in Nat /\ Len(s) > 0 /\ Len(Tail(s)) = Len(s) - 1 /\ Head(s) = s[1]
      /\ \A i \in 1..(Len(s) - 1) : Tail(s)[i] = s[i + 1]
    OBVIOUS
<1>2. \A i \in 1..(Len(s) - 1) : i + 1 \in 1..Len(s)
    BY <1>1
<1>3. 1 \in 1..Len(s)
    BY <1>1
<1> QED BY <1>1, <1>2, <1>3 DEF NoRelease

-----------------------------------------------------------------------------
\* The first message towards the gNB goes, and it was not one of the connected UE.
UpOfOther ==
    /\ dcchUp # << >> /\ dcchUp' = Tail(dcchUp)
    /\ ueState = "CONNECTED_NORMALLY" => Head(dcchUp).rnti # rnti

\* What serves the UE stays as it is.
LEMMA ServingKept ==
    ASSUME Paged, UNCHANGED <<ueVars, waited>>, UNCHANGED dcchUp \/ UpOfOther,
           ueState \in {"IDLE_CONNECTING", "CONNECTED_NORMALLY"} \cup Settled =>
               /\ dcchDown'[rnti] = dcchDown[rnti]
               /\ ueMap'[rnti].state = ueMap[rnti].state
               /\ ueMap'[rnti].setupTimeout = ueMap[rnti].setupTimeout
               /\ ueMap[rnti].inRACH => ueMap'[rnti].inRACH
               /\ Unconfigured(ueMap[rnti]) => Unconfigured(ueMap'[rnti])
    PROVE  ServingPaged'
<1>u. UNCHANGED <<ueState, rnti, setupCompleted, releases, drbs, waited>>
    BY DEF ueVars, ueFlags
<1>1. dcchUp \in Seq([type : DcchUpTypes, rnti : AnyRnti])
    BY PagedTypes
<1>2. /\ NoUpOf(rnti) => NoUpOf(rnti)'
      /\ NoSetupCompleted => NoSetupCompleted'
      /\ ueState = "CONNECTED_NORMALLY" /\ SetupCompletedIsLast => SetupCompletedIsLast'
    <2>1. CASE UNCHANGED dcchUp
        BY <2>1, <1>u DEF NoUpOf, NoSetupCompleted, SetupCompletedIsLast
    <2>2. CASE UpOfOther
        BY <2>2, <1>u, <1>1, UpTail DEF UpOfOther
    <2> QED BY <2>1, <2>2
<1>3. ServingPaged
    BY DEF Paged, PagedInv
<1>4. ASSUME ueState = "CONNECTED_NORMALLY"
      PROVE  ConnectedPaged(ueMap[rnti], dcchDown[rnti])'
    <2>1. ConnectedPaged(ueMap[rnti], dcchDown[rnti])
        BY <1>3, <1>4 DEF ServingPaged
    <2>2. CASE SettingUp(ueMap[rnti]) /\ dcchDown[rnti] = << >> /\ releases = << >>
        <3>1. SettingUp(ueMap[rnti])'
            BY <2>2, <1>2, <1>4, <1>u DEF SettingUp
        <3> QED BY <3>1, <2>2, <1>4, <1>u DEF ConnectedPaged
    <2>3. CASE /\ ~IsRunning(setupCompleted) /\ NoSetupCompleted
               /\ Unconfigured(ueMap[rnti]) /\ dcchDown[rnti] = << >> /\ releases = << >>
               /\ NoUpOf(rnti)
        <3>1. Unconfigured(ueMap[rnti])'
            BY <2>3, <1>4, <1>u DEF Unconfigured
        <3> QED BY <3>1, <2>3, <1>2, <1>4, <1>u DEF ConnectedPaged
    <2>4. CASE /\ ~IsRunning(setupCompleted) /\ NoSetupCompleted
               /\ ueMap[rnti].state \in Established /\ HasBearers(dcchDown[rnti])
        <3>1. HasBearers(dcchDown[rnti])'
            BY <2>4, <1>4, <1>u DEF HasBearers
        <3> QED BY <3>1, <2>4, <1>2, <1>4, <1>u DEF ConnectedPaged
    <2> QED BY <2>1, <2>2, <2>3, <2>4 DEF ConnectedPaged
<1> QED BY <1>2, <1>3, <1>4, <1>u DEF ServingPaged

\* The UE is connected, has no bearers and is not being told of any.
AwaitsBearers == ueState = "CONNECTED_NORMALLY" /\ ~HasBearers(dcchDown[rnti])

\* Where a context has bearers, the first reconfiguration of such a UE is still to come.
LEMMA AwaitsMeans ==
    ASSUME Paged, AwaitsBearers, ueMap[rnti].state \in Established
    PROVE  /\ Unconfigured(ueMap[rnti]) /\ dcchDown[rnti] = << >> /\ NoUpOf(rnti)
           /\ ueMap[rnti].state = "CONNECTED_NORMALLY" /\ releases = << >>
<1>1. ConnectedPaged(ueMap[rnti], dcchDown[rnti])
    BY DEF Paged, PagedInv, ServingPaged, AwaitsBearers
<1> QED BY <1>1 DEF ConnectedPaged, SettingUp, AwaitsBearers, Unconfigured, Established, SuspendedStates

\* The UE's context changes from one state with bearers to another.
LEMMA EstablishedServing ==
    ASSUME Paged, rnti \in Rntis, UNCHANGED <<ueVars, waited>>,
           ueMap[rnti].state \in Established, ueMap'[rnti].state \in Established,
           UNCHANGED dcchUp \/ (dcchUp # << >> /\ dcchUp' = Tail(dcchUp)),
           \/ dcchDown'[rnti] = dcchDown[rnti]
           \/ \E t \in DcchDownTypes : dcchDown'[rnti] = Append(dcchDown[rnti], t),
           AwaitsBearers => \/ Unconfigured(ueMap'[rnti]) /\ UNCHANGED dcchUp
                               /\ dcchDown'[rnti] = dcchDown[rnti]
                            \/ dcchDown'[rnti] = Append(dcchDown[rnti], "RrcReconfiguration")
    PROVE  ServingPaged'
<1>u. UNCHANGED <<ueState, rnti, setupCompleted, releases, drbs, waited>>
    BY DEF ueVars, ueFlags
<1>1. dcchUp \in Seq([type : DcchUpTypes, rnti : AnyRnti]) /\ dcchDown[rnti] \in Seq(DcchDownTypes)
    BY PagedTypes, PagedContext
<1>2. /\ NoUpOf(rnti) => NoUpOf(rnti)'
      /\ NoSetupCompleted => NoSetupCompleted'
    <2>1. CASE UNCHANGED dcchUp
        BY <2>1, <1>u DEF NoUpOf, NoSetupCompleted
    <2>2. CASE dcchUp # << >> /\ dcchUp' = Tail(dcchUp)
        BY <2>2, <1>u, <1>1, UpTail
    <2> QED BY <2>1, <2>2
<1>3. ServingPaged
    BY DEF Paged, PagedInv
<1>4. ASSUME ueState = "CONNECTED_NORMALLY"
      PROVE  ConnectedPaged(ueMap[rnti], dcchDown[rnti])'
    <2>1. ~IsRunning(setupCompleted) /\ NoSetupCompleted
        <3>1. ConnectedPaged(ueMap[rnti], dcchDown[rnti])
            BY <1>3, <1>4 DEF ServingPaged
        <3> QED BY <3>1 DEF ConnectedPaged, SettingUp, Established, SuspendedStates
    <2>2. CASE AwaitsBearers
        <3>1. dcchDown[rnti] = << >> /\ NoUpOf(rnti) /\ releases = << >>
            BY <2>2, AwaitsMeans
        <3>2. CASE /\ Unconfigured(ueMap'[rnti]) /\ UNCHANGED dcchUp
                   /\ dcchDown'[rnti] = dcchDown[rnti]
            <4>1. Unconfigured(ueMap[rnti])'
                BY <3>2, <1>u DEF Unconfigured
            <4> QED BY <2>1, <3>1, <3>2, <4>1, <1>2, <1>u DEF ConnectedPaged
        <3>3. CASE dcchDown'[rnti] = Append(dcchDown[rnti], "RrcReconfiguration")
            <4>1. dcchDown'[rnti] # << >> /\ Head(dcchDown'[rnti]) = "RrcReconfiguration"
                BY <1>1, <3>1, <3>3
            <4>2. HasBearers(dcchDown[rnti])'
                BY <4>1, <1>u DEF HasBearers
            <4> QED BY <2>1, <4>2, <1>2, <1>u DEF ConnectedPaged
        <3> QED BY <2>2, <3>2, <3>3
    <2>3. CASE ~AwaitsBearers
        <3>1. HasBearers(dcchDown[rnti])
            BY <2>3, <1>4 DEF AwaitsBearers
        <3>2. HasBearers(dcchDown'[rnti])
            BY <3>1, <1>1, DownAppended
        <3>3. HasBearers(dcchDown[rnti])'
            BY <3>2, <1>u DEF HasBearers
        <3> QED BY <2>1, <3>3, <1>2, <1>u DEF ConnectedPaged
    <2> QED BY <2>2, <2>3
<1>5. ueState # "IDLE_CONNECTING"
    BY <1>3 DEF ServingPaged, Established, SuspendedStates
<1> QED BY <1>2, <1>3, <1>4, <1>5, <1>u DEF ServingPaged

\* A step of the gNB that changes the context r and what is on its way to or from it.
LEMMA PagedGnbStep ==
    ASSUME Paged, TypeInv', NEW r \in Rntis, NEW c \in Contexts, Context(r, c),
           UNCHANGED <<ueVars, redCap, fatal, waited, removals>>,
           \A q \in Rntis \ {r} : dcchDown'[q] = dcchDown[q],
           PagedFits(c), NoRelease(dcchDown'[r]),
           ccchUp' \subseteq ccchUp,
           \/ c.state \in {"NONE", "INITIAL_RANDOM_ACCESS"}
           \/ \A m \in ccchUp' : m.resumeIdentity = NoRnti => m.rnti # r,
           ueMap[r].state \in Established => c.state \in Established,
           \A m \in ccchDown' : IF m.rnti = r THEN AnswerPaged(m)' ELSE m \in ccchDown,
           rnti = r => ServingPaged',
           rnti # r => UNCHANGED dcchUp \/ UpOfOther
    PROVE  Paged'
<1>u. UNCHANGED <<ueState, rnti, macRnti, resumeIdentity, connectionTimeout, setupCompleted,
                  releases, drbs, nas, nasConnects>>
    BY DEF ueVars, ueFlags
<1>0. ueMap' = [ueMap EXCEPT ![r] = c] /\ ueMap \in [Rntis -> Contexts]
    BY PagedContext DEF Context
<1>1. ueMap'[r] = c /\ \A q \in Rntis \ {r} : ueMap'[q] = ueMap[q]
    BY <1>0
<1>2. UePaged'
    BY <1>u DEF Paged, PagedInv, UePaged, PendingReleases
<1>3. \A q \in Rntis : PagedFits(ueMap[q])' /\ NoRelease(dcchDown[q])'
    <2>1. ASSUME NEW q \in Rntis
          PROVE  PagedFits(ueMap'[q]) /\ NoRelease(dcchDown'[q])
        BY <1>1, PagedContext
    <2> QED BY <2>1 DEF PagedFits, NoRelease
<1>4. \A m \in ccchUp' : Msg3Paged(m)'
    <2>1. ASSUME NEW m \in ccchUp'
          PROVE  Msg3Paged(m)'
        <3>1. Msg3Paged(m) /\ m.rnti \in Rntis /\ m.resumeIdentity \in Rntis \cup {NoRnti}
            BY PagedTypes DEF Paged, PagedInv, AnyRnti
        <3> QED BY <3>1, <1>1 DEF Msg3Paged
    <2> QED BY <2>1
<1>5. \A m \in ccchDown' : AnswerPaged(m)'
    <2>1. ASSUME NEW m \in ccchDown', m.rnti # r
          PROVE  AnswerPaged(m)'
        <3>1. AnswerPaged(m) /\ m.rnti \in Rntis \ {r}
            BY <2>1, PagedTypes DEF Paged, PagedInv
        <3>2. ueMap'[m.rnti] = ueMap[m.rnti]
            BY <1>1, <3>1
        <3> QED BY <3>1, <3>2, <1>u DEF AnswerPaged
    <2> QED BY <2>1
<1>6. ServingPaged'
    <2>1. CASE rnti = r
        BY <2>1
    <2>2. CASE rnti # r
        <3>1. ueState \in {"IDLE_CONNECTING", "CONNECTED_NORMALLY"} \cup Settled => rnti \in Rntis \ {r}
            BY <2>2, PagedStates DEF Paged, PagedInv, UePaged
        <3>2. rnti \in Rntis \ {r} => ueMap'[rnti] = ueMap[rnti] /\ dcchDown'[rnti] = dcchDown[rnti]
            BY <1>1
        <3> QED BY <2>2, <3>1, <3>2, ServingKept
    <2> QED BY <2>1, <2>2
<1> QED BY <1>2, <1>3, <1>4, <1>5, <1>6 DEF Paged, PagedInv, NoUnexpectedEvent

\* A message is lost or dropped.
LEMMA PagedLost ==
    ASSUME Paged, TypeInv', UNCHANGED <<ueVars, contexts, redCap, fatal, waited, removals, dcchDown>>,
           ccchUp' \subseteq ccchUp, ccchDown' \subseteq ccchDown,
           UNCHANGED dcchUp \/ UpOfOther
    PROVE  Paged'
<1>u. UNCHANGED <<ueMap, ueState, rnti, macRnti, resumeIdentity, connectionTimeout, setupCompleted,
                  releases, drbs, nas, nasConnects>>
    BY DEF ueVars, ueFlags, contexts
<1>1. UePaged'
    BY <1>u DEF Paged, PagedInv, UePaged, PendingReleases
<1>2. \A q \in Rntis : PagedFits(ueMap[q])' /\ NoRelease(dcchDown[q])'
    BY <1>u DEF Paged, PagedInv, PagedFits, NoRelease
<1>3. \A m \in ccchUp' : Msg3Paged(m)'
    BY <1>u DEF Paged, PagedInv, Msg3Paged
<1>4. \A m \in ccchDown' : AnswerPaged(m)'
    BY <1>u DEF Paged, PagedInv, AnswerPaged
<1>5. ServingPaged'
    BY <1>u, ServingKept
<1> QED BY <1>1, <1>2, <1>3, <1>4, <1>5 DEF Paged, PagedInv, NoUnexpectedEvent

\* A grant or an assignment restarts timers of a context and changes nothing else.
LEMMA PagedRefreshed ==
    ASSUME NEW c \in Contexts, PagedFits(c)
    PROVE  LET d == Refreshed(c)
           IN /\ d \in Contexts /\ PagedFits(d)
              /\ d.state = c.state /\ d.setupTimeout = c.setupTimeout /\ d.inRACH = c.inRACH
              /\ d.switchingBwp = c.switchingBwp /\ d.polling = c.polling /\ d.pending = c.pending
              /\ d.drbs = c.drbs /\ d.forgotten = c.forgotten /\ d.releaseBwp = c.releaseBwp
              /\ d.inactivityTimeout = IF IsRunning(c.inactivityTimeout)
                                       THEN DataInactivityInterval ELSE Off
              /\ Unconfigured(c) => Unconfigured(d)
<1> DEFINE d == Refreshed(c)
<1>1. d \in Contexts
    BY RefreshedType
<1>2. /\ d.state = c.state /\ d.setupTimeout = c.setupTimeout /\ d.inRACH = c.inRACH
      /\ d.switchingBwp = c.switchingBwp /\ d.polling = c.polling /\ d.pending = c.pending
      /\ d.drbs = c.drbs /\ d.forgotten = c.forgotten /\ d.releaseBwp = c.releaseBwp
      /\ d.rejectedTimeout = c.rejectedTimeout
      /\ d.inactivityTimeout = IF IsRunning(c.inactivityTimeout) THEN DataInactivityInterval ELSE Off
      /\ d.requestTimeout = IF IsRunning(c.requestTimeout)
                            THEN ConnectionRequestTimeoutDuration ELSE Off
    BY DEF Refreshed, Contexts
<1> HIDE DEF d
<1>3. PagedFits(d)
    BY <1>2 DEF PagedFits, IsRunning
<1>4. Unconfigured(c) => Unconfigured(d)
    BY <1>2, DurationsAreNat DEF Unconfigured, IsRunning, Off
<1> QED BY <1>1, <1>2, <1>3, <1>4 DEF d

\* A step of the UE, which may be data activity of contexts.
LEMMA PagedUeStep ==
    ASSUME Paged, TypeInv', UNCHANGED <<redCap, fatal, ccchUp, removals>>,
           \A q \in Rntis : ueMap'[q] \in {ueMap[q], Refreshed(ueMap[q])},
           \A q \in Rntis : dcchDown'[q] = dcchDown[q] \/ NoRelease(dcchDown'[q]),
           UePaged', ServingPaged',
           \A m \in ccchDown' : AnswerPaged(m)'
    PROVE  Paged'
<1>1. ASSUME NEW q \in Rntis
      PROVE  /\ PagedFits(ueMap'[q]) /\ NoRelease(dcchDown'[q])
             /\ ueMap'[q].state = ueMap[q].state
    BY PagedContext, PagedRefreshed
<1>2. \A q \in Rntis : PagedFits(ueMap[q])' /\ NoRelease(dcchDown[q])'
    BY <1>1 DEF PagedFits, NoRelease
<1>3. \A m \in ccchUp' : Msg3Paged(m)'
    <2>1. ASSUME NEW m \in ccchUp
          PROVE  Msg3Paged(m)'
        <3>1. Msg3Paged(m) /\ m.rnti \in Rntis /\ m.resumeIdentity \in Rntis \cup {NoRnti}
            BY PagedTypes DEF Paged, PagedInv, AnyRnti
        <3> QED BY <3>1, <1>1 DEF Msg3Paged
    <2> QED BY <2>1
<1> QED BY <1>2, <1>3 DEF Paged, PagedInv, NoUnexpectedEvent

\* The same, when nothing is sent or received.
LEMMA PagedQuiet ==
    ASSUME Paged, TypeInv', UNCHANGED <<ueMap, redCap, messages, fatal, waited, rnti,
                                        setupCompleted, releases, drbs>>,
           UePaged',
           \/ ueState' = ueState
           \/ ueState \in IdleStates /\ ueState' \in IdleStates
           \/ ueState \in AsleepStates /\ ueState' \in AsleepStates
    PROVE  Paged'
<1>u. UNCHANGED <<ccchUp, ccchDown, dcchUp, dcchDown, removals>>
    BY DEF messages
<1>1. \A m \in ccchDown' : AnswerPaged(m)'
    <2>1. ASSUME NEW m \in ccchDown
          PROVE  AnswerPaged(m)'
        <3>1. AnswerPaged(m)
            BY DEF Paged, PagedInv
        <3> QED BY <3>1, <1>u, PagedStates DEF AnswerPaged
    <2> QED BY <2>1, <1>u
<1>2. ServingPaged'
    <2>1. ServingPaged
        BY DEF Paged, PagedInv
    <2>2. /\ NoUpOf(rnti) => NoUpOf(rnti)'
          /\ NoSetupCompleted => NoSetupCompleted'
        BY <1>u DEF NoUpOf, NoSetupCompleted
    <2>3. CASE ueState' = ueState
        <3>1. ConnectedPaged(ueMap[rnti], dcchDown[rnti]) => ConnectedPaged(ueMap[rnti], dcchDown[rnti])'
            BY <1>u DEF ConnectedPaged, SettingUp, NoUpOf, NoSetupCompleted, SetupCompletedIsLast,
               Unconfigured, HasBearers
        <3> QED BY <2>1, <2>2, <2>3, <3>1, <1>u DEF ServingPaged
    <2>4. CASE ueState \in IdleStates /\ ueState' \in IdleStates
        BY <2>1, <2>2, <2>4, <1>u, PagedStates DEF ServingPaged
    <2>5. CASE ueState \in AsleepStates /\ ueState' \in AsleepStates
        BY <2>1, <2>2, <2>5, <1>u, PagedStates DEF ServingPaged, Settled
    <2> QED BY <2>3, <2>4, <2>5
<1> QED BY <1>u, <1>1, <1>2, PagedUeStep

-----------------------------------------------------------------------------
\* Where an attempt leads to, while a page may have started a random access.
LEMMA AttemptsLead ==
    ASSUME NEW c \in Attempts, NEW sib2
    PROVE  /\ StartConnection(c).state \in {"IDLE_RANDOM_ACCESS", "IDLE_WAIT_MIB"}
           /\ ResumeConnection(c).state \in AsleepStates
           /\ SwitchToState(c, "IDLE_CAMPED_NORMALLY", sib2).state \in IdleStates
           /\ SwitchToState(c, "INACTIVE", sib2).state \in AsleepStates
           /\ Connect(c).state = c.state \/ (c.state \in IdleStates /\ Connect(c).state \in IdleStates)
<1>1. ASSUME NEW d \in Attempts
      PROVE  /\ StartConnection(d).state \in {"IDLE_RANDOM_ACCESS", "IDLE_WAIT_MIB"}
             /\ ResumeConnection(d).state \in AsleepStates
    BY DEF StartConnection, ResumeConnection, Attempts, AsleepStates
<1>2. ASSUME NEW s2
      PROVE  /\ SwitchToState(c, "IDLE_CAMPED_NORMALLY", s2).state \in IdleStates
             /\ SwitchToState(c, "INACTIVE", s2).state \in AsleepStates
    <2> DEFINE e == [c EXCEPT !.state = "IDLE_CAMPED_NORMALLY"]
               f == [c EXCEPT !.state = "INACTIVE"]
    <2>1. /\ e \in Attempts /\ e.state = "IDLE_CAMPED_NORMALLY"
          /\ f \in Attempts /\ f.state = "INACTIVE"
        BY DEF Attempts, UeStates
    <2>2. /\ SwitchToState(c, "IDLE_CAMPED_NORMALLY", s2) \in {e, StartConnection(e)}
          /\ SwitchToState(c, "INACTIVE", s2) \in {f, ResumeConnection(f)}
        BY DEF SwitchToState
    <2> HIDE DEF e, f
    <2> QED BY <1>1, <2>1, <2>2 DEF IdleStates, AsleepStates
<1>3. Connect(c).state = c.state \/ (c.state \in IdleStates /\ Connect(c).state \in IdleStates)
    <2>1. CASE c.state = "IDLE_CAMPED_NORMALLY"
        BY <2>1 DEF Connect, Attempts
    <2>2. CASE c.state = "CONNECTED_PHY_PROBLEM"
        <3> DEFINE d == SwitchToState(c, "IDLE_CAMPED_NORMALLY", hasReceivedSib2)
        <3>1. d \in Attempts /\ d.state \in IdleStates
            BY <1>2, AttemptTypes
        <3>2. Connect(c) = [d EXCEPT !.pending = TRUE]
            BY <2>2 DEF Connect
        <3> HIDE DEF d
        <3> QED BY <2>2, <3>1, <3>2 DEF IdleStates, Attempts
    <2>3. CASE c.state \notin {"IDLE_CAMPED_NORMALLY", "CONNECTED_PHY_PROBLEM"}
        BY <2>3 DEF Connect
    <2> QED BY <2>1, <2>2, <2>3
<1> QED BY <1>1, <1>2, <1>3

\* An attempt, or none, is a step that nobody notices.
LEMMA AttemptPaged ==
    ASSUME Paged, TypeInv', NEW d \in Attempts, Becomes(d),
           \/ d.state = ueState
           \/ ueState \in IdleStates /\ d.state \in IdleStates
           \/ ueState \in AsleepStates /\ d.state \in AsleepStates,
           UNCHANGED <<ueMap, redCap, messages, fatal, waited, rnti, macRnti, resumeIdentity,
                       connectionTimeout, setupCompleted, releases, drbs, nas>>,
           nasConnects' => nasConnects
    PROVE  Paged'
<1>1. ueState' = d.state
    BY DEF Becomes
<1>2. UePaged
    BY DEF Paged, PagedInv
<1>3. PendingReleases'
    BY <1>2 DEF UePaged, PendingReleases
<1>4. UePaged'
    <2>1. CASE ueState' = ueState
        BY <1>2, <1>3, <2>1 DEF UePaged
    <2>2. CASE ueState \in IdleStates /\ ueState' \in IdleStates
        BY <1>2, <1>3, <2>2, PagedStates DEF UePaged
    <2>3. CASE ueState \in AsleepStates /\ ueState' \in AsleepStates
        <3>1. ueState \in Settled /\ ueState' \in Settled
            BY <2>3 DEF Settled
        <3> QED BY <1>2, <1>3, <2>3, <3>1, PagedStates DEF UePaged
    <2> QED BY <1>1, <2>1, <2>2, <2>3
<1> QED BY <1>1, <1>4, PagedQuiet

\* NAS and data of the UE.
LEMMA NasConnectPaged ==
    ASSUME Paged, TypeInv', NasConnect, UNCHANGED <<ueMap, redCap, waited>>
    PROVE  Paged'
<1>1. ueState \notin ConnectUnexpected
    BY DEF NasConnect, Paged, PagedInv, UePaged, ConnectUnexpected, IdleStates
<1>2. Now \in Attempts /\ Now.state = ueState
    BY NowType DEF Now, Paged, TypeInv, TypeOK
<1>3. Connect(Now) \in Attempts
    BY <1>2, AttemptTypes
<1>4. Becomes(Connect(Now)) /\ nasConnects' = FALSE
      /\ UNCHANGED <<messages, fatal, rnti, macRnti, resumeIdentity, connectionTimeout,
                     setupCompleted, releases, drbs, nas>>
    BY <1>1 DEF NasConnect
<1> QED BY <1>2, <1>3, <1>4, AttemptsLead, AttemptPaged

\* Uplink data: it connects the UE, or resumes its connection.
LEMMA DoSendDataPaged ==
    ASSUME Paged, TypeInv', DoSendData, UNCHANGED <<ueMap, redCap, waited>>
    PROVE  Paged'
<1> DEFINE c == IF nas = "OFF" THEN Connect(Now) ELSE Now
           d == CASE c.state = "IDLE_CAMPED_NORMALLY" -> StartConnection(c)
                  [] c.state = "INACTIVE" -> ResumeConnection(c)
                  [] OTHER -> c
<1>1. ~(nas = "OFF" /\ ueState \in ConnectUnexpected)
    BY DEF Paged, PagedInv, UePaged, ConnectUnexpected, IdleStates
<1>2. Now \in Attempts /\ Now.state = ueState
    BY NowType DEF Now, Paged, TypeInv, TypeOK
<1>3. c \in Attempts /\ (c.state = ueState \/ (ueState \in IdleStates /\ c.state \in IdleStates))
    BY <1>2, AttemptTypes, AttemptsLead
<1>4. /\ Becomes(d) /\ nasConnects' = nasConnects
      /\ UNCHANGED <<messages, fatal, rnti, macRnti, resumeIdentity, connectionTimeout,
                     setupCompleted, releases, drbs, nas>>
    BY <1>1 DEF DoSendData
<1> HIDE DEF c
<1>5. d \in Attempts
    BY <1>3, AttemptTypes
<1>6. \/ d.state = ueState
      \/ ueState \in IdleStates /\ d.state \in IdleStates
      \/ ueState \in AsleepStates /\ d.state \in AsleepStates
    <2>1. CASE c.state = "IDLE_CAMPED_NORMALLY"
        BY <1>3, <2>1, AttemptsLead DEF IdleStates
    <2>2. CASE c.state = "INACTIVE"
        <3>1. ueState = "INACTIVE"
            BY <1>3, <2>2 DEF IdleStates
        <3> QED BY <1>3, <2>2, <3>1, AttemptsLead DEF AsleepStates
    <2>3. CASE c.state \notin {"IDLE_CAMPED_NORMALLY", "INACTIVE"}
        BY <1>3, <2>3
    <2> QED BY <2>1, <2>2, <2>3
<1> HIDE DEF d
<1> QED BY <1>4, <1>5, <1>6, AttemptPaged

\* System information and pages.
LEMMA BroadcastPaged ==
    ASSUME Paged, TypeInv', UNCHANGED <<ueMap, redCap, waited>>,
           DoRecvMasterInformationBlock \/ DoRecvSystemInformation
    PROVE  Paged'
<1>1. Now \in Attempts /\ Now.state = ueState /\ Now.access = accessing
    BY NowType DEF Now, Paged, TypeInv, TypeOK
<1>2. CASE DoRecvMasterInformationBlock
    <2> DEFINE e == IF ueState = "IDLE_WAIT_MIB"
                    THEN SwitchToState(Now, "IDLE_CAMPED_NORMALLY", hasReceivedSib2) ELSE Now
    <2>1. /\ Becomes(e) /\ nasConnects' = nasConnects
          /\ UNCHANGED <<messages, fatal, rnti, macRnti, resumeIdentity, connectionTimeout,
                         setupCompleted, releases, drbs, nas>>
        BY <1>2 DEF DoRecvMasterInformationBlock
    <2>2. e \in Attempts
        BY <1>1, AttemptTypes
    <2>3. e.state = ueState \/ (ueState \in IdleStates /\ e.state \in IdleStates)
        <3>1. CASE ueState = "IDLE_WAIT_MIB"
            BY <1>1, <3>1, AttemptsLead DEF IdleStates
        <3>2. CASE ueState # "IDLE_WAIT_MIB"
            BY <1>1, <3>2
        <3> QED BY <3>1, <3>2
    <2> HIDE DEF e
    <2> QED BY <2>1, <2>2, <2>3, AttemptPaged
<1>3. CASE DoRecvSystemInformation
    <2>1. /\ UNCHANGED <<ueState, macRnti, resumeIdentity, connectionTimeout, messages, fatal, rnti,
                         setupCompleted, releases, drbs, nas, nasConnects>>
        BY <1>3 DEF DoRecvSystemInformation
    <2>2. UePaged'
        BY <2>1 DEF Paged, PagedInv, UePaged, PendingReleases
    <2> QED BY <2>1, <2>2, PagedQuiet
<1> QED BY <1>2, <1>3

\* A page reaches the UE.
LEMMA PagePaged ==
    ASSUME Paged, TypeInv', NEW p, Page(p), UNCHANGED <<redCap, waited>>
    PROVE  Paged'
<1>1. /\ UNCHANGED <<ueState, macRnti, resumeIdentity, connectionTimeout, messages, fatal, rnti,
                     setupCompleted, releases, drbs, nas, nasConnects, ueMap>>
    BY DEF Page, SendPaging, ReceivePaging
<1>2. UePaged'
    BY <1>1 DEF Paged, PagedInv, UePaged, PendingReleases
<1> QED BY <1>1, <1>2, PagedQuiet

\* 10 ms after RrcSetup the UE answers.
LEMMA SetupCompletedPaged ==
    ASSUME Paged, TypeInv', SendRrcSetupCompleted, UNCHANGED <<ueMap, redCap, waited>>
    PROVE  Paged'
<1>1. /\ setupCompleted = 0 /\ IsRunning(setupCompleted) /\ ~IsRunning(setupCompleted')
      /\ ueState = "CONNECTED_NORMALLY"
    BY DEF SendRrcSetupCompleted, Paged, PagedInv, UePaged, IsRunning, Off
<1>2. /\ UNCHANGED <<ueState, rnti, macRnti, resumeIdentity, connectionTimeout, releases, drbs, nas,
                     nasConnects, fatal, ccchUp, ccchDown, dcchDown, removals>>
      /\ SendUp("RrcSetupCompleted", rnti)
    BY DEF SendRrcSetupCompleted, ueFlags
<1>3. rnti \in Rntis
    BY <1>1, PagedStates DEF Paged, PagedInv, UePaged
<1> DEFINE c == ueMap[rnti]
<1>4. /\ SettingUp(c) /\ dcchDown[rnti] = << >> /\ releases = << >>
      /\ NoUpOf(rnti) /\ NoSetupCompleted
      /\ c.setupTimeout + MaxDelay + ProcDelay >= ConnectionSetupTimeoutDuration + setupCompleted
    BY <1>1 DEF Paged, PagedInv, ServingPaged, ConnectedPaged, SettingUp
<1>5. SetupCompletedIsLast'
    BY <1>2, <1>4, PagedTypes, UpAppended
<1>6. c.setupTimeout + MaxDelay + ProcDelay + waited >= ConnectionSetupTimeoutDuration
    <2>1. c.setupTimeout \in Int /\ waited \in Nat
        BY <1>3, PagedContext, PagedTypes, PagedConstants DEF Contexts, Off
    <2> HIDE DEF c
    <2> QED BY <1>1, <1>4, <2>1, PagedConstants
<1>7. ServingPaged'
    <2>1. SettingUp(ueMap[rnti])'
        BY <1>1, <1>2, <1>4, <1>5, <1>6 DEF SettingUp
    <2>2. ConnectedPaged(ueMap[rnti], dcchDown[rnti])'
        BY <1>2, <1>4, <2>1 DEF ConnectedPaged
    <2> QED BY <1>1, <1>2, <2>2, PagedStates DEF ServingPaged
<1>8. UePaged'
    <2>1. UePaged
        BY DEF Paged, PagedInv
    <2>2. PendingReleases'
        BY <2>1, <1>2 DEF UePaged, PendingReleases
    <2>3. "CONNECTED_NORMALLY" \notin IdleStates
        BY DEF IdleStates
    <2> QED BY <1>1, <1>2, <2>1, <2>2, <2>3 DEF UePaged
<1>9. \A m \in ccchDown' : AnswerPaged(m)'
    <2>1. ASSUME NEW m \in ccchDown
          PROVE  AnswerPaged(m)'
        <3>1. AnswerPaged(m)
            BY DEF Paged, PagedInv
        <3> QED BY <3>1, <1>1, <1>2 DEF AnswerPaged
    <2> QED BY <2>1, <1>2
<1> QED BY <1>2, <1>7, <1>8, <1>9, PagedUeStep

\* A release that the UE has received.
LEMMA ReleasePending ==
    ASSUME Paged, releases # << >>
    PROVE  /\ Head(releases) = releases[1] /\ Len(releases) \in Nat /\ Len(releases) > 0
           /\ Head(releases).suspend = rnti /\ Head(releases).left \in 0..ProcDelay
           /\ rnti \in Rntis /\ drbs /\ nas # "OFF" /\ ~nasConnects
           /\ ~IsRunning(setupCompleted) /\ NoSetupCompleted
           /\ ueMap[rnti].state \in Established
           /\ IsRunning(connectionTimeout) => Head(releases).left < connectionTimeout
<1>1. /\ Head(releases) = releases[1] /\ Len(releases) \in Nat /\ Len(releases) > 0
      /\ releases[1] \in Releases
    BY PagedTypes
<1>2. 1 \in 1..Len(releases)
    BY <1>1
<1>3. /\ UePaged /\ PendingReleases /\ ServingPaged
      /\ ueState \in Settled \/ (ueState = "CONNECTED_NORMALLY" /\ drbs)
    BY DEF Paged, PagedInv, UePaged
<1>4. /\ Head(releases).suspend = rnti /\ Head(releases).left \in 0..ProcDelay
      /\ IsRunning(connectionTimeout) => Head(releases).left < connectionTimeout
    BY <1>1, <1>2, <1>3 DEF PendingReleases, Releases
<1>5. rnti \in Rntis /\ drbs
    BY <1>3, PagedStates DEF UePaged
<1>6. CASE ueState \in Settled
    BY <1>1, <1>3, <1>4, <1>5, <1>6, PagedStates DEF UePaged, ServingPaged
<1>7. CASE ueState = "CONNECTED_NORMALLY"
    <2>1. ~IsRunning(setupCompleted) /\ NoSetupCompleted /\ ueMap[rnti].state \in Established
        BY <1>3, <1>7 DEF ServingPaged, ConnectedPaged
    <2>2. ~(setupCompleted > 0)
        BY <2>1, PagedTypes DEF IsRunning, Off
    <2>3. nas # "OFF" /\ ~nasConnects
        BY <1>3, <1>7, <2>2 DEF UePaged, IdleStates
    <2> QED BY <1>1, <1>4, <1>5, <2>1, <2>3
<1> QED BY <1>3, <1>6, <1>7

\* It suspends the UE.
LEMMA ReleasePaged ==
    ASSUME Paged, TypeInv', ProcessRrcRelease, UNCHANGED <<ueMap, redCap, waited>>
    PROVE  Paged'
<1>0. releases # << >>
    BY DEF ProcessRrcRelease, Suspend, Release, ReleaseIsDue
<1>1. /\ Head(releases).suspend = rnti /\ rnti \in Rntis /\ drbs /\ nas # "OFF" /\ ~nasConnects
      /\ ~IsRunning(setupCompleted) /\ NoSetupCompleted /\ ueMap[rnti].state \in Established
    BY <1>0, ReleasePending
<1>2. PICK access \in {accessing, FALSE} :
        /\ releases' = Tail(releases) /\ resumeIdentity' = rnti /\ macRnti' = NoRnti
        /\ Becomes(SwitchToState([Now EXCEPT !.access = access], "INACTIVE", hasReceivedSib2))
        /\ UNCHANGED <<rnti, connectionTimeout, setupCompleted, drbs, nas, nasConnects, messages, fatal>>
    BY <1>1, PagedConstants DEF ProcessRrcRelease, Suspend, Release
<1>3. ueState' \in AsleepStates
    <2>1. [Now EXCEPT !.access = access] \in Attempts
        BY NowType DEF Paged, TypeInv, TypeOK, Attempts, UeTypeOK, UeFlagsOK
    <2> QED BY <2>1, <1>2, AttemptsLead DEF Becomes
<1>4. PendingReleases'
    <2>1. /\ Len(releases) \in Nat /\ Len(releases') = Len(releases) - 1
          /\ \A i \in 1..(Len(releases) - 1) : releases'[i] = releases[i + 1]
        BY <1>0, <1>2, PagedTypes
    <2>2. \A i \in 1..(Len(releases) - 1) : i + 1 \in 1..Len(releases)
        BY <2>1
    <2>3. \A i, j \in 1..(Len(releases) - 1) : i < j => i + 1 < j + 1
        OBVIOUS
    <2>4. PendingReleases
        BY DEF Paged, PagedInv, UePaged
    <2> QED BY <2>1, <2>2, <2>3, <2>4, <1>2 DEF PendingReleases
<1>5. UePaged'
    <2>1. UePaged
        BY DEF Paged, PagedInv
    <2>2. ueState' \in Settled /\ ueState' \notin ActiveStates
        BY <1>3, PagedStates
    <2>3. nas = "ACTIVE"
        BY <1>1 DEF Paged, TypeInv, TypeOK, UeTypeOK
    <2>4. IsRunning(connectionTimeout) => ueState' \in AsleepStates
        BY <1>3
    <2> QED BY <2>1, <2>2, <2>3, <1>1, <1>2, <1>3, <1>4 DEF UePaged
<1>6. ServingPaged'
    <2>1. UNCHANGED <<dcchUp, dcchDown>> /\ NoSetupCompleted'
        BY <1>1, <1>2 DEF messages, NoSetupCompleted
    <2> QED BY <2>1, <1>1, <1>2, <1>3, PagedStates DEF ServingPaged
<1>7. \A m \in ccchDown' : AnswerPaged(m)'
    <2>1. ASSUME NEW m \in ccchDown
          PROVE  AnswerPaged(m)'
        <3>1. AnswerPaged(m)
            BY DEF Paged, PagedInv
        <3>2. m.rnti # rnti
            BY <3>1, <1>1 DEF AnswerPaged, Established, SuspendedStates
        <3> QED BY <3>1, <3>2, <1>2 DEF AnswerPaged
    <2> QED BY <2>1, <1>2 DEF messages
<1> QED BY <1>2, <1>5, <1>6, <1>7, PagedUeStep DEF messages

\* T300 expires, of an attempt that no release can end any more.
LEMMA TimeoutPaged ==
    ASSUME Paged, TypeInv', ConnectionTimeout, UNCHANGED <<ueMap, redCap, waited>>
    PROVE  Paged'
<1>1. /\ connectionTimeout = 0 /\ IsRunning(connectionTimeout) /\ ~IsRunning(connectionTimeout')
      /\ ueState \in {"IDLE_CONNECTING"} \cup AsleepStates \cup ResumingStates
    BY DEF ConnectionTimeout, Paged, PagedInv, UePaged, IsRunning, Off
<1>2. releases = << >>
    <2>1. ASSUME releases # << >> PROVE FALSE
        <3>1. Head(releases).left \in 0..ProcDelay /\ Head(releases).left < connectionTimeout
            BY <1>1, <2>1, ReleasePending
        <3> QED BY <3>1, <1>1
    <2> QED BY <2>1
<1>3. UNCHANGED <<resumeIdentity, setupCompleted, releases, messages, fatal>>
    BY DEF ConnectionTimeout
<1>4. ueState # "CONNECTED_NORMALLY" /\ (ueState \in Settled \/ ueState = "IDLE_CONNECTING")
    BY <1>1, PagedStates
<1>5. /\ ueState' \in IdleStates
      /\ macRnti' = NoRnti
    <2>1. CASE connEstFailCount + 1 >= ConnEstFailLimit
        BY <2>1 DEF ConnectionTimeout, LeaveConnectedMode, IdleStates
    <2>2. CASE ~(connEstFailCount + 1 >= ConnEstFailLimit)
        <3>1. Now \in Attempts
            BY NowType DEF Paged, TypeInv, TypeOK
        <3> QED BY <2>2, <3>1, AttemptsLead DEF ConnectionTimeout, Becomes
    <2> QED BY <2>1, <2>2
<1>6. ~IsRunning(setupCompleted) /\ NoSetupCompleted
    BY <1>4 DEF Paged, PagedInv, UePaged, ServingPaged
<1>7. UePaged'
    <2>1. PendingReleases'
        BY <1>2, <1>3 DEF PendingReleases
    <2>2. "IDLE_CONNECTING" \notin IdleStates
        BY DEF IdleStates
    <2> QED BY <2>1, <1>1, <1>2, <1>3, <1>5, <1>6, PagedStates DEF UePaged
<1>8. ServingPaged'
    <2>1. NoSetupCompleted'
        BY <1>3, <1>6 DEF messages, NoSetupCompleted
    <2> QED BY <2>1, <1>5, PagedStates DEF ServingPaged
<1>9. \A m \in ccchDown' : AnswerPaged(m)'
    <2>1. ASSUME NEW m \in ccchDown
          PROVE  AnswerPaged(m)'
        <3>1. AnswerPaged(m)
            BY DEF Paged, PagedInv
        <3> QED BY <3>1, <1>5 DEF AnswerPaged
    <2> QED BY <2>1, <1>3 DEF messages
<1> QED BY <1>3, <1>7, <1>8, <1>9, PagedUeStep DEF messages

-----------------------------------------------------------------------------
\* A step of the gNB that leaves the state of a context as it is.
LEMMA PagedKeptStep ==
    ASSUME Paged, TypeInv', NEW r \in Rntis, NEW d \in Contexts, Context(r, d),
           UNCHANGED <<ueVars, redCap, fatal, waited, messages>>,
           PagedFits(d), d.state = ueMap[r].state, d.setupTimeout = ueMap[r].setupTimeout,
           ueMap[r].inRACH => d.inRACH,
           Unconfigured(ueMap[r]) => Unconfigured(d)
    PROVE  Paged'
<1>u. UNCHANGED <<ueState, rnti, setupCompleted, releases, drbs, ccchUp, ccchDown, dcchUp, dcchDown,
                  removals>>
    BY DEF ueVars, ueFlags, messages
<1>1. ueMap'[r] = d
    BY PagedContext DEF Context
<1>2. rnti = r => ServingPaged'
    BY <1>1, <1>u, ServingKept
<1>3. \A m \in ccchUp : m.resumeIdentity = NoRnti /\ m.rnti = r =>
          ueMap[r].state \in {"NONE", "INITIAL_RANDOM_ACCESS"}
    BY DEF Paged, PagedInv, Msg3Paged
<1>4. \A m \in ccchDown' : IF m.rnti = r THEN AnswerPaged(m)' ELSE m \in ccchDown
    <2>1. ASSUME NEW m \in ccchDown, m.rnti = r
          PROVE  AnswerPaged(m)'
        <3>1. AnswerPaged(m)
            BY DEF Paged, PagedInv
        <3> QED BY <2>1, <3>1, <1>1, <1>u DEF AnswerPaged
    <2> QED BY <2>1, <1>u
<1>5. NoRelease(dcchDown'[r])
    BY <1>u, PagedContext
<1> QED BY <1>2, <1>3, <1>4, <1>5, <1>u, PagedGnbStep

\* A context whose bearers are set up has no timeout that removes it.
LEMMA EstablishedMeans ==
    ASSUME NEW c \in Contexts, PagedFits(c), c.state \in Established
    PROVE  c.requestTimeout = Off /\ c.setupTimeout = Off /\ c.rejectedTimeout = Off /\ c.drbs
BY DEF PagedFits, IsRunning, Established, SuspendedStates

\* A step of the gNB for a context with bearers.
LEMMA EstablishedStep ==
    ASSUME Paged, TypeInv', NEW r \in Rntis, NEW d \in Contexts, Context(r, d),
           UNCHANGED <<ueVars, redCap, fatal, waited, removals, ccchDown>>,
           ueMap[r].state \in Established, d.state \in Established, d.drbs,
           d.requestTimeout = Off, d.setupTimeout = Off, d.rejectedTimeout = Off,
           ccchUp' \subseteq ccchUp,
           \/ UNCHANGED dcchUp
           \/ dcchUp # << >> /\ Head(dcchUp).rnti = r /\ dcchUp' = Tail(dcchUp),
           UNCHANGED dcchDown \/ \E t \in DcchDownTypes \ {"RrcRelease"} : SendDown(t, r),
           rnti = r /\ AwaitsBearers => \/ Unconfigured(d) /\ UNCHANGED <<dcchUp, dcchDown>>
                                        \/ SendDown("RrcReconfiguration", r)
    PROVE  Paged'
<1>1. /\ ueMap \in [Rntis -> Contexts] /\ dcchDown \in [Rntis -> Seq(DcchDownTypes)]
      /\ NoRelease(dcchDown[r]) /\ ueMap'[r] = d
    BY PagedContext DEF Context
<1>2. PagedFits(d)
    BY DEF PagedFits, IsRunning
<1>3. /\ \A q \in Rntis \ {r} : dcchDown'[q] = dcchDown[q]
      /\ NoRelease(dcchDown'[r])
      /\ \A t : SendDown(t, r) => dcchDown'[r] = Append(dcchDown[r], t)
      /\ \/ dcchDown'[r] = dcchDown[r]
         \/ \E t \in DcchDownTypes : dcchDown'[r] = Append(dcchDown[r], t)
    <2>1. CASE UNCHANGED dcchDown
        BY <2>1, <1>1 DEF SendDown
    <2>2. ASSUME NEW t \in DcchDownTypes \ {"RrcRelease"}, SendDown(t, r)
          PROVE  <1>3!:
        BY <2>2, <1>1, DownAppended DEF SendDown
    <2> QED BY <2>1, <2>2
<1>4. \A m \in ccchUp' : m.resumeIdentity = NoRnti => m.rnti # r
    BY DEF Paged, PagedInv, Msg3Paged, Established, SuspendedStates
<1>5. \A m \in ccchDown' : IF m.rnti = r THEN AnswerPaged(m)' ELSE m \in ccchDown
    BY DEF Paged, PagedInv, AnswerPaged, Established, SuspendedStates
<1>6. rnti = r => ServingPaged'
    BY <1>1, <1>3, EstablishedServing
<1>7. rnti # r => UNCHANGED dcchUp \/ UpOfOther
    BY DEF UpOfOther
<1> QED BY <1>1, <1>2, <1>3, <1>4, <1>5, <1>6, <1>7, PagedGnbStep

\* The grant or the assignment that carried a message.
LEMMA DataActivityPaged ==
    ASSUME Paged, TypeInv', NEW r \in Rntis, NotifyDataActivity(r),
           UNCHANGED <<ueVars, redCap, fatal, waited, messages>>
    PROVE  Paged'
<1>1. ueMap[r] \in Contexts /\ PagedFits(ueMap[r])
    BY PagedContext
<1>2. Context(r, Refreshed(ueMap[r]))
    BY DEF NotifyDataActivity
<1> DEFINE d == Refreshed(ueMap[r])
<1>3. /\ d \in Contexts /\ PagedFits(d) /\ d.state = ueMap[r].state
      /\ d.setupTimeout = ueMap[r].setupTimeout /\ d.inRACH = ueMap[r].inRACH
      /\ Unconfigured(ueMap[r]) => Unconfigured(d)
    BY <1>1, PagedRefreshed
<1> HIDE DEF d
<1> QED BY <1>2, <1>3, PagedKeptStep DEF d

\* Downlink data: buffered, or an error that is expected.
LEMMA SendDataPaged ==
    ASSUME Paged, TypeInv', SendData, UNCHANGED <<ueVars, redCap, waited>>
    PROVE  Paged' \/ fatal' \in DownlinkErrors
<1> DEFINE r == s1Rnti
           c == ueMap[r]
           d == [c EXCEPT !.buffered = @ + 1,
                          !.state = IF @ = "INACTIVE" THEN "INACTIVE_CONNECTING" ELSE @]
<1>1. CASE GnbStops("SendData")
    BY <1>1 DEF GnbStops, DownlinkErrors
<1>2. CASE /\ HasUeManager(r) /\ c.state \in BufferingStates /\ c.buffered < MaxBuffered
           /\ Context(r, d) /\ UNCHANGED <<messages, fatal>>
    <2>1. r \in Rntis /\ c \in Contexts /\ PagedFits(c)
        BY <1>2, PagedContext DEF HasUeManager
    <2>2. c.buffered + 1 \in 0..MaxBuffered
        BY <1>2, <2>1, GnbRrcAssumption DEF Contexts
    <2>3. /\ d \in Contexts /\ d.setupTimeout = c.setupTimeout /\ d.requestTimeout = c.requestTimeout
          /\ d.rejectedTimeout = c.rejectedTimeout /\ d.drbs = c.drbs /\ d.inRACH = c.inRACH
          /\ d.inactivityTimeout = c.inactivityTimeout /\ d.forgotten = c.forgotten
          /\ d.releaseBwp = c.releaseBwp /\ d.polling = c.polling /\ d.switchingBwp = c.switchingBwp
          /\ d.state = IF c.state = "INACTIVE" THEN "INACTIVE_CONNECTING" ELSE c.state
        BY <2>1, <2>2 DEF Contexts, GnbStates
    <2> HIDE DEF d
    <2>u. UNCHANGED <<ccchUp, ccchDown, dcchUp, dcchDown, removals>>
        BY <1>2 DEF messages
    <2>4. CASE c.state \in Established
        <3>1. /\ c.requestTimeout = Off /\ c.setupTimeout = Off /\ c.rejectedTimeout = Off /\ c.drbs
            BY <2>1, <2>4, EstablishedMeans
        <3>2. d.state \in Established
            BY <2>3, <2>4 DEF Established, SuspendedStates
        <3>3. ~(rnti = r /\ AwaitsBearers)
            BY <1>2, <2>4, AwaitsMeans DEF BufferingStates
        <3> QED BY <1>2, <2>1, <2>3, <2>4, <2>u, <3>1, <3>2, <3>3, EstablishedStep
    <2>5. CASE c.state \notin Established
        <3>1. d.state = c.state /\ ~Unconfigured(c)
            BY <1>2, <2>3, <2>5 DEF Established, SuspendedStates, Unconfigured, BufferingStates
        <3>2. PagedFits(d)
            BY <2>1, <2>3, <3>1 DEF PagedFits
        <3> QED BY <1>2, <2>1, <2>3, <3>1, <3>2, PagedKeptStep
    <2> QED BY <2>4, <2>5
<1> QED BY <1>1, <1>2 DEF SendData

\* Msg3 asks for a connection: its context is admitted.
LEMMA ConnectionRequestPaged ==
    ASSUME Paged, TypeInv', FALSE \notin AdmitChoices, NEW r \in Rntis, RecvRrcConnectionRequest(r),
           UNCHANGED <<ueVars, redCap, waited>>
    PROVE  Paged'
<1> DEFINE m0 == [rnti |-> r, resumeIdentity |-> NoRnti, sdt |-> FALSE]
           c == ueMap[r]
           d == [c EXCEPT !.inRACH = TRUE, !.requestTimeout = Off, !.state = "CONNECTION_SETUP",
                          !.setupTimeout = ConnectionSetupTimeoutDuration]
           a == [type |-> "RrcSetup", rnti |-> r]
<1>u. UNCHANGED <<ueState, rnti, setupCompleted, releases, drbs, dcchUp, removals, waited>>
    BY DEF ueVars, ueFlags, RecvRrcConnectionRequest
<1>1. /\ c \in Contexts /\ PagedFits(c) /\ dcchDown \in [Rntis -> Seq(DcchDownTypes)]
      /\ ueMap \in [Rntis -> Contexts]
    BY PagedContext
<1>2. m0 \in ccchUp /\ ccchUp' = ccchUp \ {m0} /\ c.state = "INITIAL_RANDOM_ACCESS"
    <2>1. m0 \in ccchUp /\ ccchUp' = ccchUp \ {m0} /\ c.state # "NONE"
        BY DEF RecvRrcConnectionRequest, HasUeManager
    <2>2. Msg3Paged(m0)
        BY <2>1 DEF Paged, PagedInv
    <2> QED BY <2>1, <2>2 DEF Msg3Paged
<1>3. /\ Context(r, d) /\ ccchDown' = ccchDown \cup {a} /\ UNCHANGED <<dcchDown, fatal>>
    BY <1>2 DEF RecvRrcConnectionRequest, SendCcchDown
<1>4. /\ d \in Contexts /\ d.state = "CONNECTION_SETUP" /\ d.inRACH
      /\ d.setupTimeout = ConnectionSetupTimeoutDuration
      /\ PagedFits(d)
    <2>1. d \in Contexts
        BY <1>1, ContextValues DEF Contexts, GnbStates
    <2>2. /\ d.state = "CONNECTION_SETUP" /\ d.inRACH
          /\ d.setupTimeout = ConnectionSetupTimeoutDuration /\ d.requestTimeout = Off
          /\ d.rejectedTimeout = c.rejectedTimeout /\ d.inactivityTimeout = c.inactivityTimeout
          /\ d.forgotten = c.forgotten /\ d.releaseBwp = c.releaseBwp /\ d.polling = c.polling
          /\ d.switchingBwp = c.switchingBwp
        BY <1>1 DEF Contexts
    <2> HIDE DEF d
    <2>3. PagedFits(d)
        BY <1>1, <1>2, <2>2 DEF PagedFits, IsRunning, Established, SuspendedStates
    <2> QED BY <2>1, <2>2, <2>3
<1> HIDE DEF d
<1>5. ueMap'[r] = d
    BY <1>1, <1>3 DEF Context
<1>6. \A m \in ccchUp' : m.resumeIdentity = NoRnti => m.rnti # r
    <2>1. ASSUME NEW m \in ccchUp, m.resumeIdentity = NoRnti, m.rnti = r
          PROVE  m = m0
        <3>1. ~m.sdt /\ m \in [rnti : Rntis, resumeIdentity : AnyRnti, sdt : BOOLEAN]
            BY <2>1, PagedTypes DEF Paged, PagedInv, Msg3Paged
        <3> QED BY <2>1, <3>1
    <2> QED BY <2>1, <1>2
<1>7. rnti = r => ueState \in IdleStates \cup {"IDLE_CONNECTING"}
    <2>1. SUFFICES ASSUME rnti = r, ueState \notin IdleStates \cup {"IDLE_CONNECTING"} PROVE FALSE
        OBVIOUS
    <2>2. ueState \in Settled \cup {"CONNECTED_NORMALLY"}
        BY <2>1, PagedTypes, PagedStates
    <2>3. ServingPaged
        BY DEF Paged, PagedInv
    <2> QED BY <1>2, <2>1, <2>2, <2>3 DEF ServingPaged, ConnectedPaged, SettingUp, Unconfigured, Established,
               SuspendedStates
<1>8. \A m \in ccchDown' : IF m.rnti = r THEN AnswerPaged(m)' ELSE m \in ccchDown
    <2>1. \A m \in ccchDown : m.rnti # r
        BY <1>2 DEF Paged, PagedInv, AnswerPaged
    <2>2. AnswerPaged(a)'
        <3>1. ConnectionSetupTimeoutDuration + waited >= ConnectionSetupTimeoutDuration
            BY PagedConstants, PagedTypes
        <3> QED BY <3>1, <1>4, <1>5, <1>7, <1>u DEF AnswerPaged
    <2>3. a.rnti = r
        OBVIOUS
    <2> HIDE DEF a
    <2> QED BY <2>1, <2>2, <2>3, <1>3
<1>9. rnti = r => ServingPaged'
    <2>1. SUFFICES ASSUME rnti = r PROVE ServingPaged'
        OBVIOUS
    <2>2. ServingPaged
        BY DEF Paged, PagedInv
    <2>3. ueState # "CONNECTED_NORMALLY" /\ ueState \notin Settled
        BY <1>7, <2>1, PagedStates
    <2>4. (NoSetupCompleted => NoSetupCompleted') /\ (NoUpOf(rnti) => NoUpOf(rnti)')
        BY <1>u DEF NoSetupCompleted, NoUpOf
    <2> QED BY <1>3, <1>4, <1>5, <1>u, <2>1, <2>2, <2>3, <2>4 DEF ServingPaged
<1>10. /\ ueMap[r].state \notin Established /\ NoRelease(dcchDown'[r])
       /\ ccchUp' \subseteq ccchUp /\ \A q \in Rntis \ {r} : dcchDown'[q] = dcchDown[q]
    BY <1>2, <1>3, PagedContext DEF Established, SuspendedStates
<1> HIDE DEF m0, a
<1> QED BY <1>3, <1>4, <1>6, <1>8, <1>9, <1>10, <1>u, PagedGnbStep

\* Msg3 asks for the resumption of a context, which the gNB may be about to
\* reconfigure because nobody has told the inactivity timer.
LEMMA ResumeRequestPaged ==
    ASSUME Paged, TypeInv', FALSE \notin AdmitChoices, NEW m \in ccchUp, RecvRrcResumeRequest(m),
           UNCHANGED <<ueVars, redCap, waited>>
    PROVE  Paged' \/ fatal' \in DownlinkErrors
<1> DEFINE id == m.resumeIdentity
           c == ueMap[id]
           d == Resumed(c)
<1>1. id \in Rntis /\ c.state \in Established /\ c \in Contexts /\ PagedFits(c)
    <2>1. Msg3Paged(m) /\ id \in AnyRnti /\ id # NoRnti
        BY PagedTypes DEF Paged, PagedInv, RecvRrcResumeRequest
    <2> QED BY <2>1, PagedContext DEF Msg3Paged, AnyRnti
<1>2. HasUeManager(id)
    BY <1>1 DEF HasUeManager, Established, SuspendedStates
<1>3. CASE c.state \notin {"INACTIVE", "INACTIVE_CONNECTING"}
    BY <1>2, <1>3 DEF RecvRrcResumeRequest, GnbStops, DownlinkErrors
<1>4. CASE c.state \in {"INACTIVE", "INACTIVE_CONNECTING"}
    <2>1. /\ Context(id, d) /\ UNCHANGED <<ccchDown, fatal, dcchUp, removals>>
          /\ ccchUp' \subseteq ccchUp
          /\ SendDown(IF m.sdt THEN "RrcReleaseSuspend" ELSE "RrcResume", id)
        <3>1. m.sdt \in BOOLEAN
            BY PagedTypes
        <3> QED BY <3>1, <1>2, <1>4 DEF RecvRrcResumeRequest
    <2>2. \E t \in DcchDownTypes \ {"RrcRelease"} : SendDown(t, id)
        BY <2>1 DEF DcchDownTypes
    <2>3. /\ d \in Contexts /\ d.state \in Established
          /\ d.requestTimeout = Off /\ d.setupTimeout = Off /\ d.rejectedTimeout = Off /\ d.drbs
        <3>1. /\ d \in Contexts /\ d.state = "INACTIVE_CONNECTING" /\ d.requestTimeout = c.requestTimeout
              /\ d.setupTimeout = c.setupTimeout /\ d.rejectedTimeout = c.rejectedTimeout
              /\ d.drbs = c.drbs
            BY <1>1 DEF Resumed, Contexts, GnbStates
        <3> QED BY <3>1, <1>1, EstablishedMeans DEF Established, SuspendedStates
    <2>4. ~(rnti = id /\ AwaitsBearers)
        BY <1>1, <1>4, AwaitsMeans
    <2> HIDE DEF d
    <2> QED BY <1>1, <2>1, <2>2, <2>3, <2>4, EstablishedStep
<1> QED BY <1>3, <1>4

\* RrcSetupCompleted comes from the UE that is being set up.
LEMMA SetupCompletedReceivedPaged ==
    ASSUME Paged, TypeInv', NEW r \in Rntis, RecvRrcConnectionSetupCompleted(r),
           UNCHANGED <<ueVars, redCap, waited>>
    PROVE  Paged'
<1> DEFINE c == ueMap[r]
           e == Refreshed(c)
           d == [e EXCEPT !.state = "ATTACH_REQUEST", !.setupTimeout = Off,
                          !.switchingBwp = SetupBwpSwitch, !.pending = TRUE]
<1>u. UNCHANGED <<ueState, rnti, setupCompleted, releases, drbs, ccchUp, removals, waited>>
    BY DEF ueVars, ueFlags, RecvRrcConnectionSetupCompleted
<1>1. /\ dcchUp # << >> /\ Head(dcchUp) = [type |-> "RrcSetupCompleted", rnti |-> r]
      /\ dcchUp' = Tail(dcchUp)
    BY DEF RecvRrcConnectionSetupCompleted, ReceiveUp
<1>2. /\ Len(dcchUp) \in Nat /\ Len(dcchUp) > 0 /\ Head(dcchUp) = dcchUp[1]
    BY <1>1, PagedTypes
<1>3. ~NoSetupCompleted
    <2>1. 1 \in 1..Len(dcchUp)
        BY <1>2
    <2> QED BY <1>1, <1>2, <2>1 DEF NoSetupCompleted
<1>4. /\ ueState = "CONNECTED_NORMALLY" /\ ~IsRunning(setupCompleted) /\ SetupCompletedIsLast
      /\ SettingUp(ueMap[rnti]) /\ dcchDown[rnti] = << >> /\ releases = << >>
    BY <1>3 DEF Paged, PagedInv, ServingPaged, ConnectedPaged, SettingUp
<1>5. r = rnti
    <2>1. Len(dcchUp) > 1 => 1 \in 1..(Len(dcchUp) - 1)
        BY <1>2
    <2>2. dcchUp[1].type = "RrcSetupCompleted" /\ dcchUp[1].rnti = r
        BY <1>1, <1>2
    <2>3. ~(Len(dcchUp) > 1)
        BY <1>4, <2>1, <2>2 DEF SetupCompletedIsLast
    <2>4. ASSUME NEW n \in Nat, n > 0, ~(n > 1)
          PROVE  n = 1
        BY <2>4
    <2>5. Len(dcchUp) = 1
        BY <1>2, <2>3, <2>4
    <2> QED BY <1>4, <2>2, <2>5 DEF SetupCompletedIsLast
<1>6. dcchUp' = << >>
    <2>1. Head(dcchUp).rnti = rnti
        BY <1>1, <1>5
    <2> QED BY <2>1, <1>1, <1>4, <1>u, PagedTypes, UpTail
<1>7. c \in Contexts /\ PagedFits(c) /\ c.state = "CONNECTION_SETUP" /\ c.inRACH
      /\ ueMap \in [Rntis -> Contexts]
    BY <1>4, <1>5, PagedContext DEF SettingUp
<1>8. Context(r, d) /\ UNCHANGED <<ccchDown, dcchDown, fatal>>
    BY <1>7 DEF RecvRrcConnectionSetupCompleted, AttachRequested
<1>9. /\ e \in Contexts /\ PagedFits(e) /\ e.state = "CONNECTION_SETUP" /\ e.inRACH
    BY <1>7, PagedRefreshed
<1> HIDE DEF e
<1>10. /\ d \in Contexts /\ PagedFits(d) /\ Unconfigured(d) /\ d.state = "ATTACH_REQUEST"
    <2>1. d \in Contexts
        BY <1>9, ContextValues DEF Contexts, GnbStates
    <2>2. /\ d.state = "ATTACH_REQUEST" /\ d.inRACH = e.inRACH /\ d.pending
          /\ d.setupTimeout = Off /\ d.requestTimeout = e.requestTimeout
          /\ d.rejectedTimeout = e.rejectedTimeout /\ d.inactivityTimeout = e.inactivityTimeout
          /\ d.forgotten = e.forgotten /\ d.releaseBwp = e.releaseBwp /\ d.polling = e.polling
          /\ d.switchingBwp = SetupBwpSwitch
        BY <1>9 DEF Contexts
    <2>3. SetupBwpSwitch > 0
        BY GnbRrcAssumption DEF Durations
    <2> HIDE DEF d
    <2>4. PagedFits(d) /\ Unconfigured(d)
        BY <1>9, <2>2, <2>3 DEF PagedFits, Unconfigured, IsRunning, Established, SuspendedStates
    <2> QED BY <2>1, <2>2, <2>4
<1> HIDE DEF d
<1>11. ueMap'[r] = d
    BY <1>7, <1>8 DEF Context
<1>12. ServingPaged'
    <2>1. NoUpOf(rnti)' /\ NoSetupCompleted'
        BY <1>6 DEF NoUpOf, NoSetupCompleted
    <2>2. Unconfigured(ueMap[rnti])'
        BY <1>5, <1>10, <1>11, <1>u DEF Unconfigured
    <2>3. ConnectedPaged(ueMap[rnti], dcchDown[rnti])'
        BY <1>4, <1>8, <1>u, <2>1, <2>2 DEF ConnectedPaged
    <2> QED BY <1>4, <1>u, <2>1, <2>3, PagedStates DEF ServingPaged
<1>13. \A m \in ccchDown' : IF m.rnti = r THEN AnswerPaged(m)' ELSE m \in ccchDown
    BY <1>4, <1>5, <1>8, PagedStates DEF Paged, PagedInv, AnswerPaged
<1>14. \A m \in ccchUp' : m.resumeIdentity = NoRnti => m.rnti # r
    BY <1>7, <1>u DEF Paged, PagedInv, Msg3Paged
<1>15. c.state \notin Established /\ NoRelease(dcchDown'[r])
    BY <1>7, <1>8, PagedContext DEF Established, SuspendedStates
<1> QED BY <1>8, <1>10, <1>12, <1>13, <1>14, <1>15, <1>5, <1>u, PagedGnbStep

\* The bearers of a connection are set up.
LEMMA ContextSetupPaged ==
    ASSUME Paged, TypeInv', NEW r \in Rntis, InitialContextSetupRequest(r),
           UNCHANGED <<ueVars, redCap, waited>>
    PROVE  Paged'
<1> DEFINE c == ueMap[r]
           d == Connected([c EXCEPT !.drbs = TRUE])
<1>u. UNCHANGED <<ueState, rnti, setupCompleted, releases, drbs, dcchUp, ccchUp, ccchDown, dcchDown,
                  removals, fatal, waited>>
    BY DEF ueVars, ueFlags, InitialContextSetupRequest, messages
<1>1. /\ c \in Contexts /\ PagedFits(c) /\ ueMap \in [Rntis -> Contexts]
      /\ c.state = "ATTACH_REQUEST" /\ Context(r, d)
    BY PagedContext DEF InitialContextSetupRequest
<1>2. /\ d \in Contexts /\ d.state = "CONNECTED_NORMALLY" /\ d.drbs /\ d.inRACH = c.inRACH
      /\ d.pending = c.pending /\ d.polling = (c.polling \/ c.pending)
      /\ d.requestTimeout = c.requestTimeout /\ d.setupTimeout = c.setupTimeout
      /\ d.rejectedTimeout = c.rejectedTimeout /\ d.inactivityTimeout = c.inactivityTimeout
      /\ d.forgotten = c.forgotten /\ d.releaseBwp = c.releaseBwp /\ d.switchingBwp = c.switchingBwp
    BY <1>1 DEF Connected, Contexts, GnbStates
<1> HIDE DEF d
<1>3. PagedFits(d) /\ (Unconfigured(c) => Unconfigured(d))
    <2>1. /\ c.inactivityTimeout = Off /\ c.switchingBwp > 0
          /\ c.requestTimeout = Off /\ c.setupTimeout = Off /\ c.rejectedTimeout = Off
        BY <1>1 DEF PagedFits, IsRunning, Established, SuspendedStates
    <2>2. IsRunning(c.switchingBwp)
        BY <2>1 DEF IsRunning, Off
    <2>3. PagedFits(d)
        BY <2>1, <1>2 DEF PagedFits, IsRunning, Established
    <2>4. Unconfigured(c) => Unconfigured(d)
        BY <2>1, <2>2, <1>1, <1>2 DEF Unconfigured
    <2> QED BY <2>3, <2>4
<1>4. ueMap'[r] = d
    BY <1>1 DEF Context
<1>5. rnti = r => ServingPaged'
    <2>1. SUFFICES ASSUME rnti = r PROVE ServingPaged'
        OBVIOUS
    <2>2. ServingPaged
        BY DEF Paged, PagedInv
    <2>3. (NoSetupCompleted => NoSetupCompleted') /\ (NoUpOf(rnti) => NoUpOf(rnti)')
        BY <1>u DEF NoSetupCompleted, NoUpOf
    <2>4. ueState # "IDLE_CONNECTING" /\ ueState \notin Settled
        BY <1>1, <2>1, <2>2 DEF ServingPaged, Established, SuspendedStates
    <2>5. ASSUME ueState = "CONNECTED_NORMALLY"
          PROVE  ConnectedPaged(ueMap[rnti], dcchDown[rnti])'
        <3>1. /\ ~IsRunning(setupCompleted) /\ NoSetupCompleted /\ NoUpOf(rnti) /\ Unconfigured(c)
              /\ dcchDown[rnti] = << >> /\ releases = << >>
            BY <1>1, <2>1, <2>2, <2>5 DEF ServingPaged, ConnectedPaged, SettingUp, Established, SuspendedStates
        <3>2. Unconfigured(ueMap[rnti])'
            BY <3>1, <1>3, <1>4, <1>u, <2>1 DEF Unconfigured
        <3> QED BY <3>1, <3>2, <1>u, <2>3 DEF ConnectedPaged
    <2> QED BY <1>u, <2>2, <2>3, <2>4, <2>5 DEF ServingPaged
<1>6. \A m \in ccchDown' : IF m.rnti = r THEN AnswerPaged(m)' ELSE m \in ccchDown
    BY <1>1, <1>u DEF Paged, PagedInv, AnswerPaged
<1>7. \A m \in ccchUp' : m.resumeIdentity = NoRnti => m.rnti # r
    BY <1>1, <1>u DEF Paged, PagedInv, Msg3Paged
<1>8. d.state \in Established /\ NoRelease(dcchDown'[r])
    BY <1>2, <1>u, PagedContext DEF Established
<1> QED BY <1>1, <1>2, <1>3, <1>5, <1>6, <1>7, <1>8, <1>u, PagedGnbStep

\* RrcResumeComplete: the resumption it completes may have been released meanwhile.
LEMMA ResumeCompletePaged ==
    ASSUME Paged, TypeInv', NEW r \in Rntis, RecvRrcResumeComplete(r),
           UNCHANGED <<ueVars, redCap, waited>>
    PROVE  Paged' \/ fatal' \in DownlinkErrors
<1> DEFINE c == ueMap[r]
           e == Refreshed(c)
           d == Connected([e EXCEPT !.switchingBwp = ResumeBwpSwitch, !.pending = TRUE])
<1>1. CASE c.state # "INACTIVE_CONNECTING"
    BY <1>1 DEF RecvRrcResumeComplete, GnbStops, DownlinkErrors
<1>2. CASE c.state = "INACTIVE_CONNECTING"
    <2>1. c \in Contexts /\ PagedFits(c) /\ c.state \in Established
        BY <1>2, PagedContext DEF Established, SuspendedStates
    <2>2. /\ Context(r, d) /\ UNCHANGED <<ccchUp, ccchDown, dcchDown, removals, fatal>>
          /\ dcchUp # << >> /\ Head(dcchUp).rnti = r /\ dcchUp' = Tail(dcchUp)
        BY <1>2 DEF RecvRrcResumeComplete, ReceiveUp
    <2>3. e \in Contexts /\ PagedFits(e) /\ e.state \in Established
        BY <2>1, PagedRefreshed
    <2> HIDE DEF e
    <2>4. /\ d \in Contexts /\ d.state \in Established /\ d.drbs
          /\ d.requestTimeout = Off /\ d.setupTimeout = Off /\ d.rejectedTimeout = Off
        <3>1. /\ d \in Contexts /\ d.state = "CONNECTED_NORMALLY" /\ d.drbs = e.drbs
              /\ d.requestTimeout = e.requestTimeout /\ d.setupTimeout = e.setupTimeout
              /\ d.rejectedTimeout = e.rejectedTimeout
            BY <2>3, ContextValues DEF Connected, Contexts, GnbStates
        <3> QED BY <3>1, <2>3, EstablishedMeans DEF Established
    <2>5. ~(rnti = r /\ AwaitsBearers)
        BY <1>2, <2>1, AwaitsMeans
    <2> HIDE DEF d
    <2> QED BY <2>1, <2>2, <2>4, <2>5, EstablishedStep
<1> QED BY <1>1, <1>2

\* RrcReconfigurationCompleted.
LEMMA ReconfigurationCompletedPaged ==
    ASSUME Paged, TypeInv', NEW r \in Rntis, RecvRrcConnectionReconfigurationCompleted(r),
           UNCHANGED <<ueVars, redCap, waited>>
    PROVE  Paged'
<1> DEFINE e == Refreshed(ueMap[r])
           c == [e EXCEPT !.inRACH = FALSE]
           d == IF c.state = "CONNECTION_RECONFIGURATION"
                THEN Connected([c EXCEPT !.buffered = 0]) ELSE c
<1>1. /\ Context(r, d) /\ UNCHANGED <<ccchUp, ccchDown, dcchDown, removals, fatal>>
      /\ dcchUp # << >> /\ Head(dcchUp) = [type |-> "RrcReconfigurationCompleted", rnti |-> r]
      /\ dcchUp' = Tail(dcchUp)
    BY DEF RecvRrcConnectionReconfigurationCompleted, ReceiveUp
<1>2. /\ e \in Contexts /\ PagedFits(e) /\ e.state = ueMap[r].state
      /\ e.setupTimeout = ueMap[r].setupTimeout
      /\ ueMap[r] \in Contexts /\ PagedFits(ueMap[r]) /\ ueMap \in [Rntis -> Contexts]
    BY PagedContext, PagedRefreshed
<1> HIDE DEF e
<1>3. /\ d \in Contexts /\ d.drbs = e.drbs /\ d.requestTimeout = e.requestTimeout
      /\ d.setupTimeout = e.setupTimeout /\ d.rejectedTimeout = e.rejectedTimeout
      /\ d.state = IF e.state = "CONNECTION_RECONFIGURATION" THEN "CONNECTED_NORMALLY" ELSE e.state
      /\ e.state # "CONNECTION_RECONFIGURATION" =>
            /\ d.inactivityTimeout = e.inactivityTimeout /\ d.forgotten = e.forgotten
            /\ d.releaseBwp = e.releaseBwp /\ d.polling = e.polling
            /\ d.switchingBwp = e.switchingBwp
    BY <1>2, ContextValues DEF Connected, Contexts, GnbStates
<1> HIDE DEF d
<1>4. /\ Len(dcchUp) \in Nat /\ Len(dcchUp) > 0 /\ 1 \in 1..Len(dcchUp)
      /\ dcchUp[1].rnti = r /\ dcchUp[1].type = "RrcReconfigurationCompleted"
      /\ (Len(dcchUp) = 1 \/ 1 \in 1..(Len(dcchUp) - 1))
    <2>1. dcchUp[1] = Head(dcchUp) /\ Len(dcchUp) \in Nat /\ Len(dcchUp) > 0
        BY <1>1, PagedTypes
    <2>2. ASSUME NEW n \in Nat, n > 0
          PROVE  1 \in 1..n /\ (n = 1 \/ 1 \in 1..(n - 1))
        BY <2>2
    <2>3. dcchUp[1].rnti = r /\ dcchUp[1].type = "RrcReconfigurationCompleted"
        BY <1>1, <2>1
    <2> DEFINE n == Len(dcchUp)
    <2>4. n \in Nat /\ n > 0
        BY <2>1
    <2> HIDE DEF n
    <2>5. n \in Nat /\ n > 0 /\ 1 \in 1..n /\ (n = 1 \/ 1 \in 1..(n - 1))
        BY <2>2, <2>4
    <2> QED BY <2>3, <2>5 DEF n
<1>5. ~NoUpOf(r) /\ (rnti = r => ~SetupCompletedIsLast)
    BY <1>4 DEF NoUpOf, SetupCompletedIsLast
<1>6. CASE ueMap[r].state \in Established
    <2>1. /\ d.state \in Established /\ d.drbs
          /\ d.requestTimeout = Off /\ d.setupTimeout = Off /\ d.rejectedTimeout = Off
        BY <1>2, <1>3, <1>6, EstablishedMeans DEF Established
    <2>2. ~(rnti = r /\ AwaitsBearers)
        BY <1>5, <1>6, AwaitsMeans
    <2> QED BY <1>1, <1>3, <1>6, <2>1, <2>2, EstablishedStep
<1>7. CASE ueMap[r].state \notin Established
    <2>u. UNCHANGED <<ueState, rnti, waited, setupCompleted>>
        BY DEF ueVars, ueFlags
    <2>1. d.state = ueMap[r].state
        BY <1>2, <1>3, <1>7 DEF Established
    <2>2. PagedFits(d)
        BY <1>2, <1>3, <1>7, <2>1 DEF PagedFits, Established
    <2>3. ServingPaged
        BY DEF Paged, PagedInv
    <2>4. rnti = r => ueState \notin {"IDLE_CONNECTING", "CONNECTED_NORMALLY"} \cup Settled
        BY <1>5, <1>7, <2>3 DEF ServingPaged, ConnectedPaged, SettingUp
    <2>5. rnti = r => ServingPaged'
        <3>1. NoSetupCompleted => NoSetupCompleted'
            BY <1>1, <2>u, PagedTypes, UpTail
        <3> QED BY <3>1, <2>3, <2>4, <2>u DEF ServingPaged
    <2>6. ueMap'[r] = d
        BY <1>1, <1>2 DEF Context
    <2>7. \A m \in ccchDown' : IF m.rnti = r THEN AnswerPaged(m)' ELSE m \in ccchDown
        <3>1. ASSUME NEW m \in ccchDown, m.rnti = r
              PROVE  AnswerPaged(m)'
            <4>1. AnswerPaged(m)
                BY DEF Paged, PagedInv
            <4> QED BY <3>1, <4>1, <1>2, <1>3, <2>1, <2>6, <2>u DEF AnswerPaged
        <3> QED BY <3>1, <1>1
    <2>8. \/ d.state \in {"NONE", "INITIAL_RANDOM_ACCESS"}
          \/ \A m \in ccchUp' : m.resumeIdentity = NoRnti => m.rnti # r
        BY <1>1, <2>1 DEF Paged, PagedInv, Msg3Paged
    <2>9. rnti # r => UpOfOther
        BY <1>1 DEF UpOfOther
    <2>10. NoRelease(dcchDown'[r])
        BY <1>1, PagedContext
    <2> QED BY <1>1, <1>3, <1>7, <2>1, <2>2, <2>5, <2>7, <2>8, <2>9, <2>10, PagedGnbStep
<1> QED BY <1>6, <1>7

\* A timeout removes a context that serves nobody.
LEMMA ConnectionTimeoutsPaged ==
    ASSUME Paged, TypeInv', DurationsInOrder, NEW r \in Rntis, ConnectionTimeouts(r),
           UNCHANGED <<ueVars, redCap, waited>>
    PROVE  Paged'
<1> DEFINE c == ueMap[r]
<1>u. UNCHANGED <<ueState, rnti, setupCompleted, releases, drbs, dcchUp, ccchUp, removals, waited>>
    BY DEF ueVars, ueFlags, ConnectionTimeouts
<1>1. /\ c \in Contexts /\ PagedFits(c) /\ ueMap \in [Rntis -> Contexts]
      /\ dcchDown \in [Rntis -> Seq(DcchDownTypes)]
    BY PagedContext
<1>2. \/ c.requestTimeout = 0 /\ c.state = "INITIAL_RANDOM_ACCESS"
      \/ c.setupTimeout = 0 /\ c.state = "CONNECTION_SETUP"
    <2>1. 0 \in {c.requestTimeout, c.setupTimeout, c.rejectedTimeout} /\ 0 # Off
        BY DEF ConnectionTimeouts, Off
    <2> QED BY <1>1, <2>1 DEF PagedFits, IsRunning
<1>3. c.state \notin Established /\ ~KeepsEvents(c)
    BY <1>1, <1>2 DEF PagedFits, KeepsEvents, Established, SuspendedStates, IsRunning
<1>4. /\ Context(r, NoContext) /\ UNCHANGED fatal
      /\ ccchDown' = {m \in ccchDown : m.rnti # r}
      /\ dcchDown' = [dcchDown EXCEPT ![r] = << >>]
    BY <1>3 DEF ConnectionTimeouts, RemoveUe, DropChannels
<1>5. ueMap'[r] = NoContext /\ dcchDown'[r] = << >> /\ NoContext.state = "NONE"
      /\ \A q \in Rntis \ {r} : dcchDown'[q] = dcchDown[q]
    BY <1>1, <1>4 DEF Context, NoContext
<1>6. PagedFits(NoContext) /\ NoContext \in Contexts /\ NoRelease(dcchDown'[r])
    BY <1>5, NoContextType DEF PagedFits, NoContext, IsRunning, Established, SuspendedStates, NoRelease
<1>7. rnti = r => ServingPaged'
    <2>1. SUFFICES ASSUME rnti = r PROVE ServingPaged'
        OBVIOUS
    <2>2. ServingPaged
        BY DEF Paged, PagedInv
    <2>3. (NoSetupCompleted => NoSetupCompleted') /\ (NoUpOf(rnti) => NoUpOf(rnti)')
        BY <1>u DEF NoSetupCompleted, NoUpOf
    <2>4. ueState \notin Settled
        BY <1>3, <2>1, <2>2 DEF ServingPaged
    <2>5. ueState # "CONNECTED_NORMALLY"
        <3>1. SUFFICES ASSUME ueState = "CONNECTED_NORMALLY" PROVE FALSE
            OBVIOUS
        <3>2. SettingUp(c)
            BY <1>2, <1>3, <2>1, <2>2, <3>1 DEF ServingPaged, ConnectedPaged, Unconfigured
        <3>3. c.setupTimeout = 0
            BY <1>2, <3>2 DEF SettingUp
        <3>4. IsRunning(setupCompleted) => setupCompleted >= 0
            BY PagedTypes, PagedConstants DEF IsRunning, Off
        <3>5. /\ setupCompleted \in Int /\ waited \in 0..MaxDelay
              /\ MaxDelay \in Nat /\ ProcDelay \in Nat /\ ConnectionSetupTimeoutDuration \in Nat
              /\ 2 * MaxDelay + ProcDelay < ConnectionSetupTimeoutDuration
            BY PagedTypes, PagedConstants DEF DurationsInOrder, Off
        <3>6. \/ 0 + MaxDelay + ProcDelay >= ConnectionSetupTimeoutDuration + setupCompleted
                 /\ setupCompleted >= 0
              \/ 0 + MaxDelay + ProcDelay + waited >= ConnectionSetupTimeoutDuration
            BY <3>2, <3>3, <3>4 DEF SettingUp
        <3> HIDE DEF c
        <3> QED BY <3>5, <3>6
    <2> QED BY <1>5, <1>u, <2>1, <2>2, <2>3, <2>4, <2>5 DEF ServingPaged
<1>8. \A m \in ccchDown' : m.rnti # r /\ m \in ccchDown
    BY <1>4
<1> QED BY <1>3, <1>4, <1>5, <1>6, <1>7, <1>8, <1>u, PagedGnbStep

\* The bandwidth part has been switched: of a connection, or of a context that was
\* released and may be paged.
LEMMA BwpSwitchPaged ==
    ASSUME Paged, TypeInv', NEW r \in Rntis, BwpSwitchCompleted(r), UNCHANGED <<ueVars, redCap, waited>>
    PROVE  Paged'
<1> DEFINE c == ueMap[r]
<1>1. c \in Contexts /\ PagedFits(c)
    BY PagedContext
<1>2. PICK b \in Contexts :
        /\ \/ c.switchingBwp = 0 /\ b = c
           \/ 0 \in c.releaseBwp /\ b = [c EXCEPT !.releaseBwp = @ \ {0}]
        /\ Context(r, BwpSwitched(b))
    <2>1. [c EXCEPT !.releaseBwp = @ \ {0}] \in Contexts
        BY <1>1 DEF Contexts
    <2> QED BY <1>1, <2>1 DEF BwpSwitchCompleted
<1>3. c.state \in Established
    BY <1>1, <1>2 DEF PagedFits, Off
<1> DEFINE d == BwpSwitched(b)
<1>4. /\ b.state = c.state /\ b.drbs = c.drbs /\ b.requestTimeout = c.requestTimeout
      /\ b.setupTimeout = c.setupTimeout /\ b.rejectedTimeout = c.rejectedTimeout
    BY <1>1, <1>2 DEF Contexts
<1>5. /\ d \in Contexts /\ d.state = b.state /\ d.drbs = b.drbs /\ d.requestTimeout = b.requestTimeout
      /\ d.setupTimeout = b.setupTimeout /\ d.rejectedTimeout = b.rejectedTimeout
      /\ d.inRACH = b.inRACH /\ d.pending = b.pending /\ d.polling = b.polling
      /\ d.releaseBwp = b.releaseBwp /\ d.switchingBwp = Off
      /\ b.state # "INACTIVE" => d.inactivityTimeout = DataInactivityInterval
      /\ ~IsRunning(b.inactivityTimeout) => d.forgotten = b.forgotten
    <2>1. d \in Contexts /\ d.state = b.state /\ d.drbs = b.drbs
        BY BwpSwitchedType
    <2>2. /\ d.requestTimeout = b.requestTimeout
          /\ d.setupTimeout = b.setupTimeout /\ d.rejectedTimeout = b.rejectedTimeout
          /\ d.inRACH = b.inRACH /\ d.pending = b.pending /\ d.polling = b.polling
          /\ d.releaseBwp = b.releaseBwp /\ d.switchingBwp = Off
          /\ b.state # "INACTIVE" => d.inactivityTimeout = DataInactivityInterval
          /\ ~IsRunning(b.inactivityTimeout) => d.forgotten = b.forgotten
        BY DEF BwpSwitched, Contexts
    <2> QED BY <2>1, <2>2
<1>6. /\ UNCHANGED <<ccchUp, ccchDown, dcchUp, dcchDown, removals, fatal>>
    BY DEF BwpSwitchCompleted, messages
<1>7. ASSUME rnti = r, AwaitsBearers
      PROVE  Unconfigured(d)
    <2>1. Unconfigured(c) /\ c.state = "CONNECTED_NORMALLY"
        BY <1>3, <1>7, AwaitsMeans
    <2>2. c.switchingBwp = 0 /\ b = c
        BY <1>2, <2>1 DEF Unconfigured
    <2>3. c.inactivityTimeout = Off /\ ~IsRunning(c.inactivityTimeout)
        BY <2>1, <2>2 DEF Unconfigured, IsRunning, Off
    <2> HIDE DEF d
    <2> QED BY <1>5, <2>1, <2>2, <2>3 DEF Unconfigured, IsRunning
<1> HIDE DEF d
<1> QED BY <1>1, <1>2, <1>3, <1>4, <1>5, <1>6, <1>7, EstablishedMeans, EstablishedStep DEF d

\* The reconfiguration that waited for the bandwidth part goes, unless the connection
\* has been released meanwhile.
LEMMA ReconfigurationPaged ==
    ASSUME Paged, TypeInv', NEW r \in Rntis, ScheduleRrcReconfiguration(r),
           UNCHANGED <<ueVars, redCap, waited>>
    PROVE  Paged' \/ fatal' \in DownlinkErrors
<1> DEFINE c == ueMap[r]
           e == [c EXCEPT !.polling = FALSE]
<1>1. c \in Contexts /\ PagedFits(c) /\ c.polling
    BY PagedContext DEF ScheduleRrcReconfiguration
<1>2. c.state \in Established
    BY <1>1 DEF PagedFits
<1>3. /\ e \in Contexts /\ e.state = c.state /\ e.requestTimeout = c.requestTimeout
      /\ e.setupTimeout = c.setupTimeout /\ e.rejectedTimeout = c.rejectedTimeout /\ e.drbs = c.drbs
    BY <1>1 DEF Contexts
<1>s. UNCHANGED <<ccchUp, dcchUp, removals>>
    BY DEF ScheduleRrcReconfiguration
<1>d. "RrcReconfiguration" \in DcchDownTypes \ {"RrcRelease"}
    BY DEF DcchDownTypes
<1>4. CASE c.state = "CONNECTED_NORMALLY"
    <2> DEFINE d == [e EXCEPT !.pending = FALSE, !.state = "CONNECTION_RECONFIGURATION"]
    <2>1. SendDown("RrcReconfiguration", r) /\ Context(r, d) /\ UNCHANGED <<ccchDown, fatal>>
        BY <1>3, <1>4 DEF ScheduleRrcReconfiguration
    <2> HIDE DEF e
    <2>2. /\ d \in Contexts /\ d.state = "CONNECTION_RECONFIGURATION"
          /\ d.requestTimeout = e.requestTimeout
          /\ d.setupTimeout = e.setupTimeout /\ d.rejectedTimeout = e.rejectedTimeout /\ d.drbs = e.drbs
        BY <1>3 DEF Contexts, GnbStates
    <2>3. d.state \in Established
        BY <2>2 DEF Established
    <2> HIDE DEF d
    <2> QED BY <1>1, <1>2, <1>3, <1>s, <1>d, <2>1, <2>2, <2>3, EstablishedMeans, EstablishedStep
<1>5. CASE c.state = "CONNECTION_RECONFIGURATION"
    <2> DEFINE d == [e EXCEPT !.pending = TRUE]
    <2>1. Context(r, d) /\ UNCHANGED <<ccchDown, dcchDown, fatal>>
        BY <1>3, <1>5 DEF ScheduleRrcReconfiguration
    <2> HIDE DEF e
    <2>2. /\ d \in Contexts /\ d.state = e.state /\ d.requestTimeout = e.requestTimeout
          /\ d.setupTimeout = e.setupTimeout /\ d.rejectedTimeout = e.rejectedTimeout /\ d.drbs = e.drbs
        BY <1>3 DEF Contexts
    <2>3. ~(rnti = r /\ AwaitsBearers)
        BY <1>2, <1>5, AwaitsMeans
    <2> HIDE DEF d
    <2> QED BY <1>1, <1>2, <1>3, <1>s, <2>1, <2>2, <2>3, EstablishedMeans, EstablishedStep
<1>6. CASE c.state \in SuspendedStates
    <2>1. fatal' = "ScheduleRrcReconfiguration"
        BY <1>3, <1>6 DEF ScheduleRrcReconfiguration, GnbStops, SuspendedStates
    <2> QED BY <2>1 DEF DownlinkErrors
<1> QED BY <1>2, <1>4, <1>5, <1>6 DEF Established

\* A connection with bearers is released.
LEMMA ReleaseSentPaged ==
    ASSUME Paged, TypeInv', NEW r \in Rntis, NEW b \in Contexts, SendRrcRelease(r, b),
           ueMap[r].state \in Established, b.drbs, ~(rnti = r /\ AwaitsBearers),
           UNCHANGED <<ueVars, redCap, waited, ccchUp, dcchUp, removals>>
    PROVE  Paged'
<1> DEFINE d == Released(b)
<1>0. redCap
    BY DEF Paged
<1>1. Context(r, d) /\ SendDown("RrcReleaseSuspend", r) /\ UNCHANGED <<ccchDown, fatal>>
    BY <1>0 DEF SendRrcRelease
<1>2. /\ d \in Contexts /\ d.state = "INACTIVE" /\ d.drbs
    BY <1>0, ReleasedType
<1>3. d.requestTimeout = Off /\ d.setupTimeout = Off /\ d.rejectedTimeout = Off
    BY DEF Released, Cancelled, Contexts
<1>4. d.state \in Established /\ "RrcReleaseSuspend" \in DcchDownTypes \ {"RrcRelease"}
    BY <1>2 DEF Established, SuspendedStates, DcchDownTypes
<1> HIDE DEF d
<1> QED BY <1>1, <1>2, <1>3, <1>4, EstablishedStep

\* It is released early, or for its inactivity.
LEMMA TriggerReleasePaged ==
    ASSUME Paged, TypeInv', NEW r \in Rntis, TriggerRelease(r), UNCHANGED <<ueVars, redCap, waited>>
    PROVE  Paged'
<1>1. ueMap[r] \in Contexts /\ PagedFits(ueMap[r]) /\ ueMap[r].state \in Established
      /\ ~ueMap[r].inRACH
    BY PagedContext DEF TriggerRelease, Established
<1>2. ~(rnti = r /\ AwaitsBearers)
    BY <1>1, AwaitsMeans DEF Unconfigured
<1> QED BY <1>1, <1>2, EstablishedMeans, ReleaseSentPaged DEF TriggerRelease

\* The timer may be one that was forgotten when it was started again.
LEMMA DataInactivityPaged ==
    ASSUME Paged, TypeInv', NEW r \in Rntis, DataInactivityTimeout(r), UNCHANGED <<ueVars, redCap, waited>>
    PROVE  Paged'
<1> DEFINE c == ueMap[r]
<1>1. c \in Contexts /\ PagedFits(c)
    BY PagedContext
<1>2. PICK b \in Contexts :
        /\ b.drbs = c.drbs /\ SendRrcRelease(r, b)
        /\ c.inactivityTimeout = 0 \/ 0 \in c.forgotten
    <2>1. /\ [c EXCEPT !.forgotten = @ \ {0}] \in Contexts
          /\ [c EXCEPT !.forgotten = @ \ {0}].drbs = c.drbs
        BY <1>1 DEF Contexts
    <2> QED BY <1>1, <2>1 DEF DataInactivityTimeout
<1>3. c.state \in Established
    BY <1>1, <1>2 DEF PagedFits, Off
<1>4. ~(rnti = r /\ AwaitsBearers)
    <2>1. SUFFICES ASSUME rnti = r, AwaitsBearers PROVE FALSE
        OBVIOUS
    <2>2. Unconfigured(c) /\ c.state = "CONNECTED_NORMALLY"
        BY <1>3, <2>1, AwaitsMeans
    <2>3. DataInactivityInterval # 0 /\ Off # 0
        BY PagedConstants DEF Off
    <2> QED BY <1>2, <2>2, <2>3 DEF Unconfigured
<1>5. UNCHANGED <<ccchUp, dcchUp, removals>>
    BY DEF DataInactivityTimeout
<1> QED BY <1>1, <1>2, <1>3, <1>4, <1>5, EstablishedMeans, ReleaseSentPaged

\* A missed RAR leaves a context to its timeout.
LEMMA InitialPaged ==
    LET c == [NoContext EXCEPT !.state = "INITIAL_RANDOM_ACCESS",
                               !.requestTimeout = ConnectionRequestTimeoutDuration]
    IN c \in Contexts /\ PagedFits(c) /\ c.state = "INITIAL_RANDOM_ACCESS"
<1> DEFINE c == [NoContext EXCEPT !.state = "INITIAL_RANDOM_ACCESS",
                                  !.requestTimeout = ConnectionRequestTimeoutDuration]
<1>1. /\ c \in Contexts /\ c.state = "INITIAL_RANDOM_ACCESS"
    BY InitialFits
<1>2. /\ c.setupTimeout = Off /\ c.rejectedTimeout = Off /\ c.inactivityTimeout = Off
      /\ c.forgotten = {} /\ c.releaseBwp = {} /\ ~c.polling /\ c.switchingBwp = Off
    BY DEF NoContext
<1> HIDE DEF c
<1>3. PagedFits(c)
    BY <1>1, <1>2 DEF PagedFits, IsRunning, Established, SuspendedStates
<1> QED BY <1>1, <1>3 DEF c

\* The UE knows nothing of it.
LEMMA RarIsMissedPaged ==
    ASSUME Paged, TypeInv', NEW r \in Rntis, RarIsMissed(r), UNCHANGED <<redCap, waited>>
    PROVE  Paged'
<1> DEFINE c == [NoContext EXCEPT !.state = "INITIAL_RANDOM_ACCESS",
                                  !.requestTimeout = ConnectionRequestTimeoutDuration]
<1>1. c \in Contexts /\ PagedFits(c) /\ c.state = "INITIAL_RANDOM_ACCESS"
    BY InitialPaged
<1>2. Context(r, c) /\ UNCHANGED <<ueVars, messages, fatal>> /\ ueMap[r].state = "NONE"
    BY DEF RarIsMissed, AddUe
<1>3. /\ r # rnti /\ dcchDown[r] = << >>
      /\ \A m \in ccchDown : m.rnti # r
    BY DEF RarIsMissed, IsNext, IsFresh
<1> HIDE DEF c
<1>4. ueMap[r].state \notin Established /\ NoRelease(dcchDown'[r])
    BY <1>2, PagedContext DEF Established, SuspendedStates, messages
<1>5. UNCHANGED <<ccchUp, ccchDown, dcchUp, dcchDown, removals>>
    BY <1>2 DEF messages
<1> QED BY <1>1, <1>2, <1>3, <1>4, <1>5, PagedGnbStep

\* What the gNB drops or HARQ gives up.
LEMMA LostPaged ==
    ASSUME Paged, TypeInv', Lose \/ DropMsg3 \/ DropUp,
           UNCHANGED <<ueVars, redCap, waited>>
    PROVE  Paged'
<1>1. ueState = "CONNECTED_NORMALLY" => rnti \in Rntis /\ macRnti = rnti /\ ueMap[rnti].state # "NONE"
    <2>1. SUFFICES ASSUME ueState = "CONNECTED_NORMALLY"
          PROVE  rnti \in Rntis /\ macRnti = rnti /\ ueMap[rnti].state # "NONE"
        OBVIOUS
    <2>2. rnti \in Rntis /\ macRnti = rnti
        BY <2>1, PagedStates DEF Paged, PagedInv, UePaged
    <2>3. ConnectedPaged(ueMap[rnti], dcchDown[rnti])
        BY <2>1 DEF Paged, PagedInv, ServingPaged
    <2>4. ueMap[rnti].state # "NONE"
        BY <2>3 DEF ConnectedPaged, SettingUp, Unconfigured, Established, SuspendedStates
    <2> QED BY <2>2, <2>4
<1>2. CASE Lose
    <2>1. UNCHANGED contexts
        BY <1>2 DEF Lose
    <2>2. CASE LoseCcch
        BY <2>1, <2>2, PagedLost DEF LoseCcch
    <2>3. CASE /\ dcchUp # << >> /\ Head(dcchUp).rnti # macRnti
               /\ dcchUp' = Tail(dcchUp)
               /\ UNCHANGED <<ccchUp, ccchDown, dcchDown, removals, fatal>>
        <3>1. UpOfOther
            BY <1>1, <2>3 DEF UpOfOther
        <3> QED BY <2>1, <2>3, <3>1, PagedLost
    <2> QED BY <1>2, <2>2, <2>3 DEF Lose
<1>3. CASE DropMsg3
    BY <1>3, PagedLost DEF DropMsg3, contexts
<1>4. CASE DropUp
    <2>1. UpOfOther
        BY <1>1, <1>4 DEF UpOfOther, DropUp, HasUeManager
    <2> QED BY <1>4, <2>1, PagedLost DEF DropUp, contexts
<1> QED BY <1>2, <1>3, <1>4

-----------------------------------------------------------------------------
\* An assignment is data activity of the context that sends.
LEMMA AssignedContext ==
    ASSUME Paged, rnti \in Rntis, NotifyDataActivity(rnti)
    PROVE  /\ \A q \in Rntis : ueMap'[q] \in {ueMap[q], Refreshed(ueMap[q])}
           /\ \A q \in Rntis : ueMap'[q].state = ueMap[q].state
           /\ ueMap'[rnti].setupTimeout = ueMap[rnti].setupTimeout
           /\ ueMap'[rnti].inRACH = ueMap[rnti].inRACH
<1> DEFINE d == Refreshed(ueMap[rnti])
<1>1. ueMap' = [ueMap EXCEPT ![rnti] = d] /\ ueMap \in [Rntis -> Contexts] /\ ueMap[rnti] \in Contexts
      /\ PagedFits(ueMap[rnti])
    BY PagedContext DEF NotifyDataActivity, Context
<1>2. /\ d.state = ueMap[rnti].state /\ d.setupTimeout = ueMap[rnti].setupTimeout
      /\ d.inRACH = ueMap[rnti].inRACH
    BY <1>1, PagedRefreshed
<1> HIDE DEF d
<1>3. ueMap'[rnti] = d /\ \A q \in Rntis \ {rnti} : ueMap'[q] = ueMap[q]
    BY <1>1
<1> QED BY <1>2, <1>3 DEF d

\* A UE that receives something has the RNTI of its RRC.
LEMMA PagedListens ==
    ASSUME Paged, macRnti \in Rntis
    PROVE  rnti \in Rntis /\ macRnti = rnti /\ ueState \in ActiveStates
BY PagedConstants DEF Paged, PagedInv, UePaged

\* RrcSetup finds the UE waiting for it.
LEMMA SetupPaged ==
    ASSUME Paged, TypeInv', DoRecvRrcSetup, NotifyDataActivity(macRnti), UNCHANGED <<redCap, waited>>
    PROVE  Paged'
<1> DEFINE a == [type |-> "RrcSetup", rnti |-> macRnti]
<1>1. a \in ccchDown /\ ccchDown' = ccchDown \ {a}
    BY DEF DoRecvRrcSetup, ReceiveCcch
<1>2. macRnti \in Rntis /\ AnswerPaged(a)
    BY <1>1, PagedTypes DEF Paged, PagedInv
<1>3. rnti \in Rntis /\ macRnti = rnti /\ ueState \in ActiveStates
    BY <1>2, PagedListens
<1>4. /\ ueState = "IDLE_CONNECTING" /\ ueMap[rnti].state = "CONNECTION_SETUP"
      /\ ueMap[rnti].setupTimeout + waited >= ConnectionSetupTimeoutDuration
    BY <1>2, <1>3, PagedStates DEF AnswerPaged
<1>5. /\ ueMap[rnti].inRACH /\ dcchDown[rnti] = << >> /\ NoUpOf(rnti) /\ NoSetupCompleted
      /\ releases = << >>
    BY <1>4, PagedStates DEF Paged, PagedInv, ServingPaged, UePaged
<1>6. /\ ueState' = "CONNECTED_NORMALLY" /\ connectionTimeout' = Off /\ nas' = "ACTIVE"
      /\ setupCompleted' = ProcDelay
      /\ UNCHANGED <<fatal, rnti, macRnti, resumeIdentity, releases, drbs, nasConnects, ccchUp, dcchUp,
                     dcchDown, removals>>
    BY <1>4 DEF DoRecvRrcSetup, CancelT300, NotifyConnectionSuccessful
<1>7. /\ \A q \in Rntis : ueMap'[q] \in {ueMap[q], Refreshed(ueMap[q])}
      /\ \A q \in Rntis : ueMap'[q].state = ueMap[q].state
      /\ ueMap'[rnti].setupTimeout = ueMap[rnti].setupTimeout
      /\ ueMap'[rnti].inRACH = ueMap[rnti].inRACH
    BY <1>3, AssignedContext
<1>8. UePaged'
    <2>1. PendingReleases'
        BY <1>5, <1>6 DEF PendingReleases
    <2>2. setupCompleted' > 0 /\ ueState' \in ActiveStates
        BY <1>6, PagedConstants, PagedStates
    <2>3. "CONNECTED_NORMALLY" \notin AsleepStates \cup Settled
        BY PagedStates
    <2> QED BY <1>3, <1>5, <1>6, <2>1, <2>2, <2>3 DEF UePaged, IsRunning
<1>9. ServingPaged'
    <2>1. IsRunning(setupCompleted')
        BY <1>6, PagedConstants DEF IsRunning, Off
    <2>2. ueMap[rnti].setupTimeout + MaxDelay + ProcDelay >= ConnectionSetupTimeoutDuration + ProcDelay
        <3> DEFINE t == ueMap[rnti].setupTimeout
        <3>1. t \in Int
            BY <1>3, PagedContext, PagedConstants DEF Contexts, Off
        <3>2. t + waited >= ConnectionSetupTimeoutDuration /\ waited \in 0..MaxDelay
            BY <1>4, PagedTypes
        <3> HIDE DEF t
        <3> QED BY <3>1, <3>2, PagedConstants DEF t
    <2>3. NoUpOf(rnti)' /\ NoSetupCompleted'
        BY <1>5, <1>6 DEF NoUpOf, NoSetupCompleted
    <2>4. SettingUp(ueMap[rnti])'
        BY <1>3, <1>4, <1>5, <1>6, <1>7, <2>1, <2>2, <2>3 DEF SettingUp
    <2>5. ConnectedPaged(ueMap[rnti], dcchDown[rnti])'
        BY <1>5, <1>6, <2>4 DEF ConnectedPaged
    <2> QED BY <1>6, <2>5, PagedStates DEF ServingPaged
<1>10. \A m \in ccchDown' : AnswerPaged(m)'
    <2>1. ASSUME NEW m \in ccchDown, m # a
          PROVE  AnswerPaged(m)'
        <3>1. AnswerPaged(m) /\ m \in [type : CcchDownTypes, rnti : Rntis]
            BY PagedTypes DEF Paged, PagedInv
        <3>2. m.rnti # rnti
            BY <2>1, <3>1, <1>3 DEF AnswerPaged
        <3> QED BY <3>1, <3>2, <1>6, <1>7 DEF AnswerPaged
    <2> QED BY <2>1, <1>1
<1> QED BY <1>6, <1>7, <1>8, <1>9, <1>10, PagedUeStep

\* What a message on SRB1 finds, and leaves on its way.
LEMMA DcchPaged ==
    ASSUME Paged, NEW type \in DcchDownTypes, ReceiveDcch(type)
    PROVE  /\ rnti \in Rntis /\ macRnti = rnti
           /\ type # "RrcRelease" /\ NoRelease(dcchDown'[rnti])
           /\ \A q \in Rntis \ {rnti} : dcchDown'[q] = dcchDown[q]
           /\ ueState \in Settled \cup {"CONNECTED_NORMALLY"}
           /\ ueMap[rnti].state \in Established
           /\ ~IsRunning(setupCompleted) /\ NoSetupCompleted
           /\ nas = "ACTIVE" /\ ~nasConnects
           /\ drbs \/ type = "RrcReconfiguration"
           /\ \A m \in ccchDown : m.rnti # rnti
<1>1. rnti \in Rntis /\ macRnti = rnti /\ ueState \in ActiveStates
    BY PagedListens DEF ReceiveDcch
<1>2. /\ dcchDown[rnti] # << >> /\ Head(dcchDown[rnti]) = type
      /\ dcchDown' = [dcchDown EXCEPT ![rnti] = Tail(dcchDown[rnti])]
    BY <1>1 DEF ReceiveDcch
<1>3. dcchDown \in [Rntis -> Seq(DcchDownTypes)] /\ NoRelease(dcchDown[rnti])
    BY <1>1, PagedContext
<1>4. type # "RrcRelease" /\ NoRelease(dcchDown'[rnti])
      /\ \A q \in Rntis \ {rnti} : dcchDown'[q] = dcchDown[q]
    BY <1>1, <1>2, <1>3, DownTail
<1>5. UePaged /\ ServingPaged
    BY DEF Paged, PagedInv
<1>6. ueState \in Settled \cup {"CONNECTED_NORMALLY"}
    BY <1>1, <1>2, <1>5, PagedStates, PagedTypes DEF ServingPaged
<1>7. /\ ueMap[rnti].state \in Established
      /\ ~IsRunning(setupCompleted) /\ NoSetupCompleted
      /\ nas = "ACTIVE" /\ ~nasConnects
      /\ drbs \/ type = "RrcReconfiguration"
    <2>1. CASE ueState \in Settled
        BY <2>1, <1>5, PagedStates DEF UePaged, ServingPaged
    <2>2. CASE ueState = "CONNECTED_NORMALLY"
        <3>1. /\ ~IsRunning(setupCompleted) /\ NoSetupCompleted
              /\ ueMap[rnti].state \in Established /\ HasBearers(dcchDown[rnti])
            BY <1>2, <1>5, <2>2 DEF ServingPaged, ConnectedPaged
        <3>2. ~(setupCompleted > 0)
            BY <3>1, PagedTypes DEF IsRunning, Off
        <3>3. nas # "OFF" /\ ~nasConnects
            BY <1>5, <2>2, <3>2, PagedStates DEF UePaged
        <3>4. nas = "ACTIVE"
            BY <3>3 DEF Paged, TypeInv, TypeOK, UeTypeOK
        <3> QED BY <1>2, <3>1, <3>3, <3>4 DEF HasBearers
    <2> QED BY <1>6, <2>1, <2>2
<1>8. \A m \in ccchDown : m.rnti # rnti
    BY <1>7 DEF Paged, PagedInv, AnswerPaged, Established, SuspendedStates
<1> QED BY <1>1, <1>4, <1>6, <1>7, <1>8

\* The UE that has received it.
LEMMA DcchServed ==
    ASSUME Paged, TypeInv', rnti \in Rntis, macRnti = rnti, NotifyDataActivity(macRnti),
           NoRelease(dcchDown'[rnti]), \A q \in Rntis \ {rnti} : dcchDown'[q] = dcchDown[q],
           ueMap[rnti].state \in Established, ~IsRunning(setupCompleted'),
           \A m \in ccchDown : m.rnti # rnti,
           UNCHANGED <<redCap, waited, fatal, rnti, ccchUp, ccchDown, removals>>,
           UePaged', NoSetupCompleted', drbs',
           ueState' \in Settled \cup {"CONNECTED_NORMALLY"}
    PROVE  Paged'
<1>1. /\ \A q \in Rntis : ueMap'[q] \in {ueMap[q], Refreshed(ueMap[q])}
      /\ \A q \in Rntis : ueMap'[q].state = ueMap[q].state
    BY AssignedContext
<1>2. ServingPaged'
    <2>1. ueMap'[rnti'].state \in Established
        BY <1>1
    <2>2. ConnectedPaged(ueMap[rnti], dcchDown[rnti])'
        BY <2>1 DEF ConnectedPaged, HasBearers
    <2>3. ueState' # "IDLE_CONNECTING"
        BY PagedStates
    <2> QED BY <2>1, <2>2, <2>3 DEF ServingPaged
<1>3. \A m \in ccchDown' : AnswerPaged(m)'
    <2>1. ASSUME NEW m \in ccchDown
          PROVE  AnswerPaged(m)'
        <3>1. AnswerPaged(m) /\ m.rnti \in Rntis
            BY PagedTypes DEF Paged, PagedInv
        <3> QED BY <3>1, <1>1 DEF AnswerPaged
    <2> QED BY <2>1
<1> QED BY <1>1, <1>2, <1>3, PagedUeStep

\* The reconfiguration that starts the bearers, unless the connection is over.
LEMMA ReconfigurationReceivedPaged ==
    ASSUME Paged, TypeInv', DoRecvRrcReconfiguration, NotifyDataActivity(macRnti),
           UNCHANGED <<redCap, waited>>
    PROVE  Paged' \/ fatal' \in DownlinkErrors
<1>1. CASE ueState # "CONNECTED_NORMALLY"
    BY <1>1 DEF DoRecvRrcReconfiguration, DownlinkErrors
<1>2. CASE ueState = "CONNECTED_NORMALLY"
    <2>1. ReceiveDcch("RrcReconfiguration") /\ "RrcReconfiguration" \in DcchDownTypes
        BY DEF DoRecvRrcReconfiguration, DcchDownTypes
    <2>2. /\ rnti \in Rntis /\ macRnti = rnti
          /\ NoRelease(dcchDown'[rnti]) /\ \A q \in Rntis \ {rnti} : dcchDown'[q] = dcchDown[q]
          /\ ueMap[rnti].state \in Established
          /\ ~IsRunning(setupCompleted) /\ NoSetupCompleted
          /\ \A m \in ccchDown : m.rnti # rnti
        BY <2>1, DcchPaged
    <2>3. /\ drbs' /\ SendUp("RrcReconfigurationCompleted", rnti)
          /\ UNCHANGED <<fatal, ueState, rnti, macRnti, resumeIdentity, connectionTimeout,
                         setupCompleted, releases, nas, nasConnects, ccchUp, ccchDown, removals>>
        BY <1>2 DEF DoRecvRrcReconfiguration
    <2>4. NoSetupCompleted'
        BY <2>2, <2>3, PagedTypes, UpAppended
    <2>5. UePaged'
        <3>1. UePaged
            BY DEF Paged, PagedInv
        <3>2. PendingReleases'
            BY <3>1, <2>3 DEF UePaged, PendingReleases
        <3>3. "CONNECTED_NORMALLY" \notin Settled
            BY PagedStates
        <3> QED BY <1>2, <2>3, <3>1, <3>2, <3>3 DEF UePaged
    <2> QED BY <1>2, <2>2, <2>3, <2>4, <2>5, DcchServed
<1> QED BY <1>1, <1>2

\* RrcResume connects the UE, whatever has happened to it meanwhile.
LEMMA ResumeReceivedPaged ==
    ASSUME Paged, TypeInv', DoRecvRrcResume, NotifyDataActivity(macRnti), UNCHANGED <<redCap, waited>>
    PROVE  Paged'
<1>1. ReceiveDcch("RrcResume") /\ "RrcResume" \in DcchDownTypes
    BY DEF DoRecvRrcResume, DcchDownTypes
<1>2. /\ rnti \in Rntis /\ macRnti = rnti
      /\ NoRelease(dcchDown'[rnti]) /\ \A q \in Rntis \ {rnti} : dcchDown'[q] = dcchDown[q]
      /\ ueMap[rnti].state \in Established
      /\ ~IsRunning(setupCompleted) /\ NoSetupCompleted
      /\ nas = "ACTIVE" /\ ~nasConnects /\ drbs
      /\ \A m \in ccchDown : m.rnti # rnti
    BY <1>1, DcchPaged
<1>3. /\ connectionTimeout' = Off /\ ueState' = "CONNECTED_NORMALLY"
      /\ SendUp("RrcResumeComplete", rnti)
      /\ UNCHANGED <<fatal, rnti, macRnti, resumeIdentity, setupCompleted, releases, drbs, nas,
                     nasConnects, ccchUp, ccchDown, removals>>
    BY DEF DoRecvRrcResume, CancelT300, ueFlags
<1>4. NoSetupCompleted'
    BY <1>2, <1>3, PagedTypes, UpAppended
<1>5. ~IsRunning(connectionTimeout')
    BY <1>3 DEF IsRunning
<1>6. UePaged'
    <2>1. PendingReleases'
        BY <1>3, <1>5 DEF Paged, PagedInv, UePaged, PendingReleases
    <2> QED BY <1>2, <1>3, <1>5, <2>1, PagedStates DEF UePaged
<1> QED BY <1>2, <1>3, <1>4, <1>6, DcchServed

\* A release is acted on after the procedure delay, also when one is pending already.
LEMMA ReleaseReceivedPaged ==
    ASSUME Paged, TypeInv', DoRecvRrcRelease, NotifyDataActivity(macRnti), UNCHANGED <<redCap, waited>>
    PROVE  Paged'
<1>1. PICK suspend \in BOOLEAN :
        /\ ReceiveDcch(IF suspend THEN "RrcReleaseSuspend" ELSE "RrcRelease")
        /\ releases' = Append(releases, [left |-> ProcDelay,
                                         suspend |-> IF suspend THEN macRnti ELSE NoRnti])
    BY DEF DoRecvRrcRelease
<1> DEFINE type == IF suspend THEN "RrcReleaseSuspend" ELSE "RrcRelease"
<1>2. type \in DcchDownTypes /\ (~suspend => type = "RrcRelease") /\ type # "RrcReconfiguration"
    BY DEF DcchDownTypes
<1> HIDE DEF type
<1>3. ReceiveDcch(type)
    BY <1>1 DEF type
<1>4. /\ rnti \in Rntis /\ macRnti = rnti /\ type # "RrcRelease"
      /\ NoRelease(dcchDown'[rnti]) /\ \A q \in Rntis \ {rnti} : dcchDown'[q] = dcchDown[q]
      /\ ueMap[rnti].state \in Established
      /\ ~IsRunning(setupCompleted) /\ NoSetupCompleted
      /\ nas = "ACTIVE" /\ ~nasConnects /\ drbs
      /\ \A m \in ccchDown : m.rnti # rnti
    BY <1>2, <1>3, DcchPaged
<1>5. /\ connectionTimeout' = Off /\ ueState' = "RELEASE_RECEIVED"
      /\ UNCHANGED <<fatal, rnti, macRnti, resumeIdentity, setupCompleted, drbs, nas,
                     nasConnects, ccchUp, ccchDown, dcchUp, removals>>
    BY DEF DoRecvRrcRelease, CancelT300, ueFlags
<1> DEFINE e == [left |-> ProcDelay, suspend |-> rnti]
<1>6. releases' = Append(releases, e)
    BY <1>1, <1>2, <1>4
<1>7. NoSetupCompleted' /\ ~IsRunning(connectionTimeout')
    BY <1>4, <1>5 DEF NoSetupCompleted, IsRunning
<1>8. PendingReleases'
    <2> DEFINE n == Len(releases)
    <2>1. e.suspend = rnti /\ e.left = ProcDelay
        OBVIOUS
    <2> HIDE DEF e
    <2>2. /\ n \in Nat /\ Len(releases') = n + 1 /\ releases'[n + 1] = e
          /\ \A i \in 1..n : releases'[i] = releases[i] /\ releases[i] \in Releases
        BY <1>6, PagedTypes
    <2>3. PendingReleases
        BY DEF Paged, PagedInv, UePaged
    <2> HIDE DEF n
    <2>4. \A i \in 1..(n + 1) : i \in 1..n \/ i = n + 1
        BY <2>2
    <2>5. \A i, j \in 1..(n + 1) : i < j => i \in 1..n
        BY <2>2
    <2>6. \A i \in 1..n : releases[i].left <= ProcDelay
        BY <2>2, PagedConstants DEF Releases
    <2>7. \A i \in 1..(n + 1) : releases'[i].suspend = rnti
        BY <2>1, <2>2, <2>3, <2>4 DEF PendingReleases, n
    <2>8. ASSUME NEW i \in 1..(n + 1), NEW j \in 1..(n + 1), i < j
          PROVE  releases'[i].left <= releases'[j].left
        <3>1. i \in 1..n
            BY <2>5, <2>8
        <3>2. CASE j \in 1..n
            BY <3>1, <3>2, <2>2, <2>3, <2>8 DEF PendingReleases, n
        <3>3. CASE j = n + 1
            BY <3>1, <3>3, <2>1, <2>2, <2>6
        <3> QED BY <2>4, <3>2, <3>3
    <2> QED BY <1>5, <1>7, <2>2, <2>7, <2>8 DEF PendingReleases
<1>9. UePaged'
    BY <1>4, <1>5, <1>7, <1>8, PagedStates DEF UePaged
<1> QED BY <1>4, <1>5, <1>7, <1>9, PagedStates, DcchServed

\* Nobody is rejected.
LEMMA DeliverPaged ==
    ASSUME Paged, TypeInv', Deliver, UNCHANGED <<redCap, waited>>
    PROVE  Paged' \/ fatal' \in DownlinkErrors
<1>1. ~DoRecvRrcConnectionReject
    BY DEF DoRecvRrcConnectionReject, ReceiveCcch, Paged, PagedInv, AnswerPaged
<1> QED BY <1>1, SetupPaged, ReconfigurationReceivedPaged, ResumeReceivedPaged, ReleaseReceivedPaged
        DEF Deliver

-----------------------------------------------------------------------------
\* Random access leads to a new context, or back to the one with bearers.  A page for
\* a UE that is neither asleep nor looking for a cell is an error that is expected.
LEMMA RandomAccessPaged ==
    ASSUME Paged, TypeInv', ProcDelay < T300, NEW r \in Rntis, RandomAccess(r),
           UNCHANGED <<redCap, waited>>
    PROVE  Paged' \/ fatal' \in DownlinkErrors
<1> DEFINE c == [NoContext EXCEPT !.state = "INITIAL_RANDOM_ACCESS",
                                  !.requestTimeout = ConnectionRequestTimeoutDuration]
<1>1. c \in Contexts /\ PagedFits(c) /\ c.state = "INITIAL_RANDOM_ACCESS"
    BY InitialPaged
<1>2. /\ Context(r, c) /\ DoNotifyRandomAccessSuccessful(r) /\ ueMap[r].state = "NONE"
      /\ ueMap \in [Rntis -> Contexts]
    BY PagedContext DEF RandomAccess, AddUe
<1>3. /\ r # rnti /\ r # resumeIdentity /\ dcchDown[r] = << >>
      /\ \A m \in ccchUp : m.rnti # r /\ m.resumeIdentity # r
      /\ \A m \in ccchDown : m.rnti # r
      /\ NoUpOf(r)
    <2>1. IsFresh(r)
        BY DEF RandomAccess, IsNext
    <2>2. DOMAIN dcchUp = 1..Len(dcchUp)
        BY PagedTypes
    <2> QED BY <2>1, <2>2 DEF IsFresh, NoUpOf
<1> HIDE DEF c
<1>4. ueMap'[r] = c /\ \A q \in Rntis \ {r} : ueMap'[q] = ueMap[q]
    BY <1>2 DEF Context
<1>5. /\ UNCHANGED <<resumeIdentity, setupCompleted, releases, drbs, nas, nasConnects,
                     ccchDown, dcchUp, dcchDown, removals>>
    BY <1>2 DEF DoNotifyRandomAccessSuccessful
<1>6. \A q \in Rntis : PagedFits(ueMap[q])' /\ NoRelease(dcchDown[q])'
    <2>1. ASSUME NEW q \in Rntis
          PROVE  PagedFits(ueMap'[q]) /\ NoRelease(dcchDown'[q])
        BY <1>1, <1>4, <1>5, PagedContext
    <2> QED BY <2>1 DEF PagedFits, NoRelease
<1>7. ASSUME NEW m \in ccchUp
      PROVE  Msg3Paged(m)'
    <2>1. Msg3Paged(m) /\ m.rnti \in Rntis \ {r} /\ m.resumeIdentity \in (Rntis \ {r}) \cup {NoRnti}
        BY <1>3, PagedTypes DEF Paged, PagedInv, AnyRnti
    <2> QED BY <2>1, <1>4 DEF Msg3Paged
<1>8. ASSUME NEW m \in ccchDown
      PROVE  AnswerPaged(m) /\ m.rnti # r /\ ueMap'[m.rnti] = ueMap[m.rnti]
    BY <1>3, <1>4, PagedTypes DEF Paged, PagedInv
<1>n. NoSetupCompleted => NoSetupCompleted'
    BY <1>5 DEF NoSetupCompleted
<1>t. T300 # Off
    BY PagedConstants DEF Off
<1>9. CASE ueState \in AsleepStates
    <2>1. /\ rnti \in Rntis /\ resumeIdentity = rnti /\ drbs /\ nas = "ACTIVE" /\ ~nasConnects
          /\ ~IsRunning(setupCompleted) /\ PendingReleases
          /\ ueMap[rnti].state \in Established /\ NoSetupCompleted
        BY <1>9, PagedStates DEF Paged, PagedInv, UePaged, ServingPaged
    <2>2. PICK taken \in 0..packetStored :
            /\ ueState' = IF sdt THEN "INACTIVE_SMALL_DATA_TRANSMISSION" ELSE "INACTIVE_CONNECTING"
            /\ SendMsg3(r, resumeIdentity, taken > 0)
            /\ rnti' = resumeIdentity /\ macRnti' = resumeIdentity /\ connectionTimeout' = T300
            /\ UNCHANGED fatal
        BY <1>2, <1>9 DEF DoNotifyRandomAccessSuccessful, AsleepStates, StartT300
    <2>n. PICK n : n = [rnti |-> r, resumeIdentity |-> rnti, sdt |-> taken > 0]
        OBVIOUS
    <2>3. /\ ueState' \in ResumingStates /\ ccchUp' = ccchUp \cup {n}
        BY <2>1, <2>2, <2>n DEF ResumingStates, SendMsg3
    <2>4. n.resumeIdentity = rnti /\ rnti # NoRnti
        BY <2>1, <2>n, PagedConstants
    <2>5. ueMap'[rnti] = ueMap[rnti]
        BY <1>3, <1>4, <2>1
    <2>6. Msg3Paged(n)'
        BY <2>1, <2>4, <2>5 DEF Msg3Paged
    <2>7. PendingReleases'
        <3>1. \A i \in 1..Len(releases) : releases[i].left < T300
            <4>1. \A i \in 1..Len(releases) : releases[i] \in Releases
                BY PagedTypes
            <4>2. \A i \in 1..Len(releases) : releases[i].left \in 0..ProcDelay
                BY <4>1 DEF Releases
            <4> QED BY <4>2, PagedConstants
        <3> QED BY <3>1, <2>1, <2>2, <1>5 DEF PendingReleases
    <2>8. UePaged'
        BY <2>1, <2>2, <2>3, <2>7, <1>5, PagedStates DEF UePaged
    <2>9. ServingPaged'
        BY <1>5, <1>n, <2>1, <2>2, <2>3, <2>5, PagedStates DEF ServingPaged
    <2>10. \A m \in ccchDown' : AnswerPaged(m)'
        <3>1. ASSUME NEW m \in ccchDown
              PROVE  AnswerPaged(m)'
            <4>1. m.rnti # rnti
                BY <2>1, <1>8 DEF AnswerPaged, Established, SuspendedStates
            <4> QED BY <4>1, <1>8, <2>1, <2>2 DEF AnswerPaged
        <3> QED BY <3>1, <1>5
    <2> QED BY <1>5, <1>6, <1>7, <2>2, <2>3, <2>6, <2>8, <2>9, <2>10 DEF Paged, PagedInv, NoUnexpectedEvent
<1>10. CASE ueState = "IDLE_RANDOM_ACCESS"
    <2> DEFINE n == [rnti |-> r, resumeIdentity |-> NoRnti, sdt |-> FALSE]
    <2>0. ueState \in IdleStates
        BY <1>10 DEF IdleStates
    <2>1. /\ ~IsRunning(setupCompleted) /\ releases = << >> /\ NoSetupCompleted
        BY <1>10, <2>0, PagedStates DEF Paged, PagedInv, UePaged, ServingPaged
    <2>2. /\ ueState' = "IDLE_CONNECTING" /\ ccchUp' = ccchUp \cup {n} /\ rnti' = r /\ macRnti' = r
          /\ connectionTimeout' = T300 /\ UNCHANGED fatal
        BY <1>10, <1>2 DEF DoNotifyRandomAccessSuccessful, SendMsg3, StartT300
    <2>3. n.rnti = r /\ n.resumeIdentity = NoRnti /\ ~n.sdt
        OBVIOUS
    <2> HIDE DEF n
    <2>4. Msg3Paged(n)'
        BY <1>1, <1>4, <2>3 DEF Msg3Paged
    <2>5. PendingReleases'
        BY <2>1, <1>5 DEF PendingReleases
    <2>6. UePaged'
        BY <2>1, <2>2, <2>5, <1>5, PagedStates DEF UePaged
    <2>7. NoUpOf(r)'
        BY <1>3, <1>5 DEF NoUpOf
    <2>8. ServingPaged'
        BY <1>1, <1>3, <1>4, <1>5, <1>n, <2>1, <2>2, <2>7, PagedStates DEF ServingPaged, NoUpOf
    <2>9. \A m \in ccchDown' : AnswerPaged(m)'
        BY <1>5, <1>8, <2>2 DEF AnswerPaged
    <2> QED BY <1>5, <1>6, <1>7, <2>2, <2>4, <2>6, <2>8, <2>9 DEF Paged, PagedInv, NoUnexpectedEvent
<1>11. CASE ueState \notin AsleepStates \cup {"IDLE_RANDOM_ACCESS"}
    BY <1>2, <1>11 DEF DoNotifyRandomAccessSuccessful, DownlinkErrors, AsleepStates
<1> QED BY <1>9, <1>10, <1>11

-----------------------------------------------------------------------------
\* A context for which nothing is due, a tick later.
LEMMA TickedPaged ==
    ASSUME NEW c \in Contexts, PagedFits(c), c.state # "ATTACH_REQUEST",
           0 \notin {c.requestTimeout, c.setupTimeout, c.rejectedTimeout,
                     c.inactivityTimeout, c.switchingBwp} \cup c.releaseBwp,
           ~(c.polling /\ ~IsRunning(c.switchingBwp))
    PROVE  /\ PagedFits(Ticked(c)) /\ Ticked(c).state = c.state /\ Ticked(c).inRACH = c.inRACH
           /\ Ticked(c).setupTimeout >= c.setupTimeout - 1 /\ Ticked(c).setupTimeout \in Int
           /\ c.setupTimeout \in Int
           /\ Unconfigured(c) => Unconfigured(Ticked(c))
<1> DEFINE d == Ticked(c)
<1>1. /\ d.state = c.state /\ d.pending = c.pending /\ d.inRACH = c.inRACH /\ d.drbs = c.drbs
      /\ d.polling = c.polling
      /\ d.requestTimeout = Countdown(c.requestTimeout)
      /\ d.setupTimeout = Countdown(c.setupTimeout)
      /\ d.rejectedTimeout = Countdown(c.rejectedTimeout)
      /\ d.inactivityTimeout = Countdown(c.inactivityTimeout)
      /\ d.switchingBwp = Countdown(c.switchingBwp)
      /\ d.forgotten = {Countdown(t) : t \in c.forgotten}
      /\ d.releaseBwp = {Countdown(t) : t \in c.releaseBwp}
    BY DEF Ticked, Contexts
<1> HIDE DEF d
<1>2. /\ IsRunning(d.requestTimeout) <=> IsRunning(c.requestTimeout)
      /\ IsRunning(d.setupTimeout) <=> IsRunning(c.setupTimeout)
      /\ IsRunning(d.rejectedTimeout) <=> IsRunning(c.rejectedTimeout)
      /\ IsRunning(d.inactivityTimeout) <=> IsRunning(c.inactivityTimeout)
    BY <1>1, CountdownRuns, DurationsAreNat DEF Contexts
<1>3. IsRunning(d.switchingBwp) <=> IsRunning(c.switchingBwp)
    BY <1>1, CountdownRuns, DurationsAreNat DEF Contexts
<1>4. /\ c.setupTimeout \in Int /\ d.setupTimeout \in Int
      /\ d.setupTimeout >= c.setupTimeout - 1
    <2>1. c.setupTimeout \in Int
        BY DurationsAreNat DEF Contexts, Off
    <2> QED BY <1>1, <2>1 DEF Countdown
<1>5. /\ c.forgotten = {} => d.forgotten = {}
      /\ c.releaseBwp = {} => d.releaseBwp = {}
    BY <1>1
<1>6. PagedFits(d)
    BY <1>1, <1>2, <1>3, <1>5 DEF PagedFits, IsRunning
<1>7. Unconfigured(c) => Unconfigured(d)
    <2>1. SUFFICES ASSUME Unconfigured(c) PROVE Unconfigured(d)
        OBVIOUS
    <2>2. /\ c.state = "CONNECTED_NORMALLY" /\ c.polling /\ IsRunning(c.switchingBwp)
          /\ c.inactivityTimeout = Off
        BY <2>1 DEF Unconfigured
    <2>3. d.inactivityTimeout = Off
        BY <1>2, <2>2 DEF IsRunning
    <2> QED BY <2>1, <2>2, <2>3, <1>1, <1>3, <1>5 DEF Unconfigured
<1> QED BY <1>1, <1>4, <1>6, <1>7 DEF d

\* Time passes.
LEMMA TickPaged ==
    ASSUME Paged, TypeInv', Tick, UNCHANGED redCap
    PROVE  Paged'
<1>u. /\ UNCHANGED <<ueState, rnti, macRnti, resumeIdentity, ueFlags, ccchUp, ccchDown, dcchUp, dcchDown,
                     removals, fatal>>
    BY DEF Tick, UeTick, GnbTick, messages
<1>v. UNCHANGED <<drbs, nas, nasConnects>>
    BY <1>u DEF ueFlags
<1>w. waited \in 0..MaxDelay /\ MaxDelay \in Nat /\ waited' = IF IsWaiting THEN waited + 1 ELSE 0
    BY PagedTypes, PagedConstants DEF Tick
<1>1. ASSUME NEW q \in Rntis
      PROVE  /\ PagedFits(ueMap'[q]) /\ ueMap'[q].state = ueMap[q].state
             /\ ueMap'[q].inRACH = ueMap[q].inRACH
             /\ ueMap[q].setupTimeout \in Int /\ ueMap'[q].setupTimeout \in Int
             /\ ueMap'[q].setupTimeout >= ueMap[q].setupTimeout - 1
             /\ Unconfigured(ueMap[q]) => Unconfigured(ueMap'[q])
    <2> DEFINE c == ueMap[q]
    <2>1. /\ c \in Contexts /\ PagedFits(c) /\ c.state # "ATTACH_REQUEST"
          /\ 0 \notin {c.requestTimeout, c.setupTimeout, c.rejectedTimeout,
                       c.inactivityTimeout, c.switchingBwp} \cup c.releaseBwp
          /\ ~(c.polling /\ ~IsRunning(c.switchingBwp))
          /\ ueMap'[q] = Ticked(c)
        BY PagedContext DEF Tick, GnbEventsDue, GnbTick, Ticked
    <2> HIDE DEF c
    <2>2. /\ PagedFits(Ticked(c)) /\ Ticked(c).state = c.state /\ Ticked(c).inRACH = c.inRACH
          /\ Ticked(c).setupTimeout >= c.setupTimeout - 1 /\ Ticked(c).setupTimeout \in Int
          /\ c.setupTimeout \in Int
          /\ Unconfigured(c) => Unconfigured(Ticked(c))
        BY <2>1, TickedPaged
    <2> QED BY <2>1, <2>2 DEF c
<1>2. \A q \in Rntis : PagedFits(ueMap[q])' /\ NoRelease(dcchDown[q])'
    <2>1. ASSUME NEW q \in Rntis
          PROVE  PagedFits(ueMap'[q]) /\ NoRelease(dcchDown'[q])
        BY <1>1, <1>u, PagedContext
    <2> QED BY <2>1 DEF PagedFits, NoRelease
<1>3. \A m \in ccchUp' : Msg3Paged(m)'
    <2>1. ASSUME NEW m \in ccchUp
          PROVE  Msg3Paged(m)'
        <3>1. Msg3Paged(m) /\ m.rnti \in Rntis /\ m.resumeIdentity \in Rntis \cup {NoRnti}
            BY PagedTypes DEF Paged, PagedInv, AnyRnti
        <3> QED BY <3>1, <1>1 DEF Msg3Paged
    <2> QED BY <2>1, <1>u
<1>4. \A m \in ccchDown' : AnswerPaged(m)'
    <2>1. ASSUME NEW m \in ccchDown
          PROVE  AnswerPaged(m)'
        <3>1. AnswerPaged(m) /\ m.rnti \in Rntis
            BY PagedTypes DEF Paged, PagedInv
        <3>2. ASSUME ueMap[m.rnti].setupTimeout + waited >= ConnectionSetupTimeoutDuration
              PROVE  ueMap'[m.rnti].setupTimeout + waited' >= ConnectionSetupTimeoutDuration
            <4>1. /\ ueMap'[m.rnti].setupTimeout >= ueMap[m.rnti].setupTimeout - 1
                  /\ ueMap'[m.rnti].setupTimeout \in Int /\ ueMap[m.rnti].setupTimeout \in Int
                BY <3>1, <1>1
            <4>2. waited' = waited + 1
                BY <1>w DEF IsWaiting
            <4> QED BY <4>1, <4>2, <3>2, <1>w, PagedConstants
        <3> QED BY <3>1, <3>2, <1>1, <1>u DEF AnswerPaged
    <2> QED BY <2>1, <1>u
<1>5. /\ setupCompleted # 0 /\ setupCompleted' = Countdown(setupCompleted)
      /\ connectionTimeout # 0 /\ connectionTimeout' = Countdown(connectionTimeout)
      /\ setupCompleted \in Off..ProcDelay /\ connectionTimeout \in Off..T300
      /\ ~nasConnects /\ ~ReleaseIsDue
      /\ releases' = [i \in DOMAIN releases |-> [releases[i] EXCEPT !.left = Countdown(@)]]
    BY PagedTypes DEF Tick, UeEventsDue, UeTick
<1>6. /\ IsRunning(setupCompleted') <=> IsRunning(setupCompleted)
      /\ IsRunning(setupCompleted) => setupCompleted' = setupCompleted - 1
      /\ IsRunning(connectionTimeout') <=> IsRunning(connectionTimeout)
      /\ IsRunning(connectionTimeout) => connectionTimeout' = connectionTimeout - 1
    BY <1>5, CountdownRuns, PagedConstants
<1>7. (releases = << >> <=> releases' = << >>) /\ PendingReleases'
    <2> DEFINE n == Len(releases)
    <2>1. /\ n \in Nat /\ DOMAIN releases = 1..n
          /\ \A i \in 1..n : releases[i] \in Releases
          /\ releases = << >> <=> n = 0
          /\ n > 0 => Head(releases) = releases[1]
        BY PagedTypes
    <2>2. releases' \in Seq(Releases)
        BY DEF TypeInv, TypeOK, UeTypeOK, Releases
    <2>3. Len(releases') = n /\ (releases' = << >> <=> n = 0)
        <3>1. DOMAIN releases' = 1..n
            BY <1>5, <2>1
        <3>2. Len(releases') \in Nat /\ DOMAIN releases' = 1..Len(releases')
            BY <2>2
        <3> HIDE DEF n
        <3>3. Len(releases') = n
            BY <2>1, <3>1, <3>2
        <3>4. releases' = << >> <=> Len(releases') = 0
            BY <2>2
        <3> QED BY <3>3, <3>4
    <2>4. PendingReleases
        BY DEF Paged, PagedInv, UePaged
    <2>5. \A i \in 1..n : releases[i].left \in 0..ProcDelay
        BY <2>1 DEF Releases
    <2>6. n > 0 => releases[1].left # 0
        <3>1. n > 0 => releases # << >> /\ Head(releases) = releases[1]
            BY <2>1
        <3> HIDE DEF n
        <3> QED BY <3>1, <1>5 DEF ReleaseIsDue
    <2> HIDE DEF n
    <2>7. ASSUME NEW i \in 1..n
          PROVE  releases[i].left > 0
        <3>1. 1 \in 1..n /\ n > 0 /\ (i = 1 \/ 1 < i)
            BY <2>1
        <3>2. releases[1].left \in 0..ProcDelay /\ releases[1].left # 0 /\ releases[i].left \in 0..ProcDelay
            BY <2>5, <2>6, <3>1
        <3>3. 1 < i => releases[1].left <= releases[i].left
            BY <2>4, <3>1 DEF PendingReleases, n
        <3> QED BY <3>1, <3>2, <3>3, PagedConstants
    <2>8. ASSUME NEW i \in 1..n
          PROVE  /\ releases'[i].left = releases[i].left - 1
                 /\ releases'[i].suspend = releases[i].suspend
        <3>1. releases'[i] = [releases[i] EXCEPT !.left = Countdown(@)] /\ releases[i] \in Releases
            BY <1>5, <2>1
        <3>2. Countdown(releases[i].left) = releases[i].left - 1
            BY <2>7 DEF Countdown
        <3> QED BY <3>1, <3>2 DEF Releases
    <2>9. ASSUME NEW i \in 1..n
          PROVE  /\ releases'[i].suspend = rnti'
                 /\ IsRunning(connectionTimeout') => releases'[i].left < connectionTimeout'
        <3>1. /\ releases[i].suspend = rnti
              /\ IsRunning(connectionTimeout) => releases[i].left < connectionTimeout
            BY <2>4 DEF PendingReleases, n
        <3>2. releases[i].left \in Int /\ connectionTimeout \in Int
            BY <2>5, <1>5, PagedConstants DEF Off
        <3> QED BY <3>1, <3>2, <2>8, <1>6, <1>u
    <2>10. ASSUME NEW i \in 1..n, NEW j \in 1..n, i < j
           PROVE  releases'[i].left <= releases'[j].left
        <3>1. releases[i].left <= releases[j].left
            BY <2>4, <2>10 DEF PendingReleases, n
        <3>2. releases[i].left \in Int /\ releases[j].left \in Int
            BY <2>5, PagedConstants
        <3> QED BY <3>1, <3>2, <2>8
    <2> QED BY <2>1, <2>3, <2>9, <2>10 DEF PendingReleases
<1>8. UePaged'
    BY <1>5, <1>6, <1>7, <1>u, <1>v DEF Paged, PagedInv, UePaged
<1>9. ServingPaged'
    <2>0. ServingPaged
        BY DEF Paged, PagedInv
    <2>1. (NoSetupCompleted => NoSetupCompleted') /\ (NoUpOf(rnti) => NoUpOf(rnti)')
          /\ (SetupCompletedIsLast => SetupCompletedIsLast')
        BY <1>u DEF NoSetupCompleted, NoUpOf, SetupCompletedIsLast
    <2>2. ueState \in {"IDLE_CONNECTING", "CONNECTED_NORMALLY"} \cup Settled => rnti \in Rntis
        BY PagedStates DEF Paged, PagedInv, UePaged
    <2>3. ASSUME ueState = "CONNECTED_NORMALLY"
          PROVE  ConnectedPaged(ueMap[rnti], dcchDown[rnti])'
        <3>1. ConnectedPaged(ueMap[rnti], dcchDown[rnti]) /\ rnti \in Rntis
            BY <2>0, <2>2, <2>3 DEF ServingPaged
        <3>2. CASE SettingUp(ueMap[rnti]) /\ dcchDown[rnti] = << >> /\ releases = << >>
            <4> DEFINE t == ueMap[rnti].setupTimeout
                       s == ueMap'[rnti].setupTimeout
            <4>1. t \in Int /\ s \in Int /\ s >= t - 1
                BY <3>1, <1>1
            <4>2. ueMap'[rnti].state = "CONNECTION_SETUP" /\ ueMap'[rnti].inRACH
                BY <3>1, <3>2, <1>1 DEF SettingUp
            <4>3. CASE /\ IsRunning(setupCompleted) /\ NoUpOf(rnti) /\ NoSetupCompleted
                       /\ t + MaxDelay + ProcDelay >= ConnectionSetupTimeoutDuration + setupCompleted
                <5>1. s + MaxDelay + ProcDelay >= ConnectionSetupTimeoutDuration + setupCompleted'
                    <6>1. setupCompleted \in Int /\ setupCompleted' = setupCompleted - 1
                        BY <4>3, <1>5, <1>6, PagedConstants DEF Off
                    <6> HIDE DEF t, s
                    <6> QED BY <6>1, <4>1, <4>3, PagedConstants
                <5>2. SettingUp(ueMap[rnti])'
                    BY <4>2, <4>3, <5>1, <1>6, <1>u, <2>1 DEF SettingUp
                <5> QED BY <5>2, <3>2, <1>7, <1>u DEF ConnectedPaged
            <4>4. CASE /\ ~IsRunning(setupCompleted) /\ SetupCompletedIsLast
                       /\ t + MaxDelay + ProcDelay + waited >= ConnectionSetupTimeoutDuration
                <5>1. waited' = waited + 1
                    <6>1. dcchUp # << >>
                        BY <4>4, PagedTypes DEF SetupCompletedIsLast
                    <6> QED BY <6>1, <1>w DEF IsWaiting
                <5>2. s + MaxDelay + ProcDelay + waited' >= ConnectionSetupTimeoutDuration
                    <6> HIDE DEF t, s
                    <6> QED BY <5>1, <4>1, <4>4, <1>w, PagedConstants
                <5>3. SettingUp(ueMap[rnti])'
                    BY <4>2, <4>4, <5>2, <1>6, <1>u, <2>1 DEF SettingUp
                <5> QED BY <5>3, <3>2, <1>7, <1>u DEF ConnectedPaged
            <4> QED BY <3>2, <4>3, <4>4 DEF SettingUp
        <3>3. CASE /\ ~IsRunning(setupCompleted) /\ NoSetupCompleted
                   /\ Unconfigured(ueMap[rnti]) /\ dcchDown[rnti] = << >> /\ releases = << >>
                   /\ NoUpOf(rnti)
            <4>1. Unconfigured(ueMap'[rnti])
                BY <3>1, <3>3, <1>1
            <4>2. Unconfigured(ueMap[rnti])'
                BY <4>1, <1>u DEF Unconfigured
            <4> QED BY <4>2, <3>3, <1>6, <1>7, <1>u, <2>1 DEF ConnectedPaged
        <3>4. CASE /\ ~IsRunning(setupCompleted) /\ NoSetupCompleted
                   /\ ueMap[rnti].state \in Established /\ HasBearers(dcchDown[rnti])
            <4>1. HasBearers(dcchDown[rnti])' /\ ueMap'[rnti].state \in Established
                BY <3>1, <3>4, <1>1, <1>u, <1>v DEF HasBearers
            <4> QED BY <4>1, <3>4, <1>6, <1>u, <2>1 DEF ConnectedPaged
        <3> QED BY <3>1, <3>2, <3>3, <3>4 DEF ConnectedPaged
    <2>4. ASSUME ueState \in {"IDLE_CONNECTING"} \cup Settled
          PROVE  ueMap'[rnti].state = ueMap[rnti].state /\ ueMap'[rnti].inRACH = ueMap[rnti].inRACH
        BY <2>2, <2>4, <1>1
    <2> QED BY <2>0, <2>1, <2>3, <2>4, <1>u DEF ServingPaged
<1> QED BY <1>2, <1>3, <1>4, <1>8, <1>9, <1>u DEF Paged, PagedInv, NoUnexpectedEvent

\* Every step of a RedCap UE with its cell preserves it, or is one of the errors that
\* downlink data can cause.
LEMMA PagedStep ==
    ASSUME Paged, DurationsInOrder, FALSE \notin AdmitChoices, ProcDelay < T300, [Next]_vars
    PROVE  Paged' \/ fatal' \in DownlinkErrors
<1>0. TypeInv'
    BY TypeInvStep DEF Paged
<1>1. CASE UNCHANGED vars
    <2>1. UNCHANGED <<ueVars, ueMap, redCap, messages, fatal, waited, rnti, setupCompleted, releases,
                      drbs, ueState>>
        BY <1>1 DEF vars, ueVars, ueFlags, gnbVars
    <2>2. UePaged'
        BY <2>1 DEF Paged, PagedInv, UePaged, PendingReleases, ueVars, ueFlags
    <2> QED BY <1>0, <2>1, <2>2, PagedQuiet
<1>2. CASE Proceed
    <2>u. UNCHANGED redCap
        BY <1>2 DEF Proceed, chosen
    <2>1. CASE UeEvent /\ UNCHANGED waited
        <3>1. UNCHANGED ueMap
            BY <2>1 DEF UeEvent, contexts
        <3> QED BY <1>0, <2>u, <2>1, <3>1, NasConnectPaged, SetupCompletedPaged, ReleasePaged,
                   TimeoutPaged DEF UeEvent
    <2>2. CASE Deliver /\ UNCHANGED waited
        BY <1>0, <2>u, <2>2, DeliverPaged
    <2>3. CASE GnbReceive /\ UNCHANGED waited
        <3>1. UNCHANGED <<ueVars, redCap, waited>>
            BY <2>u, <2>3 DEF GnbReceive
        <3> QED BY <1>0, <2>3, <3>1, LostPaged, ConnectionRequestPaged, SetupCompletedReceivedPaged,
                   ResumeCompletePaged, ReconfigurationCompletedPaged, ResumeRequestPaged DEF GnbReceive
    <2>4. CASE GnbEvent /\ UNCHANGED waited
        <3>1. UNCHANGED <<ueVars, redCap, waited>>
            BY <2>u, <2>4 DEF GnbEvent
        <3>2. removals = {}
            BY DEF Paged, PagedInv
        <3> QED BY <1>0, <2>4, <3>1, <3>2, ContextSetupPaged, ConnectionTimeoutsPaged,
                   DataInactivityPaged, BwpSwitchPaged, ReconfigurationPaged DEF GnbEvent
    <2>5. CASE Lose /\ UNCHANGED waited
        <3>1. UNCHANGED <<ueVars, redCap, waited>>
            BY <2>u, <2>5 DEF Lose
        <3> QED BY <1>0, <2>5, <3>1, LostPaged
    <2>6. CASE Tick
        BY <1>0, <2>u, <2>6, TickPaged
    <2> QED BY <1>2, <2>1, <2>2, <2>3, <2>4, <2>5, <2>6 DEF Proceed
<1>3. CASE Input
    <2>u. UNCHANGED <<redCap, waited>>
        BY <1>3 DEF Input, chosen
    <2>1. CASE UeInput
        <3>1. UNCHANGED ueMap
            BY <2>1 DEF UeInput, contexts
        <3> QED BY <1>0, <2>u, <2>1, <3>1, DoSendDataPaged, BroadcastPaged DEF UeInput
    <2>2. CASE GnbInput
        <3>1. UNCHANGED <<ueVars, redCap, waited>>
            BY <2>u, <2>2 DEF GnbInput
        <3> QED BY <1>0, <2>2, <3>1, SendDataPaged, TriggerReleasePaged, DataActivityPaged DEF GnbInput
    <2>3. CASE \E r \in Rntis : RandomAccess(r) \/ RarIsMissed(r)
        BY <1>0, <2>u, <2>3, RandomAccessPaged, RarIsMissedPaged
    <2>4. CASE \E r \in Rntis : Page(r)
        BY <1>0, <2>u, <2>4, PagePaged
    <2> QED BY <1>3, <2>1, <2>2, <2>3, <2>4 DEF Input
<1>4. ~Ended
    BY DEF Ended, Paged, NoUnexpectedEvent
<1> QED BY <1>1, <1>2, <1>3, <1>4 DEF Next

\* It holds when nothing has happened yet.
LEMMA PagedStarts == Init /\ redCap => Paged
<1> SUFFICES ASSUME Init, redCap PROVE Paged
    OBVIOUS
<1>1. TypeInv
    BY TypeInvStarts
<1>2. NoUnexpectedEvent /\ removals = {} /\ ccchUp = {} /\ ccchDown = {} /\ dcchUp = << >>
      /\ dcchDown = [r \in Rntis |-> << >>] /\ ueMap = [r \in Rntis |-> NoContext]
      /\ ueState = "IDLE_WAIT_MIB" /\ releases = << >>
    BY DEF Init, UeInit, GnbInit, ChannelsInit, NoUnexpectedEvent
<1>3. PagedFits(NoContext)
    BY DEF PagedFits, NoContext, IsRunning, Off, Established, SuspendedStates
<1>4. \A q \in Rntis : PagedFits(ueMap[q]) /\ NoRelease(dcchDown[q])
    BY <1>2, <1>3 DEF NoRelease
<1>5. UePaged
    BY <1>2 DEF Init, UeInit, UePaged, PendingReleases, Settled, ActiveStates, AsleepStates,
                ResumingStates, IdleStates, IsRunning
<1>6. ServingPaged
    BY <1>2 DEF ServingPaged, NoSetupCompleted, Settled, AsleepStates, ResumingStates
<1> QED BY <1>1, <1>2, <1>4, <1>5, <1>6 DEF Paged, PagedInv

-----------------------------------------------------------------------------
(***************************************************************************)
(* Of a UE that is not RedCap, no context is suspended and none has        *)
(* bearers before its setup is complete: what the core network sends       *)
(* reaches the UE or ends the simulation.                                  *)
(***************************************************************************)
\* The states of a context before its setup is complete.
EarlyStates == {"INITIAL_RANDOM_ACCESS", "CONNECTION_SETUP"}
\* No context has bearers in one of these.
EarlyWithoutBearers == \A q \in Rntis : ueMap[q].state \in EarlyStates => ~ueMap[q].drbs
\* Nobody was given a paging cycle, which every suspended context has.
NeverSuspended == edrxMap = {} /\ EarlyWithoutBearers

\* A step that changes one context.
LEMMA EarlyStep ==
    ASSUME TypeInv, EarlyWithoutBearers, NEW r \in Rntis, NEW c, Context(r, c),
           c.state \in EarlyStates => ~c.drbs
    PROVE  EarlyWithoutBearers'
<1>1. ueMap \in [Rntis -> Contexts] /\ ueMap' = [ueMap EXCEPT ![r] = c]
    BY DEF TypeInv, TypeOK, GnbTypeOK, Context
<1>2. ueMap'[r] = c /\ \A q \in Rntis \ {r} : ueMap'[q] = ueMap[q]
    BY <1>1
<1> QED BY <1>2 DEF EarlyWithoutBearers

\* The changes of a context that keep its state and its bearers.
LEMMA EarlyHelpers ==
    ASSUME NEW c \in Contexts
    PROVE  /\ Refreshed(c).state = c.state /\ Refreshed(c).drbs = c.drbs
           /\ BwpSwitched(c).state = c.state /\ BwpSwitched(c).drbs = c.drbs
           /\ Released(c).state \in {"INACTIVE", "IDLE"}
           /\ Connected(c).state = "CONNECTED_NORMALLY"
           /\ Ticked(c).state = c.state /\ Ticked(c).drbs = c.drbs
BY DEF Contexts, Refreshed, BwpSwitched, Released, Cancelled, Connected, Ticked

\* The steps that receive what the UE sends.
LEMMA EarlyReceive ==
    ASSUME TypeInv, EarlyWithoutBearers, GnbReceive
    PROVE  EarlyWithoutBearers'
<1>0. \A r \in Rntis : ueMap[r] \in Contexts
    BY DEF TypeInv, TypeOK, GnbTypeOK
<1>s. UNCHANGED ueMap => EarlyWithoutBearers'
    BY DEF EarlyWithoutBearers
<1>1. ASSUME NEW r \in Rntis, RecvRrcConnectionRequest(r)
      PROVE  EarlyWithoutBearers'
    <2> DEFINE c == ueMap[r]
               d == [c EXCEPT !.inRACH = TRUE, !.requestTimeout = Off,
                              !.state = "CONNECTION_SETUP",
                              !.setupTimeout = ConnectionSetupTimeoutDuration]
               e == [[c EXCEPT !.requestTimeout = Off] EXCEPT
                        !.inRACH = TRUE, !.state = "CONNECTION_REJECTED",
                        !.rejectedTimeout = ConnectionRejectedTimeoutDuration]
    <2>1. UNCHANGED ueMap \/ (c.state = "INITIAL_RANDOM_ACCESS" /\ (Context(r, d) \/ Context(r, e)))
        BY <1>1 DEF RecvRrcConnectionRequest, GnbStops, Reject
    <2>2. d.drbs = c.drbs /\ e.state = "CONNECTION_REJECTED"
        BY <1>0 DEF Contexts
    <2>3. c.state = "INITIAL_RANDOM_ACCESS" => ~c.drbs
        BY DEF EarlyWithoutBearers, EarlyStates
    <2>4. e.state \notin EarlyStates
        BY <2>2 DEF EarlyStates
    <2> HIDE DEF d, e
    <2> QED BY <1>s, <2>1, <2>2, <2>3, <2>4, EarlyStep
<1>2. ASSUME NEW m \in ccchUp, RecvRrcResumeRequest(m)
      PROVE  EarlyWithoutBearers'
    <2> DEFINE id == m.resumeIdentity
               c == ueMap[id]
               e == [c EXCEPT !.inRACH = TRUE, !.state = "CONNECTION_REJECTED",
                              !.rejectedTimeout = ConnectionRejectedTimeoutDuration]
    <2>1. UNCHANGED ueMap \/ (id \in Rntis /\ (Context(id, Resumed(c)) \/ Context(id, e)))
        BY <1>2 DEF RecvRrcResumeRequest, GnbStops, Reject, HasUeManager
    <2>2. id \in Rntis => Resumed(c).state \notin EarlyStates /\ e.state \notin EarlyStates
        BY <1>0 DEF Contexts, Resumed, EarlyStates
    <2> HIDE DEF e
    <2> QED BY <1>s, <2>1, <2>2, EarlyStep
<1>3. ASSUME NEW r \in Rntis, RecvRrcConnectionSetupCompleted(r)
      PROVE  EarlyWithoutBearers'
    <2>1. UNCHANGED ueMap \/ Context(r, AttachRequested(ueMap[r]))
        BY <1>3 DEF RecvRrcConnectionSetupCompleted, GnbStops
    <2>2. AttachRequested(ueMap[r]).state \notin EarlyStates
        BY <1>0, RefreshedType DEF AttachRequested, Contexts, EarlyStates
    <2> QED BY <1>s, <2>1, <2>2, EarlyStep
<1>4. ASSUME NEW r \in Rntis, RecvRrcResumeComplete(r)
      PROVE  EarlyWithoutBearers'
    <2> DEFINE d == [Refreshed(ueMap[r]) EXCEPT !.switchingBwp = ResumeBwpSwitch, !.pending = TRUE]
    <2>1. UNCHANGED ueMap \/ Context(r, Connected(d))
        BY <1>4 DEF RecvRrcResumeComplete, GnbStops
    <2>2. d.state = Refreshed(ueMap[r]).state /\ Connected(d).state = "CONNECTED_NORMALLY"
        BY <1>0, RefreshedType DEF Connected, Contexts
    <2>3. Connected(d).state \notin EarlyStates
        BY <2>2 DEF EarlyStates
    <2> HIDE DEF d
    <2> QED BY <1>s, <2>1, <2>3, EarlyStep
<1>5. ASSUME NEW r \in Rntis, RecvRrcConnectionReconfigurationCompleted(r)
      PROVE  EarlyWithoutBearers'
    <2> DEFINE c == [Refreshed(ueMap[r]) EXCEPT !.inRACH = FALSE]
               d == Connected([c EXCEPT !.buffered = 0])
    <2>1. Context(r, d) \/ Context(r, c)
        BY <1>5 DEF RecvRrcConnectionReconfigurationCompleted
    <2>2. c.state = ueMap[r].state /\ c.drbs = ueMap[r].drbs /\ d.state = "CONNECTED_NORMALLY"
        BY <1>0, RefreshedType, EarlyHelpers DEF Connected, Contexts
    <2>3. d.state \notin EarlyStates
        BY <2>2 DEF EarlyStates
    <2>4. c.state \in EarlyStates => ~c.drbs
        BY <2>2 DEF EarlyWithoutBearers
    <2> HIDE DEF c, d
    <2> QED BY <2>1, <2>3, <2>4, EarlyStep
<1>6. CASE DropMsg3 \/ DropUp
    BY <1>s, <1>6 DEF DropMsg3, DropUp
<1> QED BY <1>1, <1>2, <1>3, <1>4, <1>5, <1>6 DEF GnbReceive

\* A release, whatever asks for it.
LEMMA EarlyReleased ==
    ASSUME TypeInv, EarlyWithoutBearers, NEW r \in Rntis, NEW c \in Contexts, SendRrcRelease(r, c)
    PROVE  EarlyWithoutBearers'
<1>1. UNCHANGED ueMap \/ Context(r, Released(c))
    BY DEF SendRrcRelease, GnbStops
<1>2. Released(c).state \notin EarlyStates
    BY EarlyHelpers DEF EarlyStates
<1>3. UNCHANGED ueMap => EarlyWithoutBearers'
    BY DEF EarlyWithoutBearers
<1> QED BY <1>1, <1>2, <1>3, EarlyStep

\* A context that is removed is empty.
LEMMA EarlyRemoved ==
    ASSUME TypeInv, EarlyWithoutBearers, NEW r \in Rntis, RemoveUe(r)
    PROVE  EarlyWithoutBearers'
<1>1. UNCHANGED ueMap \/ Context(r, NoContext)
    BY DEF RemoveUe
<1>2. NoContext.state \notin EarlyStates
    BY DEF NoContext, EarlyStates
<1>3. UNCHANGED ueMap => EarlyWithoutBearers'
    BY DEF EarlyWithoutBearers
<1> QED BY <1>1, <1>2, <1>3, EarlyStep

\* The gNB's events.
LEMMA EarlyEvent ==
    ASSUME TypeInv, EarlyWithoutBearers, GnbEvent
    PROVE  EarlyWithoutBearers'
<1>0. \A r \in Rntis : ueMap[r] \in Contexts
    BY DEF TypeInv, TypeOK, GnbTypeOK
<1>s. UNCHANGED ueMap => EarlyWithoutBearers'
    BY DEF EarlyWithoutBearers
<1>1. ASSUME NEW r \in Rntis, InitialContextSetupRequest(r)
      PROVE  EarlyWithoutBearers'
    <2> DEFINE d == [ueMap[r] EXCEPT !.drbs = TRUE]
    <2>1. Context(r, Connected(d))
        BY <1>1 DEF InitialContextSetupRequest
    <2>2. Connected(d).state \notin EarlyStates
        BY <1>0 DEF Connected, Contexts, EarlyStates
    <2> HIDE DEF d
    <2> QED BY <2>1, <2>2, EarlyStep
<1>2. ASSUME NEW r \in Rntis, ConnectionTimeouts(r)
      PROVE  EarlyWithoutBearers'
    BY <1>2, EarlyRemoved DEF ConnectionTimeouts
<1>3. ASSUME NEW r \in Rntis, DataInactivityTimeout(r)
      PROVE  EarlyWithoutBearers'
    <2>1. ueMap[r] \in Contexts /\ [ueMap[r] EXCEPT !.forgotten = @ \ {0}] \in Contexts
        BY <1>0 DEF Contexts
    <2> QED BY <1>3, <2>1, EarlyReleased DEF DataInactivityTimeout
<1>4. ASSUME NEW r \in Rntis, BwpSwitchCompleted(r)
      PROVE  EarlyWithoutBearers'
    <2> DEFINE c == ueMap[r]
               d == [c EXCEPT !.releaseBwp = @ \ {0}]
    <2>1. Context(r, BwpSwitched(c)) \/ Context(r, BwpSwitched(d))
        BY <1>4 DEF BwpSwitchCompleted
    <2>2. c \in Contexts /\ d \in Contexts /\ d.state = c.state /\ d.drbs = c.drbs
        BY <1>0 DEF Contexts
    <2> HIDE DEF d
    <2>3. /\ BwpSwitched(c).state \in EarlyStates => ~BwpSwitched(c).drbs
          /\ BwpSwitched(d).state \in EarlyStates => ~BwpSwitched(d).drbs
        BY <2>2, EarlyHelpers DEF EarlyWithoutBearers
    <2> QED BY <2>1, <2>3, EarlyStep
<1>5. ASSUME NEW r \in Rntis, ScheduleRrcReconfiguration(r)
      PROVE  EarlyWithoutBearers'
    <2> DEFINE c == [ueMap[r] EXCEPT !.polling = FALSE]
               d == [c EXCEPT !.pending = FALSE, !.state = "CONNECTION_RECONFIGURATION"]
               e == [c EXCEPT !.pending = TRUE]
    <2>1. UNCHANGED ueMap \/ Context(r, d) \/ Context(r, e)
        BY <1>5 DEF ScheduleRrcReconfiguration, GnbStops
    <2>2. d.state = "CONNECTION_RECONFIGURATION" /\ e.state = ueMap[r].state /\ e.drbs = ueMap[r].drbs
        BY <1>0 DEF Contexts
    <2>3. /\ d.state \notin EarlyStates
          /\ e.state \in EarlyStates => ~e.drbs
        BY <2>2 DEF EarlyStates, EarlyWithoutBearers
    <2> HIDE DEF c, d, e
    <2> QED BY <1>s, <2>1, <2>3, EarlyStep
<1>6. ASSUME NEW r \in removals, DoRecvIdealUeContextRemoveRequest(r)
      PROVE  EarlyWithoutBearers'
    BY <1>s, <1>6, EarlyRemoved DEF DoRecvIdealUeContextRemoveRequest, HasUeManager
<1> QED BY <1>1, <1>2, <1>3, <1>4, <1>5, <1>6 DEF GnbEvent

\* Every step.
LEMMA EarlyKept ==
    ASSUME TypeInv, EarlyWithoutBearers, [Next]_vars
    PROVE  EarlyWithoutBearers'
<1>0. ueMap \in [Rntis -> Contexts]
    BY DEF TypeInv, TypeOK, GnbTypeOK
<1>s. UNCHANGED ueMap => EarlyWithoutBearers'
    BY DEF EarlyWithoutBearers
<1>d. ASSUME NEW r, NotifyDataActivity(r)
      PROVE  EarlyWithoutBearers'
    <2>1. r \in Rntis /\ Context(r, Refreshed(ueMap[r]))
        BY <1>d DEF NotifyDataActivity, HasUeManager
    <2>2. Refreshed(ueMap[r]).state \in EarlyStates => ~Refreshed(ueMap[r]).drbs
        BY <1>0, <2>1, EarlyHelpers DEF EarlyWithoutBearers
    <2> QED BY <2>1, <2>2, EarlyStep
<1>a. ASSUME NEW r \in Rntis, AddUe(r)
      PROVE  EarlyWithoutBearers'
    <2> DEFINE c == [NoContext EXCEPT !.state = "INITIAL_RANDOM_ACCESS",
                                      !.requestTimeout = ConnectionRequestTimeoutDuration]
    <2>1. Context(r, c) /\ c.drbs = FALSE
        BY <1>a DEF AddUe, NoContext
    <2> HIDE DEF c
    <2> QED BY <2>1, EarlyStep
<1>1. CASE UNCHANGED vars \/ Ended
    BY <1>s, <1>1 DEF vars, gnbVars, Ended
<1>2. CASE UeEvent \/ UeInput \/ Lose
    BY <1>s, <1>2 DEF UeEvent, UeInput, Lose, contexts
<1>3. CASE Deliver
    BY <1>3, <1>d DEF Deliver
<1>4. CASE GnbReceive \/ GnbEvent
    BY <1>4, EarlyReceive, EarlyEvent
<1>5. CASE Tick
    <2>1. ueMap' = [r \in Rntis |-> Ticked(ueMap[r])]
        BY <1>5 DEF Tick, GnbTick, Ticked
    <2>2. \A q \in Rntis : ueMap'[q].state = ueMap[q].state /\ ueMap'[q].drbs = ueMap[q].drbs
        BY <1>0, <2>1, EarlyHelpers
    <2> QED BY <2>2 DEF EarlyWithoutBearers
<1>6. CASE GnbInput
    <2>1. CASE SendData
        <3> DEFINE c == ueMap[s1Rnti]
                   d == [c EXCEPT !.buffered = @ + 1,
                                  !.state = IF @ = "INACTIVE" THEN "INACTIVE_CONNECTING" ELSE @]
        <3>1. UNCHANGED ueMap \/ (s1Rnti \in Rntis /\ Context(s1Rnti, d))
            BY <2>1 DEF SendData, GnbStops, HasUeManager
        <3>2. s1Rnti \in Rntis => d.drbs = c.drbs /\ d.state \in {c.state, "INACTIVE_CONNECTING"}
            BY <1>0 DEF Contexts
        <3>3. s1Rnti \in Rntis => (d.state \in EarlyStates => ~d.drbs)
            BY <3>2 DEF EarlyStates, EarlyWithoutBearers
        <3> HIDE DEF d
        <3> QED BY <1>s, <3>1, <3>3, EarlyStep
    <2>2. ASSUME NEW r \in Rntis, TriggerRelease(r)
          PROVE  EarlyWithoutBearers'
        BY <1>0, <2>2, EarlyReleased DEF TriggerRelease
    <2> QED BY <1>6, <1>d, <2>1, <2>2 DEF GnbInput
<1>7. ASSUME NEW r \in Rntis, RandomAccess(r) \/ RarIsMissed(r)
      PROVE  EarlyWithoutBearers'
    BY <1>7, <1>a DEF RandomAccess, RarIsMissed
<1>8. ASSUME NEW r \in Rntis, Page(r)
      PROVE  EarlyWithoutBearers'
    BY <1>s, <1>8 DEF Page, SendPaging
<1> QED BY <1>1, <1>2, <1>3, <1>4, <1>5, <1>6, <1>7, <1>8 DEF Next, Proceed, Input

\* Without paging cycles no context is suspended, so that a packet for a UE which is
\* not connected ends the simulation, and otherwise nothing differs from a UE that
\* starts its connections itself.
LEMMA NeverSuspendedStep ==
    ASSUME DurationsInOrder, ~redCap, RrcInv, NeverSuspended, [Next]_vars
    PROVE  \/ fatal' \in DownlinkErrors
           \/ ~redCap' /\ RrcInv' /\ NeverSuspended'
<1>1. TypeInv /\ SuspendedHaveCycle /\ BearersHaveContext
    BY DEF RrcInv, TypeInv, GnbInductive
<1>2. CASE SendData
    <2> DEFINE c == ueMap[s1Rnti]
    <2>1. s1Rnti \in Rntis /\ HasUeManager(s1Rnti) /\ c.drbs
        BY <1>1, <1>2 DEF SendData, BearersHaveContext, HasUeManager
    <2>2. c.state \notin SuspendedStates
        BY <1>1, <2>1 DEF SuspendedHaveCycle, NeverSuspended
    <2>3. c.state \notin EarlyStates
        BY <2>1 DEF NeverSuspended, EarlyWithoutBearers
    <2>4. c.state \notin BufferingStates
        BY <2>2, <2>3 DEF BufferingStates, SuspendedStates, EarlyStates
    <2>5. fatal' = "SendData"
        BY <1>2, <2>1, <2>4 DEF SendData, GnbStops
    <2> QED BY <2>5 DEF DownlinkErrors
<1>3. CASE ~SendData
    <2>1. RrcInv'
        BY <1>3, RrcInvKept
    <2>2. EarlyWithoutBearers'
        BY <1>1, EarlyKept DEF NeverSuspended
    <2>3. UNCHANGED redCap
        BY DEF Next, Proceed, Input, Ended, chosen, vars, gnbVars
    <2>4. edrxMap' = edrxMap
        <3>1. \A r : AddEdrx(r) => edrxMap' = edrxMap
            BY DEF AddEdrx
        <3>2. \A r, c : SendRrcRelease(r, c) => edrxMap' = edrxMap
            BY <3>1 DEF SendRrcRelease, GnbStops
        <3>3. ASSUME NEW r, RemoveUe(r)
              PROVE  edrxMap' = edrxMap
            BY <3>3 DEF RemoveUe
        <3>4. CASE UNCHANGED vars \/ Ended
            BY <3>4 DEF vars, gnbVars, Ended
        <3>5. CASE UeEvent \/ UeInput \/ Lose
            BY <3>5 DEF UeEvent, UeInput, Lose, contexts
        <3>6. CASE Deliver \/ Tick \/ GnbInput
            BY <1>3, <3>2, <3>6 DEF Deliver, NotifyDataActivity, Tick, GnbTick, GnbInput, TriggerRelease
        <3>7. CASE GnbReceive
            BY <3>7 DEF GnbReceive, DropMsg3, DropUp, RecvRrcConnectionRequest, RecvRrcResumeRequest,
               RecvRrcConnectionSetupCompleted, RecvRrcResumeComplete,
               RecvRrcConnectionReconfigurationCompleted, GnbStops
        <3>8. CASE GnbEvent
            BY <3>2, <3>3, <3>8 DEF GnbEvent, InitialContextSetupRequest, ConnectionTimeouts,
               DataInactivityTimeout, BwpSwitchCompleted, ScheduleRrcReconfiguration,
               DoRecvIdealUeContextRemoveRequest, GnbStops
        <3>9. ASSUME NEW r, RandomAccess(r) \/ RarIsMissed(r) \/ Page(r)
              PROVE  edrxMap' = edrxMap
            BY <3>9 DEF RandomAccess, RarIsMissed, Page, SendPaging, AddUe
        <3> QED BY <3>4, <3>5, <3>6, <3>7, <3>8, <3>9 DEF Next, Proceed, Input
    <2> QED BY <2>1, <2>2, <2>3, <2>4 DEF NeverSuspended
<1> QED BY <1>2, <1>3

\* What holds until one of the errors ends the simulation.
DownlinkInv ==
    \/ fatal \in DownlinkErrors
    \/ Paged
    \/ ~redCap /\ RrcInv /\ NeverSuspended

\* The gNB admits every request (attribute AdmitRrcConnectionRequest, true by default,
\* nr-gnb-rrc.cc:2567): the context of a rejected resumption is removed, and if a page
\* started it, a release may still be on its way to the UE.  T300 (2 s, nr-ue-rrc.cc:
\* 283) is longer than the 10 ms after which the UE acts on a release, and the durations
\* are in order.
EveryoneIsAdmitted == DurationsInOrder /\ FALSE \notin AdmitChoices /\ ProcDelay < T300

\* Every step preserves it; after an error there is none.
LEMMA DownlinkInvStep ==
    ASSUME EveryoneIsAdmitted, DownlinkInv, [Next]_vars
    PROVE  DownlinkInv'
<1>1. CASE fatal \in DownlinkErrors
    <2>1. fatal # "none"
        BY <1>1 DEF DownlinkErrors
    <2>2. UNCHANGED fatal
        BY <2>1 DEF Next, Proceed, Input, Ended, vars
    <2>3. DownlinkErrors' = DownlinkErrors
        BY DEF DownlinkErrors
    <2> QED BY <1>1, <2>2, <2>3 DEF DownlinkInv
<1>2. CASE Paged
    BY <1>2, PagedStep DEF DownlinkInv, EveryoneIsAdmitted, DownlinkErrors
<1>3. CASE ~redCap /\ RrcInv /\ NeverSuspended
    BY <1>3, NeverSuspendedStep DEF DownlinkInv, EveryoneIsAdmitted, DownlinkErrors
<1> QED BY <1>1, <1>2, <1>3 DEF DownlinkInv

\* It holds when the simulation starts.
LEMMA DownlinkInvStarts == Init => DownlinkInv
<1> SUFFICES ASSUME Init PROVE DownlinkInv
    OBVIOUS
<1>1. edrxMap = {} /\ ueMap = [r \in Rntis |-> NoContext] /\ NoContext.state = "NONE"
    BY DEF Init, GnbInit, NoContext
<1>2. NeverSuspended
    BY <1>1 DEF NeverSuspended, EarlyWithoutBearers, EarlyStates
<1> QED BY <1>2, PagedStarts, RrcStarts DEF DownlinkInv

\* Whatever the core network sends and whenever the UE is paged, the six errors of
\* DownlinkErrors are the only ones of nr-ue-rrc.cc and nr-gnb-rrc.cc that occur: no
\* context is looked up after it was removed, and none is removed while events that
\* nobody cancels refer to it.
THEOREM OnlyDownlinkErrorsCorrect ==
    ASSUME EveryoneIsAdmitted PROVE Spec => []OnlyDownlinkErrors
<1>1. DownlinkInv /\ [Next]_vars => DownlinkInv'
    BY DownlinkInvStep
<1>2. DownlinkInv => OnlyDownlinkErrors
    BY DEF DownlinkInv, OnlyDownlinkErrors, Paged, RrcInv, NoUnexpectedEvent
<1> QED BY <1>1, <1>2, DownlinkInvStarts, PTL DEF Spec
=============================================================================
