------------------------- MODULE NrUlRequestProofs -------------------------
(***************************************************************************)
(* Requests for uplink resources, for every number of UEs, logical         *)
(* channels, timeouts and messages on their way.                           *)
(*                                                                         *)
(* DemandIsSignalled is not inductive.  It has to hold of a machine that   *)
(* waits for a grant whether bytes are queued or not, because the next     *)
(* report does not wake it up; and of the BSRs on their way only the last  *)
(* one counts, because each overwrites what the scheduler knew.            *)
(***************************************************************************)
EXTENDS NrUlRequest, NrUeMacSrProofs, SequenceTheorems

\* What the scheduler will believe of the UE's queue once it has processed all BSRs
\* that are on their way.
LastWord == IF bsrOnAir # <<>> THEN bsrOnAir[Len(bsrOnAir)] ELSE AfterBsrs

\* A machine that neither reacts to the next report nor is about to send an SR has a
\* timer that will wake it up, or something on its way that leads to a grant.
WaitsForSomething ==
    srState \in {"ACTIVE", "WAIT_SCHEDULING"} =>
        \/ waitingForDciReception # NotRunning
        \/ waitingForSchedulingTimer # NotRunning
        \/ dcisOnAir > 0
        \/ LastWord

UlInductive ==
    /\ TypeOK /\ SrTimersMatchState /\ NoDciTimeoutInOtherState
    /\ rntiValid
    /\ SrListIsKnown
    /\ ~puschLoses => WaitsForSomething

-----------------------------------------------------------------------------
\* The lists of the gNB MAC are the sequences up to their bound.
LEMMA BoundedLists ==
    ASSUME NEW S, NEW n \in Nat, NEW s
    PROVE  s \in UNION {[1..k -> S] : k \in 0..n} <=> s \in Seq(S) /\ Len(s) <= n
<1>1. ASSUME NEW k \in 0..n, s \in [1..k -> S]
      PROVE  s \in Seq(S) /\ Len(s) <= n
    BY <1>1
<1>2. ASSUME s \in Seq(S), Len(s) <= n
      PROVE  s \in UNION {[1..k -> S] : k \in 0..n}
    <2>1. Len(s) \in 0..n /\ s \in [1..Len(s) -> S]
        BY <1>2
    <2> QED BY <2>1
<1> QED BY <1>1, <1>2

\* Appending to a list below its bound, and removing its head, give a list.
LEMMA ListSteps ==
    ASSUME NEW S, NEW n \in Nat, NEW s \in UNION {[1..k -> S] : k \in 0..n}
    PROVE  /\ <<>> \in UNION {[1..k -> S] : k \in 0..n}
           /\ \A x \in S : Len(s) < n => Append(s, x) \in UNION {[1..k -> S] : k \in 0..n}
           /\ s # <<>> => /\ Head(s) \in S
                          /\ Tail(s) \in UNION {[1..k -> S] : k \in 0..n}
<1>0. s \in Seq(S) /\ Len(s) <= n /\ Len(s) \in Nat
    BY BoundedLists
<1>1. <<>> \in Seq(S) /\ Len(<<>>) <= n
    OBVIOUS
<1>2. ASSUME NEW x \in S, Len(s) < n
      PROVE  Append(s, x) \in Seq(S) /\ Len(Append(s, x)) <= n
    BY <1>0, <1>2
<1>3. ASSUME s # <<>>
      PROVE  Head(s) \in S /\ Tail(s) \in Seq(S) /\ Len(Tail(s)) <= n
    BY <1>0, <1>3
<1> HIDE <1>0
<1> QED BY <1>1, <1>2, <1>3, BoundedLists

\* What is appended last is found at the end.
LEMMA LastOfAppend ==
    ASSUME NEW S, NEW s \in Seq(S), NEW x \in S
    PROVE  Append(s, x) # <<>> /\ Append(s, x)[Len(Append(s, x))] = x
OBVIOUS

\* The merged list holds only UEs that were listed, or are known.
LEMMA MergeSrIsKnown ==
    ASSUME NEW srs, NEW S, NEW list \in Seq(S), NEW known, srs \subseteq known
    PROVE  MergeSr(srs, list, known) \subseteq known
<1>1. ASSUME NEW i \in DOMAIN list, \A k \in 1..i : list[k] \in known
      PROVE  list[i] \in known
    BY <1>1
<1> QED BY <1>1 DEF MergeSr

-----------------------------------------------------------------------------
\* Every step is a permitted call of the SR machine, or none.
LEMMA UlNextIsSrStep == [Next]_<<vars, puschLoses>> => [SrNext]_srVars
<1> SUFFICES ASSUME [Next]_<<vars, puschLoses>> PROVE [SrNext]_srVars
    OBVIOUS
<1>u. CASE UNCHANGED <<vars, puschLoses>>
    BY <1>u DEF vars
<1>n. CASE Next
    <2>0. srFatal = "none"
        BY <1>n DEF Next
    <2>1. CASE UeReceivesSetup
        BY <2>0, <2>1 DEF UeReceivesSetup, SrNext
    <2>2. CASE UeRlcReports
        <3>1. PICK l \in Lcids, bytes \in 1..MaxQueue : DoReportBufferStatus(l, bytes)
            BY <2>2 DEF UeRlcReports
        <3>2. bytes \in 0..MaxQueue
            BY SrAssumption
        <3> QED BY <2>0, <3>1, <3>2 DEF SrNext
    <2>3. CASE UeSlot \/ UeTimers \/ UeTick
        BY <2>0, <2>3 DEF UeSlot, UeTimers, UeTick, SrNext
    <2>4. CASE UeReceivesDci
        BY <2>0, <2>4 DEF UeReceivesDci, SrNext
    <2>5. CASE GnbReceivesSr \/ GnbReceivesBsr \/ TransportBlockLost \/ DoScheduleAckDci
        BY <2>5 DEF GnbReceivesSr, GnbReceivesBsr, TransportBlockLost, DoScheduleAckDci
    <2>6. ASSUME NEW r, OtherSr(r) \/ DoCschedUeConfigReq(r) \/ DoCschedUeReleaseReq(r)
          PROVE  UNCHANGED srVars
        BY <2>6 DEF OtherSr, DoCschedUeConfigReq, DoCschedUeReleaseReq
    <2>7. CASE DoTransmitPdu \/ GnbSlot
        BY <2>7 DEF DoTransmitPdu, GnbSlot, DoSlotUlIndication
    <2> QED BY <1>n, <2>1, <2>2, <2>3, <2>4, <2>5, <2>6, <2>7 DEF Next
<1> QED BY <1>u, <1>n

\* The lists of the gNB MAC and the BSRs on their way stay within their bounds.
LEMMA UlListsStep ==
    ASSUME TypeOK, [Next]_<<vars, puschLoses>>
    PROVE  /\ srRntiList' \in SrLists
           /\ bsrOnAir' \in BsrLists
           /\ ulCeReceived' \in BsrLists
<1> USE UlRequestAssumption
<1>t. srRntiList \in SrLists /\ bsrOnAir \in BsrLists /\ ulCeReceived \in BsrLists
    BY DEF TypeOK
<1>e. <<>> \in SrLists /\ <<>> \in BsrLists
    BY <1>t, ListSteps DEF SrLists, BsrLists
<1>1. ASSUME NEW r \in Rntis, Len(srRntiList) < MaxSrList
      PROVE  Append(srRntiList, r) \in SrLists
    BY <1>1, <1>t, ListSteps DEF SrLists
<1>2. ASSUME NEW b \in BOOLEAN, NEW s \in BsrLists, Len(s) < MaxInFlight
      PROVE  Append(s, b) \in BsrLists
    BY <1>2, ListSteps DEF BsrLists
<1>3. ASSUME NEW s \in BsrLists, s # <<>>
      PROVE  Head(s) \in BOOLEAN /\ Tail(s) \in BsrLists
    BY <1>3, ListSteps DEF BsrLists
<1>u. CASE UNCHANGED <<srRntiList, bsrOnAir, ulCeReceived>>
    BY <1>t, <1>u
<1>a. CASE UeReceivesDci
    <2>1. PICK left \in ServedBy(ulBsrReceived) :
              bsrOnAir' = IF SendsBsr(left) THEN Append(bsrOnAir, Backlog(left)) ELSE bsrOnAir
        BY <1>a DEF UeReceivesDci
    <2>2. Backlog(left) \in BOOLEAN /\ Len(bsrOnAir) < MaxInFlight
        BY <1>a DEF UeReceivesDci, Backlog
    <2>3. Append(bsrOnAir, Backlog(left)) \in BsrLists
        BY <2>2, <1>2, <1>t
    <2> QED BY <1>a, <1>t, <2>1, <2>3 DEF UeReceivesDci
<1>b. CASE GnbReceivesSr
    <2>1. Append(srRntiList, Ue) \in SrLists
        BY <1>b, <1>1 DEF GnbReceivesSr, Rntis
    <2> QED BY <1>b, <1>t, <2>1 DEF GnbReceivesSr
<1>c. ASSUME NEW r \in Others, OtherSr(r)
      PROVE  srRntiList' \in SrLists /\ UNCHANGED <<bsrOnAir, ulCeReceived>>
    <2>1. Append(srRntiList, r) \in SrLists
        BY <1>c, <1>1 DEF OtherSr, Rntis
    <2> QED BY <1>c, <2>1 DEF OtherSr
<1>d. CASE GnbReceivesBsr
    <2>1. Head(bsrOnAir) \in BOOLEAN /\ Tail(bsrOnAir) \in BsrLists
        BY <1>d, <1>3, <1>t DEF GnbReceivesBsr
    <2>2. Append(ulCeReceived, Head(bsrOnAir)) \in BsrLists
        BY <1>d, <1>2, <1>t, <2>1 DEF GnbReceivesBsr
    <2> QED BY <1>d, <1>t, <2>1, <2>2 DEF GnbReceivesBsr
<1>f. CASE TransportBlockLost
    <2>1. Tail(bsrOnAir) \in BsrLists
        BY <1>f, <1>3, <1>t DEF TransportBlockLost
    <2> QED BY <1>f, <1>t, <2>1 DEF TransportBlockLost
<1>g. CASE GnbSlot
    BY <1>g, <1>t, <1>e DEF GnbSlot, DoSlotUlIndication
<1>h. CASE UeReceivesSetup \/ UeRlcReports \/ UeSlot \/ UeTimers \/ UeTick
           \/ DoScheduleAckDci \/ DoTransmitPdu
    BY <1>h, <1>u DEF UeReceivesSetup, UeRlcReports, UeSlot, UeTimers, UeTick, gnbVars,
           DoScheduleAckDci, DoTransmitPdu
<1>i. ASSUME NEW r \in Others, DoCschedUeConfigReq(r) \/ DoCschedUeReleaseReq(r)
      PROVE  UNCHANGED <<srRntiList, bsrOnAir, ulCeReceived>>
    BY <1>i DEF DoCschedUeConfigReq, DoCschedUeReleaseReq
<1>s. CASE UNCHANGED <<vars, puschLoses>>
    BY <1>s, <1>u DEF vars, gnbVars
<1> QED
    BY <1>t, <1>u, <1>a, <1>b, <1>c, <1>d, <1>f, <1>g, <1>h, <1>i, <1>s DEF Next

\* The scheduler's list holds only UEs it knows, and only DoCschedUeConfigReq
\* and DoCschedUeReleaseReq change whom it knows.
LEMMA UlKnownStep ==
    ASSUME TypeOK, SrListIsKnown, [Next]_<<vars, puschLoses>>
    PROVE  SrListIsKnown' /\ (ueMap \subseteq Rntis)'
<1>t. srList \subseteq ueMap /\ ueMap \subseteq Rntis
    BY DEF TypeOK, SrListIsKnown
<1>m. MergeSr(srList, srRntiList, ueMap) \subseteq ueMap
    <2>1. srRntiList \in Seq(Rntis)
        BY BoundedLists, UlRequestAssumption DEF TypeOK, SrLists
    <2> QED BY <1>t, <2>1, MergeSrIsKnown
<1>1. CASE UNCHANGED <<srList, ueMap>>
    BY <1>1, <1>t DEF SrListIsKnown
<1>2. CASE DoTransmitPdu
    <2>1. <<Ue>> \in Seq(Rntis)
        BY DEF Rntis
    <2>2. MergeSr(srList, <<Ue>>, ueMap) \subseteq ueMap
        BY <1>t, <2>1, MergeSrIsKnown
    <2> QED BY <1>2, <1>t, <2>2 DEF DoTransmitPdu, SrListIsKnown
<1>3. CASE GnbSlot
    BY <1>3, <1>t, <1>m DEF GnbSlot, DoSlotUlIndication, SrListIsKnown
<1>4. ASSUME NEW r \in Others, DoCschedUeConfigReq(r) \/ DoCschedUeReleaseReq(r)
      PROVE  SrListIsKnown' /\ (ueMap \subseteq Rntis)'
    BY <1>4, <1>t DEF DoCschedUeConfigReq, DoCschedUeReleaseReq, SrListIsKnown, Rntis
<1>5. CASE UeReceivesSetup \/ UeRlcReports \/ UeSlot \/ UeReceivesDci \/ UeTimers \/ UeTick
    BY <1>5, <1>1 DEF UeReceivesSetup, UeRlcReports, UeSlot, UeReceivesDci, UeTimers, UeTick,
           gnbVars
<1>6. CASE GnbReceivesSr \/ GnbReceivesBsr \/ TransportBlockLost \/ DoScheduleAckDci
    BY <1>6, <1>1 DEF GnbReceivesSr, GnbReceivesBsr, TransportBlockLost, DoScheduleAckDci
<1>7. ASSUME NEW r \in Others, OtherSr(r)
      PROVE  UNCHANGED <<srList, ueMap>>
    BY <1>7 DEF OtherSr
<1>8. CASE UNCHANGED <<vars, puschLoses>>
    BY <1>8, <1>1 DEF vars, gnbVars
<1> QED BY <1>1, <1>2, <1>3, <1>4, <1>5, <1>6, <1>7, <1>8 DEF Next

\* The remaining variables keep their types.
LEMMA UlScalarsStep ==
    ASSUME TypeOK, [Next]_<<vars, puschLoses>>
    PROVE  /\ ackDci' \in {"none", "listed", "requested"}
           /\ srOnAir' \in BOOLEAN
           /\ ulLcgBytes' \in BOOLEAN
           /\ dcisOnAir' \in 0..MaxInFlight
           /\ lateSrs' \in 0..MaxLateSrs
           /\ puschLoses' \in BOOLEAN
<1> USE UlRequestAssumption
<1>1. ackDci' \in {"none", "listed", "requested"} /\ puschLoses' \in BOOLEAN
    BY Zenon DEF TypeOK, Next, vars, gnbVars, UeReceivesSetup, UeRlcReports, UeSlot,
           UeReceivesDci, UeTimers, UeTick, GnbReceivesSr, GnbReceivesBsr, TransportBlockLost,
           OtherSr, DoCschedUeConfigReq, DoCschedUeReleaseReq, DoScheduleAckDci, DoTransmitPdu,
           GnbSlot, DoSlotUlIndication
<1>2. srOnAir' \in BOOLEAN
    BY DEF TypeOK, Next, vars, gnbVars, UeReceivesSetup, UeRlcReports, UeSlot,
           UeReceivesDci, UeTimers, UeTick, GnbReceivesSr, GnbReceivesBsr, TransportBlockLost,
           OtherSr, DoCschedUeConfigReq, DoCschedUeReleaseReq, DoScheduleAckDci, DoTransmitPdu,
           GnbSlot, DoSlotUlIndication
<1>3. ulLcgBytes' \in BOOLEAN
    BY DEF TypeOK, Next, vars, gnbVars, UeReceivesSetup, UeRlcReports, UeSlot,
           UeReceivesDci, UeTimers, UeTick, GnbReceivesSr, GnbReceivesBsr, TransportBlockLost,
           OtherSr, DoCschedUeConfigReq, DoCschedUeReleaseReq, DoScheduleAckDci, DoTransmitPdu,
           GnbSlot, DoSlotUlIndication, AfterBsrs
<1>4. dcisOnAir' \in 0..MaxInFlight
    <2>t. dcisOnAir \in 0..MaxInFlight
        BY DEF TypeOK
    <2>1. CASE UeReceivesDci
        BY <2>1, <2>t DEF UeReceivesDci
    <2>2. CASE GnbSlot
        BY <2>2, <2>t DEF GnbSlot, DoSlotUlIndication
    <2>3. ~UeReceivesDci /\ ~GnbSlot => UNCHANGED dcisOnAir
        BY DEF Next, vars, gnbVars, UeReceivesSetup, UeRlcReports, UeSlot, UeTimers, UeTick,
               GnbReceivesSr, GnbReceivesBsr, TransportBlockLost, OtherSr, DoCschedUeConfigReq,
               DoCschedUeReleaseReq, DoScheduleAckDci, DoTransmitPdu
    <2> QED BY <2>t, <2>1, <2>2, <2>3
<1>5. lateSrs' \in 0..MaxLateSrs
    BY DEF TypeOK, Next, vars, gnbVars, UeReceivesSetup, UeRlcReports, UeSlot,
           UeReceivesDci, UeTimers, UeTick, GnbReceivesSr, GnbReceivesBsr, TransportBlockLost,
           OtherSr, DoCschedUeConfigReq, DoCschedUeReleaseReq, DoScheduleAckDci, DoTransmitPdu,
           GnbSlot, DoSlotUlIndication, CountLateSr
<1> QED BY <1>1, <1>2, <1>3, <1>4, <1>5

\* Counting down never stops a timer that runs and is not due.
LEMMA CountdownRuns ==
    ASSUME NEW limit \in Nat, NEW t \in Timer(limit), t # 0, t # NotRunning
    PROVE  Countdown(t) # NotRunning
BY DEF Countdown, Timer, NotRunning

\* Receiving a BSR moves the last word along with it.
LEMMA BsrKeepsLastWord ==
    ASSUME TypeOK, GnbReceivesBsr
    PROVE  LastWord' = LastWord
<1>1. /\ bsrOnAir \in Seq(BOOLEAN) /\ bsrOnAir # <<>>
      /\ ulCeReceived \in Seq(BOOLEAN)
    BY BoundedLists, UlRequestAssumption DEF TypeOK, BsrLists, GnbReceivesBsr
<1>2. /\ bsrOnAir' = Tail(bsrOnAir)
      /\ ulCeReceived' = Append(ulCeReceived, Head(bsrOnAir))
    BY DEF GnbReceivesBsr
<1>3. /\ ulCeReceived' # <<>>
      /\ ulCeReceived'[Len(ulCeReceived')] = Head(bsrOnAir)
    BY <1>1, <1>2
<1>4. CASE Len(bsrOnAir) = 1
    <2>1. bsrOnAir' = <<>> /\ Head(bsrOnAir) = bsrOnAir[Len(bsrOnAir)]
        BY <1>1, <1>2, <1>4
    <2> QED BY <1>1, <1>3, <2>1 DEF LastWord, AfterBsrs
<1>5. CASE Len(bsrOnAir) > 1
    <2>1. bsrOnAir' # <<>> /\ bsrOnAir'[Len(bsrOnAir')] = bsrOnAir[Len(bsrOnAir)]
        BY <1>1, <1>2, <1>5
    <2> QED BY <1>1, <2>1 DEF LastWord
<1> QED BY <1>1, <1>4, <1>5

\* A machine that waits goes on waiting for something, one case per action.  The
\* DCI that stops both timers and leaves bytes behind carries a BSR that says so.
LEMMA UlWaitsStep ==
    ASSUME UlInductive, ~puschLoses, Next
    PROVE  WaitsForSomething'
<1>t. /\ TypeOK /\ SrTimersMatchState /\ rntiValid /\ WaitsForSomething
      /\ waitingForDciReception \in Timer(DciTimeout)
      /\ waitingForSchedulingTimer \in Timer(SrTimeout)
      /\ NotRunning # 0 /\ DciTimeout # NotRunning /\ SrTimeout # NotRunning
    BY SrAssumption DEF UlInductive, TypeOK, SrTypeOK, NotRunning
<1>1. ASSUME srState' = srState,
             UNCHANGED <<waitingForDciReception, waitingForSchedulingTimer, dcisOnAir>>,
             LastWord' = LastWord
      PROVE  WaitsForSomething'
    BY <1>1, <1>t DEF WaitsForSomething
<1>l. UNCHANGED <<bsrOnAir, ulCeReceived, ulLcgBytes>> => LastWord' = LastWord
    BY DEF LastWord, AfterBsrs
<1>2. CASE UeReceivesSetup
    BY <1>2, <1>t DEF UeReceivesSetup, DoNotifyConnectionSuccessful, WaitsForSomething
<1>3. CASE UeRlcReports
    BY <1>3, <1>t, <1>l DEF UeRlcReports, DoReportBufferStatus, WaitsForSomething, gnbVars
<1>4. CASE UeSlot
    BY <1>4, <1>t, <1>l DEF UeSlot, SrSlotIndication, WaitsForSomething
<1>5. CASE UeReceivesDci
    <2>1. PICK left \in ServedBy(ulBsrReceived) :
              /\ srState' = IF Backlog(left) THEN srState ELSE "INACTIVE"
              /\ bsrOnAir' = IF SendsBsr(left) THEN Append(bsrOnAir, Backlog(left))
                                               ELSE bsrOnAir
        BY <1>5 DEF UeReceivesDci, ProcessNewUlDci
    <2>2. CASE ~Backlog(left)
        BY <2>1, <2>2 DEF WaitsForSomething
    <2>3. CASE Backlog(left)
        <3>1. SendsBsr(left)
            BY <2>3, <1>t DEF Backlog, SendsBsr, NoReport
        <3>2. bsrOnAir' = Append(bsrOnAir, TRUE)
            BY <2>1, <2>3, <3>1, Zenon
        <3>3. bsrOnAir \in Seq(BOOLEAN)
            BY <1>t, BoundedLists, UlRequestAssumption DEF TypeOK, BsrLists
        <3>4. bsrOnAir' # <<>> /\ bsrOnAir'[Len(bsrOnAir')] = TRUE
            BY <3>2, <3>3, LastOfAppend, Zenon
        <3> QED BY <3>4 DEF WaitsForSomething, LastWord
    <2> QED BY <2>2, <2>3
<1>6. CASE UeTimers
    BY <1>6, <1>t DEF UeTimers, DciReceptionTimeout, SrSchedulingTimeout, WaitsForSomething,
           SrTimersMatchState
<1>7. CASE UeTick
    <2>1. /\ waitingForDciReception # NotRunning => waitingForDciReception' # NotRunning
          /\ waitingForSchedulingTimer # NotRunning => waitingForSchedulingTimer' # NotRunning
        BY <1>7, <1>t, CountdownRuns, SrAssumption DEF UeTick, SrTick
    <2> QED BY <1>7, <1>t, <1>l, <2>1 DEF UeTick, SrTick, WaitsForSomething, gnbVars
<1>8. CASE GnbReceivesBsr
    BY <1>8, <1>1, <1>t, BsrKeepsLastWord DEF GnbReceivesBsr, srVars
<1>9. CASE TransportBlockLost
    BY <1>9 DEF TransportBlockLost
<1>10. CASE GnbSlot
    <2>1. PICK symbols \in BOOLEAN, grant \in BOOLEAN : DoSlotUlIndication(symbols, grant)
        BY <1>10 DEF GnbSlot
    <2>2. CASE grant
        <3>1. dcisOnAir' > 0
            BY <2>1, <2>2, <1>t DEF DoSlotUlIndication, TypeOK
        <3> QED BY <3>1 DEF WaitsForSomething
    <2>3. CASE ~grant
        <3>1. /\ ulCeReceived' = <<>>
              /\ ulLcgBytes' = (AfterBsrs \/ (symbols /\ Ue \in MergeSr(srList, srRntiList, ueMap)))
              /\ UNCHANGED <<srVars, bsrOnAir, dcisOnAir>>
            BY <2>1, <2>3 DEF DoSlotUlIndication
        <3>2. LastWord => LastWord'
            BY <3>1 DEF LastWord, AfterBsrs
        <3> QED BY <1>t, <3>1, <3>2 DEF WaitsForSomething, srVars
    <2> QED BY <2>2, <2>3
<1>11. CASE GnbReceivesSr \/ DoScheduleAckDci \/ DoTransmitPdu
    BY <1>11, <1>1, <1>l DEF GnbReceivesSr, DoScheduleAckDci, DoTransmitPdu, srVars
<1>12. ASSUME NEW r \in Others,
              OtherSr(r) \/ DoCschedUeConfigReq(r) \/ DoCschedUeReleaseReq(r)
       PROVE  WaitsForSomething'
    BY <1>12, <1>1, <1>l DEF OtherSr, DoCschedUeConfigReq, DoCschedUeReleaseReq, srVars
<1> QED
    BY <1>2, <1>3, <1>4, <1>5, <1>6, <1>7, <1>8, <1>9, <1>10, <1>11, <1>12 DEF Next

-----------------------------------------------------------------------------
\* Nothing is on its way when the RRC setup is.
LEMMA UlInitInductive == Init => UlInductive
<1> SUFFICES ASSUME Init PROVE UlInductive
    OBVIOUS
<1> USE SrAssumption, UlRequestAssumption
<1>1. SrTypeOK /\ SrTimersMatchState /\ NoDciTimeoutInOtherState /\ rntiValid
    BY DEF Init, SrTypeOK, SrTimersMatchState, NoDciTimeoutInOtherState, SrStates, Timer,
           NotRunning, NoReport
<1>2. <<>> \in SrLists /\ <<>> \in BsrLists
    <2>1. \A S : <<>> \in Seq(S) /\ Len(<<>>) <= MaxSrList /\ Len(<<>>) <= MaxInFlight
        OBVIOUS
    <2> QED BY <2>1, BoundedLists DEF SrLists, BsrLists
<1>3. TypeOK
    <2>1. puschLoses \in BOOLEAN /\ srOnAir \in BOOLEAN /\ ulLcgBytes \in BOOLEAN
        BY Zenon DEF Init
    <2>2. /\ dcisOnAir \in 0..MaxInFlight /\ lateSrs \in 0..MaxLateSrs
          /\ ackDci \in {"none", "listed", "requested"}
          /\ ueMap \subseteq Rntis /\ srList \subseteq Rntis
        BY DEF Init, Rntis
    <2>3. srRntiList \in SrLists /\ bsrOnAir \in BsrLists /\ ulCeReceived \in BsrLists
        BY <1>2 DEF Init
    <2> QED BY <1>1, <2>1, <2>2, <2>3, Zenon DEF TypeOK
<1>4. SrListIsKnown /\ WaitsForSomething
    BY DEF Init, SrListIsKnown, WaitsForSomething
<1> QED BY <1>1, <1>3, <1>4 DEF UlInductive

\* Every step of the UE, of the gNB MAC and of the scheduler keeps the invariant.
LEMMA UlNextInductive == UlInductive /\ [Next]_<<vars, puschLoses>> => UlInductive'
<1> SUFFICES ASSUME UlInductive, [Next]_<<vars, puschLoses>> PROVE UlInductive'
    OBVIOUS
<1>t. TypeOK /\ SrListIsKnown /\ rntiValid
    BY DEF UlInductive
<1>1. SrInductive'
    BY UlNextIsSrStep, SrNextInductive DEF UlInductive, SrInductive, TypeOK
<1>2. TypeOK' /\ SrListIsKnown'
    <2>1. SrListIsKnown' /\ (ueMap \subseteq Rntis)'
        BY <1>t, UlKnownStep
    <2>2. (srList \subseteq Rntis)'
        BY <2>1 DEF SrListIsKnown
    <2> QED BY <1>t, <1>1, <2>1, <2>2, UlListsStep, UlScalarsStep DEF TypeOK, SrInductive
<1>3. rntiValid' = rntiValid
    BY DEF Next, vars, srVars, UeReceivesSetup, UeRlcReports, UeSlot, UeReceivesDci, UeTimers,
           UeTick, GnbReceivesSr, GnbReceivesBsr, TransportBlockLost, OtherSr,
           DoCschedUeConfigReq, DoCschedUeReleaseReq, DoScheduleAckDci, DoTransmitPdu, GnbSlot,
           DoSlotUlIndication, DoNotifyConnectionSuccessful, DoReportBufferStatus,
           SrSlotIndication, ProcessNewUlDci, DciReceptionTimeout, SrSchedulingTimeout, SrTick
<1>4. ~puschLoses' => WaitsForSomething'
    <2>1. puschLoses' = puschLoses
        BY DEF Next
    <2>2. CASE UNCHANGED <<vars, puschLoses>>
        BY <2>1, <2>2 DEF UlInductive, WaitsForSomething, LastWord, AfterBsrs, vars, srVars,
               gnbVars
    <2>3. CASE Next
        BY <2>1, <2>3, UlWaitsStep
    <2> QED BY <2>2, <2>3
<1> QED BY <1>t, <1>1, <1>2, <1>3, <1>4 DEF UlInductive, SrInductive

\* A machine that waits for something has its demand signalled: the last word is
\* known to the scheduler, or is one of the BSRs on their way.
LEMMA UlInductiveSuffices == UlInductive => TypeOK /\ SrListIsKnown /\ DemandIsSignalled
<1> SUFFICES ASSUME UlInductive, ~puschLoses
             PROVE  DemandIsSignalled
    BY DEF UlInductive, DemandIsSignalled
<1>1. /\ bsrOnAir \in Seq(BOOLEAN) /\ ulCeReceived \in Seq(BOOLEAN)
      /\ srState \in SrStates
    BY BoundedLists, UlRequestAssumption DEF UlInductive, TypeOK, BsrLists, SrTypeOK
<1>2. /\ bsrOnAir # <<>> => Len(bsrOnAir) \in DOMAIN bsrOnAir
      /\ ulCeReceived # <<>> => Len(ulCeReceived) \in DOMAIN ulCeReceived
    BY <1>1
<1>3. LastWord => \/ ulLcgBytes
                  \/ \E i \in DOMAIN bsrOnAir : bsrOnAir[i]
                  \/ \E i \in DOMAIN ulCeReceived : ulCeReceived[i]
    BY <1>2, Zenon DEF LastWord, AfterBsrs
<1>4. WaitsForSomething
    BY DEF UlInductive
<1> QED BY <1>1, <1>3, <1>4, Zenon DEF WaitsForSomething, DemandIsSignalled, SrStates

-----------------------------------------------------------------------------
\* Type correctness of the UE and the gNB together, for every set of UEs and
\* logical channels and all bounds.
THEOREM UlTypeCorrect == Spec => []TypeOK
BY UlInitInductive, UlNextInductive, UlInductiveSuffices, PTL DEF Spec

\* m_ueMap.at(v) of DoScheduleUlSr never meets a released UE, however SRs,
\* releases and the request of the RRC interleave: DoSchedUlSrInfoReq checks the
\* map when it merges and DoCschedUeReleaseReq removes the UE from m_srList.
THEOREM UlSrListIsKnown == Spec => []SrListIsKnown
BY UlInitInductive, UlNextInductive, UlInductiveSuffices, PTL DEF Spec

\* No lost wake-up: as long as no transport block is lost, a UE with bytes queued
\* has a timer running, a grant or a BSR on its way, or is known to the scheduler,
\* for every pair of timeouts and any number of messages on their way.
THEOREM UlDemandIsSignalled == Spec => []DemandIsSignalled
BY UlInitInductive, UlNextInductive, UlInductiveSuffices, PTL DEF Spec
=============================================================================
