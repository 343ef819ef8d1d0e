-------------------------- MODULE NrUeMacSrProofs --------------------------
(***************************************************************************)
(* The timers of the SR machine match its state, for every set of logical  *)
(* channels, every bound on the queues and every pair of timeouts.  The    *)
(* conjunction of the type invariant and SrTimersMatchState is inductive.  *)
(***************************************************************************)
EXTENDS NrUeMacSr, TLAPS

SrInductive == SrTypeOK /\ SrTimersMatchState /\ NoDciTimeoutInOtherState

\* Counting down keeps a timer a timer, and keeps it running or stopped.
LEMMA CountdownStays ==
    ASSUME NEW limit \in Nat, NEW t \in Timer(limit), t # 0
    PROVE  /\ Countdown(t) \in Timer(limit)
           /\ Countdown(t) # NotRunning => t # NotRunning
BY DEF Countdown, Timer, NotRunning

\* The initial state has no timer running.
LEMMA SrInitInductive == SrInit => SrInductive
BY SrAssumption
   DEF SrInit, SrInductive, SrTypeOK, SrTimersMatchState, NoDciTimeoutInOtherState,
       SrStates, Timer, NotRunning, NoReport

\* Every call, every timeout and every slot keeps the invariant.
LEMMA SrNextInductive == SrInductive /\ [SrNext]_srVars => SrInductive'
<1> SUFFICES ASSUME SrInductive, [SrNext]_srVars
             PROVE  SrInductive'
    OBVIOUS
<1> USE SrAssumption
    DEF SrInductive, SrTypeOK, SrTimersMatchState, NoDciTimeoutInOtherState, SrStates
<1>t. /\ DciTimeout \in Timer(DciTimeout) /\ DciTimeout # NotRunning
      /\ SrTimeout \in Timer(SrTimeout) /\ SrTimeout # NotRunning
      /\ NotRunning \in Timer(DciTimeout) /\ NotRunning \in Timer(SrTimeout)
      /\ NotRunning # 0
    BY DEF Timer, NotRunning
<1>1. CASE DoNotifyConnectionSuccessful
    BY <1>1, <1>t DEF DoNotifyConnectionSuccessful
<1>2. CASE SetRnti
    BY <1>2 DEF SetRnti
<1>3. CASE SrReset
    BY <1>3, <1>t DEF SrReset
<1>4. ASSUME NEW l \in Lcids, DoRemoveLc(l)
      PROVE  SrInductive'
    BY <1>4 DEF DoRemoveLc
<1>5. ASSUME NEW l \in Lcids, NEW bytes \in 0..MaxQueue, DoReportBufferStatus(l, bytes)
      PROVE  SrInductive'
    BY <1>5 DEF DoReportBufferStatus
<1>6. CASE SrSlotIndication
    BY <1>6, <1>t DEF SrSlotIndication
<1>7. ASSUME NEW left \in ServedBy(ulBsrReceived), ProcessNewUlDci(left)
      PROVE  SrInductive'
    BY <1>7, <1>t DEF ProcessNewUlDci, ServedBy
<1>8. CASE ProcessRetxUlDci
    BY <1>8, <1>t DEF ProcessRetxUlDci
<1>9. CASE DciReceptionTimeout
    BY <1>9, <1>t DEF DciReceptionTimeout
<1>10. CASE SrSchedulingTimeout
    BY <1>10, <1>t DEF SrSchedulingTimeout
<1>11. CASE SrTick
    <2>1. /\ waitingForDciReception' \in Timer(DciTimeout)
          /\ waitingForDciReception' # NotRunning => waitingForDciReception # NotRunning
        BY <1>11, CountdownStays DEF SrTick
    <2>2. /\ waitingForSchedulingTimer' \in Timer(SrTimeout)
          /\ waitingForSchedulingTimer' # NotRunning => waitingForSchedulingTimer # NotRunning
        BY <1>11, CountdownStays DEF SrTick
    <2> QED BY <1>11, <2>1, <2>2 DEF SrTick
<1>12. CASE UNCHANGED srVars
    BY <1>12 DEF srVars
<1> QED
    BY <1>1, <1>2, <1>3, <1>4, <1>5, <1>6, <1>7, <1>8, <1>9, <1>10, <1>11, <1>12
    DEF SrNext

\* Type correctness of the SR machine under any calls of its environment.
THEOREM SrTypeCorrect == SrSpec => []SrTypeOK
<1>1. SrInductive => SrTypeOK BY DEF SrInductive
<1> QED BY <1>1, SrInitInductive, SrNextInductive, PTL DEF SrSpec

\* m_waitingForDciReception runs only in WAIT_SCHEDULING and
\* m_waitingForSchedulingTimer only in ACTIVE (nr-ue-mac.cc, every assignment of
\* m_srState and every Cancel of the two events).
THEOREM SrTimersCorrect == SrSpec => []SrTimersMatchState
<1>1. SrInductive => SrTimersMatchState BY DEF SrInductive
<1> QED BY <1>1, SrInitInductive, SrNextInductive, PTL DEF SrSpec

\* DciReceptionTimeout never finds the machine in another state: its
\* NS_FATAL_ERROR is dead code, for every order of calls.
THEOREM SrNoDciTimeoutFatal == SrSpec => []NoDciTimeoutInOtherState
<1>1. SrInductive => NoDciTimeoutInOtherState BY DEF SrInductive
<1> QED BY <1>1, SrInitInductive, SrNextInductive, PTL DEF SrSpec
=============================================================================
