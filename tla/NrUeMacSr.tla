----------------------------- MODULE NrUeMacSr -----------------------------
(***************************************************************************)
(* The scheduling-request / buffer-status machine of the UE MAC            *)
(* (nr-ue-mac.cc): m_srState, its two timers, and the buffer status that   *)
(* the RLC entities last reported.                                         *)
(*                                                                         *)
(* Time advances in slots.  A timer is a countdown: NotRunning, or the     *)
(* number of slots left; it is due at 0.  Time does not advance past a due *)
(* event, and a due timer and the slot indication of the same instant may  *)
(* be executed in either order.                                            *)
(*                                                                         *)
(* In this module the RRC, the RLC and the gNB are unconstrained: any call *)
(* can come at any time.  NrUeMac and NrUlRequest close it with models of  *)
(* them.                                                                   *)
(***************************************************************************)
EXTENDS Integers

CONSTANTS
    Lcids,        \* logical channels that have an RLC entity
    MaxQueue,     \* bound on the size one RLC entity reports
    SrTimeout,    \* slots until SrSchedulingTimeout (100 ms in the code)
    DciTimeout    \* slots until DciReceptionTimeout (30 ms in the code)

ASSUME SrAssumption ==
    /\ MaxQueue \in Nat \ {0}
    /\ SrTimeout \in Nat \ {0}
    /\ DciTimeout \in Nat \ {0}

VARIABLES
    srState,                    \* m_srState
    waitingForDciReception,     \* EventId of DciReceptionTimeout
    waitingForSchedulingTimer,  \* EventId of SrSchedulingTimeout
    rntiValid,                  \* m_rnti # 0
    ulBsrReceived,              \* m_ulBsrReceived: size per LC, or NoReport
    slotDue,                    \* the slot indication of this instant is due
    srFatal                     \* the NS_FATAL_ERROR that ended the run

srVars == <<srState, waitingForDciReception, waitingForSchedulingTimer,
            rntiValid, ulBsrReceived, slotDue, srFatal>>

NotRunning == -1
NoReport == -1
SrStates == {"INACTIVE", "TO_SEND", "ACTIVE", "WAIT_SCHEDULING"}

\* Mutant of Countdown: a stopped or due timer counts on.
CountdownRunsOn(t) == t - 1

Countdown(t) == IF t > 0 THEN t - 1 ELSE t
Timer(limit) == {NotRunning} \cup 0..limit

\* GetTotalBufSize() # 0.
Backlog(bsr) == \E l \in Lcids : bsr[l] > 0

SrTypeOK ==
    /\ srState \in SrStates
    /\ waitingForDciReception \in Timer(DciTimeout)
    /\ waitingForSchedulingTimer \in Timer(SrTimeout)
    /\ rntiValid \in BOOLEAN
    /\ ulBsrReceived \in [Lcids -> {NoReport} \cup 0..MaxQueue]
    /\ slotDue \in BOOLEAN
    /\ srFatal \in {"none", "SrWhileConnecting", "DciTimeoutInOtherState"}

SrInit ==
    /\ srState = "INACTIVE"
    /\ waitingForDciReception = NotRunning
    /\ waitingForSchedulingTimer = NotRunning
    /\ rntiValid = FALSE
    /\ ulBsrReceived = [l \in Lcids |-> NoReport]
    /\ slotDue = FALSE
    /\ srFatal = "none"

(***************************************************************************)
(* Calls of the RRC                                                        *)
(***************************************************************************)
\* The RRC setup arrived: wait for the DCI of RRC setup complete.
DoNotifyConnectionSuccessful ==
    /\ IF srState = "INACTIVE"
       THEN /\ srState' = "WAIT_SCHEDULING"
            /\ waitingForDciReception' = DciTimeout
            /\ UNCHANGED srFatal
       ELSE /\ srFatal' = "SrWhileConnecting"
            /\ UNCHANGED <<srState, waitingForDciReception>>
    /\ UNCHANGED <<waitingForSchedulingTimer, rntiValid, ulBsrReceived, slotDue>>

\* The m_rnti assignment of RecvRaResponse.
SetRnti ==
    /\ rntiValid' = TRUE
    /\ UNCHANGED <<srState, waitingForDciReception, waitingForSchedulingTimer,
                   ulBsrReceived, slotDue, srFatal>>

\* Mutants of SrReset: each forgets one assignment or one Cancel of DoReset.
SrResetKeepsRnti ==
    /\ ulBsrReceived' = [l \in Lcids |-> NoReport]
    /\ srState' = "INACTIVE"
    /\ waitingForDciReception' = NotRunning
    /\ waitingForSchedulingTimer' = NotRunning
    /\ UNCHANGED <<rntiValid, slotDue, srFatal>>

SrResetKeepsBsr ==
    /\ rntiValid' = FALSE
    /\ srState' = "INACTIVE"
    /\ waitingForDciReception' = NotRunning
    /\ waitingForSchedulingTimer' = NotRunning
    /\ UNCHANGED <<ulBsrReceived, slotDue, srFatal>>

SrResetKeepsState ==
    /\ rntiValid' = FALSE
    /\ ulBsrReceived' = [l \in Lcids |-> NoReport]
    /\ waitingForDciReception' = NotRunning
    /\ waitingForSchedulingTimer' = NotRunning
    /\ UNCHANGED <<srState, slotDue, srFatal>>

SrResetKeepsDciTimer ==
    /\ rntiValid' = FALSE
    /\ ulBsrReceived' = [l \in Lcids |-> NoReport]
    /\ srState' = "INACTIVE"
    /\ waitingForSchedulingTimer' = NotRunning
    /\ UNCHANGED <<waitingForDciReception, slotDue, srFatal>>

\* The part of DoReset on this machine's state.
SrReset ==
    /\ rntiValid' = FALSE
    /\ ulBsrReceived' = [l \in Lcids |-> NoReport]
    /\ srState' = "INACTIVE"
    /\ waitingForDciReception' = NotRunning
    /\ waitingForSchedulingTimer' = NotRunning
    /\ UNCHANGED <<slotDue, srFatal>>

DoRemoveLc(l) ==
    /\ ulBsrReceived' = [ulBsrReceived EXCEPT ![l] = NoReport]
    /\ UNCHANGED <<srState, waitingForDciReception, waitingForSchedulingTimer,
                   rntiValid, slotDue, srFatal>>

(***************************************************************************)
(* Calls of the RLC and of the PHY                                         *)
(***************************************************************************)
\* The RLC entity of l reports its queue; whatever the size, INACTIVE ends.
DoReportBufferStatus(l, bytes) ==
    /\ ulBsrReceived' = [ulBsrReceived EXCEPT ![l] = bytes]
    /\ srState' = IF srState = "INACTIVE" THEN "TO_SEND" ELSE srState
    /\ UNCHANGED <<waitingForDciReception, waitingForSchedulingTimer,
                   rntiValid, slotDue, srFatal>>

\* SendSR puts a message on the air only once the MAC has an RNTI.
SendsSR == srState = "TO_SEND" /\ rntiValid

\* The SR part of DoSlotIndication: an SR that SendSR drops for want of an
\* RNTI moves the machine like one that was sent.
SrSlotIndication ==
    /\ slotDue
    /\ slotDue' = FALSE
    /\ IF srState = "TO_SEND"
       THEN /\ srState' = "ACTIVE"
            /\ waitingForSchedulingTimer' = SrTimeout
       ELSE UNCHANGED <<srState, waitingForSchedulingTimer>>
    /\ UNCHANGED <<waitingForDciReception, rntiValid, ulBsrReceived, srFatal>>

\* SendReportBufferStatus puts a BSR in the granted transport block.
SendsBsr(bsr) == rntiValid /\ \E l \in Lcids : bsr[l] # NoReport

\* SendNewData takes some of what was reported; how much of which queue
\* depends on the transport block size.
ServedBy(bsr) ==
    {b \in [Lcids -> {NoReport} \cup 0..MaxQueue] :
        \A l \in Lcids : IF bsr[l] = NoReport THEN b[l] = NoReport
                                              ELSE b[l] \in 0..bsr[l]}

\* Mutant of ProcessNewUlDci: the SR timer is not cancelled.
ProcessNewUlDciKeepsTimer(left) ==
    /\ left \in ServedBy(ulBsrReceived)
    /\ waitingForDciReception' = NotRunning
    /\ ulBsrReceived' = left
    /\ srState' = IF Backlog(left) THEN srState ELSE "INACTIVE"
    /\ UNCHANGED <<waitingForSchedulingTimer, rntiValid, slotDue, srFatal>>

\* An UL DCI with m_ndi = 1 whose grant leaves the queues at left.
ProcessNewUlDci(left) ==
    /\ left \in ServedBy(ulBsrReceived)
    /\ waitingForDciReception' = NotRunning
    /\ waitingForSchedulingTimer' = NotRunning
    /\ ulBsrReceived' = left
    /\ srState' = IF Backlog(left) THEN srState ELSE "INACTIVE"
    /\ UNCHANGED <<rntiValid, slotDue, srFatal>>

\* An UL DCI with m_ndi = 0: TransmitRetx and a BSR, the state stays.
ProcessRetxUlDci ==
    /\ waitingForDciReception' = NotRunning
    /\ waitingForSchedulingTimer' = NotRunning
    /\ UNCHANGED <<srState, ulBsrReceived, rntiValid, slotDue, srFatal>>

(***************************************************************************)
(* Timers                                                                  *)
(***************************************************************************)
DciReceptionTimeout ==
    /\ waitingForDciReception = 0
    /\ waitingForDciReception' = NotRunning
    /\ IF srState = "WAIT_SCHEDULING"
       THEN srState' = "INACTIVE" /\ UNCHANGED srFatal
       ELSE srFatal' = "DciTimeoutInOtherState" /\ UNCHANGED srState
    /\ UNCHANGED <<waitingForSchedulingTimer, rntiValid, ulBsrReceived, slotDue>>

\* Mutant of SrSchedulingTimeout: the SR is not repeated.
SrSchedulingTimeoutGivesUp ==
    /\ waitingForSchedulingTimer = 0
    /\ waitingForSchedulingTimer' = NotRunning
    /\ UNCHANGED <<srState, waitingForDciReception, rntiValid, ulBsrReceived, slotDue, srFatal>>

SrSchedulingTimeout ==
    /\ waitingForSchedulingTimer = 0
    /\ waitingForSchedulingTimer' = NotRunning
    /\ srState' = IF srState = "ACTIVE" THEN "TO_SEND" ELSE srState
    /\ UNCHANGED <<waitingForDciReception, rntiValid, ulBsrReceived, slotDue, srFatal>>

\* The next slot boundary.
SrTick ==
    /\ ~slotDue
    /\ waitingForDciReception # 0
    /\ waitingForSchedulingTimer # 0
    /\ slotDue' = TRUE
    /\ waitingForDciReception' = Countdown(waitingForDciReception)
    /\ waitingForSchedulingTimer' = Countdown(waitingForSchedulingTimer)
    /\ UNCHANGED <<srState, rntiValid, ulBsrReceived, srFatal>>

SrNext ==
    /\ srFatal = "none"
    /\ \/ DoNotifyConnectionSuccessful
       \/ SetRnti
       \/ SrReset
       \/ \E l \in Lcids : DoRemoveLc(l)
       \/ \E l \in Lcids, bytes \in 0..MaxQueue : DoReportBufferStatus(l, bytes)
       \/ SrSlotIndication
       \/ \E left \in ServedBy(ulBsrReceived) : ProcessNewUlDci(left)
       \/ ProcessRetxUlDci
       \/ DciReceptionTimeout
       \/ SrSchedulingTimeout
       \/ SrTick

SrSpec == SrInit /\ [][SrNext]_srVars

-----------------------------------------------------------------------------
\* A timer of the machine runs only in the state it was started for, so a
\* timeout never meets a state it does not expect, however DCIs, resets,
\* reports and setups are interleaved (nr-ue-mac.cc, ProcessUlDci, DoReset,
\* DciReceptionTimeout).
SrTimersMatchState ==
    /\ waitingForDciReception # NotRunning => srState = "WAIT_SCHEDULING"
    /\ waitingForSchedulingTimer # NotRunning => srState = "ACTIVE"

\* The NS_FATAL_ERROR "UE switched srState while waiting for DCI reception."
\* of DciReceptionTimeout is unreachable.
NoDciTimeoutInOtherState == srFatal # "DciTimeoutInOtherState"
=============================================================================
