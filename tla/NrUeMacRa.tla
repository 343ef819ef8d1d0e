----------------------------- MODULE NrUeMacRa -----------------------------
(***************************************************************************)
(* The random-access procedure of the UE MAC (nr-ue-mac.cc) together with  *)
(* the part of the UE RRC state that starts it and consumes its result     *)
(* (nr-ue-rrc.cc).                                                         *)
(*                                                                         *)
(* Slots are numbered modulo PrachPeriod, two per subframe (numerology 1). *)
(* Scheduled events are countdowns, as in NrUeMacSr.  Simulator::Schedule  *)
(* without a kept EventId cannot be cancelled: such events are members of  *)
(* a set of countdowns.  Overwriting m_noRaResponseReceivedEvent does not  *)
(* cancel the event it referred to: that event becomes an orphan.          *)
(***************************************************************************)
EXTENDS Integers

CONSTANTS
    PrachPeriod,       \* slots in a PRACH period
    PrachSubframes,    \* m_prachSfn
    NumPrachSlots,     \* m_numPrachSlots
    RaWindowBegin,     \* slots from preamble to StartWaitingForRaResponse (1 ms)
    RaWindowEnd,       \* slots from preamble to RaResponseTimeout (11 ms)
    MaxPreambleTx      \* bound on m_preambleTransmissionCounter (100)

ASSUME RaAssumption ==
    /\ PrachPeriod \in Nat /\ PrachPeriod % 2 = 0 /\ PrachPeriod > 0
    /\ PrachSubframes # {} /\ PrachSubframes \subseteq 0..((PrachPeriod \div 2) - 1)
    /\ NumPrachSlots \in {1, 2}
    /\ RaWindowBegin \in Nat \ {0}
    /\ RaWindowEnd \in Nat /\ RaWindowBegin < RaWindowEnd
    /\ MaxPreambleTx \in Nat \ {0}

VARIABLES
    currentSlot,                  \* m_currentSlot
    sib1Received,                 \* m_sib1Received
    startingRach,                 \* m_startingRach
    waitForPrachOcc,              \* m_waitForPrachOcc
    prachSlot,                    \* m_prachSubframe and m_prachSlot
    waitingForRaResponse,         \* m_waitingForRaResponse
    preambleTransmissionCounter,  \* m_preambleTransmissionCounter
    startWaitingEvents,           \* scheduled StartWaitingForRaResponse
    noRaResponseReceivedEvent,    \* m_noRaResponseReceivedEvent
    orphanedTimeouts,             \* RaResponseTimeout events without EventId
    pagingArmed,                  \* m_pRnti # 0
    rrcState,                     \* NrUeRrc::m_state
    raSlotDue,                    \* the slot indication of this instant is due
    raFatal,                      \* the NS_FATAL_ERROR that ended the run
    triggersOverlap               \* do triggers come while a procedure is running:
                                  \* chosen once for a behaviour

raVars == <<currentSlot, sib1Received, startingRach, waitForPrachOcc, prachSlot,
            waitingForRaResponse, preambleTransmissionCounter, startWaitingEvents,
            noRaResponseReceivedEvent, orphanedTimeouts, pagingArmed, rrcState,
            raSlotDue, raFatal>>

NoEvent == -1
EventsIn(limit) == SUBSET (0..limit)
RrcStates == {"IDLE_CAMPED_NORMALLY", "IDLE_RANDOM_ACCESS", "IDLE_CONNECTING",
              "CONNECTED_NORMALLY", "INACTIVE", "IDLE_RANDOM_ACCESS_INACTIVE",
              "INACTIVE_CONNECTING"}

Advance(t) == IF t > 0 THEN t - 1 ELSE t

RaTypeOK ==
    /\ currentSlot \in 0..(PrachPeriod - 1)
    /\ prachSlot \in 0..(PrachPeriod - 1)
    /\ sib1Received \in BOOLEAN /\ startingRach \in BOOLEAN
    /\ waitForPrachOcc \in BOOLEAN /\ waitingForRaResponse \in BOOLEAN
    /\ pagingArmed \in BOOLEAN /\ raSlotDue \in BOOLEAN
    /\ preambleTransmissionCounter \in 0..(MaxPreambleTx + 1)
    /\ startWaitingEvents \in EventsIn(RaWindowBegin)
    /\ noRaResponseReceivedEvent \in {NoEvent} \cup 0..RaWindowEnd
    /\ orphanedTimeouts \in EventsIn(RaWindowEnd)
    /\ rrcState \in RrcStates
    /\ raFatal \in {"none", "RaFailsTooOften", "RaSuccessUnexpected"}
    /\ triggersOverlap \in BOOLEAN

RaInit ==
    /\ currentSlot = 0
    /\ prachSlot = 0
    /\ sib1Received = FALSE
    /\ startingRach = FALSE
    /\ waitForPrachOcc = FALSE
    /\ waitingForRaResponse = FALSE
    /\ preambleTransmissionCounter = 0
    /\ startWaitingEvents = {}
    /\ noRaResponseReceivedEvent = NoEvent
    /\ orphanedTimeouts = {}
    /\ pagingArmed = FALSE
    /\ rrcState = "IDLE_CAMPED_NORMALLY"
    /\ raSlotDue = FALSE
    /\ raFatal = "none"
    /\ triggersOverlap \in BOOLEAN

(***************************************************************************)
(* PRACH slots                                                             *)
(***************************************************************************)
\* hasPrach: with one PRACH slot per subframe it is the second slot.
hasPrach(s) == s \div 2 \in PrachSubframes /\ (NumPrachSlots = 2 \/ s % 2 = 1)

\* Mutant of ChosenPrachSlot: one slot too late, in the next subframe.
ChosenPrachSlotTooLate(s) == 2 * (s \div 2) + 2

\* ChooseRandomPrachOccasionThisSlot in slot s: the slot of s's subframe in
\* which the preamble goes out.  Every occasion it draws with two PRACH slots
\* lies in the first of them.
ChosenPrachSlot(s) == 2 * (s \div 2) + IF NumPrachSlots = 1 THEN 1 ELSE 0

\* Mutant of SendRaPreamble: the response timeout is not scheduled.
SendRaPreambleNoTimeout(n, handle, orphans) ==
    /\ startWaitingEvents' = startWaitingEvents \cup {RaWindowBegin}
    /\ noRaResponseReceivedEvent' = handle
    /\ orphanedTimeouts' = orphans

\* n calls of SendRaPreamble, with handle the current EventId of the response
\* timeout and orphans the timeouts already without one.
SendRaPreamble(n, handle, orphans) ==
    /\ startWaitingEvents' = startWaitingEvents \cup {RaWindowBegin}
    /\ noRaResponseReceivedEvent' = RaWindowEnd
    /\ orphanedTimeouts' = orphans \cup ({handle} \ {NoEvent})
                                   \cup (IF n = 2 THEN {RaWindowEnd} ELSE {})

\* No preamble: the events stay as they are.
KeepEvents(handle, orphans) ==
    /\ noRaResponseReceivedEvent' = handle
    /\ orphanedTimeouts' = orphans
    /\ UNCHANGED startWaitingEvents

(***************************************************************************)
(* Starting a procedure                                                    *)
(***************************************************************************)
RaInProgress == startingRach \/ waitForPrachOcc \/ noRaResponseReceivedEvent # NoEvent

DoStartContentionBasedRandomAccessProcedure ==
    /\ preambleTransmissionCounter' = 1
    /\ startingRach' = TRUE
    /\ UNCHANGED <<currentSlot, sib1Received, waitForPrachOcc, prachSlot,
                   waitingForRaResponse, startWaitingEvents, pagingArmed,
                   noRaResponseReceivedEvent, orphanedTimeouts, raSlotDue, raFatal>>

\* Uplink data (or the NAS) makes the RRC connect: StartConnection from idle,
\* ResumeConnection from RRC inactive.
StartConnection ==
    /\ rrcState = "IDLE_CAMPED_NORMALLY"
    /\ triggersOverlap \/ ~RaInProgress
    /\ rrcState' = "IDLE_RANDOM_ACCESS"
    /\ DoStartContentionBasedRandomAccessProcedure

ResumeConnection ==
    /\ rrcState = "INACTIVE"
    /\ triggersOverlap \/ ~RaInProgress
    /\ rrcState' = "IDLE_RANDOM_ACCESS_INACTIVE"
    /\ DoStartContentionBasedRandomAccessProcedure

\* A paging message with this UE's P-RNTI.  The gNB queues it for the next
\* paging frame and never withdraws it, so the RRC may have moved on.
ReceivePaging ==
    /\ pagingArmed
    /\ triggersOverlap \/ (rrcState = "INACTIVE" /\ ~RaInProgress)
    /\ ~startingRach /\ ~waitForPrachOcc
    /\ DoStartContentionBasedRandomAccessProcedure
    /\ UNCHANGED rrcState

DoRecvSib1 ==
    /\ ~sib1Received
    /\ sib1Received' = TRUE
    /\ UNCHANGED <<currentSlot, startingRach, waitForPrachOcc, prachSlot,
                   waitingForRaResponse, preambleTransmissionCounter,
                   startWaitingEvents, noRaResponseReceivedEvent,
                   orphanedTimeouts, pagingArmed, rrcState, raSlotDue, raFatal>>

(***************************************************************************)
(* Slots and timers                                                        *)
(***************************************************************************)
\* The random-access part of DoSlotIndication.  The test of m_waitForPrachOcc
\* follows the start of a procedure in the same call, so one slot can send two
\* preambles.
RaSlotIndication ==
    LET s          == (currentSlot + 1) % PrachPeriod
        chosen     == IF startingRach THEN ChosenPrachSlot(s) ELSE prachSlot
        sendsNow   == startingRach /\ s = chosen
        waiting    == waitForPrachOcc \/ (startingRach /\ s # chosen)
        sendsAfter == waiting /\ s = chosen
    IN /\ raSlotDue
       /\ raSlotDue' = FALSE
       /\ currentSlot' = s
       /\ IF sib1Received /\ hasPrach(s)
          THEN /\ prachSlot' = chosen
               /\ startingRach' = FALSE
               /\ waitForPrachOcc' = (waiting /\ ~sendsAfter)
               /\ IF sendsNow \/ sendsAfter
                  THEN SendRaPreamble(IF sendsNow /\ sendsAfter THEN 2 ELSE 1,
                                      noRaResponseReceivedEvent, orphanedTimeouts)
                  ELSE KeepEvents(noRaResponseReceivedEvent, orphanedTimeouts)
          ELSE UNCHANGED <<prachSlot, startingRach, waitForPrachOcc, startWaitingEvents,
                           noRaResponseReceivedEvent, orphanedTimeouts>>
       /\ UNCHANGED <<sib1Received, waitingForRaResponse, preambleTransmissionCounter,
                      pagingArmed, rrcState, raFatal>>

StartWaitingForRaResponse ==
    /\ 0 \in startWaitingEvents
    /\ startWaitingEvents' = startWaitingEvents \ {0}
    /\ waitingForRaResponse' = TRUE
    /\ UNCHANGED <<currentSlot, sib1Received, startingRach, waitForPrachOcc, prachSlot,
                   preambleTransmissionCounter, noRaResponseReceivedEvent,
                   orphanedTimeouts, pagingArmed, rrcState, raSlotDue, raFatal>>

\* RaResponseTimeout, run by the event that leaves handle and orphans.
RaResponseTimeout(handle, orphans) ==
    /\ waitingForRaResponse' = FALSE
    /\ preambleTransmissionCounter' = preambleTransmissionCounter + 1
    /\ IF preambleTransmissionCounter + 1 > MaxPreambleTx
       THEN /\ raFatal' = "RaFailsTooOften"
            /\ waitForPrachOcc' = FALSE
            /\ KeepEvents(handle, orphans)
            /\ UNCHANGED <<startingRach, prachSlot>>
       ELSE /\ UNCHANGED raFatal
            /\ IF hasPrach(currentSlot)
               THEN LET now == currentSlot = ChosenPrachSlot(currentSlot)
                    IN /\ prachSlot' = ChosenPrachSlot(currentSlot)
                       /\ waitForPrachOcc' = ~now
                       /\ IF now THEN SendRaPreamble(1, handle, orphans)
                                 ELSE KeepEvents(handle, orphans)
                       /\ UNCHANGED startingRach
               ELSE /\ startingRach' = TRUE
                    /\ waitForPrachOcc' = FALSE
                    /\ KeepEvents(handle, orphans)
                    /\ UNCHANGED prachSlot
    /\ UNCHANGED <<currentSlot, sib1Received, pagingArmed, rrcState, raSlotDue>>

TimeoutFires ==
    \/ /\ noRaResponseReceivedEvent = 0
       /\ RaResponseTimeout(NoEvent, orphanedTimeouts)
    \/ /\ 0 \in orphanedTimeouts
       /\ RaResponseTimeout(noRaResponseReceivedEvent, orphanedTimeouts \ {0})

RaTick ==
    /\ ~raSlotDue
    /\ noRaResponseReceivedEvent # 0
    /\ 0 \notin orphanedTimeouts
    /\ 0 \notin startWaitingEvents
    /\ raSlotDue' = TRUE
    /\ noRaResponseReceivedEvent' = Advance(noRaResponseReceivedEvent)
    /\ orphanedTimeouts' = {Advance(t) : t \in orphanedTimeouts}
    /\ startWaitingEvents' = {Advance(t) : t \in startWaitingEvents}
    /\ UNCHANGED <<currentSlot, sib1Received, startingRach, waitForPrachOcc, prachSlot,
                   waitingForRaResponse, preambleTransmissionCounter, pagingArmed,
                   rrcState, raFatal>>

(***************************************************************************)
(* Result of a procedure                                                   *)
(***************************************************************************)
\* NrUeRrc::DoNotifyRandomAccessSuccessful.
RrcAfterRaSuccess ==
    [s \in {"INACTIVE", "IDLE_RANDOM_ACCESS_INACTIVE", "IDLE_RANDOM_ACCESS"} |->
        IF s = "IDLE_RANDOM_ACCESS" THEN "IDLE_CONNECTING" ELSE "INACTIVE_CONNECTING"]

\* A RAR with this UE's RA-RNTI and preamble: RecvRaResponse and the RRC's
\* handling of it.  Other RARs, and RARs outside the window, change nothing.
RecvRaResponse ==
    /\ waitingForRaResponse
    /\ waitingForRaResponse' = FALSE
    /\ noRaResponseReceivedEvent' = NoEvent
    /\ IF rrcState \in DOMAIN RrcAfterRaSuccess
       THEN rrcState' = RrcAfterRaSuccess[rrcState] /\ UNCHANGED raFatal
       ELSE raFatal' = "RaSuccessUnexpected" /\ UNCHANGED rrcState
    /\ UNCHANGED <<currentSlot, sib1Received, startingRach, waitForPrachOcc, prachSlot,
                   preambleTransmissionCounter, startWaitingEvents, orphanedTimeouts,
                   pagingArmed, raSlotDue>>

\* The part of DoReset on this machine's state: only the timeout is cancelled.
RaReset ==
    /\ noRaResponseReceivedEvent' = NoEvent
    /\ UNCHANGED <<currentSlot, sib1Received, startingRach, waitForPrachOcc, prachSlot,
                   waitingForRaResponse, preambleTransmissionCounter,
                   startWaitingEvents, orphanedTimeouts, raSlotDue, raFatal>>

\* RRC setup or RRC resume answers message 3.
RrcConnects ==
    /\ rrcState \in {"IDLE_CONNECTING", "INACTIVE_CONNECTING"}
    /\ rrcState' = "CONNECTED_NORMALLY"
    /\ UNCHANGED <<currentSlot, sib1Received, startingRach, waitForPrachOcc, prachSlot,
                   waitingForRaResponse, preambleTransmissionCounter,
                   startWaitingEvents, noRaResponseReceivedEvent,
                   orphanedTimeouts, pagingArmed, raSlotDue, raFatal>>

\* T300 expires: NrUeRrc::ConnectionTimeout resets the MAC and camps.
ConnectionTimeout ==
    /\ rrcState \in {"IDLE_CONNECTING", "INACTIVE_CONNECTING"}
    /\ rrcState' = "IDLE_CAMPED_NORMALLY"
    /\ RaReset
    /\ UNCHANGED pagingArmed

\* NrUeRrc::ProcessRrcRelease, with and without a suspend configuration.
ReleaseToInactive ==
    /\ rrcState = "CONNECTED_NORMALLY"
    /\ rrcState' = "INACTIVE"
    /\ pagingArmed' = TRUE
    /\ RaReset

ReleaseToIdle ==
    /\ rrcState = "CONNECTED_NORMALLY"
    /\ rrcState' = "IDLE_CAMPED_NORMALLY"
    /\ RaReset
    /\ UNCHANGED pagingArmed

RaNext ==
    /\ raFatal = "none"
    /\ UNCHANGED triggersOverlap
    /\ \/ StartConnection \/ ResumeConnection \/ ReceivePaging
       \/ DoRecvSib1
       \/ RaSlotIndication \/ StartWaitingForRaResponse \/ TimeoutFires \/ RaTick
       \/ RecvRaResponse
       \/ RrcConnects \/ ConnectionTimeout
       \/ ReleaseToInactive \/ ReleaseToIdle

RaSpec == RaInit /\ [][RaNext]_<<raVars, triggersOverlap>>

-----------------------------------------------------------------------------
RandomAccessStates == {"IDLE_RANDOM_ACCESS", "IDLE_RANDOM_ACCESS_INACTIVE"}

\* While the RRC is in a random-access state, the procedure is waiting for a
\* PRACH slot, for its occasion, or for the response timeout: it cannot be
\* forgotten, whatever resets, timeouts and late events came before.
RaNeverForgotten ==
    raFatal = "none" /\ rrcState \in RandomAccessStates => RaInProgress

\* A procedure is in exactly one phase, and the UE accepts a RAR only between a
\* preamble and its timeout, when no second trigger comes during a procedure.
OnePhaseAtATime ==
    ~triggersOverlap =>
        /\ ~(startingRach /\ waitForPrachOcc)
        /\ startingRach \/ waitForPrachOcc => noRaResponseReceivedEvent = NoEvent
        /\ waitingForRaResponse => noRaResponseReceivedEvent # NoEvent
        /\ startWaitingEvents # {} => noRaResponseReceivedEvent # NoEvent
        /\ orphanedTimeouts = {}

\* NrUeRrc::DoNotifyRandomAccessSuccessful ends the simulation with "unexpected
\* event in state ..." unless the RRC is in a state that waits for it.
RaSuccessIsExpected == raFatal # "RaSuccessUnexpected"

\* Every random access ends: with a RAR, or with the error of
\* RaResponseTimeout after MaxPreambleTx preambles.  (A trigger during a
\* procedure resets the preamble counter.)
RandomAccessEnds ==
    ~triggersOverlap /\ rrcState \in RandomAccessStates ~>
        (rrcState \notin RandomAccessStates \/ raFatal = "RaFailsTooOften")
=============================================================================
