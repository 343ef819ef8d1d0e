--------------------------- MODULE NrUeMacProofs ---------------------------
(***************************************************************************)
(* The UE MAC as a whole, after its random-access procedure.  Every step   *)
(* of it is a step, or a stutter, of the SR machine (NrUeMacSrProofs) and  *)
(* of the procedure, so what is proved of the two parts alone holds of the *)
(* whole.  What relates the parts to the RRC is proved on top: the RNTI,   *)
(* and the machine at rest.                                                *)
(***************************************************************************)
EXTENDS NrUeMac, NrUeMacSrProofs

(***************************************************************************)
(* The random-access procedure                                             *)
(*                                                                         *)
(* A random access that the RRC waits for is never forgotten by the MAC,   *)
(* for every PRACH configuration, response window and preamble limit, with *)
(* triggers that overlap a procedure and without.                          *)
(*                                                                         *)
(* The invariant needs two strengthenings: the types, by which a scheduled *)
(* event is still one after a tick, and CounterWithinLimit, by which the   *)
(* preamble counter passes the limit only in the step that ends the run.   *)
(* Without overlapping triggers, moreover, it is in one phase at a time.   *)
(***************************************************************************)
CounterWithinLimit == raFatal = "none" => preambleTransmissionCounter <= MaxPreambleTx

RaInductive == RaTypeOK /\ CounterWithinLimit /\ RaNeverForgotten

\* The two parts of the type invariant: flags, and numbers, sets and names.
FlagsOK ==
    /\ sib1Received \in BOOLEAN /\ startingRach \in BOOLEAN
    /\ waitForPrachOcc \in BOOLEAN /\ waitingForRaResponse \in BOOLEAN
    /\ pagingArmed \in BOOLEAN /\ raSlotDue \in BOOLEAN
    /\ triggersOverlap \in BOOLEAN

RangesOK ==
    /\ currentSlot \in 0..(PrachPeriod - 1)
    /\ prachSlot \in 0..(PrachPeriod - 1)
    /\ preambleTransmissionCounter \in 0..(MaxPreambleTx + 1)
    /\ startWaitingEvents \in EventsIn(RaWindowBegin)
    /\ noRaResponseReceivedEvent \in {NoEvent} \cup 0..RaWindowEnd
    /\ orphanedTimeouts \in EventsIn(RaWindowEnd)
    /\ rrcState \in RrcStates
    /\ raFatal \in {"none", "RaFailsTooOften", "RaSuccessUnexpected"}

\* They are the type invariant, before and after a step.
LEMMA TypeParts ==
    /\ RaTypeOK <=> FlagsOK /\ RangesOK
    /\ RaTypeOK' <=> FlagsOK' /\ RangesOK'
BY DEF RaTypeOK, FlagsOK, RangesOK

\* What the invariant needs of the constants.
LEMMA RaConstants ==
    /\ PrachPeriod \in Nat \ {0} /\ MaxPreambleTx \in Nat \ {0}
    /\ RaWindowBegin \in Nat /\ RaWindowEnd \in Nat
BY RaAssumption

\* Advancing keeps an event inside its range, and keeps it scheduled or not.
LEMMA AdvanceStays ==
    ASSUME NEW limit \in Nat, NEW t \in {NoEvent} \cup 0..limit
    PROVE  /\ Advance(t) \in {NoEvent} \cup 0..limit
           /\ t # NoEvent => Advance(t) \in 0..limit /\ Advance(t) # NoEvent
BY DEF Advance, NoEvent

\* A PRACH slot has its chosen slot inside the period.
LEMMA ChosenSlotInPeriod ==
    ASSUME NEW s \in 0..(PrachPeriod - 1)
    PROVE  ChosenPrachSlot(s) \in 0..(PrachPeriod - 1)
<1>1. /\ PrachPeriod \in Nat /\ PrachPeriod % 2 = 0 /\ NumPrachSlots \in {1, 2}
      /\ s \in Int /\ 0 <= s /\ s < PrachPeriod
    BY RaAssumption
<1>2. /\ s \div 2 \in Int
      /\ 2 * (s \div 2) <= s /\ s <= 2 * (s \div 2) + 1
      /\ PrachPeriod = 2 * (PrachPeriod \div 2) /\ PrachPeriod \div 2 \in Int
    BY <1>1
<1>3. ChosenPrachSlot(s) \in {2 * (s \div 2), 2 * (s \div 2) + 1}
    BY <1>1, <1>2 DEF ChosenPrachSlot
<1> QED BY <1>1, <1>2, <1>3

\* Sending n preambles schedules a response timeout and keeps the sets of
\* events inside their ranges.
LEMMA SendKeepsEvents ==
    ASSUME NEW n, NEW handle \in {NoEvent} \cup 0..RaWindowEnd,
           NEW orphans \in EventsIn(RaWindowEnd),
           startWaitingEvents \in EventsIn(RaWindowBegin),
           SendRaPreamble(n, handle, orphans)
    PROVE  /\ startWaitingEvents' \in EventsIn(RaWindowBegin)
           /\ noRaResponseReceivedEvent' \in 0..RaWindowEnd
           /\ noRaResponseReceivedEvent' # NoEvent
           /\ orphanedTimeouts' \in EventsIn(RaWindowEnd)
BY RaConstants DEF SendRaPreamble, EventsIn, NoEvent

\* Nothing is scheduled, nothing is waited for.
LEMMA RaInitInductive == RaInit => RaInductive
<1> SUFFICES ASSUME RaInit PROVE RaInductive
    OBVIOUS
<1>f. FlagsOK
    BY DEF RaInit, FlagsOK
<1>r. RangesOK
    BY RaConstants DEF RaInit, RangesOK, EventsIn, RrcStates
<1>1. RaTypeOK
    BY <1>f, <1>r, TypeParts
<1>2. CounterWithinLimit
    BY RaConstants DEF RaInit, CounterWithinLimit
<1>3. RaNeverForgotten
    BY DEF RaInit, RaNeverForgotten, RandomAccessStates
<1> QED BY <1>1, <1>2, <1>3 DEF RaInductive

\* The response timeout, in the part that all of its callers share: it retries,
\* waits for a PRACH slot, or ends the run.
LEMMA TimeoutInductive ==
    ASSUME RaInductive, raFatal = "none", UNCHANGED triggersOverlap,
           NEW handle \in {NoEvent} \cup 0..RaWindowEnd,
           NEW orphans \in EventsIn(RaWindowEnd),
           RaResponseTimeout(handle, orphans)
    PROVE  RaInductive'
<1>t. FlagsOK /\ RangesOK /\ preambleTransmissionCounter <= MaxPreambleTx
    BY TypeParts DEF RaInductive, CounterWithinLimit
<1>c. /\ preambleTransmissionCounter' \in 0..(MaxPreambleTx + 1)
      /\ preambleTransmissionCounter' = preambleTransmissionCounter + 1
    BY <1>t, RaConstants DEF RaResponseTimeout, RangesOK
<1>f. FlagsOK'
    BY <1>t DEF FlagsOK, RaResponseTimeout
<1>1. CASE preambleTransmissionCounter + 1 > MaxPreambleTx
    <2>1. RangesOK'
        BY <1>1, <1>c, <1>t DEF RangesOK, RaResponseTimeout, KeepEvents
    <2>2. raFatal' # "none"
        BY <1>1 DEF RaResponseTimeout
    <2> QED BY <1>f, <2>1, <2>2, TypeParts
            DEF RaInductive, CounterWithinLimit, RaNeverForgotten
<1>2. CASE ~(preambleTransmissionCounter + 1 > MaxPreambleTx)
    <2>c. CounterWithinLimit'
        BY <1>2, <1>c, <1>t, RaConstants DEF RangesOK, CounterWithinLimit
    <2>1. CASE ~hasPrach(currentSlot)
        <3>1. RangesOK'
            BY <1>2, <2>1, <1>c, <1>t DEF RangesOK, RaResponseTimeout, KeepEvents
        <3>2. startingRach'
            BY <1>2, <2>1 DEF RaResponseTimeout
        <3> QED BY <1>f, <2>c, <3>1, <3>2, TypeParts
                DEF RaInductive, RaNeverForgotten, RaInProgress
    <2>2. CASE hasPrach(currentSlot) /\ currentSlot = ChosenPrachSlot(currentSlot)
        <3>1. /\ SendRaPreamble(1, handle, orphans)
              /\ prachSlot' = ChosenPrachSlot(currentSlot)
            BY <1>2, <2>2 DEF RaResponseTimeout
        <3>2. RangesOK'
            BY <1>2, <2>2, <3>1, <1>c, <1>t, ChosenSlotInPeriod, SendKeepsEvents
               DEF RangesOK, RaResponseTimeout
        <3>3. noRaResponseReceivedEvent' # NoEvent
            BY <3>1, <1>t, SendKeepsEvents DEF RangesOK
        <3> QED BY <1>f, <2>c, <3>2, <3>3, TypeParts
                DEF RaInductive, RaNeverForgotten, RaInProgress
    <2>3. CASE hasPrach(currentSlot) /\ currentSlot # ChosenPrachSlot(currentSlot)
        <3>1. /\ KeepEvents(handle, orphans)
              /\ prachSlot' = ChosenPrachSlot(currentSlot)
            BY <1>2, <2>3 DEF RaResponseTimeout
        <3>2. RangesOK'
            BY <1>2, <2>3, <3>1, <1>c, <1>t, ChosenSlotInPeriod
               DEF RangesOK, RaResponseTimeout, KeepEvents
        <3>3. waitForPrachOcc'
            BY <1>2, <2>3 DEF RaResponseTimeout
        <3> QED BY <1>f, <2>c, <3>2, <3>3, TypeParts
                DEF RaInductive, RaNeverForgotten, RaInProgress
    <2> QED BY <2>1, <2>2, <2>3
<1> QED BY <1>1, <1>2

\* The slot indication: a procedure that waits for a PRACH slot sends its
\* preamble or waits for its occasion.
LEMMA SlotInductive ==
    ASSUME RaInductive, UNCHANGED triggersOverlap, RaSlotIndication
    PROVE  RaInductive'
<1> DEFINE s          == (currentSlot + 1) % PrachPeriod
           chosen     == IF startingRach THEN ChosenPrachSlot(s) ELSE prachSlot
           sendsNow   == startingRach /\ s = chosen
           waiting    == waitForPrachOcc \/ (startingRach /\ s # chosen)
           sendsAfter == waiting /\ s = chosen
<1> USE DEF RaInductive, RaTypeOK, CounterWithinLimit
<1>0. s \in 0..(PrachPeriod - 1)
    BY RaConstants
<1>1. chosen \in 0..(PrachPeriod - 1)
    BY <1>0, ChosenSlotInPeriod
<1>2. CASE ~(sib1Received /\ hasPrach(s))
    BY <1>0, <1>2 DEF RaSlotIndication, RaNeverForgotten, RaInProgress
<1>3. CASE sib1Received /\ hasPrach(s) /\ (sendsNow \/ sendsAfter)
    <2>1. SendRaPreamble(IF sendsNow /\ sendsAfter THEN 2 ELSE 1,
                         noRaResponseReceivedEvent, orphanedTimeouts)
        BY <1>3 DEF RaSlotIndication
    <2> QED BY <1>0, <1>1, <1>3, <2>1, SendKeepsEvents
            DEF RaSlotIndication, RaNeverForgotten, RaInProgress
<1>4. CASE sib1Received /\ hasPrach(s) /\ ~(sendsNow \/ sendsAfter)
    <2>1. KeepEvents(noRaResponseReceivedEvent, orphanedTimeouts)
        BY <1>4 DEF RaSlotIndication
    <2> QED BY <1>0, <1>1, <1>4, <2>1
            DEF RaSlotIndication, KeepEvents, RaNeverForgotten, RaInProgress
<1> QED BY <1>2, <1>3, <1>4

\* Every trigger, slot, timeout, RAR and RRC procedure keeps the invariant.
LEMMA RaNextInductive ==
    RaInductive /\ [RaNext]_<<raVars, triggersOverlap>> => RaInductive'
<1> SUFFICES ASSUME RaInductive, [RaNext]_<<raVars, triggersOverlap>>
             PROVE  RaInductive'
    OBVIOUS
<1> USE DEF RaInductive, RaTypeOK, CounterWithinLimit, RaNeverForgotten, RaInProgress
<1>u. CASE UNCHANGED <<raVars, triggersOverlap>>
    BY <1>u DEF raVars
<1>n. ASSUME raFatal = "none", UNCHANGED triggersOverlap, RaNext
      PROVE  RaInductive'
    <2> USE <1>n
    <2>1. CASE StartConnection \/ ResumeConnection \/ ReceivePaging
        <3>1. /\ DoStartContentionBasedRandomAccessProcedure
              /\ rrcState' \in RrcStates
            BY <2>1 DEF StartConnection, ResumeConnection, ReceivePaging, RrcStates
        <3>2. startingRach' /\ FlagsOK' /\ CounterWithinLimit'
            BY <3>1, RaConstants DEF DoStartContentionBasedRandomAccessProcedure, FlagsOK
        <3>3. RangesOK'
            BY <3>1, RaConstants DEF DoStartContentionBasedRandomAccessProcedure, RangesOK
        <3> QED BY <3>2, <3>3, TypeParts
    <2>2. CASE DoRecvSib1
        BY <2>2 DEF DoRecvSib1
    <2>3. CASE RaSlotIndication
        BY <2>3, SlotInductive
    <2>4. CASE StartWaitingForRaResponse
        BY <2>4 DEF StartWaitingForRaResponse, EventsIn
    <2>5. CASE TimeoutFires
        <3>1. CASE RaResponseTimeout(NoEvent, orphanedTimeouts)
            BY <3>1, TimeoutInductive
        <3>2. CASE RaResponseTimeout(noRaResponseReceivedEvent, orphanedTimeouts \ {0})
            BY <3>2, TimeoutInductive DEF EventsIn
        <3> QED BY <2>5, <3>1, <3>2 DEF TimeoutFires
    <2>6. CASE RaTick
        <3>1. /\ noRaResponseReceivedEvent' \in {NoEvent} \cup 0..RaWindowEnd
              /\ noRaResponseReceivedEvent # NoEvent => noRaResponseReceivedEvent' # NoEvent
            BY <2>6, AdvanceStays, RaConstants DEF RaTick
        <3>2. orphanedTimeouts' \in EventsIn(RaWindowEnd)
            BY <2>6, AdvanceStays, RaConstants DEF RaTick, EventsIn, NoEvent
        <3>3. startWaitingEvents' \in EventsIn(RaWindowBegin)
            BY <2>6, AdvanceStays, RaConstants DEF RaTick, EventsIn, NoEvent
        <3> QED BY <2>6, <3>1, <3>2, <3>3 DEF RaTick
    <2>7. CASE RecvRaResponse
        BY <2>7 DEF RecvRaResponse, RrcAfterRaSuccess, RandomAccessStates, RrcStates, NoEvent
    <2>8. CASE RrcConnects
        BY <2>8 DEF RrcConnects, RandomAccessStates, RrcStates
    <2>9. CASE ConnectionTimeout \/ ReleaseToInactive \/ ReleaseToIdle
        BY <2>9 DEF ConnectionTimeout, ReleaseToInactive, ReleaseToIdle, RaReset,
                    RandomAccessStates, RrcStates, NoEvent
    <2> QED BY <2>1, <2>2, <2>3, <2>4, <2>5, <2>6, <2>7, <2>8, <2>9 DEF RaNext
<1> QED BY <1>u, <1>n DEF RaNext

\* Type correctness of the random-access procedure and of the RRC state with it.
THEOREM RaTypeCorrect == RaSpec => []RaTypeOK
<1>1. RaInductive => RaTypeOK BY DEF RaInductive
<1> QED BY <1>1, RaInitInductive, RaNextInductive, PTL DEF RaSpec

\* While the RRC is in a random-access state, the MAC waits for a PRACH slot,
\* for its occasion or for the response timeout: uncancellable events, resets
\* and overlapping triggers of nr-ue-mac.cc never leave the RRC waiting for a
\* procedure that has stopped.
THEOREM RaNeverForgottenCorrect == RaSpec => []RaNeverForgotten
<1>1. RaInductive => RaNeverForgotten BY DEF RaInductive
<1> QED BY <1>1, RaInitInductive, RaNextInductive, PTL DEF RaSpec

-----------------------------------------------------------------------------
(***************************************************************************)
(* One phase at a time.  OnePhaseAtATime is not inductive: a reset or a    *)
(* RAR forgets the response timeout, so none may come between a preamble   *)
(* and the start of its window, and no reset at all during a procedure.    *)
(* Phases adds that the window opens before the timeout, that only one     *)
(* window is ever to open, and which RRC states a procedure runs for.      *)
(***************************************************************************)
RandomAccessRunsFor == {"INACTIVE"} \cup RandomAccessStates

Phases ==
    /\ ~(startingRach /\ waitForPrachOcc)
    /\ startingRach \/ waitForPrachOcc => noRaResponseReceivedEvent = NoEvent
    /\ waitingForRaResponse => noRaResponseReceivedEvent # NoEvent /\ startWaitingEvents = {}
    /\ \A t \in startWaitingEvents : t < noRaResponseReceivedEvent
    /\ \A t, u \in startWaitingEvents : t = u
    /\ orphanedTimeouts = {}
    /\ RaInProgress => rrcState \in RandomAccessRunsFor
    /\ RaSuccessIsExpected

\* Without a response timeout, or with a due one, no window is still to open.
LEMMA WindowBeforeTimeout ==
    ASSUME RaTypeOK, Phases, noRaResponseReceivedEvent \in {NoEvent, 0}
    PROVE  startWaitingEvents = {}
<1> SUFFICES ASSUME NEW t \in startWaitingEvents PROVE FALSE
    OBVIOUS
<1>1. t \in 0..RaWindowBegin /\ t < noRaResponseReceivedEvent
    BY DEF RaTypeOK, EventsIn, Phases
<1> QED BY <1>1, RaConstants DEF NoEvent

\* The first preamble of a procedure, or the next one after a timeout, opens a new
\* pair of window and timeout.
LEMMA SendStartsPhase ==
    ASSUME startWaitingEvents = {}, SendRaPreamble(1, NoEvent, {})
    PROVE  /\ noRaResponseReceivedEvent' # NoEvent
           /\ \A t \in startWaitingEvents' : t < noRaResponseReceivedEvent'
           /\ \A t, u \in startWaitingEvents' : t = u
           /\ orphanedTimeouts' = {}
BY RaAssumption DEF SendRaPreamble, NoEvent

\* The slot indication: the procedure sends its one preamble, or moves on to wait
\* for its occasion.
LEMMA SlotKeepsPhases ==
    ASSUME RaTypeOK, Phases, RaSlotIndication
    PROVE  Phases'
<1> DEFINE s          == (currentSlot + 1) % PrachPeriod
           chosen     == IF startingRach THEN ChosenPrachSlot(s) ELSE prachSlot
           sendsNow   == startingRach /\ s = chosen
           waiting    == waitForPrachOcc \/ (startingRach /\ s # chosen)
           sendsAfter == waiting /\ s = chosen
<1>u. /\ UNCHANGED <<waitingForRaResponse, rrcState, raFatal>>
      /\ FlagsOK
    BY TypeParts DEF RaSlotIndication
<1>1. CASE ~(sib1Received /\ hasPrach(s))
    <2>1. UNCHANGED <<startingRach, waitForPrachOcc, startWaitingEvents,
                      noRaResponseReceivedEvent, orphanedTimeouts>>
        BY <1>1 DEF RaSlotIndication
    <2> QED BY <1>u, <2>1 DEF Phases, RaInProgress, RaSuccessIsExpected
<1>2. CASE sib1Received /\ hasPrach(s)
    <2>0. /\ startingRach' = FALSE
          /\ waitForPrachOcc' = (waiting /\ ~sendsAfter)
          /\ IF sendsNow \/ sendsAfter
             THEN SendRaPreamble(IF sendsNow /\ sendsAfter THEN 2 ELSE 1,
                                 noRaResponseReceivedEvent, orphanedTimeouts)
             ELSE KeepEvents(noRaResponseReceivedEvent, orphanedTimeouts)
        BY <1>2 DEF RaSlotIndication
    <2>1. ~(sendsNow /\ sendsAfter)
        BY DEF Phases
    <2>2. CASE sendsNow \/ sendsAfter
        <3>0. startingRach \/ waitForPrachOcc
            BY <2>2
        <3>1. noRaResponseReceivedEvent = NoEvent /\ startWaitingEvents = {}
              /\ orphanedTimeouts = {} /\ ~waitingForRaResponse
              /\ rrcState \in RandomAccessRunsFor
            BY <3>0, WindowBeforeTimeout DEF Phases, RaInProgress
        <3>2. SendRaPreamble(1, NoEvent, {})
            BY <2>0, <2>1, <2>2, <3>1
        <3>3. waitForPrachOcc' = FALSE
            BY <2>0, <2>1, <2>2 DEF Phases
        <3> QED BY <1>u, <2>0, <3>1, <3>2, <3>3, SendStartsPhase
                DEF Phases, RaInProgress, RaSuccessIsExpected
    <2>3. CASE ~(sendsNow \/ sendsAfter)
        <3>1. UNCHANGED <<startWaitingEvents, noRaResponseReceivedEvent, orphanedTimeouts>>
            BY <2>0, <2>3 DEF KeepEvents
        <3>2. waitForPrachOcc' => startingRach \/ waitForPrachOcc
            BY <2>0
        <3> QED BY <1>u, <2>0, <3>1, <3>2 DEF Phases, RaInProgress, RaSuccessIsExpected
    <2> QED BY <2>2, <2>3
<1> QED BY <1>1, <1>2

\* A response timeout closes the window that its preamble opened, and the next
\* attempt starts from the beginning.
LEMMA TimeoutKeepsPhases ==
    ASSUME RaTypeOK, Phases, raFatal = "none", TimeoutFires
    PROVE  Phases'
<1>1. /\ noRaResponseReceivedEvent = 0
      /\ RaResponseTimeout(NoEvent, {})
    BY DEF TimeoutFires, Phases
<1>2. /\ ~startingRach /\ ~waitForPrachOcc /\ startWaitingEvents = {}
      /\ rrcState \in RandomAccessRunsFor
    BY <1>1, WindowBeforeTimeout DEF Phases, RaInProgress, NoEvent
<1>3. /\ waitingForRaResponse' = FALSE /\ rrcState' = rrcState
      /\ RaSuccessIsExpected'
    BY <1>1 DEF RaResponseTimeout, RaSuccessIsExpected
<1>4. \/ /\ KeepEvents(NoEvent, {})
         /\ ~(startingRach' /\ waitForPrachOcc')
      \/ /\ SendRaPreamble(1, NoEvent, {})
         /\ ~startingRach' /\ ~waitForPrachOcc'
    BY <1>1, <1>2 DEF RaResponseTimeout
<1>5. CASE KeepEvents(NoEvent, {}) /\ ~(startingRach' /\ waitForPrachOcc')
    BY <1>2, <1>3, <1>5 DEF KeepEvents, Phases
<1>6. CASE SendRaPreamble(1, NoEvent, {}) /\ ~startingRach' /\ ~waitForPrachOcc'
    BY <1>2, <1>3, <1>6, SendStartsPhase DEF Phases
<1> QED BY <1>4, <1>5, <1>6

\* Every other step keeps the procedure in one phase, one case per action.
LEMMA NextKeepsPhases ==
    ASSUME RaTypeOK, Phases, ~triggersOverlap, RaNext
    PROVE  Phases'
<1>f. raFatal = "none"
    BY DEF RaNext
<1>1. CASE StartConnection \/ ResumeConnection \/ ReceivePaging
    <2>1. /\ ~RaInProgress
          /\ DoStartContentionBasedRandomAccessProcedure
          /\ rrcState' \in RandomAccessRunsFor
        BY <1>1 DEF StartConnection, ResumeConnection, ReceivePaging, RandomAccessRunsFor,
                    RandomAccessStates
    <2>2. startWaitingEvents = {} /\ ~waitingForRaResponse
        BY <2>1, WindowBeforeTimeout DEF RaInProgress, Phases
    <2> QED BY <2>1, <2>2 DEF DoStartContentionBasedRandomAccessProcedure, Phases,
                    RaInProgress, RaSuccessIsExpected
<1>2. CASE DoRecvSib1
    BY <1>2 DEF DoRecvSib1, Phases, RaInProgress, RaSuccessIsExpected
<1>3. CASE RaSlotIndication
    BY <1>3, SlotKeepsPhases
<1>4. CASE StartWaitingForRaResponse
    <2>1. startWaitingEvents' = {} /\ noRaResponseReceivedEvent # NoEvent
        BY <1>4, WindowBeforeTimeout DEF StartWaitingForRaResponse, Phases
    <2> QED BY <1>4, <2>1 DEF StartWaitingForRaResponse, Phases, RaInProgress,
                   RaSuccessIsExpected
<1>5. CASE TimeoutFires
    BY <1>5, <1>f, TimeoutKeepsPhases
<1>6. CASE RaTick
    <2>1. /\ noRaResponseReceivedEvent \in {NoEvent} \cup 0..RaWindowEnd
          /\ startWaitingEvents \subseteq 0..RaWindowBegin
          /\ noRaResponseReceivedEvent # 0 /\ 0 \notin startWaitingEvents
          /\ noRaResponseReceivedEvent' = Advance(noRaResponseReceivedEvent)
          /\ startWaitingEvents' = {Advance(t) : t \in startWaitingEvents}
        BY <1>6 DEF RaTick, RaTypeOK, EventsIn
    <2>2. noRaResponseReceivedEvent' = NoEvent <=> noRaResponseReceivedEvent = NoEvent
        BY <2>1, RaConstants DEF Advance, NoEvent
    <2>3. ASSUME NEW t \in startWaitingEvents
          PROVE  Advance(t) < noRaResponseReceivedEvent'
        <3>1. t \in 0..RaWindowBegin /\ t # 0 /\ t < noRaResponseReceivedEvent
            BY <2>1 DEF Phases
        <3>2. noRaResponseReceivedEvent \in Int
            BY <2>1 DEF NoEvent
        <3> QED BY <2>1, <3>1, <3>2, RaConstants DEF Advance
    <2>4. /\ \A t \in startWaitingEvents' : t < noRaResponseReceivedEvent'
          /\ \A t, u \in startWaitingEvents' : t = u
          /\ startWaitingEvents = {} => startWaitingEvents' = {}
        BY <2>1, <2>3 DEF Phases
    <2>5. orphanedTimeouts' = {}
        BY <1>6 DEF RaTick, Phases
    <2>6. UNCHANGED <<startingRach, waitForPrachOcc, waitingForRaResponse, rrcState, raFatal>>
        BY <1>6 DEF RaTick
    <2> QED BY <2>2, <2>4, <2>5, <2>6 DEF Phases, RaInProgress, RaSuccessIsExpected
<1>7. CASE RecvRaResponse
    <2>1. /\ ~startingRach /\ ~waitForPrachOcc /\ startWaitingEvents = {}
          /\ rrcState \in RandomAccessRunsFor
        BY <1>7 DEF RecvRaResponse, Phases, RaInProgress
    <2>2. rrcState \in DOMAIN RrcAfterRaSuccess
        BY <2>1 DEF RrcAfterRaSuccess, RandomAccessRunsFor, RandomAccessStates
    <2> QED BY <1>7, <2>1, <2>2 DEF RecvRaResponse, Phases, RaInProgress, RaSuccessIsExpected
<1>8. CASE RrcConnects \/ ConnectionTimeout \/ ReleaseToInactive \/ ReleaseToIdle
    <2>1. ~RaInProgress
        BY <1>8 DEF RrcConnects, ConnectionTimeout, ReleaseToInactive, ReleaseToIdle, Phases,
                    RandomAccessRunsFor, RandomAccessStates
    <2>2. startWaitingEvents = {} /\ ~waitingForRaResponse
        BY <2>1, WindowBeforeTimeout DEF RaInProgress, Phases
    <2> QED BY <1>8, <2>1, <2>2 DEF RrcConnects, ConnectionTimeout, ReleaseToInactive,
                    ReleaseToIdle, RaReset, Phases, RaInProgress, RaSuccessIsExpected
<1> QED BY <1>1, <1>2, <1>3, <1>4, <1>5, <1>6, <1>7, <1>8 DEF RaNext

PhasesUnlessOverlap == ~triggersOverlap => Phases

\* The strengthened property is inductive, relative to the types.
LEMMA PhasesInductive ==
    /\ RaInit => PhasesUnlessOverlap
    /\ RaInductive /\ PhasesUnlessOverlap /\ [RaNext]_<<raVars, triggersOverlap>>
           => PhasesUnlessOverlap'
<1>1. RaInit => PhasesUnlessOverlap
    BY DEF RaInit, PhasesUnlessOverlap, Phases, RaInProgress, RaSuccessIsExpected
<1>2. ASSUME RaInductive, PhasesUnlessOverlap, [RaNext]_<<raVars, triggersOverlap>>
      PROVE  PhasesUnlessOverlap'
    <2>1. CASE UNCHANGED <<raVars, triggersOverlap>>
        BY <1>2, <2>1 DEF PhasesUnlessOverlap, Phases, RaInProgress, RaSuccessIsExpected, raVars
    <2>2. CASE RaNext
        <3>1. triggersOverlap' = triggersOverlap
            BY <2>2 DEF RaNext
        <3> QED BY <1>2, <2>2, <3>1, NextKeepsPhases DEF PhasesUnlessOverlap, RaInductive
    <2> QED BY <1>2, <2>1, <2>2
<1> QED BY <1>1, <1>2

\* It implies the property the runs check.
LEMMA PhasesSuffice == RaInductive /\ PhasesUnlessOverlap => OnePhaseAtATime
<1> SUFFICES ASSUME RaInductive, PhasesUnlessOverlap, ~triggersOverlap
             PROVE  OnePhaseAtATime
    BY DEF OnePhaseAtATime
<1>1. Phases /\ (noRaResponseReceivedEvent = NoEvent => startWaitingEvents = {})
    BY WindowBeforeTimeout DEF PhasesUnlessOverlap, RaInductive
<1> QED BY <1>1 DEF OnePhaseAtATime, Phases

\* Without overlapping triggers a procedure is in one phase at a time, a RAR is
\* accepted only between a preamble and its timeout, and no timeout is orphaned,
\* for every PRACH configuration and every response window of nr-ue-mac.cc.
THEOREM RaOnePhaseAtATime == RaSpec => []OnePhaseAtATime
BY RaInitInductive, RaNextInductive, PhasesInductive, PhasesSuffice, PTL DEF RaSpec

\* Without overlapping triggers DoNotifyRandomAccessSuccessful always finds the RRC
\* in a state that waits for it: the unexpected event that the paging run reaches
\* needs a page that arrives during a procedure or after the RRC has moved on.
THEOREM RaSuccessExpectedUnlessOverlap ==
    RaSpec => [](~triggersOverlap => RaSuccessIsExpected)
<1>1. PhasesUnlessOverlap => (~triggersOverlap => RaSuccessIsExpected)
    BY DEF PhasesUnlessOverlap, Phases
<1> QED BY <1>1, RaInitInductive, RaNextInductive, PhasesInductive, PTL DEF RaSpec

(***************************************************************************)
(* The whole                                                               *)
(***************************************************************************)
\* The SR machine sees a permitted call, or nothing.
LEMMA NextIsSrStep == [Next]_vars => [SrNext]_srVars
<1> SUFFICES ASSUME [Next]_vars PROVE [SrNext]_srVars
    OBVIOUS
<1>u. CASE UNCHANGED vars
    BY <1>u DEF vars
<1>n. CASE Next
    <2>0. srFatal = "none"
        BY <1>n DEF Next, Halted
    <2>1. CASE Connect \/ Paging \/ Sib1 \/ DoRecvRrcResume \/ ApplyRadioBearerConfig \/ RaTimers
        BY <2>1 DEF Connect, Paging, Sib1, DoRecvRrcResume, ApplyRadioBearerConfig, RaTimers
    <2>2. CASE RandomAccessResponse
        BY <2>0, <2>2 DEF RandomAccessResponse, SrNext
    <2>3. CASE DoRecvRrcSetup
        BY <2>0, <2>3 DEF DoRecvRrcSetup, SrNext
    <2>4. CASE T300 \/ ProcessRrcRelease
        BY <2>0, <2>4 DEF T300, ProcessRrcRelease, SrNext
    <2>5. ASSUME NEW l \in Lcids, NEW bytes \in 0..MaxQueue, RlcReport(l, bytes)
          PROVE  SrNext
        BY <2>0, <2>5 DEF RlcReport, SrNext
    <2>6. CASE ProcessUlDci
        BY <2>0, <2>6 DEF ProcessUlDci, SrNext
    <2>7. CASE DoSlotIndication \/ SrTimers \/ Tick
        BY <2>0, <2>7 DEF DoSlotIndication, SrTimers, Tick, SrNext
    <2>8. ASSUME NEW l \in Lcids, ReleaseBearer(l)
          PROVE  SrNext
        BY <2>0, <2>8 DEF ReleaseBearer, SrNext
    <2> QED BY <1>n, <2>1, <2>2, <2>3, <2>4, <2>5, <2>6, <2>7, <2>8 DEF Next
<1> QED BY <1>u, <1>n

\* The random-access procedure sees a permitted step, or nothing.
LEMMA NextIsRaStep == [Next]_vars => [RaNext]_<<raVars, triggersOverlap>>
<1> SUFFICES ASSUME [Next]_vars PROVE [RaNext]_<<raVars, triggersOverlap>>
    OBVIOUS
<1>u. CASE UNCHANGED vars
    BY <1>u DEF vars
<1>n. CASE Next
    <2>0. raFatal = "none" /\ UNCHANGED triggersOverlap
        BY <1>n DEF Next, Halted
    <2>1. CASE Connect \/ Paging \/ Sib1 \/ RandomAccessResponse
        BY <2>0, <2>1 DEF Connect, Paging, Sib1, RandomAccessResponse, RaNext
    <2>2. CASE DoRecvRrcSetup \/ DoRecvRrcResume
        BY <2>0, <2>2 DEF DoRecvRrcSetup, DoRecvRrcResume, RaNext
    <2>3. CASE T300 \/ ProcessRrcRelease
        BY <2>0, <2>3 DEF T300, ProcessRrcRelease, RaNext
    <2>4. CASE ApplyRadioBearerConfig \/ ProcessUlDci \/ SrTimers
        BY <2>0, <2>4 DEF ApplyRadioBearerConfig, ProcessUlDci, SrTimers
    <2>5. ASSUME NEW l \in Lcids, NEW bytes \in 0..MaxQueue, RlcReport(l, bytes)
          PROVE  UNCHANGED raVars
        BY <2>5 DEF RlcReport
    <2>6. CASE DoSlotIndication \/ RaTimers \/ Tick
        BY <2>0, <2>6 DEF DoSlotIndication, RaTimers, Tick, RaNext
    <2>7. ASSUME NEW l \in Lcids, ReleaseBearer(l)
          PROVE  UNCHANGED raVars
        BY <2>7 DEF ReleaseBearer
    <2> QED BY <1>n, <2>0, <2>1, <2>2, <2>3, <2>4, <2>5, <2>6, <2>7 DEF Next
<1> QED BY <1>u, <1>n

\* The invariants of the parts, for the whole.
LEMMA PartsInvariant == Spec => [](SrInductive /\ RaInductive)
<1>1. Init => SrInductive /\ RaInductive
    BY SrInitInductive, RaInitInductive DEF Init
<1>2. SrInductive /\ RaInductive /\ [Next]_vars => (SrInductive /\ RaInductive)'
    BY NextIsSrStep, NextIsRaStep, SrNextInductive, RaNextInductive
<1> QED BY <1>1, <1>2, PTL DEF Spec

\* Type correctness of the whole, from that of the parts.
THEOREM UeMacTypeCorrect == Spec => []TypeOK
<1> DEFINE DrbsOK == drbs \in BOOLEAN
<1>1. Init => DrbsOK
    BY DEF Init
<1>2. DrbsOK /\ [Next]_vars => DrbsOK'
    <2> SUFFICES ASSUME drbs \in BOOLEAN, [Next]_vars PROVE drbs' \in BOOLEAN
        OBVIOUS
    <2>1. drbs' = drbs \/ drbs' \in {drbs, FALSE} \/ drbs' = TRUE
        BY Zenon DEF Next, vars, Connect, Paging, Sib1, RandomAccessResponse, DoRecvRrcSetup,
               DoRecvRrcResume, ApplyRadioBearerConfig, ReleaseBearer, T300,
               ProcessRrcRelease, RlcReport, ProcessUlDci, DoSlotIndication, SrTimers,
               RaTimers, Tick
    <2> QED BY <2>1
<1>3. SrInductive /\ RaInductive /\ DrbsOK => TypeOK
    BY DEF SrInductive, RaInductive, TypeOK
<1> HIDE DEF DrbsOK
<1> QED BY <1>1, <1>2, <1>3, PartsInvariant, PTL DEF Spec

\* In the UE MAC the SR machine behaves as it does alone: the RRC, the RLC and
\* the random access only make calls that NrUeMacSr allows.
THEOREM UeMacImplementsSr == Spec => SrSpec
<1>1. Init => SrInit BY DEF Init
<1> QED BY <1>1, NextIsSrStep, PTL DEF Spec, SrSpec

\* Random access is never forgotten in the complete UE MAC either.
THEOREM UeMacRaNeverForgotten == Spec => []RaNeverForgotten
<1>1. SrInductive /\ RaInductive => RaNeverForgotten BY DEF RaInductive
<1> QED BY <1>1, PartsInvariant, PTL

\* Nor is it in two phases at a time, unless a trigger comes during a procedure.
THEOREM UeMacOnePhaseAtATime == Spec => []OnePhaseAtATime
<1>1. Init => PhasesUnlessOverlap
    BY PhasesInductive DEF Init
<1>2. RaInductive /\ PhasesUnlessOverlap /\ [Next]_vars => PhasesUnlessOverlap'
    BY NextIsRaStep, PhasesInductive
<1> QED BY <1>1, <1>2, PartsInvariant, PhasesSuffice, PTL DEF Spec

-----------------------------------------------------------------------------
\* Which states have an RNTI, after each kind of step.
LEMMA RntiInductive == RntiMatchesRrc /\ [Next]_vars => RntiMatchesRrc'
<1> SUFFICES ASSUME RntiMatchesRrc, [Next]_vars, ~Halted'
             PROVE  (rntiValid <=> rrcState \in {"IDLE_CONNECTING", "INACTIVE_CONNECTING",
                                                 "CONNECTED_NORMALLY"})'
    BY DEF RntiMatchesRrc
<1>u. CASE UNCHANGED vars
    BY <1>u DEF vars, srVars, raVars, RntiMatchesRrc, Halted
<1>n. CASE Next
    <2>0. rntiValid <=> rrcState \in {"IDLE_CONNECTING", "INACTIVE_CONNECTING",
                                      "CONNECTED_NORMALLY"}
        BY <1>n DEF Next, RntiMatchesRrc
    <2>1. CASE Connect
        BY <2>0, <2>1 DEF Connect, StartConnection, ResumeConnection, srVars
    <2>2. CASE Paging \/ Sib1 \/ RaTimers
        BY <2>0, <2>2 DEF Paging, ReceivePaging, Sib1, DoRecvSib1, RaTimers, srVars,
                          StartWaitingForRaResponse, TimeoutFires, RaResponseTimeout
    <2>3. CASE RandomAccessResponse
        BY <2>3 DEF RandomAccessResponse, RecvRaResponse, RrcAfterRaSuccess, SetRnti, Halted
    <2>4. CASE DoRecvRrcSetup \/ DoRecvRrcResume
        BY <2>0, <2>4 DEF DoRecvRrcSetup, DoRecvRrcResume, RrcConnects, srVars,
                          DoNotifyConnectionSuccessful
    <2>5. CASE T300 \/ ProcessRrcRelease
        BY <2>5 DEF T300, ProcessRrcRelease, ConnectionTimeout, ReleaseToInactive,
                    ReleaseToIdle, SrReset
    <2>6. CASE ApplyRadioBearerConfig
        BY <2>0, <2>6 DEF ApplyRadioBearerConfig, srVars, raVars
    <2>7. ASSUME NEW l \in Lcids, NEW bytes \in 0..MaxQueue, RlcReport(l, bytes)
          PROVE  rntiValid' = rntiValid /\ rrcState' = rrcState
        BY <2>7 DEF RlcReport, DoReportBufferStatus, raVars
    <2>8. CASE ProcessUlDci \/ SrTimers
        BY <2>0, <2>8 DEF ProcessUlDci, ProcessNewUlDci, ProcessRetxUlDci, SrTimers, raVars,
                          DciReceptionTimeout, SrSchedulingTimeout
    <2>9. CASE DoSlotIndication \/ Tick
        BY <2>0, <2>9 DEF DoSlotIndication, SrSlotIndication, RaSlotIndication,
                          Tick, SrTick, RaTick
    <2>10. ASSUME NEW l \in Lcids, ReleaseBearer(l)
           PROVE  rntiValid' = rntiValid /\ rrcState' = rrcState
        BY <2>10 DEF ReleaseBearer, DoRemoveLc, raVars
    <2> QED BY <1>n, <2>0, <2>1, <2>2, <2>3, <2>4, <2>5, <2>6, <2>7, <2>8, <2>9, <2>10
            DEF Next
<1> QED BY <1>u, <1>n

\* The MAC has an RNTI exactly while the RRC is connecting or connected:
\* NrUeMac::RecvRaResponse and DoReset, as NrUeRrc calls them.
THEOREM UeMacRntiMatchesRrc == Spec => []RntiMatchesRrc
<1>1. Init => RntiMatchesRrc
    BY DEF Init, SrInit, RaInit, RntiMatchesRrc
<1> QED BY <1>1, RntiInductive, PTL DEF Spec

-----------------------------------------------------------------------------
\* A grant cannot create demand: what it leaves of queues without bytes has none.
LEMMA ServedStaysEmpty ==
    ASSUME NEW bsr \in [Lcids -> {NoReport} \cup 0..MaxQueue], ~Backlog(bsr),
           NEW left \in ServedBy(bsr)
    PROVE  ~Backlog(left)
<1> SUFFICES ASSUME NEW l \in Lcids PROVE ~(left[l] > 0)
    BY DEF Backlog
<1>1. bsr[l] = NoReport \/ (bsr[l] \in 0..MaxQueue /\ ~(bsr[l] > 0))
    BY DEF Backlog
<1>2. left[l] = NoReport \/ left[l] \in 0..bsr[l]
    BY DEF ServedBy
<1> QED BY <1>1, <1>2, SrAssumption DEF NoReport

\* At rest, below an RRC that is not connected, the machine stays at rest.
\* SrInductive gives the type of the buffer status; the setup finds the machine
\* INACTIVE because it was at rest until then.
LEMMA QuietInductive ==
    ASSUME ~RlcReportsWhileNotConnected
    PROVE  SrInductive /\ SrQuietUnlessConnected /\ SetupFindsSrInactive /\ [Next]_vars
              => SrQuietUnlessConnected' /\ SetupFindsSrInactive'
<1> DEFINE Quiet == /\ srState = "INACTIVE"
                    /\ waitingForDciReception = NotRunning
                    /\ waitingForSchedulingTimer = NotRunning
                    /\ ~Backlog(ulBsrReceived)
           C == rrcState = "CONNECTED_NORMALLY"
<1> SUFFICES ASSUME SrInductive, SrQuietUnlessConnected, SetupFindsSrInactive, [Next]_vars
             PROVE  (Halted' \/ C' \/ Quiet') /\ SetupFindsSrInactive'
    BY DEF SrQuietUnlessConnected
<1>u. CASE UNCHANGED vars
    BY <1>u DEF vars, srVars, raVars, SrQuietUnlessConnected, SetupFindsSrInactive,
                Halted, Backlog
<1>n. CASE Next
    <2>0. (C \/ Quiet) /\ srFatal = "none" /\ NotRunning # 0
        BY <1>n DEF Next, Halted, SrQuietUnlessConnected, NotRunning
    <2>1. CASE UNCHANGED srVars /\ (C => C')
        BY <2>0, <2>1 DEF srVars, SetupFindsSrInactive, Backlog
    <2>2. CASE Connect
        BY <2>0, <2>2 DEF Connect, StartConnection, ResumeConnection, srVars, Backlog,
                          SetupFindsSrInactive
    <2>3. CASE Paging \/ Sib1 \/ RaTimers \/ ApplyRadioBearerConfig \/ DoRecvRrcResume
        BY <2>1, <2>3 DEF Paging, ReceivePaging, Sib1, DoRecvSib1, RaTimers, raVars,
                          StartWaitingForRaResponse, TimeoutFires, RaResponseTimeout,
                          ApplyRadioBearerConfig, DoRecvRrcResume, RrcConnects
    <2>4. CASE RandomAccessResponse
        <3>1. ~Halted' => ~C
            BY <2>4 DEF RandomAccessResponse, RecvRaResponse, RrcAfterRaSuccess, Halted
        <3> QED BY <2>0, <2>4, <3>1
                DEF RandomAccessResponse, SetRnti, Backlog, SetupFindsSrInactive
    <2>5. CASE DoRecvRrcSetup
        BY <2>0, <2>5 DEF DoRecvRrcSetup, RrcConnects, DoNotifyConnectionSuccessful,
                          SetupFindsSrInactive
    <2>6. CASE T300 \/ ProcessRrcRelease
        <3>1. SrReset
            BY <2>6 DEF T300, ProcessRrcRelease
        <3>2. \A l \in Lcids : ~(ulBsrReceived'[l] > 0)
            BY <3>1 DEF SrReset, NoReport
        <3> QED BY <2>0, <3>1, <3>2 DEF SrReset, Backlog, SetupFindsSrInactive
    <2>7. ASSUME NEW l \in Lcids, NEW bytes \in 0..MaxQueue, RlcReport(l, bytes)
          PROVE  C' /\ SetupFindsSrInactive'
        BY <2>0, <2>7 DEF RlcReport, DoReportBufferStatus, raVars, SetupFindsSrInactive
    <2>8. CASE ProcessUlDci
        <3>1. C' = C /\ SetupFindsSrInactive'
            BY <2>0, <2>8 DEF ProcessUlDci, ProcessNewUlDci, ProcessRetxUlDci, raVars,
                              SetupFindsSrInactive
        <3>2. CASE ProcessRetxUlDci
            BY <2>0, <3>1, <3>2 DEF ProcessRetxUlDci, Backlog
        <3>3. ASSUME NEW left \in ServedBy(ulBsrReceived), ProcessNewUlDci(left), ~C
              PROVE  Quiet'
            <4>1. ~Backlog(left)
                BY <2>0, <3>3, ServedStaysEmpty DEF SrInductive, SrTypeOK
            <4> QED BY <3>3, <4>1 DEF ProcessNewUlDci, Backlog
        <3> QED BY <2>8, <3>1, <3>2, <3>3 DEF ProcessUlDci
    <2>9. CASE DoSlotIndication
        BY <2>0, <2>9 DEF DoSlotIndication, SrSlotIndication, RaSlotIndication, Backlog,
                          SetupFindsSrInactive
    <2>10. CASE SrTimers
        BY <2>0, <2>10 DEF SrTimers, DciReceptionTimeout, SrSchedulingTimeout, raVars, Backlog,
                           SetupFindsSrInactive
    <2>11. CASE Tick
        BY <2>0, <2>11 DEF Tick, SrTick, RaTick, Countdown, NotRunning, Backlog,
                           SetupFindsSrInactive
    <2>12. ASSUME NEW l \in Lcids, ReleaseBearer(l)
           PROVE  C' /\ SetupFindsSrInactive'
        BY <2>0, <2>12 DEF ReleaseBearer, DoRemoveLc, raVars, SetupFindsSrInactive
    <2> QED BY <1>n, <2>2, <2>3, <2>4, <2>5, <2>6, <2>7, <2>8, <2>9, <2>10, <2>11, <2>12
            DEF Next
<1> QED BY <1>u, <1>n

\* The two properties together are invariant.
LEMMA QuietInvariant ==
    ASSUME ~RlcReportsWhileNotConnected
    PROVE  Spec => [](SrQuietUnlessConnected /\ SetupFindsSrInactive)
<1>1. Init => SrQuietUnlessConnected /\ SetupFindsSrInactive
    BY DEF Init, SrInit, SrQuietUnlessConnected, SetupFindsSrInactive, Backlog, NoReport
<1>2. SrInductive /\ SrQuietUnlessConnected /\ SetupFindsSrInactive /\ [Next]_vars
          => SrQuietUnlessConnected' /\ SetupFindsSrInactive'
    BY QuietInductive
<1> QED BY <1>1, <1>2, PartsInvariant, PTL DEF Spec

\* If the queues of suspended bearers are empty, nothing of the SR machine
\* survives into the next connection (NrUeMac::DoReset).
THEOREM UeMacSrQuiet ==
    ASSUME ~RlcReportsWhileNotConnected
    PROVE  Spec => []SrQuietUnlessConnected
BY QuietInvariant, PTL

\* Under the same condition the NS_FATAL_ERROR of DoNotifyConnectionSuccessful
\* is unreachable.
THEOREM UeMacSetupFindsSrInactive ==
    ASSUME ~RlcReportsWhileNotConnected
    PROVE  Spec => []SetupFindsSrInactive
BY QuietInvariant, PTL
=============================================================================
