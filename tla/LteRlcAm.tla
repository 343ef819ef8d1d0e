------------------------------ MODULE LteRlcAm ------------------------------
(***************************************************************************)
(* One direction of a bearer in acknowledged mode (lte-rlc-am.cc): the     *)
(* transmitting side of one RLC entity, the receiving side of its peer and *)
(* the MACs between them, which hand out transmission opportunities for    *)
(* the buffers they were told of, lose PDUs and, in the downlink, may let  *)
(* a PDU be overtaken while HARQ repeats it.  The LTE schedulers that the  *)
(* RLC was written for do so; the resource manager of NR repeats no block. *)
(* Several STATUS PDUs may be on their way; whether HARQ may hold one back *)
(* for longer than StatusProhibitTimer is a matter of configuration        *)
(* (StatusOvertakes).                                                      *)
(*                                                                         *)
(* Bytes are numbered units: the SDU i is the units (i - 1) * SduSize + 1  *)
(* to i * SduSize, a PDU is an interval of them.  The entities look at the *)
(* bounds of SDUs only.  Timers run for any time: their durations are      *)
(* attributes.                                                             *)
(***************************************************************************)
EXTENDS Integers, SequencesExt

CONSTANTS
    SnModulus,     \* 1024, the numbers of SequenceNumber10
    WindowSize,    \* m_windowSize: 512
    SduSize,       \* units in an SDU
    MaxSdus,       \* SDUs that are submitted (bound)
    MaxTxBuffer,   \* m_maxTxBufferSize, in units
    MaxOpportunity,\* units that fit in the largest opportunity (bound)
    MaxInFlight,   \* data PDUs on their way (bound)
    MaxStatusInFlight, \* STATUS PDUs on their way (bound)
    StatusOvertakes,\* may HARQ hold back a STATUS PDU until the next one has arrived?
                   \* Not where no block is repeated, as by the resource manager
    MaxSwitches,   \* switches of the bandwidth part (bound)
    MaxLosses      \* PDUs that are lost (bound)

ASSUME RlcAmAssumption ==
    /\ {SnModulus, WindowSize} \subseteq Nat \ {0} /\ SnModulus >= 2 * WindowSize
    /\ {SduSize, MaxSdus, MaxTxBuffer, MaxOpportunity, MaxInFlight, MaxStatusInFlight}
            \subseteq Nat \ {0}
    /\ {MaxSwitches, MaxLosses} \subseteq Nat /\ StatusOvertakes \in BOOLEAN

VARIABLES
    ueSends,       \* is this the uplink; chosen once
    submitted,     \* SDUs that DoTransmitPdcpPdu put in the transmission buffer
    tx,            \* the transmitting side
    rx,            \* the receiving side
    dataPdus,      \* data PDUs on their way
    statusPdus,    \* STATUS PDUs on their way
    switches,      \* switches of the bandwidth part so far
    losses,        \* PDUs lost so far
    fatal          \* the assertion that ended the simulation, or "none"

vars == <<ueSends, submitted, tx, rx, dataPdus, statusPdus, switches, losses, fatal>>

Sns == 0..(SnModulus - 1)
NoPdu == [from |-> 1, to |-> 0]
Units == 1..(MaxSdus * SduSize)
Pdus == [from : Units, to : Units] \cup {NoPdu}
Size(p) == p.to - p.from + 1

\* SequenceNumber10: the comparisons order the numbers from the modulus base on.
Distance(base, sn) == (sn - base) % SnModulus

\* Mutant of Plus: the value grows past the modulus.
PlusUnwrapped(sn, n) == sn + n

Plus(sn, n) == (sn + n) % SnModulus

TypeOK ==
    /\ ueSends \in BOOLEAN
    /\ submitted \in 0..MaxSdus
    /\ tx \in [vtA : Sns, vtS : Sns, txed : [Sns -> Pdus], retx : [Sns -> Pdus],
               taken : {0} \cup Units, pollSn : Sns, pollRetransmitTimer : BOOLEAN,
               justExpired : BOOLEAN, rbsTimer : BOOLEAN, reported : BOOLEAN]
    /\ rx \in [vrR : Sns, vrX : Sns, vrMs : Sns, vrH : Sns, rxon : [Sns -> Pdus],
               reorderingTimer : BOOLEAN, statusPduRequested : BOOLEAN,
               statusProhibitTimer : BOOLEAN, statusReported : BOOLEAN,
               reassembly : [keepS0 : Seq(Units), expected : Sns, sdus : Seq(Seq(Units)),
                             error : BOOLEAN]]
    /\ dataPdus \in Seq([sn : Sns, pdu : Pdus, poll : BOOLEAN, late : BOOLEAN])
    /\ statusPdus \in Seq([ack : Sns, nacks : SUBSET Sns])
    /\ switches \in 0..MaxSwitches /\ losses \in 0..MaxLosses

Init ==
    /\ ueSends \in BOOLEAN
    /\ submitted = 0 /\ switches = 0 /\ losses = 0
    /\ tx = [vtA |-> 0, vtS |-> 0, taken |-> 0, pollSn |-> 0,
             txed |-> [sn \in Sns |-> NoPdu], retx |-> [sn \in Sns |-> NoPdu],
             pollRetransmitTimer |-> FALSE, justExpired |-> FALSE,
             rbsTimer |-> FALSE, reported |-> FALSE]
    /\ rx = [vrR |-> 0, vrX |-> 0, vrMs |-> 0, vrH |-> 0,
             rxon |-> [sn \in Sns |-> NoPdu], reorderingTimer |-> FALSE,
             statusPduRequested |-> FALSE, statusProhibitTimer |-> FALSE,
             statusReported |-> FALSE,
             reassembly |-> [keepS0 |-> << >>, expected |-> 0, sdus |-> << >>,
                             error |-> FALSE]]
    /\ dataPdus = << >> /\ statusPdus = << >>
    /\ fatal = "none"

(***************************************************************************)
(* Transmitting side                                                       *)
(***************************************************************************)
TxonSize(n) == n * SduSize - tx.taken
Retx == {sn \in Sns : tx.retx[sn] # NoPdu}
Txed == {sn \in Sns : tx.txed[sn] # NoPdu}

\* VT(A) <= SN < VT(S), in order.
Outstanding == Distance(tx.vtA, tx.vtS)
SentSns == {sn \in Sns : Distance(tx.vtA, sn) < Outstanding}

\* VT(S) = VT(MS): no new PDU until VT(A) moves.
Stalled == Outstanding = WindowSize

\* DoReportBufferStatus: the MAC is told of buffers that are not empty; the
\* buffer of transmitted PDUs does not count.
Reported(t, n) ==
    [t EXCEPT !.reported = @ \/ n * SduSize > t.taken \/ \E sn \in Sns : t.retx[sn] # NoPdu]

\* An SDU that does not fit is discarded.
DoTransmitPdcpPdu ==
    /\ submitted < MaxSdus
    /\ submitted' = IF TxonSize(submitted) + SduSize <= MaxTxBuffer
                    THEN submitted + 1 ELSE submitted
    /\ tx' = [Reported(tx, submitted') EXCEPT !.rbsTimer = TRUE]
    /\ UNCHANGED <<rx, dataPdus, statusPdus, switches, losses, fatal>>

\* TransmitPdu: through the uplink in order, through the downlink perhaps before
\* the PDU that was sent last, if that one is repeated.  HARQ repeats for milliseconds
\* and a window is 512 PDUs: the two are less than a window apart.
Transmit(m) ==
    /\ Len(dataPdus) < MaxInFlight
    /\ \/ dataPdus' = Append(dataPdus, m)
       \/ /\ ~ueSends /\ dataPdus # << >> /\ ~Last(dataPdus).late
          /\ \/ Distance(Last(dataPdus).sn, m.sn) < WindowSize
             \/ Distance(m.sn, Last(dataPdus).sn) < WindowSize
          /\ dataPdus' = Front(dataPdus) \o <<m, [Last(dataPdus) EXCEPT !.late = TRUE]>>

\* A polling bit restarts t-PollRetransmit.
Polled(t, poll) ==
    IF poll THEN [t EXCEPT !.pollRetransmitTimer = TRUE, !.justExpired = FALSE,
                           !.pollSn = Plus(t.vtS, SnModulus - 1)]
            ELSE t

\* Mutant of Retransmitted: what is sent again is forgotten.
RetransmittedAndFreed(t, sn) == [t EXCEPT !.retx[sn] = NoPdu]

\* A PDU that is sent again is kept until it is acknowledged.
Retransmitted(t, sn) == [t EXCEPT !.txed[sn] = t.retx[sn], !.retx[sn] = NoPdu]

\* The first PDU of the retransmission buffer goes back to the transmitted ones,
\* if it fits.  The last one polls when there is nothing else to send.
Retransmit(n) ==
    LET sn   == CHOOSE s \in Retx : \A q \in Retx : Distance(tx.vtA, s) <= Distance(tx.vtA, q)
        p    == tx.retx[sn]
        poll == \/ (TxonSize(submitted) = 0 /\ Retx = {sn})
                \/ Stalled \/ tx.justExpired
    IN IF Retx \cap SentSns = {}
       THEN fatal' = "NoPduForRetx" /\ UNCHANGED <<tx, dataPdus>>
       ELSE IF Size(p) > n
       THEN tx' \in {tx, [tx EXCEPT !.reported = FALSE]} /\ UNCHANGED <<dataPdus, fatal>>
       ELSE /\ Transmit([sn |-> sn, pdu |-> p, poll |-> poll, late |-> FALSE])
            /\ \E r \in {FALSE, tx.reported} :
                   tx' = Polled([Retransmitted(tx, sn) EXCEPT !.reported = r], poll)
            /\ UNCHANGED fatal

\* A new PDU of the next units, across the bounds of SDUs.  m_pollPdu is 1: it
\* always polls.
NewPdu(n) ==
    LET p == [from |-> tx.taken + 1,
              to   |-> IF TxonSize(submitted) <= n THEN submitted * SduSize ELSE tx.taken + n]
        sn == tx.vtS
    IN /\ Transmit([sn |-> sn, pdu |-> p, poll |-> TRUE, late |-> FALSE])
       /\ \E r \in {FALSE, tx.reported} :
              tx' = Polled([tx EXCEPT !.vtS = Plus(@, 1), !.txed[sn] = p, !.taken = p.to,
                                      !.reported = r], TRUE)
       /\ UNCHANGED fatal

\* DoNotifyTxOpportunity with room for n units.  The MAC takes off what it gave,
\* whatever was sent: it may have forgotten the buffer afterwards.
DoNotifyTxOpportunity(n) ==
    /\ IF Retx # {} THEN Retransmit(n)
       ELSE /\ TxonSize(submitted) > 0
            /\ IF Stalled
               THEN tx' \in {tx, [tx EXCEPT !.reported = FALSE]} /\ UNCHANGED <<dataPdus, fatal>>
               ELSE NewPdu(n)
    /\ UNCHANGED <<submitted, rx, statusPdus, switches, losses>>

\* Mutant of Sorted: an acknowledged PDU that waits to be sent again is not freed.
SortedFromTxed(t, covered, nacked) ==
    [t EXCEPT !.retx = [sn \in Sns |-> IF sn \in nacked /\ t.txed[sn] # NoPdu THEN t.txed[sn]
                                       ELSE @[sn]],
              !.txed = [sn \in Sns |-> IF sn \in covered THEN NoPdu ELSE @[sn]]]

\* The buffers after a STATUS PDU: NACKed PDUs are to be sent again, the others of the
\* SNs it covers are freed.
Sorted(t, covered, nacked) ==
    [t EXCEPT !.retx = [sn \in Sns |-> IF sn \in nacked
                                       THEN IF t.txed[sn] # NoPdu THEN t.txed[sn] ELSE @[sn]
                                       ELSE IF sn \in covered THEN NoPdu ELSE @[sn]],
              !.txed = [sn \in Sns |-> IF sn \in covered THEN NoPdu ELSE @[sn]]]

\* A STATUS PDU: the SNs before its ACK_SN are acknowledged, or NACKed and moved to
\* the retransmission buffer; VT(A) becomes the first that is not acknowledged.
ReceiveStatusPdu ==
    /\ statusPdus # << >>
    /\ LET s       == Head(statusPdus)
           covered == {sn \in SentSns : Distance(tx.vtA, sn) < Distance(tx.vtA, s.ack)}
           nacked  == covered \cap s.nacks
           stop    == {Distance(tx.vtA, sn) : sn \in nacked} \cup
                      {Distance(tx.vtA, s.ack), Outstanding}
           move    == CHOOSE d \in stop : \A e \in stop : d <= e
       IN /\ fatal' = IF \E sn \in nacked : sn \notin Txed \cup Retx THEN "NackOfFreedPdu"
                      ELSE IF \E sn \in covered \ nacked : sn \in Txed \cap Retx
                      THEN "AckedPduTwice" ELSE fatal
          /\ tx' = [Sorted(tx, covered, nacked) EXCEPT
               !.vtA = Plus(@, move),
               !.pollRetransmitTimer = @ /\ tx.pollSn \notin covered]
    /\ statusPdus' = Tail(statusPdus)
    /\ UNCHANGED <<submitted, rx, dataPdus, switches, losses>>

\* When nothing else would be sent, everything unacknowledged is.
ExpirePollRetransmitTimer ==
    LET t == [tx EXCEPT !.pollRetransmitTimer = FALSE, !.justExpired = TRUE]
        all == [t EXCEPT !.retx = [sn \in Sns |-> IF sn \in Txed \cap SentSns THEN t.txed[sn]
                                                                             ELSE @[sn]],
                         !.txed = [sn \in Sns |-> IF sn \in SentSns THEN NoPdu ELSE @[sn]]]
    IN /\ tx.pollRetransmitTimer
       /\ tx' = Reported(IF Stalled \/ (TxonSize(submitted) = 0 /\ Retx = {}) THEN all ELSE t,
                         submitted)
       /\ UNCHANGED <<submitted, rx, dataPdus, statusPdus, switches, losses, fatal>>

\* Mutant of ExpireRbsTimer: the timer is not scheduled again.
ExpireRbsTimerOnce ==
    /\ tx.rbsTimer
    /\ tx' = [Reported(tx, submitted) EXCEPT !.rbsTimer = FALSE]
    /\ UNCHANGED <<submitted, rx, dataPdus, statusPdus, switches, losses, fatal>>

\* The report is repeated as long as a buffer is not empty.
ExpireRbsTimer ==
    /\ tx.rbsTimer
    /\ tx' = IF TxonSize(submitted) > 0 \/ Txed \cup Retx # {}
             THEN Reported(tx, submitted) ELSE [tx EXCEPT !.rbsTimer = FALSE]
    /\ UNCHANGED <<submitted, rx, dataPdus, statusPdus, switches, losses, fatal>>

(***************************************************************************)
(* Receiving side                                                          *)
(***************************************************************************)
\* The SDUs and segments of SDUs in a PDU, as its length indicators separate them.
Pieces(p) ==
    LET first == (p.from - 1) \div SduSize
        last  == (p.to - 1) \div SduSize
        Bound(x, low, high) == IF x < low THEN low ELSE IF x > high THEN high ELSE x
    IN [i \in 1..(last - first + 1) |->
           LET a == Bound((first + i - 1) * SduSize + 1, p.from, p.to)
               b == Bound((first + i) * SduSize, p.from, p.to)
           IN [k \in 1..(b - a + 1) |-> a + k - 1]]

FirstByte(p) == (p.from - 1) % SduSize = 0
LastByte(p) == p.to % SduSize = 0

\* Mutant of Joined: the kept segment is dropped.
JoinedWithoutS0(r, pieces) == pieces

\* The first piece of a PDU completes or prolongs the segment that was kept.
Joined(r, pieces) == <<r.keepS0 \o Head(pieces)>> \o Tail(pieces)

\* ReassembleAndDeliver: whole SDUs are delivered, the last segment is kept for the
\* next PDU (WAITING_SI_SF).  After a loss, what was kept and a segment without its
\* beginning are thrown away; without one, framing that does not fit is an error.
ReassembleAndDeliver(r, m) ==
    LET lost   == m.sn # r.expected
        pieces == Pieces(m.pdu)
        rest   == IF FirstByte(m.pdu) THEN pieces
                  ELSE IF lost THEN Tail(pieces)
                  ELSE Joined(r, pieces)
        keep   == ~LastByte(m.pdu) /\ rest # << >>
        next   == [r EXCEPT !.expected = Plus(m.sn, 1)]
    IN IF ~lost /\ (FirstByte(m.pdu) <=> r.keepS0 # << >>)
       THEN [next EXCEPT !.error = TRUE]
       ELSE [next EXCEPT !.error = @ \/ lost,
                         !.sdus = @ \o (IF keep THEN Front(rest) ELSE rest),
                         !.keepS0 = IF keep THEN Last(rest) ELSE << >>]

Rxon(r) == {sn \in Sns : r.rxon[sn] # NoPdu}

\* The first SN from sn on that has not been received.
FirstMissing(r, sn) ==
    LET d == CHOOSE k \in 0..(SnModulus - 1) :
                 Plus(sn, k) \notin Rxon(r) /\ \A j \in 0..(k - 1) : Plus(sn, j) \in Rxon(r)
    IN Plus(sn, d)

IsInsideReceivingWindow(r, sn) == Distance(r.vrR, sn) < WindowSize

\* STATUS PDU is requested; it is reported unless the prohibit timer runs.
StatusRequested(r) ==
    [r EXCEPT !.statusPduRequested = TRUE, !.statusReported = @ \/ ~r.statusProhibitTimer]

\* A PDU inside the window is placed in the reception buffer, once.
Placed(r, m) ==
    [r EXCEPT !.rxon[m.sn] = IF @ = NoPdu THEN m.pdu ELSE @,
              !.vrH = IF Distance(r.vrR, m.sn) >= Distance(r.vrR, @) THEN Plus(m.sn, 1) ELSE @]

\* The n PDUs from VR(R) on are reassembled one after the other.
Reassembled(r, n) ==
    LET after[k \in 0..n] ==
            IF k = 0 THEN r.reassembly
            ELSE LET sn == Plus(r.vrR, k - 1)
                 IN ReassembleAndDeliver(after[k - 1], [sn |-> sn, pdu |-> r.rxon[sn]])
    IN after[n]

\* In sequence from VR(R) on, PDUs are reassembled and leave the buffer.
Advanced(r, sn) ==
    LET new == FirstMissing(r, r.vrR)
        n   == Distance(r.vrR, new)
    IN IF sn # r.vrR THEN r
       ELSE [r EXCEPT !.vrR = new,
                      !.reassembly = Reassembled(r, n),
                      !.rxon = [s \in Sns |-> IF Distance(r.vrR, s) < n THEN NoPdu ELSE @[s]]]

\* t-Reordering stops when what it waited for has come, and starts when there is a gap.
Reordered(r) ==
    LET runs == /\ r.reorderingTimer
                /\ r.vrX # r.vrR
                /\ IsInsideReceivingWindow(r, r.vrX) \/ r.vrX = Plus(r.vrR, WindowSize)
    IN IF runs \/ r.vrH = r.vrR THEN [r EXCEPT !.reorderingTimer = runs]
       ELSE [r EXCEPT !.reorderingTimer = TRUE, !.vrX = r.vrH]

DoReceivePdu ==
    /\ dataPdus # << >>
    /\ LET m == Head(dataPdus)
           r == IF m.poll THEN StatusRequested(rx) ELSE rx
           p == Placed(r, m)
           s == [p EXCEPT !.vrMs = FirstMissing(p, @)]
       IN rx' = IF IsInsideReceivingWindow(r, m.sn) THEN Reordered(Advanced(s, m.sn)) ELSE r
    /\ dataPdus' = Tail(dataPdus)
    /\ UNCHANGED <<submitted, tx, statusPdus, switches, losses, fatal>>

\* The SNs up to VR(MS) that have not been received, and the first c of them.
Missing(r) == {sn \in Sns \ Rxon(r) : Distance(r.vrR, sn) < Distance(r.vrR, r.vrMs)}
Nacks(r, c) ==
    {sn \in Missing(r) :
        Cardinality({q \in Missing(r) : Distance(r.vrR, q) < Distance(r.vrR, sn)}) < c}

\* Mutant of AckSn: also when a NACK found no room.
AckSnOfAll(r, c) == r.vrMs

\* The first missing SN that is not reported as missing, or VR(MS).
AckSn(r, c) ==
    LET left == Missing(r) \ Nacks(r, c)
    IN IF left = {} THEN r.vrMs
       ELSE CHOOSE sn \in left : \A q \in left : Distance(r.vrR, sn) <= Distance(r.vrR, q)

\* The orders in which STATUS PDUs arrive when s is sent.  The uplink keeps their order;
\* in the downlink, HARQ may repeat the one before s until s has arrived.
StatusOrders(s) ==
    {Append(statusPdus, s)} \cup
    (IF StatusOvertakes /\ ueSends /\ statusPdus # << >>
     THEN {Front(statusPdus) \o <<s, Last(statusPdus)>>} ELSE {})

\* DoNotifyTxOpportunity of this entity, with room for c NACKs (OneMoreNackWouldFitIn).
SendStatusPdu(c) ==
    /\ rx.statusPduRequested /\ ~rx.statusProhibitTimer
    /\ Len(statusPdus) < MaxStatusInFlight
    /\ statusPdus' \in StatusOrders([ack |-> AckSn(rx, c), nacks |-> Nacks(rx, c)])
    /\ rx' = [rx EXCEPT !.statusPduRequested = FALSE, !.statusProhibitTimer = TRUE,
                        !.statusReported = FALSE]
    /\ UNCHANGED <<submitted, tx, dataPdus, switches, losses, fatal>>

\* The status is triggered, but not reported to the MAC.
ExpireReorderingTimer ==
    LET ms == FirstMissing(rx, rx.vrX)
        gap == Distance(rx.vrR, rx.vrH) > Distance(rx.vrR, ms)
    IN /\ rx.reorderingTimer
       /\ rx' = [rx EXCEPT !.vrMs = ms, !.reorderingTimer = gap,
                           !.vrX = IF gap THEN rx.vrH ELSE @, !.statusPduRequested = TRUE]
       /\ UNCHANGED <<submitted, tx, dataPdus, statusPdus, switches, losses, fatal>>

\* Nothing is reported when the prohibit timer ends.
ExpireStatusProhibitTimer ==
    /\ rx.statusProhibitTimer
    /\ rx' = [rx EXCEPT !.statusProhibitTimer = FALSE]
    /\ UNCHANGED <<submitted, tx, dataPdus, statusPdus, switches, losses, fatal>>

(***************************************************************************)
(* Faults                                                                  *)
(***************************************************************************)
\* A transport block is lost.
Lose ==
    /\ losses < MaxLosses /\ losses' = losses + 1
    /\ \/ dataPdus # << >> /\ dataPdus' = Tail(dataPdus) /\ UNCHANGED statusPdus
       \/ statusPdus # << >> /\ statusPdus' = Tail(statusPdus) /\ UNCHANGED dataPdus
    /\ UNCHANGED <<submitted, tx, rx, switches, fatal>>

\* BwpManagerUe::SwitchBwp and NrUeRrc::DoNotifySwitchedBwp: the MAC of the UE is
\* reset, its buffer status is not transferred, and t-PollRetransmit of SRB1 stops.
SwitchBwp ==
    /\ switches < MaxSwitches
    /\ switches' = switches + 1
    /\ IF ueSends
       THEN tx' = [tx EXCEPT !.reported = FALSE, !.pollRetransmitTimer = FALSE] /\ UNCHANGED rx
       ELSE rx' = [rx EXCEPT !.statusReported = FALSE] /\ UNCHANGED tx
    /\ UNCHANGED <<submitted, dataPdus, statusPdus, losses, fatal>>

Next ==
    /\ fatal = "none"
    /\ \/ DoTransmitPdcpPdu \/ ReceiveStatusPdu
       \/ \E n \in 1..MaxOpportunity : DoNotifyTxOpportunity(n)
       \/ ExpirePollRetransmitTimer \/ ExpireRbsTimer
       \/ DoReceivePdu
       \/ \E c \in 0..WindowSize : SendStatusPdu(c)
       \/ ExpireReorderingTimer \/ ExpireStatusProhibitTimer
       \/ Lose \/ SwitchBwp
    /\ UNCHANGED ueSends

\* Timers run out, what is on its way arrives or is lost, and a buffer the MAC knows of
\* gets an opportunity, sooner or later one that is large enough.
Step(A) == fatal = "none" /\ A /\ UNCHANGED ueSends

Fairness ==
    /\ WF_vars(Step(ExpirePollRetransmitTimer)) /\ WF_vars(Step(ExpireRbsTimer))
    /\ WF_vars(Step(ExpireReorderingTimer)) /\ WF_vars(Step(ExpireStatusProhibitTimer))
    /\ SF_vars(Step(tx.reported /\ DoNotifyTxOpportunity(MaxOpportunity)))
    /\ WF_vars(Step(rx.statusReported /\ SendStatusPdu(WindowSize)))
    /\ WF_statusPdus(statusPdus # << >> /\ statusPdus' = Tail(statusPdus))
    /\ WF_dataPdus(dataPdus # << >> /\ dataPdus' = Tail(dataPdus))

Spec == Init /\ [][Next]_vars /\ Fairness

-----------------------------------------------------------------------------
Sdu(i) == [k \in 1..SduSize |-> (i - 1) * SduSize + k]

\* What the receiver delivers to PDCP is what the sender's PDCP submitted: whole SDUs,
\* each once, in order, whatever was segmented, concatenated, lost, repeated or
\* overtaken; and ReassembleAndDeliver never takes its branches for a loss or for framing
\* that does not fit, which acknowledged mode is there to exclude.
DeliveredInOrder ==
    /\ ~rx.reassembly.error
    /\ Len(rx.reassembly.sdus) <= submitted
    /\ \A i \in DOMAIN rx.reassembly.sdus : rx.reassembly.sdus[i] = Sdu(i)

\* The assertions on the buffers: a NACKed PDU is still there, an acknowledged one is
\* not in two buffers, a retransmission buffer that is not empty has a PDU to send.
NoAssertion == fatal = "none"

\* The windows agree, whatever wraps around: the receiver waits for an SN that the
\* sender has sent and not freed, or for the next new one.
WindowsAgree ==
    Distance(tx.vtA, rx.vrR) <= Outstanding /\ Outstanding <= WindowSize

\* A PDU that the receiver still needs is in a buffer of the sender.
SenderKeepsUnreceived ==
    \A sn \in Sns \ Rxon(rx) :
        Distance(rx.vrR, sn) < Distance(rx.vrR, tx.vtS) => sn \in Txed \cup Retx

\* Nothing of the sender's is left to send or to run out.
Abandoned ==
    /\ ~tx.pollRetransmitTimer /\ Retx = {}
    /\ Stalled \/ TxonSize(submitted) = 0

\* Every SDU arrives, although a NACK, a prohibited STATUS PDU and an expired
\* t-Reordering are not reported to the MAC.  The one exception is in the uplink: the
\* UE's RRC stops t-PollRetransmit in a switch of the bandwidth part, PDUs that were
\* transmitted are not reported, and they wait for a new SDU to poll for them.
EverySduArrives ==
    \/ []<>(Len(rx.reassembly.sdus) = submitted)
    \/ <>[](ueSends /\ switches > 0 /\ Abandoned)
=============================================================================
