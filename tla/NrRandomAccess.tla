-------------------------- MODULE NrRandomAccess --------------------------
(***************************************************************************)
(* Several UEs contending for access to one cell: the preambles of the     *)
(* UEs, the gNB MAC that counts them and allocates temporary RNTIs, the    *)
(* RARs and the UE contexts of the gNB RRC up to Msg3 (nr-ue-mac.cc,       *)
(* nr-gnb-mac.cc, nr-mac-scheduler-ns3.cc, nr-gnb-rrc.cc).                 *)
(*                                                                         *)
(* Time is counted in subframes of 1 ms.  The procedure inside one UE MAC  *)
(* (backing off, retries, pages) is the subject of NrUeMacRa; here a UE    *)
(* sends its next preamble in any PRACH subframe.                          *)
(***************************************************************************)
EXTENDS NrPrach, FiniteSets, Functions

CONSTANTS
    Ues,                        \* IMSIs
    Preambles,                  \* totalNumberOfRA_Preambles
    PrachConfigs,               \* PrachConfigurationIndex selects one; m_nfX is 1
    Fdm,                        \* frequency-domain occasions (4 in SIB1)
    RapIdKeys,                  \* m_rapIdRntiMap has uint8_t keys: 256
    MaxPreambleTx,              \* bound on the preambles of a UE (100)
    RaWindowBegin,              \* ms to StartWaitingForRaResponse (1)
    RaWindowEnd,                \* ms to RaResponseTimeout (11)
    MaxDlGap,                   \* ms to the next downlink slot, at most
    MaxRarAge,                  \* ms from SendRar to the UE MAC, at most
    ConnectionRequestTimeoutDuration,   \* ms (15)
    ConnectionRejectedTimeoutDuration   \* ms (30)

ASSUME RandomAccessAssumption ==
    /\ IsFiniteSet(Ues)
    /\ {Fdm, RapIdKeys, MaxPreambleTx, RaWindowBegin, RaWindowEnd, MaxRarAge,
        ConnectionRequestTimeoutDuration, ConnectionRejectedTimeoutDuration}
          \subseteq Nat \ {0}
    /\ MaxDlGap \in Nat
    /\ MaxDlGap < 9
    /\ 1 + MaxDlGap + MaxRarAge < RaWindowEnd
    /\ RaWindowBegin <= 2 /\ RaWindowEnd <= 11  \* fixed in SendRaPreamble: 1 and 11

VARIABLES
    now,           \* m_currentSlot: the subframe of the current frame
    prachConfig,   \* m_prachconfig of UEs and gNB
    phase,         \* where a UE is: idle, preambleSent, msg3 or failed
    sent,          \* m_raPreambleId, m_raRnti and the ms since the preamble
    attempts,      \* m_preambleTransmissionCounter
    ueRnti,        \* m_rnti of the UE, 0 before the RAR
    onAir,         \* preambles sent in this subframe
    received,      \* m_receivedRachPreambleCount, with the senders
    rapIdRntiMap,  \* m_rapIdRntiMap: temporary RNTI to preamble
    lastRnti,      \* m_lastAllocatedRnti
    context,       \* m_ueMap of the gNB RRC: state and timer
    rars,          \* RARs on their way to the UEs
    msg3,          \* UEs whose Msg3 is on its way
    failed,        \* the NS_FATAL_ERROR or NS_ASSERT that ended the run
    sender         \* history: the UEs whose preamble an RNTI answers

vars == <<now, prachConfig, phase, sent, attempts, ueRnti, onAir, received,
          rapIdRntiMap, lastRnti, context, rars, msg3, failed, sender>>

MaxRnti == Cardinality(Ues) * MaxPreambleTx
Rntis == 1..MaxRnti
Nothing == [preamble |-> 0, raRnti |-> 0, since |-> 0]
NoContext == [state |-> "none", timer |-> -1]
States == {"none", "INITIAL_RANDOM_ACCESS", "CONNECTION_SETUP", "CONNECTION_REJECTED"}
Timers == {ConnectionRequestTimeoutDuration, ConnectionRejectedTimeoutDuration}

TypeOK ==
    /\ now \in 0..9
    /\ prachConfig \in PrachConfigs
    /\ phase \in [Ues -> {"idle", "preambleSent", "msg3", "failed"}]
    /\ \A u \in Ues : /\ sent[u].preamble \in Preambles \cup {0}
                      /\ sent[u].raRnti \in RaRntis
                      /\ sent[u].since \in 0..RaWindowEnd
    /\ attempts \in [Ues -> 0..MaxPreambleTx]
    /\ ueRnti \in [Ues -> Rntis \cup {0}]
    /\ \A x \in onAir \cup received : x.occasion \in 0..(OccasionWidth - 1) /\ x.imsi \in Ues
    /\ DOMAIN rapIdRntiMap \subseteq 0..(RapIdKeys - 1)
    /\ lastRnti \in Rntis \cup {0}
    /\ \A r \in Rntis : /\ context[r].state \in States
                        /\ \E t \in Timers : context[r].timer \in -1..t
    /\ \A m \in rars : m.rnti \in Rntis /\ m.age \in 0..MaxRarAge
    /\ msg3 \subseteq Ues
    /\ failed \in {"none", "RecvRrcConnectionRequest", "ConnectionRequestTimeout"}
    /\ sender \in [Rntis -> SUBSET Ues]

Init ==
    /\ now = 0
    /\ prachConfig \in PrachConfigs
    /\ phase = [u \in Ues |-> "idle"]
    /\ sent = [u \in Ues |-> Nothing]
    /\ attempts = [u \in Ues |-> 0]
    /\ ueRnti = [u \in Ues |-> 0]
    /\ onAir = {}
    /\ received = {}
    /\ rapIdRntiMap = << >>
    /\ lastRnti = 0
    /\ context = [r \in Rntis |-> NoContext]
    /\ rars = {}
    /\ msg3 = {}
    /\ failed = "none"
    /\ sender = [r \in Rntis |-> {}]

(***************************************************************************)
(* UE                                                                      *)
(***************************************************************************)
\* SendRaPreamble in a PRACH subframe.
SendRaPreamble(u) ==
    /\ phase[u] = "idle"
    /\ now \in Range(prachConfig.SfN)
    /\ \E occ \in UeOccasions(prachConfig, Fdm, now), p \in Preambles :
        /\ sent' = [sent EXCEPT ![u] =
                      [preamble |-> p, since |-> 0,
                       raRnti |-> UeRaRnti(prachConfig, now, occ)]]
        /\ onAir' = onAir \cup {[occasion |-> occ, raId |-> p, imsi |-> u]}
    /\ phase' = [phase EXCEPT ![u] = "preambleSent"]
    /\ attempts' = [attempts EXCEPT ![u] = @ + 1]
    /\ UNCHANGED <<now, prachConfig, ueRnti, received, rapIdRntiMap, lastRnti, context,
                   rars, msg3, failed, sender>>

\* Mutant of RaResponseTimeout: no limit on the preambles.
RaResponseTimeoutUnlimited(u) ==
    /\ phase[u] = "preambleSent" /\ sent[u].since = RaWindowEnd
    /\ phase' = [phase EXCEPT ![u] = "idle"]
    /\ sent' = [sent EXCEPT ![u] = Nothing]
    /\ UNCHANGED <<now, prachConfig, attempts, ueRnti, onAir, received, rapIdRntiMap,
                   lastRnti, context, rars, msg3, failed, sender>>

RaResponseTimeout(u) ==
    /\ phase[u] = "preambleSent" /\ sent[u].since = RaWindowEnd
    /\ phase' = [phase EXCEPT ![u] = IF attempts[u] < MaxPreambleTx THEN "idle" ELSE "failed"]
    /\ sent' = [sent EXCEPT ![u] = Nothing]
    /\ UNCHANGED <<now, prachConfig, attempts, ueRnti, onAir, received, rapIdRntiMap,
                   lastRnti, context, rars, msg3, failed, sender>>

\* DoReceiveControlMessage, case RAR, in the PHY and in the MAC of u.
AcceptsRar(u, rar) ==
    /\ phase[u] = "preambleSent" /\ sent[u].since >= RaWindowBegin
    /\ sent[u].raRnti = rar.raRnti
    /\ sent[u].preamble = rar.rapId

\* A RAR is received by all UEs.  One that accepts it takes the RNTI and
\* sends Msg3.
DeliverRar(rar) ==
    LET accepting == {u \in Ues : AcceptsRar(u, rar)}
        For(new, old) == [u \in Ues |-> IF u \in accepting THEN new ELSE old[u]]
    IN  /\ rar.age >= 1
        /\ rars' = rars \ {rar}
        /\ phase' = For("msg3", phase)
        /\ ueRnti' = For(rar.rnti, ueRnti)
        /\ sent' = For(Nothing, sent)
        /\ msg3' = msg3 \cup accepting
        /\ UNCHANGED <<now, prachConfig, attempts, onAir, received, rapIdRntiMap,
                       lastRnti, context, failed, sender>>

(***************************************************************************)
(* gNB MAC                                                                 *)
(***************************************************************************)
\* The number of the frame, the third part of the key, is left out: no preamble
\* waits in the map for a whole frame.
KeyOf(x) == <<x.occasion, x.raId>>
Senders(key) == {x.imsi : x \in {y \in received : KeyOf(y) = key}}

\* Mutant of Undisturbed: a collision is answered like a single preamble.
UndisturbedOrNot == {KeyOf(x) : x \in received}

\* The keys counted once; a key counted more often is a collision.
Undisturbed == {key \in {KeyOf(x) : x \in received} : Cardinality(Senders(key)) = 1}

\* Mutant of RapIdKey: a key of one bit.
RapIdKeyOneBit(rnti) == rnti % 2

\* The key type of m_rapIdRntiMap is uint8_t.
RapIdKey(rnti) == rnti % RapIdKeys

\* m_rapIdRntiMap.insert for the RNTIs of keyOf in ascending order: an entry
\* that exists stays.
Inserted(keyOf) ==
    [k \in DOMAIN rapIdRntiMap \cup {RapIdKey(r) : r \in DOMAIN keyOf} |->
        IF k \in DOMAIN rapIdRntiMap
        THEN rapIdRntiMap[k]
        ELSE LET same == {r \in DOMAIN keyOf : RapIdKey(r) = k}
             IN  keyOf[CHOOSE r \in same : \A q \in same : r <= q][2]]

\* SendRar for the RNTIs that got resources for Msg3.
SendRar(granted, keyOf, map) ==
    /\ rars' = rars \cup {[rnti |-> r, age |-> 0, rapId |-> map[RapIdKey(r)],
                           raRnti |-> GetRaRnti(prachConfig, keyOf[r][1])] : r \in granted}
    /\ rapIdRntiMap' = IF granted = {} THEN map ELSE << >>

\* Mutant of AddUe: no request timer is started.
AddUeWithoutTimer(new) ==
    /\ lastRnti' = lastRnti + Cardinality(new)
    /\ context' = [r \in Rntis |->
                     IF r \in new
                     THEN [state |-> "INITIAL_RANDOM_ACCESS", timer |-> -1]
                     ELSE context[r]]

\* AllocateTemporaryCellRnti and UeManagerNr::DoInitialize.
AddUe(new) ==
    /\ lastRnti' = lastRnti + Cardinality(new)
    /\ context' = [r \in Rntis |->
                     IF r \in new
                     THEN [state |-> "INITIAL_RANDOM_ACCESS",
                           timer |-> ConnectionRequestTimeoutDuration]
                     ELSE context[r]]

\* DoSlotDlIndication: the preambles of the map, in its (unspecified) order,
\* get consecutive RNTIs; the scheduler finds resources for some of them.
DoSlotDlIndication ==
    LET new == (lastRnti + 1)..(lastRnti + Cardinality(Undisturbed))
    IN  /\ received # {}
        /\ \E keyOf \in Bijection(new, Undisturbed), granted \in SUBSET new :
            /\ AddUe(new)
            /\ SendRar(granted, keyOf, Inserted(keyOf))
            /\ sender' = [r \in Rntis |-> IF r \in new THEN Senders(keyOf[r]) ELSE sender[r]]
        /\ received' = {}
        /\ UNCHANGED <<now, prachConfig, phase, sent, attempts, ueRnti, onAir, msg3, failed>>

(***************************************************************************)
(* gNB RRC                                                                 *)
(***************************************************************************)
Msg3Lost(u) ==
    /\ u \in msg3
    /\ msg3' = msg3 \ {u}
    /\ UNCHANGED <<now, prachConfig, phase, sent, attempts, ueRnti, onAir, received, rapIdRntiMap,
                   lastRnti, context, rars, failed, sender>>

\* Mutant of Admitted: the request timer is not cancelled.
AdmittedKeepsTimer(old, admit) ==
    [old EXCEPT !.state = IF admit THEN "CONNECTION_SETUP" ELSE "CONNECTION_REJECTED"]

\* The context after RecvRrcConnectionRequest in INITIAL_RANDOM_ACCESS.  The
\* timer of CONNECTION_SETUP belongs to what follows and is left out.
Admitted(old, admit) ==
    IF admit
    THEN [state |-> "CONNECTION_SETUP", timer |-> -1]
    ELSE [state |-> "CONNECTION_REJECTED", timer |-> ConnectionRejectedTimeoutDuration]

\* Msg3 of a UE without context is dropped by DoReceivePhyPdu.
RecvRrcConnectionRequest(u) ==
    LET r == ueRnti[u]
    IN  /\ u \in msg3
        /\ msg3' = msg3 \ {u}
        /\ CASE context[r].state = "none" -> UNCHANGED <<context, failed>>
             [] context[r].state = "INITIAL_RANDOM_ACCESS" ->
                  /\ \E admit \in BOOLEAN :
                        context' = [context EXCEPT ![r] = Admitted(@, admit)]
                  /\ UNCHANGED failed
             [] OTHER -> failed' = "RecvRrcConnectionRequest" /\ UNCHANGED context
        /\ UNCHANGED <<now, prachConfig, phase, sent, attempts, ueRnti, onAir, received,
                       rapIdRntiMap, lastRnti, rars, sender>>

\* ConnectionRequestTimeout and ConnectionRejectedTimeout: RemoveUe.
ContextTimeout(r) ==
    /\ context[r].timer = 0
    /\ IF context[r].state = "CONNECTION_SETUP"
       THEN failed' = "ConnectionRequestTimeout" /\ UNCHANGED context
       ELSE context' = [context EXCEPT ![r] = NoContext] /\ UNCHANGED failed
    /\ UNCHANGED <<now, prachConfig, phase, sent, attempts, ueRnti, onAir, received, rapIdRntiMap,
                   lastRnti, rars, msg3, sender>>

(***************************************************************************)
(* Time                                                                    *)
(***************************************************************************)
\* ReceiveRachPreamble: the preambles of a subframe reach the gNB when it is
\* over.  The control channel loses nothing.
ReceiveRachPreamble == received' = received \cup onAir /\ onAir' = {}

\* One ms passes when nothing is overdue.
Tick ==
    /\ \A x \in received : sent[x.imsi].since <= MaxDlGap
    /\ ReceiveRachPreamble
    /\ \A m \in rars : m.age < MaxRarAge
    /\ \A u \in Ues : sent[u].since < RaWindowEnd
    /\ \A r \in Rntis : context[r].timer # 0
    /\ now' = (now + 1) % 10
    /\ sent' = [u \in Ues |-> IF phase[u] = "preambleSent"
                              THEN [sent[u] EXCEPT !.since = @ + 1] ELSE sent[u]]
    /\ rars' = {[m EXCEPT !.age = @ + 1] : m \in rars}
    /\ context' = [r \in Rntis |-> IF context[r].timer > 0
                                   THEN [context[r] EXCEPT !.timer = @ - 1] ELSE context[r]]
    /\ UNCHANGED <<prachConfig, phase, attempts, ueRnti, rapIdRntiMap, lastRnti, msg3,
                   failed, sender>>

Next ==
    /\ failed = "none"
    /\ \/ \E u \in Ues : \/ SendRaPreamble(u)
                         \/ RaResponseTimeout(u)
                         \/ RecvRrcConnectionRequest(u)
                         \/ Msg3Lost(u)
       \/ \E rar \in rars : DeliverRar(rar)
       \/ DoSlotDlIndication
       \/ \E r \in Rntis : ContextTimeout(r)
       \/ Tick

\* The simulator executes every event that is due: what delays Tick happens,
\* and time goes on.
Fairness ==
    /\ WF_vars(failed = "none" /\ Tick)
    /\ WF_vars(failed = "none" /\ DoSlotDlIndication)
    /\ WF_vars(failed = "none" /\ \E rar \in rars : DeliverRar(rar))
    /\ WF_vars(failed = "none" /\ \E u \in Ues : RaResponseTimeout(u))
    /\ WF_vars(failed = "none" /\ \E r \in Rntis : ContextTimeout(r))

Spec == Init /\ [][Next]_vars /\ Fairness

(***************************************************************************)
(* Properties                                                              *)
(***************************************************************************)
\* A UE only ever uses a temporary RNTI that was allocated for its own
\* preamble and for no other UE's: collision detection, the RA-RNTI and the
\* preamble identifier together single out the sender ("RAR is for me",
\* nr-ue-mac.cc), although there is no contention resolution afterwards.
RarIsForMe == \A u \in Ues : ueRnti[u] # 0 => sender[ueRnti[u]] = {u}

\* A RAR that has been received by the UEs has been taken by the UE whose
\* preamble it answers ("RAR is for my RO", nr-ue-mac.cc).
RarReachesItsSender ==
    [][\A m \in rars : (\A n \in rars' : n.rnti # m.rnti)
                          => \A u \in sender[m.rnti] : ueRnti'[u] = m.rnti]_vars

\* Msg3 and the timers of the gNB RRC never meet a context in a state they do
\* not expect (NS_FATAL_ERROR in RecvRrcConnectionRequest, NS_ASSERT_MSG in
\* ConnectionRequestTimeout).
NoUnexpectedRrcEvent == failed = "none"

\* A temporary context is not kept for ever, whatever is lost on the way: it
\* is removed or becomes a connection.
ContextsAreReclaimed ==
    \A r \in Rntis : context[r].state \in {"INITIAL_RANDOM_ACCESS", "CONNECTION_REJECTED"}
                        ~> context[r].state \in {"none", "CONNECTION_SETUP"}
=============================================================================
