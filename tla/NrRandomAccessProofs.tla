------------------------ MODULE NrRandomAccessProofs ------------------------
(***************************************************************************)
(* Contention-based random access, for every set of UEs, every set of      *)
(* preambles and all delays of the gNB.                                    *)
(*                                                                         *)
(* Why a RAR is for one UE only is a matter of time.  Preambles of the     *)
(* same subframe with the same key collide and are not answered.  A UE     *)
(* that used the same occasion and preamble in another frame is at least   *)
(* 10 ms older or younger, and the response window (11 ms) is so short     *)
(* that it has closed, or has not opened, when the RAR arrives.            *)
(***************************************************************************)
EXTENDS NrRandomAccess, FiniteSetTheorems, TLAPS

\* What the formulas of UE and gNB have to agree on: the gNB derives from an
\* occasion the RA-RNTI of the UE that used it, and no two occasions of a frame
\* share one.
PrachAgrees ==
    \A cfg \in PrachConfigs, sf \in 0..9 : sf \in Range(cfg.SfN) =>
        \A occ \in UeOccasions(cfg, Fdm, sf) :
            /\ occ \in 0..(OccasionWidth - 1)
            /\ UeRaRnti(cfg, sf, occ) \in RaRntis
            /\ GetRaRnti(cfg, occ) = UeRaRnti(cfg, sf, occ)
            /\ \A sf2 \in 0..9 : sf2 \in Range(cfg.SfN) =>
                  \A occ2 \in UeOccasions(cfg, Fdm, sf2) :
                      UeRaRnti(cfg, sf, occ) = UeRaRnti(cfg, sf2, occ2)
                          => sf = sf2 /\ occ = occ2

\* No m_rapIdRntiMap.insert of this step finds an entry: the uint8_t keys of the
\* RNTIs that wait for a RAR differ.
InsertsAreNew ==
    \A r \in (lastRnti + 1)..lastRnti' :
        /\ RapIdKey(r) \notin DOMAIN rapIdRntiMap
        /\ \A q \in (lastRnti + 1)..lastRnti' : RapIdKey(q) = RapIdKey(r) => q = r

-----------------------------------------------------------------------------
\* The subframe of k ms ago.
Ago(k) == (now - k) % 10

\* u has sent a preamble in occasion occ, sent[u].since ms ago.
Transmitted(u, occ) ==
    /\ phase[u] = "preambleSent"
    /\ Ago(sent[u].since) \in Range(prachConfig.SfN)
    /\ occ \in UeOccasions(prachConfig, Fdm, Ago(sent[u].since))
    /\ sent[u].raRnti = UeRaRnti(prachConfig, Ago(sent[u].since), occ)

\* The UEs whose last preamble the gNB MAC has not processed yet.
Unprocessed == {x.imsi : x \in onAir \cup received}

Types ==
    /\ now \in 0..9
    /\ prachConfig \in PrachConfigs
    /\ phase \in [Ues -> {"idle", "preambleSent", "msg3", "failed"}]
    /\ sent \in [Ues -> [preamble : Preambles \cup {0}, raRnti : RaRntis,
                         since : 0..RaWindowEnd]]
    /\ attempts \in [Ues -> 0..MaxPreambleTx]
    /\ ueRnti \in [Ues -> 0..lastRnti]
    /\ onAir \subseteq [occasion : 0..(OccasionWidth - 1), raId : Preambles, imsi : Ues]
    /\ received \subseteq [occasion : 0..(OccasionWidth - 1), raId : Preambles, imsi : Ues]
    /\ DOMAIN rapIdRntiMap \subseteq {RapIdKey(r) : r \in 1..lastRnti}
    /\ lastRnti \in 0..MaxRnti
    /\ context \in [Rntis -> [state : States, timer : UNION {-1..t : t \in Timers}]]
    /\ rars \subseteq [rnti : 1..lastRnti, age : 0..MaxRarAge, rapId : Preambles,
                       raRnti : RaRntis]
    /\ msg3 \subseteq Ues
    /\ sender \in [Rntis -> SUBSET Ues]

\* Where the preambles are, and since when.
PreamblesOnTheirWay ==
    /\ \A u \in Ues : phase[u] = "preambleSent" => /\ \E occ : Transmitted(u, occ)
                                                   /\ attempts[u] > 0
    /\ \A u \in Ues : phase[u] = "idle" => attempts[u] < MaxPreambleTx
    /\ \A x \in onAir \cup received :
          Transmitted(x.imsi, x.occasion) /\ sent[x.imsi].preamble = x.raId
    /\ \A x \in onAir : sent[x.imsi].since = 0
    /\ \A x \in received : sent[x.imsi].since \in 1..(1 + MaxDlGap)
    /\ \A u \in Ues : phase[u] = "preambleSent" /\ sent[u].since = 0 => u \in Unprocessed
    /\ \A u, v \in Ues :
          /\ phase[u] = "preambleSent" /\ phase[v] = "preambleSent"
          /\ sent[u].since = sent[v].since
          => (u \in Unprocessed <=> v \in Unprocessed)

\* v waits for the RAR m, and no other UE whose preamble is as old does.
WaitsFor(v, m) ==
    /\ sender[m.rnti] = {v}
    /\ phase[v] = "preambleSent"
    /\ sent[v].raRnti = m.raRnti /\ sent[v].preamble = m.rapId
    /\ sent[v].since \in (m.age + 1)..(m.age + 1 + MaxDlGap)
    /\ v \notin Unprocessed
    /\ \A u \in Ues :
          /\ u # v /\ phase[u] = "preambleSent"
          /\ sent[u].raRnti = m.raRnti /\ sent[u].preamble = m.rapId
          => sent[u].since # sent[v].since

RarsHaveSenders ==
    /\ \A m \in rars : \E v \in Ues : WaitsFor(v, m)
    /\ \A m, n \in rars : sender[m.rnti] = sender[n.rnti] => m = n
    /\ \A m \in rars : \A u \in Ues : ueRnti[u] # m.rnti

\* A context that Msg3 still finds, or will find, is new.
ContextsAreNew ==
    /\ \A m \in rars : context[m.rnti].state \in {"none", "INITIAL_RANDOM_ACCESS"}
    /\ \A u \in msg3 : /\ ueRnti[u] # 0
                       /\ context[ueRnti[u]].state \in {"none", "INITIAL_RANDOM_ACCESS"}
    /\ \A r \in Rntis : context[r].state = "CONNECTION_SETUP" => context[r].timer = -1
    /\ NoUnexpectedRrcEvent

\* f tells which preamble of which UE an RNTI answers; none is answered twice.
Answers(f) ==
    /\ f \in [1..lastRnti -> Ues \X (1..MaxPreambleTx)]
    /\ \A r, q \in 1..lastRnti : f[r] = f[q] => r = q
    /\ \A r \in 1..lastRnti : f[r][2] <= attempts[f[r][1]]
    /\ \A r \in 1..lastRnti : f[r][1] \in Unprocessed => f[r][2] < attempts[f[r][1]]

RaInv ==
    /\ Types
    /\ PreamblesOnTheirWay
    /\ RarsHaveSenders
    /\ RarIsForMe
    /\ ContextsAreNew
    /\ \E f : Answers(f)

-----------------------------------------------------------------------------
\* The bounds are numbers.
LEMMA RandomAccessConstants ==
    /\ MaxRnti \in Nat /\ RapIdKeys \in Nat \ {0}
    /\ MaxPreambleTx \in Nat \ {0} /\ MaxDlGap \in Nat /\ MaxRarAge \in Nat \ {0}
    /\ RaWindowBegin \in {1, 2} /\ RaWindowEnd \in 1..11
    /\ 1 + MaxDlGap + MaxRarAge < RaWindowEnd
    /\ ConnectionRequestTimeoutDuration \in Nat \ {0}
    /\ ConnectionRejectedTimeoutDuration \in Nat \ {0}
<1>1. Cardinality(Ues) \in Nat
    BY FS_CardinalityType, RandomAccessAssumption
<1>2. /\ RapIdKeys \in Nat \ {0} /\ MaxPreambleTx \in Nat \ {0}
      /\ RaWindowBegin \in Nat \ {0} /\ MaxRarAge \in Nat \ {0}
      /\ ConnectionRequestTimeoutDuration \in Nat \ {0}
      /\ ConnectionRejectedTimeoutDuration \in Nat \ {0}
    BY RandomAccessAssumption
<1>3. MaxRnti \in Nat
    BY <1>1, <1>2 DEF MaxRnti
<1>4. RaWindowBegin <= 2 /\ RaWindowEnd <= 11 /\ MaxDlGap \in Nat
      /\ 1 + MaxDlGap + MaxRarAge < RaWindowEnd
    BY RandomAccessAssumption
<1>5. RaWindowEnd \in Int
    BY RandomAccessAssumption
<1> QED BY <1>1, <1>2, <1>3, <1>4, <1>5

\* No preamble, no RA-RNTI.
LEMMA NoRaRnti == 0 \in RaRntis
BY DEF RaRntis

\* A preamble stays where it was sent while the clock goes on.
LEMMA AgoTick ==
    ASSUME NEW n \in 0..9, NEW k \in Nat
    PROVE  (((n + 1) % 10) - (k + 1)) % 10 = (n - k) % 10
OBVIOUS

\* Two preambles of the same subframe number, less than a frame apart, are equally
\* old.
LEMMA SameSubframe ==
    ASSUME NEW n \in 0..9, NEW j \in 1..11, NEW k \in 2..10, (n - j) % 10 = (n - k) % 10
    PROVE  j = k
OBVIOUS

\* A subframe number is one.
LEMMA AgoRange ==
    ASSUME NEW n \in 0..9, NEW k \in Nat
    PROVE  (n - k) % 10 \in 0..9 /\ (n - 0) % 10 = n
OBVIOUS

-----------------------------------------------------------------------------
\* What the state of the preambles depends on.
LEMMA PreamblesFrame ==
    ASSUME PreamblesOnTheirWay,
           UNCHANGED <<now, prachConfig, phase, sent, attempts, onAir, received>>
    PROVE  PreamblesOnTheirWay' /\ Unprocessed' = Unprocessed
BY DEF PreamblesOnTheirWay, Transmitted, Unprocessed, Ago

\* What the state of the RARs depends on.
LEMMA RarsFrame ==
    ASSUME RarsHaveSenders, UNCHANGED <<phase, sent, rars, sender, ueRnti>>,
           Unprocessed' = Unprocessed
    PROVE  RarsHaveSenders'
<1>1. ASSUME NEW m \in rars PROVE \E v \in Ues : WaitsFor(v, m)'
    <2>1. PICK v \in Ues : WaitsFor(v, m)
        BY DEF RarsHaveSenders
    <2>2. WaitsFor(v, m)'
        BY <2>1 DEF WaitsFor
    <2> QED BY <2>2
<1> QED BY <1>1 DEF RarsHaveSenders

\* What the answered preambles depend on.
LEMMA AnswersFrame ==
    ASSUME NEW f, Answers(f), UNCHANGED <<lastRnti, attempts>>, Unprocessed' = Unprocessed
    PROVE  Answers(f)'
BY DEF Answers

\* The gNB RRC: Msg3 arrives or is lost, or a timer of a context expires.
LEMMA RrcStep ==
    ASSUME RaInv,
           \/ \E u \in Ues : Msg3Lost(u) \/ RecvRrcConnectionRequest(u)
           \/ \E r \in Rntis : ContextTimeout(r)
    PROVE  RaInv'
<1>u. UNCHANGED <<now, prachConfig, phase, sent, attempts, ueRnti, onAir, received,
                  rapIdRntiMap, lastRnti, rars, sender>>
    BY DEF Msg3Lost, RecvRrcConnectionRequest, ContextTimeout
<1>i. /\ Types /\ PreamblesOnTheirWay /\ RarsHaveSenders /\ RarIsForMe /\ ContextsAreNew
      /\ \E f : Answers(f)
    BY DEF RaInv
<1>1. PreamblesOnTheirWay' /\ RarsHaveSenders' /\ RarIsForMe' /\ \E f : Answers(f)'
    <2>1. PreamblesOnTheirWay' /\ Unprocessed' = Unprocessed
        BY <1>u, <1>i, PreamblesFrame
    <2>2. RarsHaveSenders'
        BY <1>u, <1>i, <2>1, RarsFrame
    <2>3. \E f : Answers(f)'
        BY <1>u, <1>i, <2>1, AnswersFrame
    <2> QED BY <1>u, <1>i, <2>1, <2>2, <2>3 DEF RarIsForMe
<1>t. /\ context \in [Rntis -> [state : States, timer : UNION {-1..t : t \in Timers}]]
      /\ ueRnti \in [Ues -> 0..lastRnti] /\ lastRnti \in 0..MaxRnti /\ Rntis = 1..MaxRnti
      /\ rars \subseteq [rnti : 1..lastRnti, age : 0..MaxRarAge, rapId : Preambles,
                         raRnti : RaRntis]
      /\ msg3 \subseteq Ues
    BY <1>i DEF Types, Rntis
<1>c. /\ ConnectionRejectedTimeoutDuration \in UNION {-1..t : t \in Timers}
      /\ -1 \in UNION {-1..t : t \in Timers}
    BY RandomAccessConstants DEF Timers
<1>2. ASSUME NEW u \in Ues, Msg3Lost(u)
      PROVE  Types' /\ ContextsAreNew'
    BY <1>2, <1>i, <1>u DEF Msg3Lost, Types, ContextsAreNew, NoUnexpectedRrcEvent
<1>3. ASSUME NEW u \in Ues, RecvRrcConnectionRequest(u)
      PROVE  Types' /\ ContextsAreNew'
    <2> DEFINE r == ueRnti[u]
    <2>1. /\ u \in msg3 /\ r \in Rntis
          /\ context[r].state \in {"none", "INITIAL_RANDOM_ACCESS"}
        BY <1>3, <1>i, <1>t, RandomAccessConstants
           DEF RecvRrcConnectionRequest, ContextsAreNew
    <2>2. /\ msg3' = msg3 \ {u} /\ failed' = failed
          /\ \/ context' = context
             \/ \E admit \in BOOLEAN :
                    context' = [context EXCEPT ![r] = Admitted(@, admit)]
        BY <1>3, <2>1 DEF RecvRrcConnectionRequest
    <2>3. \A admit \in BOOLEAN :
              /\ Admitted(context[r], admit) \in [state : States,
                                                  timer : UNION {-1..t : t \in Timers}]
              /\ Admitted(context[r], admit).state = "CONNECTION_SETUP"
                     => Admitted(context[r], admit).timer = -1
        BY <1>c DEF Admitted, States
    <2>4. /\ context' \in [Rntis -> [state : States, timer : UNION {-1..t : t \in Timers}]]
          /\ \A q \in Rntis : q # r => context'[q] = context[q]
          /\ context[r].state = "CONNECTION_SETUP" => context[r].timer = -1
          /\ context'[r].state = "CONNECTION_SETUP" => context'[r].timer = -1
        <3> HIDE DEF r
        <3>1. context[r].state = "CONNECTION_SETUP" => context[r].timer = -1
            BY <2>1, <1>i DEF ContextsAreNew
        <3> QED BY <1>t, <2>1, <2>2, <2>3, <3>1
    <2>5. \A q \in Rntis : context'[q].state = "CONNECTION_SETUP" => context'[q].timer = -1
        BY <2>4, <1>i DEF ContextsAreNew
    <2>6. \A m \in rars : m.rnti \in Rntis /\ m.rnti # r
        BY <1>i, <1>t, RandomAccessConstants DEF RarsHaveSenders
    <2>7. \A w \in msg3 : ueRnti[w] # 0 /\ ueRnti[w] \in Rntis /\ (w # u => ueRnti[w] # r)
        <3> SUFFICES ASSUME NEW w \in msg3
                     PROVE  ueRnti[w] # 0 /\ ueRnti[w] \in Rntis /\ (w # u => ueRnti[w] # r)
            OBVIOUS
        <3>1. ueRnti[w] # 0 /\ ueRnti[w] \in 0..lastRnti /\ w \in Ues
            BY <1>i, <1>t DEF ContextsAreNew
        <3>2. ueRnti[w] \in Rntis
            BY <3>1, <1>t, RandomAccessConstants
        <3>3. sender[ueRnti[w]] = {w} /\ sender[ueRnti[u]] = {u}
            BY <3>1, <2>1, <1>i DEF RarIsForMe, ContextsAreNew
        <3> QED BY <3>1, <3>2, <3>3
    <2> HIDE DEF r
    <2>8. Types'
        BY <1>i, <1>u, <2>2, <2>4 DEF Types
    <2>9. ContextsAreNew'
        BY <1>i, <1>u, <2>2, <2>4, <2>5, <2>6, <2>7
           DEF ContextsAreNew, NoUnexpectedRrcEvent
    <2> QED BY <2>8, <2>9
<1>4. ASSUME NEW r \in Rntis, ContextTimeout(r)
      PROVE  Types' /\ ContextsAreNew'
    <2>1. context[r].timer = 0 /\ context[r].state # "CONNECTION_SETUP"
        BY <1>4, <1>i DEF ContextTimeout, ContextsAreNew
    <2>2. context' = [context EXCEPT ![r] = NoContext] /\ UNCHANGED <<failed, msg3>>
        BY <1>4, <2>1 DEF ContextTimeout
    <2>3. /\ NoContext \in [state : States, timer : UNION {-1..t : t \in Timers}]
          /\ NoContext.state = "none" /\ NoContext.timer = -1
        BY <1>c DEF NoContext, States
    <2>4. /\ context' \in [Rntis -> [state : States, timer : UNION {-1..t : t \in Timers}]]
          /\ \A q \in Rntis : q # r => context'[q] = context[q]
          /\ context'[r] = NoContext
        BY <1>t, <2>2, <2>3
    <2>5. /\ \A m \in rars : m.rnti \in Rntis
          /\ \A w \in msg3 : ueRnti[w] # 0 => ueRnti[w] \in Rntis
        BY <1>t, RandomAccessConstants
    <2>6. Types'
        BY <1>i, <1>u, <2>2, <2>4 DEF Types
    <2>7. ContextsAreNew'
        BY <1>i, <1>u, <2>2, <2>3, <2>4, <2>5 DEF ContextsAreNew, NoUnexpectedRrcEvent
    <2> QED BY <2>6, <2>7
<1> QED BY <1>1, <1>2, <1>3, <1>4 DEF RaInv

\* A UE sends a preamble: it is the youngest, and nobody has answered it.
LEMMA SendStep ==
    ASSUME PrachAgrees, RaInv, NEW u \in Ues, SendRaPreamble(u)
    PROVE  RaInv'
<1>i. /\ Types /\ PreamblesOnTheirWay /\ RarsHaveSenders /\ RarIsForMe /\ ContextsAreNew
      /\ \E f : Answers(f)
    BY DEF RaInv
<1>u. /\ UNCHANGED <<now, prachConfig, ueRnti, received, rapIdRntiMap, lastRnti, context,
                     rars, msg3, failed, sender>>
      /\ phase[u] = "idle" /\ now \in Range(prachConfig.SfN)
    BY DEF SendRaPreamble
<1>t. /\ now \in 0..9 /\ prachConfig \in PrachConfigs
      /\ phase \in [Ues -> {"idle", "preambleSent", "msg3", "failed"}]
      /\ sent \in [Ues -> [preamble : Preambles \cup {0}, raRnti : RaRntis,
                           since : 0..RaWindowEnd]]
      /\ attempts \in [Ues -> 0..MaxPreambleTx]
      /\ onAir \subseteq [occasion : 0..(OccasionWidth - 1), raId : Preambles, imsi : Ues]
      /\ received \subseteq [occasion : 0..(OccasionWidth - 1), raId : Preambles, imsi : Ues]
    BY <1>i DEF Types
<1>1. PICK occ \in UeOccasions(prachConfig, Fdm, now), p \in Preambles :
          /\ sent' = [sent EXCEPT ![u] = [preamble |-> p, since |-> 0,
                                          raRnti |-> UeRaRnti(prachConfig, now, occ)]]
          /\ onAir' = onAir \cup {[occasion |-> occ, raId |-> p, imsi |-> u]}
    BY DEF SendRaPreamble
<1>2. /\ phase' = [phase EXCEPT ![u] = "preambleSent"]
      /\ attempts' = [attempts EXCEPT ![u] = @ + 1]
    BY DEF SendRaPreamble
<1> DEFINE x0 == [occasion |-> occ, raId |-> p, imsi |-> u]
           rr == UeRaRnti(prachConfig, now, occ)
<1>3. /\ occ \in 0..(OccasionWidth - 1) /\ rr \in RaRntis
    BY <1>t, <1>u DEF PrachAgrees
<1>4. /\ phase'[u] = "preambleSent" /\ sent'[u].since = 0 /\ sent'[u].preamble = p
      /\ sent'[u].raRnti = rr /\ attempts'[u] = attempts[u] + 1
      /\ \A w \in Ues : w # u => /\ phase'[w] = phase[w] /\ sent'[w] = sent[w]
                                 /\ attempts'[w] = attempts[w]
    BY <1>t, <1>1, <1>2
<1>5. Unprocessed' = Unprocessed \cup {u} /\ u \notin Unprocessed
    <2>1. \A x \in onAir \cup received : x.imsi # u
        BY <1>i, <1>u DEF PreamblesOnTheirWay, Transmitted
    <2>2. x0.imsi = u
        OBVIOUS
    <2>3. onAir' \cup received' = (onAir \cup received) \cup {x0}
        BY <1>1, <1>u
    <2> HIDE DEF x0
    <2> QED BY <2>1, <2>2, <2>3 DEF Unprocessed
<1>6. attempts[u] < MaxPreambleTx /\ attempts[u] \in Nat
    BY <1>i, <1>u, <1>t DEF PreamblesOnTheirWay
<1>7. Transmitted(u, occ)'
    <2>1. (now - 0) % 10 = now
        BY <1>t, AgoRange
    <2>2. Ago(sent[u].since)' = now
        BY <2>1, <1>4, <1>u DEF Ago
    <2> HIDE DEF rr
    <2>3. rr = UeRaRnti(prachConfig, now, occ)
        BY DEF rr
    <2> QED BY <2>2, <2>3, <1>4, <1>u, <1>1 DEF Transmitted
<1>8. \A w \in Ues : \A o : w # u /\ Transmitted(w, o) => Transmitted(w, o)'
    BY <1>4, <1>u DEF Transmitted, Ago
<1> HIDE DEF rr
<1>9. Types'
    <2>1. sent' \in [Ues -> [preamble : Preambles \cup {0}, raRnti : RaRntis,
                             since : 0..RaWindowEnd]]
        <3>1. 0 \in 0..RaWindowEnd
            BY RandomAccessConstants
        <3>2. [preamble |-> p, since |-> 0, raRnti |-> rr]
                  \in [preamble : Preambles \cup {0}, raRnti : RaRntis,
                       since : 0..RaWindowEnd]
            BY <3>1, <1>3
        <3>3. sent' = [sent EXCEPT ![u] = [preamble |-> p, since |-> 0, raRnti |-> rr]]
            BY <1>1 DEF rr
        <3> QED BY <3>2, <3>3, <1>t
    <2>2. onAir' \subseteq [occasion : 0..(OccasionWidth - 1), raId : Preambles, imsi : Ues]
        BY <1>t, <1>1, <1>3
    <2>3. /\ phase' \in [Ues -> {"idle", "preambleSent", "msg3", "failed"}]
          /\ attempts' \in [Ues -> 0..MaxPreambleTx]
        BY <1>t, <1>2, <1>6, RandomAccessConstants
    <2> QED BY <1>i, <1>u, <2>1, <2>2, <2>3 DEF Types
<1>10. PreamblesOnTheirWay'
    <2>1. ASSUME NEW w \in Ues, phase'[w] = "preambleSent"
          PROVE  (\E o : Transmitted(w, o)') /\ attempts'[w] > 0
        BY <2>1, <1>4, <1>6, <1>7, <1>8, <1>i DEF PreamblesOnTheirWay
    <2>2. ASSUME NEW w \in Ues, phase'[w] = "idle"
          PROVE  attempts'[w] < MaxPreambleTx
        BY <2>2, <1>4, <1>i DEF PreamblesOnTheirWay
    <2>3. ASSUME NEW x \in onAir' \cup received'
          PROVE  Transmitted(x.imsi, x.occasion)' /\ sent'[x.imsi].preamble = x.raId
        <3>1. CASE x = x0
            BY <3>1, <1>4, <1>7
        <3>2. CASE x \in onAir \cup received
            <4>1. x.imsi \in Ues /\ x.imsi # u
                BY <3>2, <1>t, <1>5 DEF Unprocessed
            <4> QED BY <3>2, <4>1, <1>4, <1>8, <1>i DEF PreamblesOnTheirWay
        <3> QED BY <2>3, <3>1, <3>2, <1>1, <1>u
    <2>4. ASSUME NEW x \in onAir' PROVE sent'[x.imsi].since = 0
        <3>1. CASE x = x0
            BY <3>1, <1>4
        <3>2. CASE x \in onAir
            <4>1. x.imsi \in Ues /\ x.imsi # u
                BY <3>2, <1>t, <1>5 DEF Unprocessed
            <4> QED BY <3>2, <4>1, <1>4, <1>i DEF PreamblesOnTheirWay
        <3> QED BY <2>4, <3>1, <3>2, <1>1
    <2>5. ASSUME NEW x \in received' PROVE sent'[x.imsi].since \in 1..(1 + MaxDlGap)
        <3>1. x \in received /\ x.imsi \in Ues /\ x.imsi # u
            BY <2>5, <1>t, <1>u, <1>5 DEF Unprocessed
        <3> QED BY <3>1, <1>4, <1>i DEF PreamblesOnTheirWay
    <2>6. ASSUME NEW w \in Ues, phase'[w] = "preambleSent", sent'[w].since = 0
          PROVE  w \in Unprocessed'
        BY <2>6, <1>4, <1>5, <1>i DEF PreamblesOnTheirWay
    <2>7. ASSUME NEW w \in Ues, NEW v \in Ues, phase'[w] = "preambleSent",
                 phase'[v] = "preambleSent", sent'[w].since = sent'[v].since
          PROVE  w \in Unprocessed' <=> v \in Unprocessed'
        BY <2>6, <2>7, <1>4, <1>5, <1>i DEF PreamblesOnTheirWay
    <2> QED BY <2>1, <2>2, <2>3, <2>4, <2>5, <2>6, <2>7 DEF PreamblesOnTheirWay
<1>11. RarsHaveSenders'
    <2>1. ASSUME NEW m \in rars PROVE \E v \in Ues : WaitsFor(v, m)'
        <3>1. PICK v \in Ues : WaitsFor(v, m)
            BY <1>i DEF RarsHaveSenders
        <3>2. v # u /\ m.age \in Nat
            <4>1. m.age \in 0..MaxRarAge
                BY <1>i DEF Types
            <4> QED BY <3>1, <4>1, <1>u, RandomAccessConstants DEF WaitsFor
        <3>3. sent[v].since # 0
            BY <3>1, <3>2, RandomAccessConstants DEF WaitsFor
        <3>4. WaitsFor(v, m)'
            BY <3>1, <3>2, <3>3, <1>4, <1>5, <1>u DEF WaitsFor
        <3> QED BY <3>4
    <2> QED BY <2>1, <1>u, <1>i DEF RarsHaveSenders
<1>12. RarIsForMe' /\ ContextsAreNew'
    BY <1>u, <1>i DEF RarIsForMe, ContextsAreNew, NoUnexpectedRrcEvent
<1>13. \E f : Answers(f)'
    <2>1. PICK f : Answers(f)
        BY <1>i
    <2>2. \A r \in 1..lastRnti : f[r][1] \in Ues /\ f[r][2] \in Nat
        BY <2>1, RandomAccessConstants DEF Answers
    <2>3. \A w \in Ues : attempts[w] \in Nat /\ attempts'[w] \in Nat
        <3> SUFFICES ASSUME NEW w \in Ues PROVE attempts[w] \in Nat /\ attempts'[w] \in Nat
            OBVIOUS
        <3>1. attempts[w] \in 0..MaxPreambleTx
            BY <1>t
        <3>2. attempts'[w] \in {attempts[w], attempts[w] + 1}
            BY <1>4
        <3> QED BY <3>1, <3>2, RandomAccessConstants
    <2>4. \A r \in 1..lastRnti :
              /\ f[r][2] <= attempts'[f[r][1]]
              /\ f[r][1] \in Unprocessed' => f[r][2] < attempts'[f[r][1]]
        <3> SUFFICES ASSUME NEW r \in 1..lastRnti
                     PROVE  /\ f[r][2] <= attempts'[f[r][1]]
                            /\ f[r][1] \in Unprocessed' => f[r][2] < attempts'[f[r][1]]
            OBVIOUS
        <3>1. f[r][2] <= attempts[f[r][1]]
            BY <2>1 DEF Answers
        <3>2. CASE f[r][1] = u
            BY <3>1, <3>2, <2>2, <2>3, <1>4
        <3>3. CASE f[r][1] # u
            BY <3>1, <3>3, <2>1, <2>2, <1>4, <1>5 DEF Answers
        <3> QED BY <3>2, <3>3
    <2>5. Answers(f)'
        BY <2>1, <2>4, <1>u DEF Answers
    <2> QED BY <2>5
<1> QED BY <1>9, <1>10, <1>11, <1>12, <1>13 DEF RaInv

-----------------------------------------------------------------------------
\* UEs end their attempt, after the gNB MAC processed their preambles.
LEMMA LeaveStep ==
    ASSUME Types, PreamblesOnTheirWay, NEW L \in SUBSET Ues, L \cap Unprocessed = {},
           UNCHANGED <<now, prachConfig, attempts, onAir, received, sender>>,
           \A w \in Ues \ L : phase'[w] = phase[w] /\ sent'[w] = sent[w],
           \A w \in L : /\ phase'[w] # "preambleSent"
                        /\ phase'[w] = "idle" => attempts[w] < MaxPreambleTx
    PROVE  /\ PreamblesOnTheirWay'
           /\ Unprocessed' = Unprocessed
           /\ \A m \in rars, v \in Ues \ L : WaitsFor(v, m) => WaitsFor(v, m)'
<1>1. Unprocessed' = Unprocessed
    BY DEF Unprocessed
<1>2. \A w \in Ues \ L : \A o : Transmitted(w, o) => Transmitted(w, o)'
    BY DEF Transmitted, Ago
<1>3. \A w \in Ues : phase'[w] = "preambleSent" => w \in Ues \ L
    OBVIOUS
<1>4. \A x \in onAir \cup received : x.imsi \in Ues \ L
    <2>1. \A x \in onAir \cup received : x.imsi \in Ues
        BY DEF Types
    <2>2. \A x \in onAir \cup received : x.imsi \in Unprocessed
        BY DEF Unprocessed
    <2> QED BY <2>1, <2>2
<1>5. /\ \A w \in Ues : phase'[w] = "preambleSent" => /\ \E o : Transmitted(w, o)'
                                                      /\ attempts'[w] > 0
      /\ \A w \in Ues : phase'[w] = "idle" => attempts'[w] < MaxPreambleTx
    BY <1>2, <1>3 DEF PreamblesOnTheirWay
<1>6. /\ \A x \in onAir' \cup received' :
            Transmitted(x.imsi, x.occasion)' /\ sent'[x.imsi].preamble = x.raId
      /\ \A x \in onAir' : sent'[x.imsi].since = 0
      /\ \A x \in received' : sent'[x.imsi].since \in 1..(1 + MaxDlGap)
    BY <1>2, <1>4 DEF PreamblesOnTheirWay
<1>7. /\ \A w \in Ues : phase'[w] = "preambleSent" /\ sent'[w].since = 0 => w \in Unprocessed'
      /\ \A w, v \in Ues :
            /\ phase'[w] = "preambleSent" /\ phase'[v] = "preambleSent"
            /\ sent'[w].since = sent'[v].since
            => (w \in Unprocessed' <=> v \in Unprocessed')
    BY <1>1, <1>3 DEF PreamblesOnTheirWay
<1>8. PreamblesOnTheirWay'
    BY <1>5, <1>6, <1>7 DEF PreamblesOnTheirWay
<1>9. \A m \in rars, v \in Ues \ L : WaitsFor(v, m) => WaitsFor(v, m)'
    BY <1>1, <1>3 DEF WaitsFor
<1> QED BY <1>1, <1>8, <1>9

\* The response timeout: nobody's RAR is still on its way then.
LEMMA TimeoutStep ==
    ASSUME RaInv, NEW u \in Ues, RaResponseTimeout(u)
    PROVE  RaInv'
<1>i. /\ Types /\ PreamblesOnTheirWay /\ RarsHaveSenders /\ RarIsForMe /\ ContextsAreNew
      /\ \E f : Answers(f)
    BY DEF RaInv
<1>u. /\ UNCHANGED <<now, prachConfig, attempts, ueRnti, onAir, received, rapIdRntiMap,
                     lastRnti, context, rars, msg3, failed, sender>>
      /\ sent[u].since = RaWindowEnd
      /\ phase' = [phase EXCEPT ![u] = IF attempts[u] < MaxPreambleTx THEN "idle"
                                                                      ELSE "failed"]
      /\ sent' = [sent EXCEPT ![u] = Nothing]
    BY DEF RaResponseTimeout
<1>t. /\ phase \in [Ues -> {"idle", "preambleSent", "msg3", "failed"}]
      /\ sent \in [Ues -> [preamble : Preambles \cup {0}, raRnti : RaRntis,
                           since : 0..RaWindowEnd]]
    BY <1>i DEF Types
<1>1. {u} \cap Unprocessed = {}
    <2>1. \A x \in onAir \cup received : sent[x.imsi].since # RaWindowEnd
        BY <1>i, RandomAccessConstants DEF PreamblesOnTheirWay
    <2> QED BY <2>1, <1>u DEF Unprocessed
<1>2. /\ \A w \in Ues \ {u} : phase'[w] = phase[w] /\ sent'[w] = sent[w]
      /\ phase'[u] # "preambleSent"
      /\ phase'[u] = "idle" => attempts[u] < MaxPreambleTx
    BY <1>u, <1>t
<1>3. /\ PreamblesOnTheirWay'
      /\ Unprocessed' = Unprocessed
      /\ \A m \in rars, v \in Ues \ {u} : WaitsFor(v, m) => WaitsFor(v, m)'
    BY <1>i, <1>u, <1>1, <1>2, LeaveStep
<1>4. RarsHaveSenders'
    <2>1. ASSUME NEW m \in rars PROVE \E v \in Ues : WaitsFor(v, m)'
        <3>1. PICK v \in Ues : WaitsFor(v, m)
            BY <1>i DEF RarsHaveSenders
        <3>2. m.age \in 0..MaxRarAge
            BY <1>i DEF Types
        <3>3. v # u
            BY <3>1, <3>2, <1>u, RandomAccessConstants DEF WaitsFor
        <3> QED BY <3>1, <3>3, <1>3
    <2> QED BY <2>1, <1>u, <1>i DEF RarsHaveSenders
<1>5. Types'
    <2>1. Nothing \in [preamble : Preambles \cup {0}, raRnti : RaRntis,
                       since : 0..RaWindowEnd]
        BY RandomAccessConstants, NoRaRnti DEF Nothing
    <2>2. /\ phase' \in [Ues -> {"idle", "preambleSent", "msg3", "failed"}]
          /\ sent' \in [Ues -> [preamble : Preambles \cup {0}, raRnti : RaRntis,
                                since : 0..RaWindowEnd]]
        BY <2>1, <1>t, <1>u
    <2> QED BY <2>2, <1>i, <1>u DEF Types
<1>6. RarIsForMe' /\ ContextsAreNew' /\ \E f : Answers(f)'
    BY <1>u, <1>i, <1>3, AnswersFrame DEF RarIsForMe, ContextsAreNew, NoUnexpectedRrcEvent
<1> QED BY <1>3, <1>4, <1>5, <1>6 DEF RaInv

\* An RA-RNTI tells the subframe and the occasion of the preamble.
LEMMA RaRntiTellsOccasion ==
    ASSUME PrachAgrees, now \in 0..9, prachConfig \in PrachConfigs,
           NEW u, NEW v, NEW o1, NEW o2, Transmitted(u, o1), Transmitted(v, o2),
           sent[u].since \in Nat, sent[v].since \in Nat, sent[u].raRnti = sent[v].raRnti
    PROVE  Ago(sent[u].since) = Ago(sent[v].since) /\ o1 = o2
<1> DEFINE a == Ago(sent[u].since)
           b == Ago(sent[v].since)
<1>1. a \in 0..9 /\ b \in 0..9
    BY AgoRange DEF Ago
<1>2. /\ a \in Range(prachConfig.SfN) /\ b \in Range(prachConfig.SfN)
      /\ o1 \in UeOccasions(prachConfig, Fdm, a) /\ o2 \in UeOccasions(prachConfig, Fdm, b)
      /\ UeRaRnti(prachConfig, a, o1) = UeRaRnti(prachConfig, b, o2)
    BY DEF Transmitted
<1> HIDE DEF a, b
<1>3. a = b /\ o1 = o2
    <2>1. \A sf2 \in 0..9 : sf2 \in Range(prachConfig.SfN) =>
              \A occ2 \in UeOccasions(prachConfig, Fdm, sf2) :
                  UeRaRnti(prachConfig, a, o1) = UeRaRnti(prachConfig, sf2, occ2)
                      => a = sf2 /\ o1 = occ2
        BY <1>1, <1>2 DEF PrachAgrees
    <2> QED BY <1>1, <1>2, <2>1
<1> QED BY <1>3 DEF a, b

\* Who accepts a RAR: its sender, and nobody else.
LEMMA OnlySenderAccepts ==
    ASSUME PrachAgrees, RaInv, NEW m \in rars, m.age >= 1
    PROVE  \E v \in Ues : WaitsFor(v, m) /\ {u \in Ues : AcceptsRar(u, m)} = {v}
<1>i. Types /\ PreamblesOnTheirWay /\ RarsHaveSenders
    BY DEF RaInv
<1>t. /\ now \in 0..9 /\ prachConfig \in PrachConfigs
      /\ \A u \in Ues : sent[u].since \in 0..RaWindowEnd
      /\ m.age \in 0..MaxRarAge
    BY <1>i DEF Types
<1>1. PICK v \in Ues : WaitsFor(v, m)
    BY <1>i DEF RarsHaveSenders
<1>2. sent[v].since \in 2..10 /\ sent[v].since >= RaWindowBegin
    BY <1>1, <1>t, RandomAccessConstants DEF WaitsFor
<1>3. AcceptsRar(v, m)
    BY <1>1, <1>2 DEF AcceptsRar, WaitsFor
<1>4. ASSUME NEW u \in Ues, AcceptsRar(u, m) PROVE u = v
    <2> SUFFICES ASSUME u # v PROVE FALSE
        OBVIOUS
    <2>1. /\ phase[u] = "preambleSent" /\ phase[v] = "preambleSent"
          /\ sent[u].raRnti = sent[v].raRnti
          /\ sent[u].since \in 1..11
        BY <1>1, <1>4, <1>t, RandomAccessConstants DEF AcceptsRar, WaitsFor
    <2>2. PICK o1, o2 : Transmitted(u, o1) /\ Transmitted(v, o2)
        BY <1>i, <2>1 DEF PreamblesOnTheirWay
    <2>3. sent[u].since \in Nat /\ sent[v].since \in Nat
        BY <1>2, <2>1
    <2>4. Ago(sent[u].since) = Ago(sent[v].since)
        BY <2>1, <2>2, <2>3, <1>t, RaRntiTellsOccasion
    <2>5. sent[u].since = sent[v].since
        BY <2>1, <2>4, <1>2, <1>t, SameSubframe DEF Ago
    <2> QED BY <1>1, <1>4, <2>1, <2>5 DEF WaitsFor, AcceptsRar
<1> QED BY <1>1, <1>3, <1>4

\* A RAR reaches the UEs, and the one whose preamble it answers takes the RNTI.
LEMMA DeliverStep ==
    ASSUME PrachAgrees, RaInv, NEW m \in rars, DeliverRar(m)
    PROVE  RaInv' /\ \A u \in sender[m.rnti] : ueRnti'[u] = m.rnti
<1>i. /\ Types /\ PreamblesOnTheirWay /\ RarsHaveSenders /\ RarIsForMe /\ ContextsAreNew
      /\ \E f : Answers(f)
    BY DEF RaInv
<1>1. m.age >= 1
    BY DEF DeliverRar
<1>2. PICK v \in Ues : WaitsFor(v, m) /\ {u \in Ues : AcceptsRar(u, m)} = {v}
    BY <1>1, OnlySenderAccepts
<1>u. /\ UNCHANGED <<now, prachConfig, attempts, onAir, received, rapIdRntiMap, lastRnti,
                     context, failed, sender>>
      /\ rars' = rars \ {m}
      /\ msg3' = msg3 \cup {v}
      /\ phase' = [u \in Ues |-> IF u \in {v} THEN "msg3" ELSE phase[u]]
      /\ ueRnti' = [u \in Ues |-> IF u \in {v} THEN m.rnti ELSE ueRnti[u]]
      /\ sent' = [u \in Ues |-> IF u \in {v} THEN Nothing ELSE sent[u]]
    BY <1>2 DEF DeliverRar
<1>t. /\ phase \in [Ues -> {"idle", "preambleSent", "msg3", "failed"}]
      /\ sent \in [Ues -> [preamble : Preambles \cup {0}, raRnti : RaRntis,
                           since : 0..RaWindowEnd]]
      /\ ueRnti \in [Ues -> 0..lastRnti] /\ lastRnti \in 0..MaxRnti
      /\ m.rnti \in 1..lastRnti
    BY <1>i DEF Types
<1>3. /\ \A w \in Ues \ {v} : phase'[w] = phase[w] /\ sent'[w] = sent[w]
                              /\ ueRnti'[w] = ueRnti[w]
      /\ phase'[v] = "msg3" /\ ueRnti'[v] = m.rnti
    BY <1>u
<1>4. {v} \cap Unprocessed = {}
    BY <1>2 DEF WaitsFor
<1>5. /\ PreamblesOnTheirWay'
      /\ Unprocessed' = Unprocessed
      /\ \A n \in rars, w \in Ues \ {v} : WaitsFor(w, n) => WaitsFor(w, n)'
    BY <1>i, <1>u, <1>3, <1>4, LeaveStep
<1>6. \A n \in rars : n # m => n.rnti # m.rnti /\ sender[n.rnti] # {v}
    <2> SUFFICES ASSUME NEW n \in rars, n # m
                 PROVE  n.rnti # m.rnti /\ sender[n.rnti] # {v}
        OBVIOUS
    <2>1. sender[m.rnti] = {v}
        BY <1>2 DEF WaitsFor
    <2>2. sender[n.rnti] # sender[m.rnti]
        BY <1>i DEF RarsHaveSenders
    <2> QED BY <2>1, <2>2
<1>7. RarsHaveSenders'
    <2>1. ASSUME NEW n \in rars, n # m PROVE \E w \in Ues : WaitsFor(w, n)'
        <3>1. PICK w \in Ues : WaitsFor(w, n)
            BY <1>i DEF RarsHaveSenders
        <3>2. w # v
            BY <2>1, <3>1, <1>6 DEF WaitsFor
        <3> QED BY <3>1, <3>2, <1>5
    <2>2. ASSUME NEW n \in rars, n # m, NEW u \in Ues PROVE ueRnti'[u] # n.rnti
        BY <2>2, <1>3, <1>6, <1>i DEF RarsHaveSenders
    <2> QED BY <2>1, <2>2, <1>u, <1>i DEF RarsHaveSenders
<1>8. RarIsForMe' /\ \A u \in sender[m.rnti] : ueRnti'[u] = m.rnti
    BY <1>2, <1>3, <1>u, <1>i DEF RarIsForMe, WaitsFor
<1>9. ContextsAreNew'
    <2>1. m.rnti # 0 /\ context[m.rnti].state \in {"none", "INITIAL_RANDOM_ACCESS"}
        BY <1>t, <1>i DEF ContextsAreNew
    <2>2. \A u \in msg3 : u \in Ues
        BY <1>i DEF Types
    <2>3. \A u \in msg3' : /\ ueRnti'[u] # 0
                           /\ context[ueRnti'[u]].state \in {"none", "INITIAL_RANDOM_ACCESS"}
        BY <2>1, <2>2, <1>3, <1>u, <1>i DEF ContextsAreNew
    <2> QED BY <2>3, <1>u, <1>i DEF ContextsAreNew, NoUnexpectedRrcEvent
<1>10. Types'
    <2>1. Nothing \in [preamble : Preambles \cup {0}, raRnti : RaRntis,
                       since : 0..RaWindowEnd]
        BY RandomAccessConstants, NoRaRnti DEF Nothing
    <2>2. /\ phase' \in [Ues -> {"idle", "preambleSent", "msg3", "failed"}]
          /\ sent' \in [Ues -> [preamble : Preambles \cup {0}, raRnti : RaRntis,
                                since : 0..RaWindowEnd]]
          /\ ueRnti' \in [Ues -> 0..lastRnti]
        <3>1. m.rnti \in 0..lastRnti
            BY <1>t, RandomAccessConstants
        <3> QED BY <2>1, <3>1, <1>t, <1>u
    <2> QED BY <2>2, <1>i, <1>u DEF Types
<1>11. \E f : Answers(f)'
    BY <1>u, <1>i, <1>5, AnswersFrame
<1> QED BY <1>5, <1>7, <1>8, <1>9, <1>10, <1>11 DEF RaInv

\* A millisecond passes: everything that waits gets older, together.
LEMMA TickStep ==
    ASSUME RaInv, Tick
    PROVE  RaInv' /\ \A m \in rars : \E n \in rars' : n.rnti = m.rnti
<1>i. /\ Types /\ PreamblesOnTheirWay /\ RarsHaveSenders /\ RarIsForMe /\ ContextsAreNew
      /\ \E f : Answers(f)
    BY DEF RaInv
<1>u. /\ UNCHANGED <<prachConfig, phase, attempts, ueRnti, rapIdRntiMap, lastRnti, msg3,
                     failed, sender>>
      /\ now' = (now + 1) % 10
      /\ received' = received \cup onAir /\ onAir' = {}
      /\ sent' = [u \in Ues |-> IF phase[u] = "preambleSent"
                                THEN [sent[u] EXCEPT !.since = @ + 1] ELSE sent[u]]
      /\ rars' = {[m EXCEPT !.age = @ + 1] : m \in rars}
      /\ context' = [r \in Rntis |-> IF context[r].timer > 0
                                     THEN [context[r] EXCEPT !.timer = @ - 1]
                                     ELSE context[r]]
    BY DEF Tick, ReceiveRachPreamble
<1>g. /\ \A x \in received : sent[x.imsi].since <= MaxDlGap
      /\ \A m \in rars : m.age < MaxRarAge
      /\ \A u \in Ues : sent[u].since < RaWindowEnd
    BY DEF Tick
<1>t. /\ now \in 0..9
      /\ sent \in [Ues -> [preamble : Preambles \cup {0}, raRnti : RaRntis,
                           since : 0..RaWindowEnd]]
      /\ context \in [Rntis -> [state : States, timer : UNION {-1..t : t \in Timers}]]
      /\ rars \subseteq [rnti : 1..lastRnti, age : 0..MaxRarAge, rapId : Preambles,
                         raRnti : RaRntis]
    BY <1>i DEF Types
<1>1. Unprocessed' = Unprocessed
    BY <1>u DEF Unprocessed
<1>2. \A u \in Ues : /\ sent[u].since \in Nat
                     /\ sent'[u].preamble = sent[u].preamble
                     /\ sent'[u].raRnti = sent[u].raRnti
                     /\ phase[u] = "preambleSent" => sent'[u].since = sent[u].since + 1
    <2> SUFFICES ASSUME NEW u \in Ues
                 PROVE  /\ sent[u].since \in Nat
                        /\ sent'[u].preamble = sent[u].preamble
                        /\ sent'[u].raRnti = sent[u].raRnti
                        /\ phase[u] = "preambleSent" => sent'[u].since = sent[u].since + 1
        OBVIOUS
    <2>1. sent[u] \in [preamble : Preambles \cup {0}, raRnti : RaRntis,
                       since : 0..RaWindowEnd]
        BY <1>t
    <2>2. sent'[u] = IF phase[u] = "preambleSent" THEN [sent[u] EXCEPT !.since = @ + 1]
                                                  ELSE sent[u]
        BY <1>u
    <2>3. sent[u].since \in Nat
        BY <2>1, RandomAccessConstants
    <2> QED BY <2>1, <2>2, <2>3
<1>3. \A u \in Ues : \A o : Transmitted(u, o) => Transmitted(u, o)'
    <2> SUFFICES ASSUME NEW u \in Ues, NEW o, Transmitted(u, o) PROVE Transmitted(u, o)'
        OBVIOUS
    <2>1. Ago(sent[u].since)' = Ago(sent[u].since)
        BY <1>t, <1>u, <1>2, AgoTick DEF Ago, Transmitted
    <2> QED BY <2>1, <1>2, <1>u DEF Transmitted
<1>4. \A x \in onAir \cup received : x.imsi \in Ues
    BY <1>i DEF Types
<1>5. PreamblesOnTheirWay'
    <2>1. /\ \A u \in Ues : phase'[u] = "preambleSent" => /\ \E o : Transmitted(u, o)'
                                                          /\ attempts'[u] > 0
          /\ \A u \in Ues : phase'[u] = "idle" => attempts'[u] < MaxPreambleTx
        BY <1>3, <1>u, <1>i DEF PreamblesOnTheirWay
    <2>2. \A x \in onAir' \cup received' :
              Transmitted(x.imsi, x.occasion)' /\ sent'[x.imsi].preamble = x.raId
        BY <1>2, <1>3, <1>4, <1>u, <1>i DEF PreamblesOnTheirWay
    <2>3. ASSUME NEW x \in received' PROVE sent'[x.imsi].since \in 1..(1 + MaxDlGap)
        <3>1. /\ sent'[x.imsi].since = sent[x.imsi].since + 1
              /\ sent[x.imsi].since \in Nat
            BY <1>2, <1>4, <1>u, <1>i DEF PreamblesOnTheirWay, Transmitted
        <3>2. sent[x.imsi].since <= MaxDlGap
            BY <1>g, <1>u, <1>i, RandomAccessConstants DEF PreamblesOnTheirWay
        <3> QED BY <3>1, <3>2, RandomAccessConstants
    <2>4. \A u \in Ues : phase'[u] = "preambleSent" => sent'[u].since # 0
        BY <1>2, <1>u
    <2>5. \A u, v \in Ues :
              /\ phase'[u] = "preambleSent" /\ phase'[v] = "preambleSent"
              /\ sent'[u].since = sent'[v].since
              => (u \in Unprocessed' <=> v \in Unprocessed')
        <3> SUFFICES ASSUME NEW u \in Ues, NEW v \in Ues, phase[u] = "preambleSent",
                            phase[v] = "preambleSent", sent'[u].since = sent'[v].since
                     PROVE  u \in Unprocessed <=> v \in Unprocessed
            BY <1>1, <1>u
        <3>1. sent[u].since = sent[v].since
            BY <1>2
        <3> QED BY <3>1, <1>i DEF PreamblesOnTheirWay
    <2> QED BY <2>1, <2>2, <2>3, <2>4, <2>5, <1>u DEF PreamblesOnTheirWay
<1>6. ASSUME NEW n \in rars'
      PROVE  /\ n \in [rnti : 1..lastRnti, age : 0..MaxRarAge, rapId : Preambles,
                       raRnti : RaRntis]
             /\ \E m \in rars : /\ n = [m EXCEPT !.age = @ + 1]
                                /\ n.rnti = m.rnti /\ n.raRnti = m.raRnti
                                /\ n.rapId = m.rapId /\ n.age = m.age + 1
    <2>1. PICK m \in rars : n = [m EXCEPT !.age = @ + 1]
        BY <1>u
    <2>2. m \in [rnti : 1..lastRnti, age : 0..MaxRarAge, rapId : Preambles,
                 raRnti : RaRntis]
        BY <1>t
    <2>3. m.age + 1 \in 0..MaxRarAge
        BY <2>2, <1>g, RandomAccessConstants
    <2> QED BY <2>1, <2>2, <2>3
<1>7. \A m \in rars : \E n \in rars' : n.rnti = m.rnti
    <2> SUFFICES ASSUME NEW m \in rars PROVE [m EXCEPT !.age = @ + 1].rnti = m.rnti
        BY <1>u
    <2>1. m \in [rnti : 1..lastRnti, age : 0..MaxRarAge, rapId : Preambles,
                 raRnti : RaRntis]
        BY <1>t
    <2> QED BY <2>1
<1>8. RarsHaveSenders'
    <2>1. ASSUME NEW n \in rars' PROVE \E v \in Ues : WaitsFor(v, n)'
        <3>1. PICK m \in rars : /\ n.rnti = m.rnti /\ n.raRnti = m.raRnti
                                /\ n.rapId = m.rapId /\ n.age = m.age + 1
            BY <1>6
        <3>2. PICK v \in Ues : WaitsFor(v, m)
            BY <1>i DEF RarsHaveSenders
        <3>3. m.age \in Nat
            BY <1>t, RandomAccessConstants
        <3>4. sent'[v].since \in (n.age + 1)..(n.age + 1 + MaxDlGap)
            <4>1. sent[v].since \in (m.age + 1)..(m.age + 1 + MaxDlGap)
                BY <3>2 DEF WaitsFor
            <4>2. sent'[v].since = sent[v].since + 1
                BY <3>2, <1>2 DEF WaitsFor
            <4> QED BY <4>1, <4>2, <3>1, <3>3, RandomAccessConstants
        <3>5. \A u \in Ues :
                  /\ u # v /\ phase'[u] = "preambleSent"
                  /\ sent'[u].raRnti = n.raRnti /\ sent'[u].preamble = n.rapId
                  => sent'[u].since # sent'[v].since
            <4> SUFFICES ASSUME NEW u \in Ues, u # v, phase[u] = "preambleSent",
                                sent'[u].raRnti = n.raRnti, sent'[u].preamble = n.rapId
                         PROVE  sent'[u].since # sent'[v].since
                BY <1>u
            <4>1. sent[u].since # sent[v].since
                BY <3>1, <3>2, <1>2 DEF WaitsFor
            <4> QED BY <4>1, <1>2, <3>2 DEF WaitsFor
        <3>6. WaitsFor(v, n)'
            BY <3>1, <3>2, <3>4, <3>5, <1>1, <1>2, <1>u DEF WaitsFor
        <3> QED BY <3>6
    <2>2. ASSUME NEW n1 \in rars', NEW n2 \in rars', sender[n1.rnti] = sender[n2.rnti]
          PROVE  n1 = n2
        <3>1. PICK m1 \in rars : n1 = [m1 EXCEPT !.age = @ + 1] /\ n1.rnti = m1.rnti
            BY <1>6
        <3>2. PICK m2 \in rars : n2 = [m2 EXCEPT !.age = @ + 1] /\ n2.rnti = m2.rnti
            BY <1>6
        <3>3. m1 = m2
            BY <2>2, <3>1, <3>2, <1>i DEF RarsHaveSenders
        <3> QED BY <3>1, <3>2, <3>3
    <2>3. ASSUME NEW n \in rars', NEW u \in Ues PROVE ueRnti[u] # n.rnti
        BY <1>6, <1>i DEF RarsHaveSenders
    <2> QED BY <2>1, <2>2, <2>3, <1>u DEF RarsHaveSenders
<1>9. /\ \A r \in Rntis : /\ context'[r].state = context[r].state
                          /\ context[r].timer = -1 => context'[r].timer = -1
      /\ context' \in [Rntis -> [state : States, timer : UNION {-1..t : t \in Timers}]]
    <2> SUFFICES ASSUME NEW r \in Rntis
                 PROVE  /\ context'[r].state = context[r].state
                        /\ context[r].timer = -1 => context'[r].timer = -1
                        /\ context'[r] \in [state : States, timer : UNION {-1..t : t \in Timers}]
        BY <1>u
    <2>1. context[r] \in [state : States, timer : UNION {-1..t : t \in Timers}]
        BY <1>t
    <2>2. PICK t \in Timers : context[r].timer \in -1..t
        BY <2>1
    <2>3. t \in Nat
        BY RandomAccessConstants DEF Timers
    <2>4. context[r].timer > 0 => context[r].timer - 1 \in UNION {-1..q : q \in Timers}
        BY <2>2, <2>3
    <2>5. CASE context[r].timer > 0
        BY <2>1, <2>4, <2>5, <1>u
    <2>6. CASE ~(context[r].timer > 0)
        BY <2>1, <2>6, <1>u
    <2> QED BY <2>5, <2>6
<1>10. ContextsAreNew'
    <2>1. /\ \A n \in rars' : \E m \in rars : n.rnti = m.rnti /\ m.rnti \in Rntis
          /\ \A u \in msg3 : ueRnti[u] # 0 => ueRnti[u] \in Rntis
        <3>1. lastRnti \in 0..MaxRnti /\ msg3 \subseteq Ues /\ ueRnti \in [Ues -> 0..lastRnti]
            BY <1>i DEF Types
        <3>2. 1..lastRnti \subseteq Rntis /\ \A k \in 0..lastRnti : k # 0 => k \in Rntis
            BY <3>1, RandomAccessConstants DEF Rntis
        <3>3. \A m \in rars : m.rnti \in 1..lastRnti
            BY <1>t
        <3>4. \A n \in rars' : \E m \in rars : n.rnti = m.rnti
            BY <1>6
        <3> QED BY <3>1, <3>2, <3>3, <3>4
    <2> QED BY <2>1, <1>9, <1>u, <1>i DEF ContextsAreNew, NoUnexpectedRrcEvent
<1>11. Types'
    <2>1. sent' \in [Ues -> [preamble : Preambles \cup {0}, raRnti : RaRntis,
                             since : 0..RaWindowEnd]]
        <3> SUFFICES ASSUME NEW u \in Ues
                     PROVE  [sent[u] EXCEPT !.since = @ + 1]
                                \in [preamble : Preambles \cup {0}, raRnti : RaRntis,
                                     since : 0..RaWindowEnd]
            BY <1>t, <1>u
        <3>1. sent[u] \in [preamble : Preambles \cup {0}, raRnti : RaRntis,
                           since : 0..RaWindowEnd]
            BY <1>t
        <3>2. sent[u].since + 1 \in 0..RaWindowEnd
            BY <3>1, <1>g, RandomAccessConstants
        <3> QED BY <3>1, <3>2
    <2>2. now' \in 0..9
        <3>1. now' = (now + 1) % 10 /\ now \in 0..9
            BY <1>t, <1>u
        <3> QED BY <3>1
    <2> QED BY <2>1, <2>2, <1>6, <1>9, <1>i, <1>u DEF Types
<1>12. RarIsForMe' /\ \E f : Answers(f)'
    BY <1>1, <1>u, <1>i, AnswersFrame DEF RarIsForMe
<1> QED BY <1>5, <1>7, <1>8, <1>10, <1>11, <1>12 DEF RaInv

-----------------------------------------------------------------------------
\* v is the only sender of the preambles that the gNB MAC has counted for key.
SoleSender(key, v) ==
    /\ Senders(key) = {v}
    /\ Transmitted(v, key[1])
    /\ sent[v].preamble = key[2] /\ key[2] \in Preambles
    /\ sent[v].since \in 1..(1 + MaxDlGap)
    /\ v \in Unprocessed

\* The clock of the cell and those of the UEs.
LEMMA ClockTypes ==
    ASSUME Types
    PROVE  /\ now \in 0..9 /\ prachConfig \in PrachConfigs
           /\ \A u \in Ues : sent[u].since \in Nat
<1>1. \A u \in Ues : sent[u].since \in 0..RaWindowEnd
    BY DEF Types
<1>2. \A u \in Ues : sent[u].since \in Nat
    BY <1>1, RandomAccessConstants
<1> QED BY <1>2 DEF Types

\* A key that is counted once has one sender.
LEMMA UndisturbedHasSender ==
    ASSUME Types, PreamblesOnTheirWay, NEW key \in Undisturbed
    PROVE  \E v \in Ues : SoleSender(key, v)
<1>1. /\ received \subseteq [occasion : 0..(OccasionWidth - 1), raId : Preambles, imsi : Ues]
      /\ Cardinality(Senders(key)) = 1
    BY DEF Types, Undisturbed
<1>2. Senders(key) \in SUBSET Ues
    BY <1>1 DEF Senders
<1>3. IsFiniteSet(Senders(key))
    BY <1>2, FS_Subset, RandomAccessAssumption
<1>4. PICK v : Senders(key) = {v}
    BY <1>1, <1>3, FS_Singleton
<1>5. v \in Ues
    BY <1>2, <1>4
<1>6. PICK x \in received : KeyOf(x) = key /\ x.imsi = v
    BY <1>4 DEF Senders
<1>7. key[1] = x.occasion /\ key[2] = x.raId
    BY <1>6 DEF KeyOf
<1>8. SoleSender(key, v)
    BY <1>1, <1>4, <1>6, <1>7 DEF SoleSender, PreamblesOnTheirWay, Unprocessed
<1> QED BY <1>5, <1>8

\* A UE is the sender of one key.
LEMMA SendersDiffer ==
    ASSUME PrachAgrees, Types, PreamblesOnTheirWay,
           NEW k1 \in Undisturbed, NEW k2 \in Undisturbed, Senders(k1) = Senders(k2)
    PROVE  k1 = k2
<1>1. PICK v \in Ues : SoleSender(k1, v)
    BY UndisturbedHasSender
<1>2. SoleSender(k2, v)
    BY <1>1, UndisturbedHasSender DEF SoleSender
<1>3. now \in 0..9 /\ prachConfig \in PrachConfigs /\ sent[v].since \in Nat
    BY ClockTypes
<1>4. k1[1] = k2[1]
    BY <1>1, <1>2, <1>3, RaRntiTellsOccasion DEF SoleSender
<1>5. k1[2] = k2[2]
    BY <1>1, <1>2 DEF SoleSender
<1>6. /\ \E x : k1 = <<x.occasion, x.raId>>
      /\ \E x : k2 = <<x.occasion, x.raId>>
    BY DEF Undisturbed, KeyOf
<1> QED BY <1>4, <1>5, <1>6

\* There are at most as many of them as UEs.
LEMMA UndisturbedIsFinite ==
    ASSUME PrachAgrees, Types, PreamblesOnTheirWay
    PROVE  Cardinality(Undisturbed) \in Nat
<1> DEFINE g == [k \in Undisturbed |-> CHOOSE v \in Ues : SoleSender(k, v)]
<1>1. \A k \in Undisturbed : g[k] \in Ues /\ SoleSender(k, g[k])
    BY UndisturbedHasSender
<1>2. \A k1, k2 \in Undisturbed : g[k1] = g[k2] => k1 = k2
    <2> SUFFICES ASSUME NEW k1 \in Undisturbed, NEW k2 \in Undisturbed, g[k1] = g[k2]
                 PROVE  k1 = k2
        OBVIOUS
    <2>1. Senders(k1) = {g[k1]} /\ Senders(k2) = {g[k2]}
        BY <1>1 DEF SoleSender
    <2> HIDE DEF g
    <2> QED BY <2>1, SendersDiffer
<1>3. g \in [Undisturbed -> Ues]
    BY <1>1
<1> HIDE DEF g
<1>4. g \in Injection(Undisturbed, Ues)
    BY <1>2, <1>3 DEF Injection, IsInjective
<1>5. IsFiniteSet(Undisturbed)
    BY <1>4, FS_Injection, RandomAccessAssumption
<1> QED BY <1>5, FS_CardinalityType

\* No other UE of the same age sent the same preamble with the same RA-RNTI: it
\* would have been counted for the same key.
LEMMA SoleSenderIsAlone ==
    ASSUME PrachAgrees, Types, PreamblesOnTheirWay, NEW key \in Undisturbed,
           NEW v \in Ues, SoleSender(key, v), NEW u \in Ues, u # v,
           phase[u] = "preambleSent", sent[u].raRnti = sent[v].raRnti,
           sent[u].preamble = key[2]
    PROVE  sent[u].since # sent[v].since
<1> SUFFICES ASSUME sent[u].since = sent[v].since PROVE FALSE
    OBVIOUS
<1>1. phase[v] = "preambleSent" /\ v \in Unprocessed /\ sent[v].since \in 1..(1 + MaxDlGap)
    BY DEF SoleSender, Transmitted
<1>2. u \in Unprocessed /\ sent[u].since # 0
    BY <1>1, RandomAccessConstants DEF PreamblesOnTheirWay
<1>3. PICK x \in onAir \cup received : x.imsi = u
    BY <1>2 DEF Unprocessed
<1>4. x \in received
    BY <1>2, <1>3 DEF PreamblesOnTheirWay
<1>5. Transmitted(u, x.occasion) /\ x.raId = key[2]
    BY <1>3 DEF PreamblesOnTheirWay
<1>6. x.occasion = key[1]
    <2>1. now \in 0..9 /\ prachConfig \in PrachConfigs
          /\ sent[u].since \in Nat /\ sent[v].since \in Nat
        BY ClockTypes
    <2> QED BY <1>5, <2>1, RaRntiTellsOccasion DEF SoleSender
<1>7. key = <<key[1], key[2]>>
    <2>1. \E y : key = <<y.occasion, y.raId>>
        BY DEF Undisturbed, KeyOf
    <2> QED BY <2>1
<1>8. KeyOf(x) = key
    BY <1>5, <1>6, <1>7 DEF KeyOf
<1>9. u \in Senders(key)
    BY <1>3, <1>4, <1>8 DEF Senders
<1> QED BY <1>9 DEF SoleSender

\* The keys of the map do not repeat before RapIdKeys RNTIs are allocated.
LEMMA RapIdKeyDiffers ==
    ASSUME NEW r \in 1..RapIdKeys, NEW q \in 1..RapIdKeys, RapIdKey(r) = RapIdKey(q)
    PROVE  r = q
<1>1. RapIdKeys \in Nat \ {0} /\ r \in Nat /\ q \in Nat
    BY RandomAccessConstants
<1>2. CASE r = RapIdKeys
    BY <1>1, <1>2 DEF RapIdKey
<1>3. CASE q = RapIdKeys
    BY <1>1, <1>3 DEF RapIdKey
<1>4. CASE r < RapIdKeys /\ q < RapIdKeys
    BY <1>1, <1>4 DEF RapIdKey
<1> QED BY <1>1, <1>2, <1>3, <1>4

\* The RAR of a new RNTI carries the preamble that is answered, unless the map has
\* an entry for its key or the slot inserts another one.
LEMMA InsertedKey ==
    ASSUME NEW keyOf, NEW r \in DOMAIN keyOf, r \in Nat,
           RapIdKey(r) \notin DOMAIN rapIdRntiMap,
           \A q \in DOMAIN keyOf : RapIdKey(q) = RapIdKey(r) => q = r
    PROVE  Inserted(keyOf)[RapIdKey(r)] = keyOf[r][2]
<1>1. {q \in DOMAIN keyOf : RapIdKey(q) = RapIdKey(r)} = {r}
    OBVIOUS
<1>2. (CHOOSE p \in {r} : \A q \in {r} : p <= q) = r
    OBVIOUS
<1>3. RapIdKey(r) \in DOMAIN rapIdRntiMap \cup {RapIdKey(q) : q \in DOMAIN keyOf}
    OBVIOUS
<1>4. Inserted(keyOf)[RapIdKey(r)]
          = keyOf[CHOOSE p \in {r} : \A q \in {r} : p <= q][2]
    BY <1>1, <1>3 DEF Inserted
<1> QED BY <1>2, <1>4

\* There are no more answered preambles than preambles.
LEMMA AnswersAreBounded ==
    ASSUME NEW n \in Nat, NEW f \in [1..n -> Ues \X (1..MaxPreambleTx)],
           \A r, q \in 1..n : f[r] = f[q] => r = q
    PROVE  n <= MaxRnti
<1> DEFINE T == Ues \X (1..MaxPreambleTx)
<1>1. MaxPreambleTx \in Nat \ {0} /\ IsFiniteSet(Ues)
    BY RandomAccessConstants, RandomAccessAssumption
<1>2. IsFiniteSet(1..MaxPreambleTx) /\ Cardinality(1..MaxPreambleTx) = MaxPreambleTx
    <2>1. 1 \in Int /\ MaxPreambleTx \in Int /\ ~(1 > MaxPreambleTx)
        BY <1>1
    <2> QED BY <2>1, FS_Interval
<1>3. IsFiniteSet(T) /\ Cardinality(T) = MaxRnti
    BY <1>1, <1>2, FS_Product DEF MaxRnti
<1>4. f \in Injection(1..n, T)
    BY DEF Injection, IsInjective
<1>5. Cardinality(1..n) <= Cardinality(T)
    BY <1>3, <1>4, FS_Injection
<1>6. Cardinality(1..n) = n
    <2>1. 1 \in Int /\ n \in Int
        OBVIOUS
    <2>2. Cardinality(1..n) = IF 1 > n THEN 0 ELSE n - 1 + 1
        BY <2>1, FS_Interval
    <2> QED BY <2>2
<1> QED BY <1>3, <1>5, <1>6

\* A downlink slot that allocates n RNTIs, for the keys keyOf of the senders v.
Allocates(n, keyOf, v, granted) ==
    LET new == (lastRnti + 1)..(lastRnti + n)
    IN  /\ n \in Nat
        /\ lastRnti' = lastRnti + n
        /\ keyOf \in [new -> Undisturbed]
        /\ v \in [new -> Ues]
        /\ \A r \in new : SoleSender(keyOf[r], v[r])
        /\ \A r, q \in new : v[r] = v[q] => r = q
        /\ granted \subseteq new
        /\ AddUe(new)
        /\ SendRar(granted, keyOf, Inserted(keyOf))
        /\ sender' = [r \in Rntis |-> IF r \in new THEN {v[r]} ELSE sender[r]]

\* What a downlink slot does, with the sender of each key it answers.
LEMMA DlSlot ==
    ASSUME PrachAgrees, RaInv, DoSlotDlIndication
    PROVE  \E n, keyOf, v, granted : Allocates(n, keyOf, v, granted)
<1>i. Types /\ PreamblesOnTheirWay
    BY DEF RaInv
<1>0. PICK n : n = Cardinality(Undisturbed)
    OBVIOUS
<1> DEFINE new == (lastRnti + 1)..(lastRnti + n)
<1>1. n \in Nat /\ lastRnti \in Nat
    <2>1. n \in Nat
        BY <1>0, <1>i, UndisturbedIsFinite
    <2>2. lastRnti \in 0..MaxRnti
        BY <1>i DEF Types
    <2> QED BY <2>1, <2>2, RandomAccessConstants
<1>2. PICK keyOf \in Bijection(new, Undisturbed), granted \in SUBSET new :
          /\ AddUe(new)
          /\ SendRar(granted, keyOf, Inserted(keyOf))
          /\ sender' = [r \in Rntis |-> IF r \in new THEN Senders(keyOf[r]) ELSE sender[r]]
    BY <1>0 DEF DoSlotDlIndication
<1>3. /\ keyOf \in [new -> Undisturbed]
      /\ \A r, q \in new : keyOf[r] = keyOf[q] => r = q
    BY <1>2 DEF Bijection, Injection, IsInjective
<1>v. PICK v : v = [r \in new |-> CHOOSE u \in Ues : SoleSender(keyOf[r], u)]
    OBVIOUS
<1>4. \A r \in new : v[r] \in Ues /\ SoleSender(keyOf[r], v[r])
    BY <1>v, <1>3, <1>i, UndisturbedHasSender
<1>5. v \in [new -> Ues]
    BY <1>v, <1>4
<1>6. \A r \in new : Senders(keyOf[r]) = {v[r]}
    BY <1>4 DEF SoleSender
<1>7. \A r, q \in new : v[r] = v[q] => r = q
    <2> SUFFICES ASSUME NEW r \in new, NEW q \in new, v[r] = v[q] PROVE r = q
        OBVIOUS
    <2>1. keyOf[r] \in Undisturbed /\ keyOf[q] \in Undisturbed
          /\ Senders(keyOf[r]) = Senders(keyOf[q])
        BY <1>3, <1>6
    <2>2. keyOf[r] = keyOf[q]
        BY <2>1, <1>i, SendersDiffer
    <2> QED BY <2>2, <1>3
<1>8. sender' = [r \in Rntis |-> IF r \in new THEN {v[r]} ELSE sender[r]]
    BY <1>2, <1>6
<1>9. lastRnti' = lastRnti + n
    <2>1. lastRnti' = lastRnti + Cardinality(new)
        BY <1>2 DEF AddUe
    <2>2. Cardinality(new) = IF lastRnti + 1 > lastRnti + n THEN 0
                             ELSE (lastRnti + n) - (lastRnti + 1) + 1
        <3>1. lastRnti + 1 \in Int /\ lastRnti + n \in Int
            BY <1>1
        <3> QED BY <3>1, FS_Interval
    <2> QED BY <2>1, <2>2, <1>1
<1>10. granted \subseteq new /\ AddUe(new) /\ SendRar(granted, keyOf, Inserted(keyOf))
    BY <1>2
<1>11. Allocates(n, keyOf, v, granted)
    BY <1>1, <1>3, <1>4, <1>5, <1>7, <1>8, <1>9, <1>10 DEF Allocates
<1> QED BY <1>11

\* The downlink slot allocates an RNTI for each undisturbed preamble, never two.
LEMMA DlAnswers ==
    ASSUME PrachAgrees, RaInv, DoSlotDlIndication
    PROVE  lastRnti' \in 0..MaxRnti /\ \E f : Answers(f)'
<1>i. Types /\ PreamblesOnTheirWay /\ \E f : Answers(f)
    BY DEF RaInv
<1>u. UNCHANGED <<phase, sent, attempts, onAir>> /\ received' = {}
    BY DEF DoSlotDlIndication
<1>1. PICK f : Answers(f)
    BY <1>i
<1>2. PICK n, keyOf, v :
          /\ n \in Nat
          /\ lastRnti' = lastRnti + n
          /\ v \in [(lastRnti + 1)..(lastRnti + n) -> Ues]
          /\ \A r \in (lastRnti + 1)..(lastRnti + n) : SoleSender(keyOf[r], v[r])
          /\ \A r, q \in (lastRnti + 1)..(lastRnti + n) : v[r] = v[q] => r = q
    BY DlSlot DEF Allocates
<1> DEFINE new == (lastRnti + 1)..(lastRnti + n)
<1>g. PICK g : g = [r \in 1..(lastRnti + n) |-> IF r \in new THEN <<v[r], attempts[v[r]]>>
                                                            ELSE f[r]]
    OBVIOUS
<1>3. lastRnti \in Nat
    BY <1>i, RandomAccessConstants DEF Types
<1>4. \A r \in 1..(lastRnti + n) : r \in new \/ r \in 1..lastRnti
    BY <1>3
<1>5. ASSUME NEW r \in new
      PROVE  /\ v[r] \in Ues /\ attempts[v[r]] \in 1..MaxPreambleTx
             /\ v[r] \in Unprocessed /\ v[r] \notin Unprocessed'
    <2>1. v[r] \in Ues /\ SoleSender(keyOf[r], v[r])
        BY <1>2
    <2>2. attempts[v[r]] \in 0..MaxPreambleTx /\ attempts[v[r]] > 0
        BY <2>1, <1>i DEF Types, PreamblesOnTheirWay, SoleSender, Transmitted
    <2>3. sent[v[r]].since # 0 /\ v[r] \in Unprocessed
        BY <2>1, RandomAccessConstants DEF SoleSender
    <2>4. v[r] \notin Unprocessed'
        BY <2>3, <1>u, <1>i DEF Unprocessed, PreamblesOnTheirWay
    <2> QED BY <2>1, <2>2, <2>3, <2>4, RandomAccessConstants
<1>6. \A r \in 1..lastRnti :
          /\ f[r] \in Ues \X (1..MaxPreambleTx)
          /\ f[r][2] <= attempts[f[r][1]]
          /\ f[r][1] \in Unprocessed => f[r][2] # attempts[f[r][1]]
    <2> SUFFICES ASSUME NEW r \in 1..lastRnti
                 PROVE  /\ f[r] \in Ues \X (1..MaxPreambleTx)
                        /\ f[r][2] <= attempts[f[r][1]]
                        /\ f[r][1] \in Unprocessed => f[r][2] # attempts[f[r][1]]
        OBVIOUS
    <2>1. /\ f[r] \in Ues \X (1..MaxPreambleTx)
          /\ f[r][2] <= attempts[f[r][1]]
          /\ f[r][1] \in Unprocessed => f[r][2] < attempts[f[r][1]]
        BY <1>1 DEF Answers
    <2>2. f[r][1] \in Ues /\ f[r][2] \in 1..MaxPreambleTx
        BY <2>1
    <2>3. attempts[f[r][1]] \in 0..MaxPreambleTx
        BY <2>2, <1>i DEF Types
    <2> QED BY <2>1, <2>2, <2>3, RandomAccessConstants
<1>7. g \in [1..(lastRnti + n) -> Ues \X (1..MaxPreambleTx)]
    BY <1>g, <1>4, <1>5, <1>6
<1>8. /\ \A r \in new : g[r] = <<v[r], attempts[v[r]]>>
      /\ \A r \in 1..lastRnti : g[r] = f[r] /\ r \notin new
    BY <1>g, <1>3, <1>2
<1>9. \A r, q \in 1..(lastRnti + n) : g[r] = g[q] => r = q
    <2>1. ASSUME NEW r \in new, NEW q \in new, g[r] = g[q] PROVE r = q
        BY <2>1, <1>2, <1>8
    <2>2. ASSUME NEW r \in 1..lastRnti, NEW q \in 1..lastRnti, g[r] = g[q] PROVE r = q
        BY <2>2, <1>1, <1>8 DEF Answers
    <2>3. ASSUME NEW r \in new, NEW q \in 1..lastRnti, g[r] = g[q] PROVE FALSE
        BY <2>3, <1>5, <1>6, <1>8
    <2> QED BY <2>1, <2>2, <2>3, <1>4
<1>10. lastRnti + n <= MaxRnti
    <2>1. lastRnti + n \in Nat
        BY <1>2, <1>3
    <2> QED BY <2>1, <1>7, <1>9, AnswersAreBounded
<1>11. Unprocessed' \subseteq Unprocessed
    BY <1>u DEF Unprocessed
<1>12. ASSUME NEW r \in 1..(lastRnti + n)
       PROVE  /\ g[r][2] <= attempts[g[r][1]]
              /\ g[r][1] \in Unprocessed' => g[r][2] < attempts[g[r][1]]
    <2>1. CASE r \in new
        <3>1. g[r][1] = v[r] /\ g[r][2] = attempts[v[r]]
            BY <2>1, <1>8
        <3>2. attempts[v[r]] \in Int /\ v[r] \notin Unprocessed'
            BY <2>1, <1>5
        <3> QED BY <3>1, <3>2
    <2>2. CASE r \in 1..lastRnti
        BY <2>2, <1>1, <1>8, <1>11 DEF Answers
    <2> QED BY <2>1, <2>2, <1>4
<1>13. Answers(g)'
    BY <1>2, <1>7, <1>9, <1>12, <1>u DEF Answers
<1> QED BY <1>2, <1>3, <1>10, <1>13, RandomAccessConstants

\* After a downlink slot only the preambles of this subframe are unprocessed.
LEMMA DlPreambles ==
    ASSUME Types, PreamblesOnTheirWay, received' = {},
           UNCHANGED <<now, prachConfig, phase, sent, attempts, onAir>>
    PROVE  PreamblesOnTheirWay' /\ Unprocessed' \subseteq Unprocessed
           /\ \A u \in Unprocessed' : sent[u].since = 0
<1>1. Unprocessed' \subseteq Unprocessed
    BY DEF Unprocessed
<1>2. \A u \in Unprocessed' : sent[u].since = 0
    BY DEF Unprocessed, PreamblesOnTheirWay
<1>3. \A u \in Ues : phase[u] = "preambleSent" /\ sent[u].since = 0 => u \in Unprocessed'
    <2> SUFFICES ASSUME NEW u \in Ues, phase[u] = "preambleSent", sent[u].since = 0
                 PROVE  u \in Unprocessed'
        OBVIOUS
    <2>1. PICK x \in onAir \cup received : x.imsi = u
        BY DEF PreamblesOnTheirWay, Unprocessed
    <2>2. x \in onAir
        BY <2>1, RandomAccessConstants DEF PreamblesOnTheirWay
    <2> QED BY <2>1, <2>2 DEF Unprocessed
<1>4. \A u, o : Transmitted(u, o) => Transmitted(u, o)'
    BY DEF Transmitted, Ago
<1> QED BY <1>1, <1>2, <1>3, <1>4 DEF PreamblesOnTheirWay

\* The downlink slot: each new RNTI answers one preamble of one UE, which waits for
\* the RAR alone.
LEMMA DlStep ==
    ASSUME PrachAgrees, RaInv, DoSlotDlIndication, InsertsAreNew
    PROVE  RaInv' /\ rars \subseteq rars'
<1>i. /\ Types /\ PreamblesOnTheirWay /\ RarsHaveSenders /\ RarIsForMe /\ ContextsAreNew
      /\ \E f : Answers(f)
    BY DEF RaInv
<1>u. /\ UNCHANGED <<now, prachConfig, phase, sent, attempts, ueRnti, onAir, msg3, failed>>
      /\ received' = {}
    BY DEF DoSlotDlIndication
<1>1. PICK n, keyOf, v, granted : Allocates(n, keyOf, v, granted)
    BY DlSlot
<1> DEFINE new == (lastRnti + 1)..(lastRnti + n)
<1>R. PICK Rar : Rar = [r \in new |->
          [rnti |-> r, age |-> 0, rapId |-> Inserted(keyOf)[RapIdKey(r)],
           raRnti |-> GetRaRnti(prachConfig, keyOf[r][1])]]
    OBVIOUS
<1>2. /\ n \in Nat /\ lastRnti' = lastRnti + n
      /\ keyOf \in [new -> Undisturbed]
      /\ \A r \in new : v[r] \in Ues /\ keyOf[r] \in Undisturbed /\ SoleSender(keyOf[r], v[r])
      /\ \A r, q \in new : v[r] = v[q] => r = q
      /\ granted \subseteq new
      /\ sender' = [r \in Rntis |-> IF r \in new THEN {v[r]} ELSE sender[r]]
      /\ rapIdRntiMap' = IF granted = {} THEN Inserted(keyOf) ELSE << >>
      /\ context' = [r \in Rntis |->
                       IF r \in new THEN [state |-> "INITIAL_RANDOM_ACCESS",
                                          timer |-> ConnectionRequestTimeoutDuration]
                                    ELSE context[r]]
    BY <1>1 DEF Allocates, AddUe, SendRar
<1>r. rars' = rars \cup {Rar[r] : r \in granted}
    <2>1. rars' = rars \cup {[rnti |-> r, age |-> 0, rapId |-> Inserted(keyOf)[RapIdKey(r)],
                              raRnti |-> GetRaRnti(prachConfig, keyOf[r][1])] : r \in granted}
        BY <1>1 DEF Allocates, SendRar
    <2>2. \A r \in granted :
             Rar[r] = [rnti |-> r, age |-> 0, rapId |-> Inserted(keyOf)[RapIdKey(r)],
                       raRnti |-> GetRaRnti(prachConfig, keyOf[r][1])]
        BY <1>R, <1>2
    <2> QED BY <2>1, <2>2
<1>3. /\ lastRnti \in Nat /\ MaxRnti \in Nat /\ lastRnti + n <= MaxRnti
      /\ 1..lastRnti \subseteq Rntis /\ new \subseteq Rntis /\ new \cap (0..lastRnti) = {}
      /\ new \subseteq 1..(lastRnti + n) /\ 0..lastRnti \subseteq 0..(lastRnti + n)
      /\ 1..lastRnti \subseteq 1..(lastRnti + n) /\ 1..lastRnti \subseteq 0..lastRnti
    <2>1. lastRnti \in 0..MaxRnti /\ lastRnti' \in 0..MaxRnti /\ MaxRnti \in Nat
        BY <1>i, DlAnswers, RandomAccessConstants DEF Types
    <2> QED BY <2>1, <1>2 DEF Rntis
<1>t. /\ now \in 0..9 /\ prachConfig \in PrachConfigs
      /\ \A m \in rars : m.rnti \in 1..lastRnti
      /\ sender \in [Rntis -> SUBSET Ues]
      /\ \A u \in Ues : ueRnti[u] \in 0..lastRnti
      /\ DOMAIN rapIdRntiMap \subseteq {RapIdKey(r) : r \in 1..lastRnti}
      /\ rars \subseteq [rnti : 1..lastRnti, age : 0..MaxRarAge, rapId : Preambles,
                         raRnti : RaRntis]
      /\ context \in [Rntis -> [state : States, timer : UNION {-1..t : t \in Timers}]]
    BY <1>i DEF Types
<1>4. /\ PreamblesOnTheirWay' /\ Unprocessed' \subseteq Unprocessed
      /\ \A u \in Unprocessed' : sent[u].since = 0
    BY <1>i, <1>u, DlPreambles
<1>5. /\ \A r \in new : sender'[r] = {v[r]}
      /\ \A r \in 1..lastRnti : sender'[r] = sender[r] /\ context'[r] = context[r]
      /\ \A r \in new : context'[r].state = "INITIAL_RANDOM_ACCESS"
    BY <1>2, <1>3
<1>d. DOMAIN keyOf = (lastRnti + 1)..(lastRnti + n)
    BY <1>2
<1>6. ASSUME NEW r \in new
      PROVE  /\ Inserted(keyOf)[RapIdKey(r)] = keyOf[r][2] /\ keyOf[r][2] \in Preambles
             /\ GetRaRnti(prachConfig, keyOf[r][1]) = sent[v[r]].raRnti
             /\ sent[v[r]].raRnti \in RaRntis
    <2>1. Inserted(keyOf)[RapIdKey(r)] = keyOf[r][2]
        <3>1. /\ r \in DOMAIN keyOf /\ RapIdKey(r) \notin DOMAIN rapIdRntiMap
              /\ \A q \in DOMAIN keyOf : RapIdKey(q) = RapIdKey(r) => q = r
            BY <1>d, <1>2 DEF InsertsAreNew
        <3>2. r \in Nat
            BY <1>2, <1>3
        <3> QED BY <3>1, <3>2, InsertedKey
    <2>2. /\ Transmitted(v[r], keyOf[r][1]) /\ keyOf[r][2] \in Preambles
          /\ sent[v[r]].since \in Nat
        BY <1>2, <1>i, ClockTypes DEF SoleSender
    <2> DEFINE a == Ago(sent[v[r]].since)
    <2>3. a \in 0..9
        BY <2>2, <1>t, AgoRange DEF Ago
    <2>4. /\ a \in Range(prachConfig.SfN) /\ keyOf[r][1] \in UeOccasions(prachConfig, Fdm, a)
          /\ sent[v[r]].raRnti = UeRaRnti(prachConfig, a, keyOf[r][1])
        BY <2>2 DEF Transmitted
    <2> HIDE DEF a
    <2>5. /\ GetRaRnti(prachConfig, keyOf[r][1]) = UeRaRnti(prachConfig, a, keyOf[r][1])
          /\ UeRaRnti(prachConfig, a, keyOf[r][1]) \in RaRntis
        BY <2>3, <2>4, <1>t DEF PrachAgrees
    <2> QED BY <2>1, <2>2, <2>4, <2>5
<1>7. ASSUME NEW r \in granted
      PROVE  /\ WaitsFor(v[r], Rar[r])' /\ r \in new /\ Rar[r].rnti = r
             /\ Rar[r] \in [rnti : 1..lastRnti', age : 0..MaxRarAge, rapId : Preambles,
                            raRnti : RaRntis]
    <2>0. r \in new
        BY <1>2
    <2>R. Rar[r] = [rnti |-> r, age |-> 0, rapId |-> keyOf[r][2], raRnti |-> sent[v[r]].raRnti]
        BY <2>0, <1>6, <1>R
    <2>1. /\ Rar[r].rnti = r /\ Rar[r].age = 0 /\ Rar[r].rapId = keyOf[r][2]
          /\ Rar[r].raRnti = sent[v[r]].raRnti
        BY <2>R
    <2>3. /\ phase[v[r]] = "preambleSent" /\ sent[v[r]].preamble = keyOf[r][2]
          /\ sent[v[r]].since \in 1..(1 + MaxDlGap)
        BY <2>0, <1>2 DEF SoleSender, Transmitted
    <2>4. v[r] \notin Unprocessed'
        BY <2>3, <1>4, RandomAccessConstants
    <2>5. \A u \in Ues : /\ u # v[r] /\ phase[u] = "preambleSent"
                         /\ sent[u].raRnti = sent[v[r]].raRnti
                         /\ sent[u].preamble = keyOf[r][2]
                         => sent[u].since # sent[v[r]].since
        BY <2>0, <1>2, <1>i, SoleSenderIsAlone
    <2>6. sent[v[r]].since \in (0 + 1)..(0 + 1 + MaxDlGap)
        BY <2>3, RandomAccessConstants
    <2>7. sender'[r] = {v[r]}
        BY <2>0, <1>5
    <2>8. WaitsFor(v[r], Rar[r])'
        BY <2>1, <2>3, <2>4, <2>5, <2>6, <2>7, <1>u DEF WaitsFor
    <2>9. 0 \in 0..MaxRarAge /\ r \in 1..lastRnti'
        BY <2>0, <1>2, <1>3, RandomAccessConstants
    <2> QED BY <2>0, <2>R, <2>1, <2>8, <2>9, <1>6
<1>8. ASSUME NEW m \in rars, NEW w \in Ues, WaitsFor(w, m)
      PROVE  WaitsFor(w, m)' /\ w \notin Unprocessed
    <2>1. sender'[m.rnti] = sender[m.rnti]
        BY <1>5, <1>t
    <2> QED BY <2>1, <1>8, <1>4, <1>u DEF WaitsFor
<1>9. RarsHaveSenders'
    <2>1. \A m \in rars' : \E w \in Ues : WaitsFor(w, m)'
        <3>1. ASSUME NEW m \in rars PROVE \E w \in Ues : WaitsFor(w, m)'
            BY <1>8, <1>i DEF RarsHaveSenders
        <3>2. ASSUME NEW r \in granted PROVE \E w \in Ues : WaitsFor(w, Rar[r])'
            BY <1>7, <1>2
        <3> QED BY <1>r, <3>1, <3>2
    <2>2. ASSUME NEW m \in rars, NEW r \in granted PROVE sender'[m.rnti] # sender'[Rar[r].rnti]
        <3>1. PICK w \in Ues : WaitsFor(w, m)
            BY <1>i DEF RarsHaveSenders
        <3>2. w \notin Unprocessed /\ sender'[m.rnti] = {w}
            BY <3>1, <1>8, <1>5, <1>t DEF WaitsFor
        <3>3. v[r] \in Unprocessed /\ sender'[Rar[r].rnti] = {v[r]}
            BY <1>7, <1>2, <1>5 DEF SoleSender
        <3> QED BY <3>2, <3>3
    <2>3. ASSUME NEW m \in rars, NEW k \in rars, sender'[m.rnti] = sender'[k.rnti]
          PROVE  m = k
        BY <2>3, <1>5, <1>t, <1>i DEF RarsHaveSenders
    <2>4. ASSUME NEW r \in granted, NEW q \in granted,
                 sender'[Rar[r].rnti] = sender'[Rar[q].rnti]
          PROVE  Rar[r] = Rar[q]
        <3>1. r \in new /\ q \in new /\ {v[r]} = {v[q]}
            BY <2>4, <1>7, <1>5
        <3> QED BY <3>1, <1>2
    <2>5. \A m, k \in rars' : sender'[m.rnti] = sender'[k.rnti] => m = k
        <3> SUFFICES ASSUME NEW m \in rars', NEW k \in rars',
                            sender'[m.rnti] = sender'[k.rnti]
                     PROVE  m = k
            OBVIOUS
        <3>1. m \in rars \/ \E r \in granted : m = Rar[r]
            BY <1>r
        <3>2. k \in rars \/ \E r \in granted : k = Rar[r]
            BY <1>r
        <3> QED BY <3>1, <3>2, <2>2, <2>3, <2>4
    <2>6. \A m \in rars' : \A u \in Ues : ueRnti'[u] # m.rnti
        <3>1. \A m \in rars : \A u \in Ues : ueRnti'[u] # m.rnti
            BY <1>i, <1>u DEF RarsHaveSenders
        <3>2. \A r \in granted : \A u \in Ues : ueRnti'[u] # Rar[r].rnti
            <4> SUFFICES ASSUME NEW r \in granted, NEW u \in Ues PROVE ueRnti'[u] # Rar[r].rnti
                OBVIOUS
            <4>1. r \in new /\ Rar[r].rnti = r
                BY <1>7
            <4>2. ueRnti'[u] = ueRnti[u] /\ ueRnti[u] \in 0..lastRnti
                BY <1>t, <1>u
            <4>3. r \notin 0..lastRnti
                BY <4>1, <1>3
            <4> QED BY <4>1, <4>2, <4>3
        <3> QED BY <3>1, <3>2, <1>r
    <2> QED BY <2>1, <2>5, <2>6 DEF RarsHaveSenders
<1>10. RarIsForMe'
    <2>1. \A u \in Ues : ueRnti[u] # 0 => ueRnti[u] \in 1..lastRnti
        BY <1>t, <1>3
    <2> QED BY <2>1, <1>5, <1>u, <1>i DEF RarIsForMe
<1>11. ContextsAreNew'
    <2>1. \A m \in rars' : context'[m.rnti].state \in {"none", "INITIAL_RANDOM_ACCESS"}
        <3>1. \A m \in rars : context'[m.rnti].state \in {"none", "INITIAL_RANDOM_ACCESS"}
            BY <1>5, <1>t, <1>i DEF ContextsAreNew
        <3>2. \A r \in granted : context'[Rar[r].rnti].state = "INITIAL_RANDOM_ACCESS"
            BY <1>7, <1>5
        <3> QED BY <3>1, <3>2, <1>r
    <2>2. \A u \in msg3 : ueRnti[u] # 0 /\ ueRnti[u] \in 1..lastRnti
        <3>1. \A u \in msg3 : ueRnti[u] # 0 /\ u \in Ues
            BY <1>i DEF ContextsAreNew, Types
        <3>2. \A u \in msg3 : ueRnti[u] \in 0..lastRnti
            BY <3>1, <1>t
        <3> QED BY <3>1, <3>2, <1>3
    <2>3. \A r \in Rntis : context'[r].state = "CONNECTION_SETUP" => context'[r].timer = -1
        BY <1>2, <1>i DEF ContextsAreNew
    <2> QED BY <2>1, <2>2, <2>3, <1>5, <1>u, <1>i DEF ContextsAreNew, NoUnexpectedRrcEvent
<1>12. Types'
    <2>1. ueRnti' \in [Ues -> 0..lastRnti']
        BY <1>u, <1>i, <1>2, <1>3 DEF Types
    <2>2. DOMAIN rapIdRntiMap' \subseteq {RapIdKey(r) : r \in 1..lastRnti'}
        <3>1. DOMAIN Inserted(keyOf) = DOMAIN rapIdRntiMap \cup {RapIdKey(r) : r \in new}
            BY <1>d DEF Inserted
        <3>2. DOMAIN Inserted(keyOf) \subseteq {RapIdKey(r) : r \in 1..(lastRnti + n)}
            BY <3>1, <1>3, <1>t
        <3>3. CASE granted = {}
            BY <3>2, <3>3, <1>2
        <3>4. CASE granted # {}
            <4>1. rapIdRntiMap' = << >>
                BY <3>4, <1>2
            <4>2. DOMAIN << >> = {}
                OBVIOUS
            <4> QED BY <4>1, <4>2
        <3> QED BY <3>3, <3>4
    <2>3. context' \in [Rntis -> [state : States, timer : UNION {-1..t : t \in Timers}]]
        <3>1. ConnectionRequestTimeoutDuration \in UNION {-1..t : t \in Timers}
            BY RandomAccessConstants DEF Timers
        <3>2. [state |-> "INITIAL_RANDOM_ACCESS", timer |-> ConnectionRequestTimeoutDuration]
                  \in [state : States, timer : UNION {-1..t : t \in Timers}]
            BY <3>1 DEF States
        <3> QED BY <3>2, <1>2, <1>t
    <2>4. rars' \subseteq [rnti : 1..lastRnti', age : 0..MaxRarAge, rapId : Preambles,
                           raRnti : RaRntis]
        <3>1. 1..lastRnti \subseteq 1..lastRnti'
            BY <1>2, <1>3
        <3>2. rars \subseteq [rnti : 1..lastRnti', age : 0..MaxRarAge, rapId : Preambles,
                              raRnti : RaRntis]
            BY <3>1, <1>t
        <3> QED BY <3>2, <1>r, <1>7
    <2>5. sender' \in [Rntis -> SUBSET Ues]
        BY <1>2, <1>t
    <2>6. lastRnti' \in 0..MaxRnti
        BY DlAnswers
    <2> QED BY <2>1, <2>2, <2>3, <2>4, <2>5, <2>6, <1>u, <1>i DEF Types
<1>13. \E f : Answers(f)'
    BY DlAnswers
<1>14. rars \subseteq rars'
    BY <1>r
<1> QED BY <1>4, <1>9, <1>10, <1>11, <1>12, <1>13, <1>14 DEF RaInv

-----------------------------------------------------------------------------
LEMMA RaInit == Init => RaInv
<1> SUFFICES ASSUME Init PROVE RaInv
    OBVIOUS
<1> USE DEF Init
<1>0. /\ MaxRnti \in Nat /\ MaxPreambleTx \in Nat \ {0} /\ RaWindowEnd \in Nat
      /\ 1..0 = {} /\ Rntis \cap {0} = {}
    BY RandomAccessConstants DEF Rntis
<1>1. Types
    <2>1. Nothing \in [preamble : Preambles \cup {0}, raRnti : RaRntis,
                       since : 0..RaWindowEnd]
        BY <1>0, NoRaRnti DEF Nothing
    <2>2. -1 \in UNION {-1..t : t \in Timers}
        BY RandomAccessConstants DEF Timers
    <2>3. NoContext \in [state : States, timer : UNION {-1..t : t \in Timers}]
        BY <2>2 DEF NoContext, States
    <2>4. DOMAIN << >> = {}
        OBVIOUS
    <2>5. /\ 0 \in 0..MaxRnti /\ 0 \in 0..MaxPreambleTx /\ 0 \in 0..0 /\ 0 \in 0..9
        BY <1>0
    <2>6. DOMAIN rapIdRntiMap \subseteq {RapIdKey(r) : r \in 1..lastRnti}
        BY <2>4
    <2>7. /\ sent \in [Ues -> [preamble : Preambles \cup {0}, raRnti : RaRntis,
                              since : 0..RaWindowEnd]]
          /\ context \in [Rntis -> [state : States, timer : UNION {-1..t : t \in Timers}]]
        BY <2>1, <2>3
    <2> QED BY <2>5, <2>6, <2>7 DEF Types
<1>2. PreamblesOnTheirWay
    <2>1. \A u \in Ues : phase[u] = "idle" /\ attempts[u] = 0
        OBVIOUS
    <2>2. 0 < MaxPreambleTx
        BY <1>0
    <2> QED BY <2>1, <2>2 DEF PreamblesOnTheirWay
<1>3. RarsHaveSenders /\ RarIsForMe /\ ContextsAreNew
    BY DEF RarsHaveSenders, RarIsForMe, ContextsAreNew, NoUnexpectedRrcEvent, NoContext
<1>4. Answers([r \in {} |-> 0])
    BY <1>0 DEF Answers
<1> QED BY <1>1, <1>2, <1>3, <1>4 DEF RaInv

\* One step.
LEMMA RaStep ==
    ASSUME PrachAgrees, RaInv, [Next]_vars, [InsertsAreNew]_vars
    PROVE  RaInv'
<1>1. CASE UNCHANGED vars
    <2>0. Types /\ PreamblesOnTheirWay /\ RarsHaveSenders /\ \E f : Answers(f)
        BY DEF RaInv
    <2>1. PreamblesOnTheirWay' /\ Unprocessed' = Unprocessed
        BY <2>0, <1>1, PreamblesFrame DEF vars
    <2>2. RarsHaveSenders'
        BY <2>0, <2>1, <1>1, RarsFrame DEF vars
    <2>3. \E f : Answers(f)'
        BY <2>0, <2>1, <1>1, AnswersFrame DEF vars
    <2>4. Types'
        BY <2>0, <1>1 DEF vars, Types, RapIdKey
    <2>5. RarIsForMe' /\ ContextsAreNew'
        BY <1>1 DEF RaInv, vars, RarIsForMe, ContextsAreNew, NoUnexpectedRrcEvent
    <2> QED BY <2>1, <2>2, <2>3, <2>4, <2>5 DEF RaInv
<1>2. ASSUME NEW u \in Ues, SendRaPreamble(u) PROVE RaInv'
    BY <1>2, SendStep
<1>3. ASSUME NEW u \in Ues, RaResponseTimeout(u) PROVE RaInv'
    BY <1>3, TimeoutStep
<1>4. ASSUME \/ \E u \in Ues : Msg3Lost(u) \/ RecvRrcConnectionRequest(u)
             \/ \E r \in Rntis : ContextTimeout(r)
      PROVE  RaInv'
    BY <1>4, RrcStep
<1>5. ASSUME NEW m \in rars, DeliverRar(m) PROVE RaInv'
    BY <1>5, DeliverStep
<1>6. ASSUME DoSlotDlIndication, InsertsAreNew PROVE RaInv'
    BY <1>6, DlStep
<1>7. ASSUME Tick PROVE RaInv'
    BY <1>7, TickStep
<1> QED BY <1>1, <1>2, <1>3, <1>4, <1>5, <1>6, <1>7 DEF Next

\* The invariant implies the type invariant.
LEMMA RaTypes == RaInv => TypeOK
<1> SUFFICES ASSUME RaInv PROVE TypeOK
    OBVIOUS
<1>0. Types /\ failed = "none"
    BY DEF RaInv, ContextsAreNew, NoUnexpectedRrcEvent
<1>1. /\ 0..lastRnti \subseteq Rntis \cup {0} /\ 1..lastRnti \subseteq Rntis
      /\ lastRnti \in Rntis \cup {0}
    <2>1. lastRnti \in 0..MaxRnti /\ MaxRnti \in Nat
        BY <1>0, RandomAccessConstants DEF Types
    <2> QED BY <2>1 DEF Rntis
<1>2. \A r \in 1..lastRnti : RapIdKey(r) \in 0..(RapIdKeys - 1)
    <2>1. \A r \in Nat : RapIdKey(r) \in 0..(RapIdKeys - 1)
        BY RandomAccessConstants DEF RapIdKey
    <2>2. 1..lastRnti \subseteq Nat
        OBVIOUS
    <2> QED BY <2>1, <2>2
<1>3. DOMAIN rapIdRntiMap \subseteq 0..(RapIdKeys - 1)
    BY <1>0, <1>2 DEF Types
<1>4. \A r \in Rntis : /\ context[r].state \in States
                       /\ \E t \in Timers : context[r].timer \in -1..t
    <2> SUFFICES ASSUME NEW r \in Rntis
                 PROVE  context[r].state \in States /\ \E t \in Timers : context[r].timer \in -1..t
        OBVIOUS
    <2>1. context[r] \in [state : States, timer : UNION {-1..t : t \in Timers}]
        BY <1>0 DEF Types
    <2>2. context[r].state \in States /\ context[r].timer \in UNION {-1..t : t \in Timers}
        BY <2>1
    <2> QED BY <2>2
<1>5. \A u \in Ues : /\ sent[u].preamble \in Preambles \cup {0}
                     /\ sent[u].raRnti \in RaRntis
                     /\ sent[u].since \in 0..RaWindowEnd
    <2>1. \A u \in Ues : sent[u] \in [preamble : Preambles \cup {0}, raRnti : RaRntis,
                                      since : 0..RaWindowEnd]
        BY <1>0 DEF Types
    <2> QED BY <2>1
<1>6. \A x \in onAir \cup received : x.occasion \in 0..(OccasionWidth - 1) /\ x.imsi \in Ues
    <2>1. \A x \in onAir \cup received :
             x \in [occasion : 0..(OccasionWidth - 1), raId : Preambles, imsi : Ues]
        BY <1>0 DEF Types
    <2> QED BY <2>1
<1>7. \A m \in rars : m.rnti \in Rntis /\ m.age \in 0..MaxRarAge
    <2>1. \A m \in rars : m.rnti \in 1..lastRnti /\ m.age \in 0..MaxRarAge
        BY <1>0 DEF Types
    <2> QED BY <2>1, <1>1
<1>8. ueRnti \in [Ues -> Rntis \cup {0}]
    BY <1>0, <1>1 DEF Types
<1> QED BY <1>0, <1>1, <1>3, <1>4, <1>5, <1>6, <1>7, <1>8 DEF Types, TypeOK

\* What becomes of the RARs in one step.
LEMMA RarsStep ==
    ASSUME PrachAgrees, RaInv, Next, InsertsAreNew
    PROVE  \A m \in rars : (\A n \in rars' : n.rnti # m.rnti)
                              => \A u \in sender[m.rnti] : ueRnti'[u] = m.rnti
<1>1. ASSUME rars \subseteq rars'
      PROVE  \A m \in rars : \E n \in rars' : n.rnti = m.rnti
    BY <1>1
<1>2. CASE \E u \in Ues : SendRaPreamble(u) \/ RaResponseTimeout(u)
                          \/ RecvRrcConnectionRequest(u) \/ Msg3Lost(u)
    <2>1. rars' = rars
        BY <1>2 DEF SendRaPreamble, RaResponseTimeout, RecvRrcConnectionRequest, Msg3Lost
    <2> QED BY <2>1, <1>1
<1>3. CASE \E r \in Rntis : ContextTimeout(r)
    <2>1. rars' = rars
        BY <1>3 DEF ContextTimeout
    <2> QED BY <2>1, <1>1
<1>4. CASE DoSlotDlIndication
    BY <1>4, <1>1, DlStep
<1>5. CASE Tick
    BY <1>5, TickStep
<1>6. ASSUME NEW k \in rars, DeliverRar(k), NEW m \in rars,
             \A n \in rars' : n.rnti # m.rnti
      PROVE  \A u \in sender[m.rnti] : ueRnti'[u] = m.rnti
    <2>1. rars' = rars \ {k}
        BY <1>6 DEF DeliverRar
    <2>2. m = k
        BY <2>1, <1>6
    <2> QED BY <2>2, <1>6, DeliverStep
<1> QED BY <1>2, <1>3, <1>4, <1>5, <1>6 DEF Next

\* As long as no more RNTIs are allocated than there are keys, no key is used twice.
LEMMA FewRntisStep ==
    ASSUME PrachAgrees, RaInv, [Next]_vars, lastRnti' <= RapIdKeys
    PROVE  InsertsAreNew
<1>1. lastRnti \in Nat /\ lastRnti' \in Nat /\ RapIdKeys \in Nat
    <2>1. lastRnti \in 0..MaxRnti
        BY DEF RaInv, Types
    <2>2. CASE DoSlotDlIndication
        <3>1. lastRnti' \in 0..MaxRnti
            BY <2>2, DlAnswers
        <3> QED BY <2>1, <3>1, RandomAccessConstants
    <2>3. CASE ~DoSlotDlIndication
        <3>1. lastRnti' = lastRnti
            BY <2>3 DEF Next, vars, SendRaPreamble, RaResponseTimeout, RecvRrcConnectionRequest,
                        Msg3Lost, DeliverRar, ContextTimeout, Tick
        <3> QED BY <2>1, <3>1, RandomAccessConstants
    <2> QED BY <2>2, <2>3
<1>2. DOMAIN rapIdRntiMap \subseteq {RapIdKey(r) : r \in 1..lastRnti}
    BY DEF RaInv, Types
<1>3. ASSUME NEW r \in (lastRnti + 1)..lastRnti'
      PROVE  /\ RapIdKey(r) \notin DOMAIN rapIdRntiMap
             /\ \A q \in (lastRnti + 1)..lastRnti' : RapIdKey(q) = RapIdKey(r) => q = r
    <2>1. r \in 1..RapIdKeys /\ r \notin 1..lastRnti
        BY <1>1
    <2>3. \A q \in 1..lastRnti : q \in 1..RapIdKeys
        BY <1>1
    <2>4. \A q \in (lastRnti + 1)..lastRnti' : q \in 1..RapIdKeys
        BY <1>1
    <2>5. \A q \in 1..lastRnti : RapIdKey(q) # RapIdKey(r)
        BY <2>1, <2>3, RapIdKeyDiffers
    <2>6. RapIdKey(r) \notin DOMAIN rapIdRntiMap
        BY <2>5, <1>2
    <2>7. \A q \in (lastRnti + 1)..lastRnti' : RapIdKey(q) = RapIdKey(r) => q = r
        BY <2>1, <2>4, RapIdKeyDiffers
    <2> QED BY <2>6, <2>7
<1> QED BY <1>3 DEF InsertsAreNew

-----------------------------------------------------------------------------
\* The inductive invariant of contention-based random access holds: the timing of
\* preambles and RARs, who waits for which RAR and which preamble an RNTI answers.
THEOREM RandomAccessInductive ==
    ASSUME PrachAgrees
    PROVE  Spec /\ [][InsertsAreNew]_vars => []RaInv
<1>1. Init => RaInv
    BY RaInit
<1>2. RaInv /\ [Next]_vars /\ [InsertsAreNew]_vars => RaInv'
    BY RaStep
<1> QED BY <1>1, <1>2, PTL DEF Spec

\* Every variable keeps its type; above all the gNB never allocates more RNTIs than
\* the UEs have sent preambles (AllocateTemporaryCellRnti, nr-gnb-mac.cc), because an
\* RNTI answers one preamble and no preamble is answered twice.
THEOREM RandomAccessTypeCorrect ==
    ASSUME PrachAgrees
    PROVE  Spec /\ [][InsertsAreNew]_vars => []TypeOK
<1>1. RaInv => TypeOK
    BY RaTypes
<1> QED BY <1>1, RandomAccessInductive, PTL

\* A UE only uses a temporary RNTI that was allocated for its own preamble: the check
\* of RA-RNTI and preamble in DoReceiveControlMessage (nr-ue-mac.cc) singles it out.
THEOREM RandomAccessRarIsForMe ==
    ASSUME PrachAgrees
    PROVE  Spec /\ [][InsertsAreNew]_vars => []RarIsForMe
<1>1. RaInv => RarIsForMe
    BY DEF RaInv
<1> QED BY <1>1, RandomAccessInductive, PTL

\* RecvRrcConnectionRequest and the timers of a context never meet a state they treat
\* as fatal (nr-gnb-rrc.cc): Msg3 of a UE is the first and only use of its context.
THEOREM RandomAccessNoUnexpectedRrcEvent ==
    ASSUME PrachAgrees
    PROVE  Spec /\ [][InsertsAreNew]_vars => []NoUnexpectedRrcEvent
<1>1. RaInv => NoUnexpectedRrcEvent
    BY DEF RaInv, ContextsAreNew
<1> QED BY <1>1, RandomAccessInductive, PTL

\* A RAR that disappears has been taken by the UE whose preamble it answers: the
\* response window is still open for the oldest RAR the gNB can send.
THEOREM RandomAccessRarReachesItsSender ==
    ASSUME PrachAgrees
    PROVE  Spec /\ [][InsertsAreNew]_vars => RarReachesItsSender
<1> DEFINE A == \A m \in rars : (\A n \in rars' : n.rnti # m.rnti)
                                   => \A u \in sender[m.rnti] : ueRnti'[u] = m.rnti
<1>1. RaInv /\ [Next]_vars /\ [InsertsAreNew]_vars => [A]_vars
    <2>1. RaInv /\ Next /\ InsertsAreNew => A
        BY RarsStep
    <2> HIDE DEF A
    <2> QED BY <2>1
<1>2. Spec /\ [][InsertsAreNew]_vars => [][A]_vars
    <2> HIDE DEF A
    <2> QED BY <1>1, RandomAccessInductive, PTL DEF Spec
<1> QED BY <1>2 DEF RarReachesItsSender

\* The hypothesis of these theorems is met as long as no more RNTIs have been
\* allocated than m_rapIdRntiMap has keys (256), whatever the scheduler grants.
THEOREM RandomAccessFewRntis ==
    ASSUME PrachAgrees
    PROVE  Spec /\ [](lastRnti <= RapIdKeys) => [][InsertsAreNew]_vars /\ []RaInv
<1> DEFINE Few == lastRnti <= RapIdKeys
<1>1. Init => RaInv
    BY RaInit
<1>2. RaInv /\ [Next]_vars /\ Few' => InsertsAreNew
    <2>1. SUFFICES ASSUME RaInv, [Next]_vars, Few' PROVE InsertsAreNew
        OBVIOUS
    <2>2. lastRnti' <= RapIdKeys
        BY <2>1
    <2> QED BY <2>1, <2>2, FewRntisStep
<1>3. RaInv /\ [Next]_vars /\ InsertsAreNew => RaInv'
    BY RaStep
<1>4. Spec /\ []Few => [][InsertsAreNew]_vars /\ []RaInv
    <2> HIDE DEF Few
    <2> QED BY <1>1, <1>2, <1>3, PTL DEF Spec
<1> QED BY <1>4

-----------------------------------------------------------------------------
\* A multiple of w is at least w.
LEMMA TimesLarge ==
    ASSUME NEW w \in Nat, NEW k \in Nat, k >= 1
    PROVE w * k >= w
OBVIOUS

\* Quotient and remainder of a number that is given by them.
LEMMA DivMod ==
    ASSUME NEW w \in Nat \ {0}, NEW q \in Nat, NEW c \in 0..(w - 1)
    PROVE  (w * q + c) \div w = q /\ (w * q + c) % w = c
<1>1. PICK x \in Nat : x = w * q + c
    OBVIOUS
<1>2. PICK d \in Int : d = x \div w
    BY <1>1
<1>3. PICK e \in Int : e = x % w
    BY <1>1
<1>4. x = w * d + e /\ 0 <= e /\ e < w
    BY <1>1, <1>2, <1>3
<1>5. w * (d - q) = c - e
    BY <1>1, <1>4
<1>6. d = q
    <2>1. CASE d - q >= 1
        <3>1. w * (d - q) >= w
            BY <2>1, TimesLarge
        <3> QED BY <3>1, <1>4, <1>5
    <2>2. CASE q - d >= 1
        <3>1. w * (q - d) >= w
            BY <2>2, TimesLarge
        <3>2. w * (q - d) = e - c
            BY <1>1, <1>4
        <3> QED BY <3>1, <3>2, <1>4
    <2> QED BY <2>1, <2>2
<1>7. e = c
    BY <1>1, <1>4, <1>6
<1> QED BY <1>1, <1>2, <1>3, <1>6, <1>7

\* A configuration whose occasions stay inside a slot and are not cut off by the
\* uint8_t, and whose n-th PRACH subframe is congruent to n.
InPlace(cfg) ==
    /\ Len(cfg.SfN) \in Nat \ {0}
    /\ cfg.numSlots \in {1, 2}
    /\ cfg.occInSlot \in Nat \ {0} /\ cfg.duration \in Nat \ {0} /\ cfg.symStart \in Nat
    /\ cfg.symStart + (cfg.occInSlot - 1) * cfg.duration < 14
    /\ (Fdm - 1) * OccPerFd(cfg) + 9 * cfg.occInSlot * cfg.numSlots + cfg.occInSlot
          <= OccasionWidth
    /\ \A sf \in 0..9 : sf \in Range(cfg.SfN) => cfg.SfN[1 + (sf % Len(cfg.SfN))] = sf

\* The occasion in subframe sf with frequency-domain index i and number c in the slot.
OccasionOf(cfg, sf, i, c) ==
    (i * OccPerFd(cfg) + sf * cfg.occInSlot * cfg.numSlots + c) % OccasionWidth

\* What UE and gNB read off an occasion.
Decodes(cfg, sf, i, c, occ) ==
    /\ occ \in 0..(OccasionWidth - 1)
    /\ occ % cfg.occInSlot = c
    /\ occ % (cfg.numSlots * cfg.occInSlot) = c
    /\ occ \div OccPerFd(cfg) = i + sf \div Len(cfg.SfN)
    /\ occ - (i + sf \div Len(cfg.SfN)) * OccPerFd(cfg)
          = (cfg.numSlots * cfg.occInSlot) * (sf % Len(cfg.SfN)) + c

LEMMA OccasionNumber ==
    ASSUME NEW cfg, InPlace(cfg), Fdm \in 1..4, NEW sf \in 0..9,
           NEW i \in 0..(Fdm - 1), NEW c \in 0..(cfg.occInSlot - 1), NEW occ,
           occ = OccasionOf(cfg, sf, i, c)
    PROVE  Decodes(cfg, sf, i, c, occ)
<1>0. PICK o, n, l, d : o = cfg.occInSlot /\ n = cfg.numSlots /\ l = Len(cfg.SfN)
                        /\ d = OccPerFd(cfg)
    OBVIOUS
<1>1. /\ o \in Nat \ {0} /\ n \in {1, 2} /\ l \in Nat \ {0} /\ d = o * l * n
      /\ (Fdm - 1) * d + 9 * o * n + o <= 256 /\ c \in 0..(o - 1)
    BY <1>0 DEF InPlace, OccPerFd, OccasionWidth
<1>w. PICK w : w = n * o
    OBVIOUS
<1>2. /\ w \in Nat \ {0} /\ o <= w /\ d = w * l /\ d \in Nat \ {0}
      /\ o * n = w
    BY <1>1, <1>w
<1>q. PICK q : q = sf \div l
    OBVIOUS
<1>r. PICK r : r = sf % l
    OBVIOUS
<1>3. q \in Nat /\ r \in 0..(l - 1) /\ sf = l * q + r
    BY <1>1, <1>q, <1>r
<1>x. PICK x : x = i * d + sf * o * n + c
    OBVIOUS
<1>4. x = i * d + sf * w + c
    <2>1. sf * o * n = sf * w
        BY <1>1, <1>2
    <2> QED BY <2>1, <1>x
<1>5. x \in 0..255
    <2>1. (Fdm - 1) * d + 9 * w + o <= 256
        <3>1. 9 * o * n = 9 * w
            BY <1>1, <1>2
        <3> QED BY <3>1, <1>1
    <2>2. i * d <= (Fdm - 1) * d /\ i * d \in Nat
        BY <1>2
    <2>3. sf * w <= 9 * w /\ sf * w \in Nat
        BY <1>2
    <2>4. PICK a \in Nat, b \in Nat, a1 \in Int, b1 \in Int :
             a = i * d /\ b = sf * w /\ a1 = (Fdm - 1) * d /\ b1 = 9 * w
        BY <2>2, <2>3, <1>2
    <2>5. a1 + b1 + o <= 256 /\ a <= a1 /\ b <= b1 /\ x = a + b + c
        BY <2>1, <2>2, <2>3, <2>4, <1>4
    <2>6. o \in Nat /\ c \in Nat /\ c < o
        BY <1>1
    <2>7. a \in Nat /\ b \in Nat /\ a1 \in Int /\ b1 \in Int
        OBVIOUS
    <2> QED BY ONLY <2>5, <2>6, <2>7
<1>6. occ = x
    <2>1. occ = x % 256
        BY <1>x, <1>0 DEF OccasionWidth, OccasionOf
    <2> QED BY <2>1, <1>5
<1>7. x = d * (i + q) + (w * r + c)
    <2>1. i * d = d * i
        BY <1>2
    <2>2. sf * w = d * q + w * r
        <3>1. sf * w = w * (l * q + r)
            BY <1>2, <1>3
        <3>2. w * (l * q + r) = w * (l * q) + w * r
            BY <1>1, <1>2, <1>3
        <3>3. w * (l * q) = (w * l) * q
            BY <1>1, <1>2, <1>3
        <3> QED BY <3>1, <3>2, <3>3, <1>2
    <2>3. d * (i + q) = d * i + d * q
        BY <1>2, <1>3
    <2>4. d * i \in Int /\ d * q \in Int /\ w * r \in Int /\ c \in Int
        BY <1>1, <1>2, <1>3
    <2> QED BY <2>1, <2>2, <2>3, <2>4, <1>4
<1>8. w * r + c \in 0..(d - 1)
    <2>1. w * r + w <= w * l
        <3>1. w * r + w = w * (r + 1)
            BY <1>2, <1>3
        <3>2. r + 1 <= l /\ r + 1 \in Nat
            BY <1>1, <1>3
        <3>3. w * (r + 1) <= w * l
            BY <3>2, <1>1, <1>2
        <3> QED BY <3>1, <3>3
    <2>2. w * r \in Nat
        BY <1>2, <1>3
    <2>3. c < w /\ c \in Nat
        BY <1>1, <1>2
    <2> QED BY <2>1, <2>2, <2>3, <1>2
<1>9. x \div d = i + q
    <2>1. i + q \in Nat
        BY <1>3
    <2> QED BY <2>1, <1>2, <1>7, <1>8, DivMod
<1>10. x - (i + q) * d = w * r + c
    <2>1. (i + q) * d = d * (i + q) /\ d * (i + q) \in Int /\ w * r \in Int
        BY <1>2, <1>3
    <2> QED BY <2>1, <1>7, <1>1
<1>11. PICK k : k = l * i + sf
    OBVIOUS
<1>12. x = w * k + c /\ k \in Nat
    <2>1. i * d = w * (l * i)
        BY <1>1, <1>2
    <2>2. w * k = w * (l * i) + w * sf
        BY <1>1, <1>2, <1>11
    <2>3. sf * w = w * sf /\ w * (l * i) \in Int /\ w * sf \in Int
        BY <1>1, <1>2
    <2>4. k \in Nat
        BY <1>1, <1>11
    <2> QED BY <2>1, <2>2, <2>3, <2>4, <1>4
<1>13. x % w = c
    <2>1. c \in 0..(w - 1)
        BY <1>1, <1>2
    <2> QED BY <2>1, <1>12, <1>2, DivMod
<1>14. x % o = c
    <2>1. w * k = o * (n * k) /\ n * k \in Nat
        BY <1>1, <1>12, <1>w
    <2>2. x = o * (n * k) + c
        BY <2>1, <1>12
    <2> QED BY <2>1, <2>2, <1>1, DivMod
<1>15. occ \in 0..(OccasionWidth - 1)
    BY <1>5, <1>6 DEF OccasionWidth
<1>16. occ % cfg.occInSlot = c
    BY <1>0, <1>6, <1>14
<1>17. /\ occ % (cfg.numSlots * cfg.occInSlot) = c
       /\ occ \div OccPerFd(cfg) = i + sf \div Len(cfg.SfN)
    BY <1>0, <1>6, <1>9, <1>13, <1>w, <1>q
<1>18. occ - (i + sf \div Len(cfg.SfN)) * OccPerFd(cfg)
           = (cfg.numSlots * cfg.occInSlot) * (sf % Len(cfg.SfN)) + c
    BY <1>0, <1>6, <1>10, <1>w, <1>q, <1>r
<1> QED BY <1>15, <1>16, <1>17, <1>18 DEF Decodes

\* The quotient of a subframe number.
LEMMA SmallDiv ==
    ASSUME NEW sf \in 0..9, NEW l \in Nat \ {0}
    PROVE  sf \div l \in 0..9 /\ sf % l \in 0..(l - 1)
<1>1. PICK d \in Int : d = sf \div l
    OBVIOUS
<1>2. PICK e \in Int : e = sf % l
    OBVIOUS
<1>3. sf = l * d + e /\ 0 <= e /\ e < l
    BY <1>1, <1>2
<1>4. d >= 0
    <2>1. CASE -d >= 1
        <3>1. l * (-d) >= l
            BY <2>1
        <3>2. l * d = -(l * (-d)) /\ l * d \in Int
            OBVIOUS
        <3> QED BY <3>1, <3>2, <1>3
    <2> QED BY <2>1
<1>5. l * d >= d
    BY <1>4
<1>6. d <= 9
    BY <1>3, <1>5
<1> QED BY <1>1, <1>2, <1>3, <1>4, <1>6

\* rnti is the RA-RNTI of subframe sf, frequency-domain index i and number c in the slot.
RaRntiReads(cfg, sf, i, c, rnti) ==
    /\ rnti = RaRnti(cfg.symStart + c * cfg.duration,
                     IF cfg.numSlots = 1 THEN 2 * sf + 1 ELSE 2 * sf,
                     i + sf \div Len(cfg.SfN))
    /\ cfg.symStart + c * cfg.duration \in 0..13
    /\ i + sf \div Len(cfg.SfN) \in 0..12

\* The RA-RNTI of the UE, from subframe, frequency-domain index and number in the slot.
LEMMA UeRaRntiNumber ==
    ASSUME NEW cfg, InPlace(cfg), Fdm \in 1..4, NEW sf \in 0..9,
           NEW i \in 0..(Fdm - 1), NEW c \in 0..(cfg.occInSlot - 1), NEW occ,
           occ = OccasionOf(cfg, sf, i, c)
    PROVE  RaRntiReads(cfg, sf, i, c, UeRaRnti(cfg, sf, occ))
<1>0. cfg.numSlots \in {1, 2} /\ cfg.occInSlot \in Nat \ {0} /\ cfg.duration \in Nat \ {0}
      /\ cfg.symStart \in Nat /\ Len(cfg.SfN) \in Nat \ {0}
      /\ cfg.symStart + (cfg.occInSlot - 1) * cfg.duration < 14
    BY DEF InPlace
<1>d. Decodes(cfg, sf, i, c, occ)
    BY OccasionNumber
<1>1. /\ occ % cfg.occInSlot = c
      /\ occ % (cfg.numSlots * cfg.occInSlot) = c
      /\ occ \div OccPerFd(cfg) = i + sf \div Len(cfg.SfN)
    BY <1>d DEF Decodes
<1>2. FirstSymbol(cfg, occ) = cfg.symStart + c * cfg.duration
    BY <1>1 DEF FirstSymbol
<1>3. SlotOfFrame(cfg, sf, occ) = IF cfg.numSlots = 1 THEN 2 * sf + 1 ELSE 2 * sf
    <2>1. ~(c >= cfg.occInSlot)
        BY <1>0
    <2> QED BY <2>1, <1>1 DEF SlotOfFrame
<1>4. cfg.symStart + c * cfg.duration \in 0..13
    <2>1. PICK u, m, b : u = cfg.duration /\ m = cfg.occInSlot - 1 /\ b = cfg.symStart
        OBVIOUS
    <2>2. u \in Nat /\ m \in Nat /\ b \in Nat /\ c \in Nat /\ c <= m /\ b + m * u < 14
        BY <1>0, <2>1
    <2>3. c * u <= m * u /\ c * u \in Nat /\ m * u \in Nat
        BY <2>2
    <2>4. b + c * u \in 0..13
        BY <2>2, <2>3
    <2> QED BY <2>1, <2>4
<1>5. i + sf \div Len(cfg.SfN) \in 0..12
    <2>1. PICK l \in Nat \ {0} : l = Len(cfg.SfN)
        BY <1>0
    <2>2. PICK q \in 0..9 : q = sf \div l
        BY SmallDiv
    <2>3. i + q \in 0..12
        OBVIOUS
    <2> QED BY <2>1, <2>2, <2>3
<1> QED BY <1>1, <1>2, <1>3, <1>4, <1>5 DEF UeRaRnti, RaRntiReads

\* The gNB finds the subframe of the occasion, and so the RA-RNTI of the UE.
LEMMA GetRaRntiAgrees ==
    ASSUME NEW cfg, InPlace(cfg), Fdm \in 1..4, NEW sf \in 0..9, sf \in Range(cfg.SfN),
           NEW i \in 0..(Fdm - 1), NEW c \in 0..(cfg.occInSlot - 1), NEW occ,
           occ = OccasionOf(cfg, sf, i, c)
    PROVE  GetRaRnti(cfg, occ) = UeRaRnti(cfg, sf, occ)
<1>0. /\ cfg.numSlots \in {1, 2} /\ cfg.occInSlot \in Nat \ {0}
      /\ Len(cfg.SfN) \in Nat \ {0} /\ cfg.SfN[1 + (sf % Len(cfg.SfN))] = sf
    BY DEF InPlace
<1>d. Decodes(cfg, sf, i, c, occ)
    BY OccasionNumber
<1>f. PICK f : f = i + sf \div Len(cfg.SfN)
    OBVIOUS
<1>1. /\ occ \div OccPerFd(cfg) = f
      /\ occ - f * OccPerFd(cfg) = (cfg.numSlots * cfg.occInSlot) * (sf % Len(cfg.SfN)) + c
      /\ occ % cfg.occInSlot = c /\ occ % (cfg.numSlots * cfg.occInSlot) = c
    BY <1>f, <1>d DEF Decodes
<1>o. PICK y : y = occ - f * OccPerFd(cfg)
    OBVIOUS
<1>w. PICK w, o, n, r : /\ n = cfg.numSlots /\ o = cfg.occInSlot /\ w = n * o
                        /\ r = sf % Len(cfg.SfN)
    OBVIOUS
<1>s. cfg.SfN[1 + r] = sf
    BY <1>0, <1>w
<1>2. w \in Nat \ {0} /\ o \in Nat \ {0} /\ n \in {1, 2} /\ r \in Nat /\ c \in 0..(o - 1)
      /\ c \in 0..(w - 1)
    <2>1. o \in Nat \ {0} /\ n \in {1, 2} /\ c \in 0..(o - 1)
        BY <1>0, <1>w
    <2>2. w \in Nat \ {0} /\ o <= w
        <3>1. w = n * o
            BY <1>w
        <3>2. o \in Nat \ {0} /\ (n = 1 \/ n = 2)
            BY <2>1
        <3> QED BY ONLY <3>1, <3>2
    <2>3. r \in Nat
        <3>1. PICK l \in Nat \ {0} : l = Len(cfg.SfN)
            BY <1>0
        <3>2. r \in 0..(l - 1)
            BY <3>1, <1>w, SmallDiv
        <3> QED BY <3>2
    <2> QED BY <2>1, <2>2, <2>3
<1>3. y = w * r + c
    BY <1>1, <1>o, <1>w
<1>4. y \div w = r /\ y % w = c
    BY <1>2, <1>3, DivMod
<1>5. y % o = c
    <2>0. w = n * o
        BY <1>w
    <2>1. n \in Nat /\ o \in Nat /\ r \in Nat /\ w = n * o
        BY <1>2, <2>0
    <2>2. w * r = o * (n * r) /\ n * r \in Nat
        BY ONLY <2>1
    <2>3. y = o * (n * r) + c
        BY <2>2, <1>3
    <2> QED BY <2>2, <2>3, <1>2, DivMod
<1>6. GetPrachOccasionSubframe(cfg, y) = sf
    <2>1. w = cfg.numSlots * cfg.occInSlot
        BY <1>w
    <2>2. GetPrachOccasionSubframe(cfg, y) = cfg.SfN[1 + y \div w]
        BY <2>1 DEF GetPrachOccasionSubframe
    <2>3. cfg.SfN[1 + r] = sf
        BY <1>s
    <2>4. y \div w = r
        BY <1>4
    <2> QED BY ONLY <2>2, <2>3, <2>4
<1>7. FirstSymbol(cfg, y) = FirstSymbol(cfg, occ)
    BY <1>1, <1>5, <1>w DEF FirstSymbol
<1>8. SlotOfFrame(cfg, sf, y) = SlotOfFrame(cfg, sf, occ)
    BY <1>1, <1>4, <1>w DEF SlotOfFrame
<1> QED BY <1>1, <1>6, <1>7, <1>8, <1>o DEF GetRaRnti, UeRaRnti, GetFrequencyDomain

\* The formulas of UE and gNB agree on the configurations that are in place.
THEOREM PrachAgreesInPlace ==
    ASSUME Fdm \in 1..4, \A cfg \in PrachConfigs : InPlace(cfg)
    PROVE  PrachAgrees
<1>1. ASSUME NEW cfg \in PrachConfigs, NEW sf \in 0..9, NEW occ \in UeOccasions(cfg, Fdm, sf)
      PROVE  \E i \in 0..(Fdm - 1), c \in 0..(cfg.occInSlot - 1) : occ = OccasionOf(cfg, sf, i, c)
    BY DEF UeOccasions, OccasionOf
<1>2. ASSUME NEW cfg \in PrachConfigs, NEW sf \in 0..9, sf \in Range(cfg.SfN),
             NEW occ \in UeOccasions(cfg, Fdm, sf)
      PROVE  /\ occ \in 0..(OccasionWidth - 1)
             /\ UeRaRnti(cfg, sf, occ) \in RaRntis
             /\ GetRaRnti(cfg, occ) = UeRaRnti(cfg, sf, occ)
    <2>0. InPlace(cfg)
        OBVIOUS
    <2>1. PICK i \in 0..(Fdm - 1), c \in 0..(cfg.occInSlot - 1) : occ = OccasionOf(cfg, sf, i, c)
        BY <1>1
    <2>2. occ \in 0..(OccasionWidth - 1)
        <3>1. Decodes(cfg, sf, i, c, occ)
            BY <2>0, <2>1, OccasionNumber
        <3> QED BY <3>1 DEF Decodes
    <2>3. GetRaRnti(cfg, occ) = UeRaRnti(cfg, sf, occ)
        BY <1>2, <2>0, <2>1, GetRaRntiAgrees
    <2>r. RaRntiReads(cfg, sf, i, c, UeRaRnti(cfg, sf, occ))
        BY <2>0, <2>1, UeRaRntiNumber
    <2>4. PICK s \in 0..13, t \in {2 * sf, 2 * sf + 1}, f \in 0..12 :
             UeRaRnti(cfg, sf, occ) = RaRnti(s, t, f)
        BY <2>r DEF RaRntiReads
    <2>5. RaRnti(s, t, f) \in RaRntis
        <3>1. s \in 0..13 /\ t \in 0..19 /\ f \in 0..12
            BY <2>4
        <3>2. PICK x : x = 1 + s + 14 * t + 1120 * f
            OBVIOUS
        <3>3. RaRnti(s, t, f) = x
            BY ONLY <3>1, <3>2 DEF RaRnti
        <3>4. x \in Nat
            BY ONLY <3>1, <3>2
        <3>5. PICK k : k = 14 * 80 * 16
            OBVIOUS
        <3>6. RaRntis = 0..k
            BY <3>5 DEF RaRntis
        <3>7. k \in Nat /\ x <= k
            BY ONLY <3>1, <3>2, <3>5
        <3>8. x \in 0..k
            BY ONLY <3>4, <3>7
        <3> QED BY ONLY <3>3, <3>6, <3>8
    <2> QED BY <2>2, <2>3, <2>4, <2>5
<1>3. ASSUME NEW cfg \in PrachConfigs, NEW sf \in 0..9, NEW occ \in UeOccasions(cfg, Fdm, sf),
             NEW sf2 \in 0..9, NEW occ2 \in UeOccasions(cfg, Fdm, sf2),
             UeRaRnti(cfg, sf, occ) = UeRaRnti(cfg, sf2, occ2)
      PROVE  sf = sf2 /\ occ = occ2
    <2>0. InPlace(cfg)
        OBVIOUS
    <2>1. PICK i \in 0..(Fdm - 1), c \in 0..(cfg.occInSlot - 1) : occ = OccasionOf(cfg, sf, i, c)
        BY <1>1
    <2>2. PICK j \in 0..(Fdm - 1), e \in 0..(cfg.occInSlot - 1) : occ2 = OccasionOf(cfg, sf2, j, e)
        BY <1>1
    <2> DEFINE slot(x) == IF cfg.numSlots = 1 THEN 2 * x + 1 ELSE 2 * x
               l == Len(cfg.SfN)
    <2>3. RaRntiReads(cfg, sf, i, c, UeRaRnti(cfg, sf, occ))
        BY <2>0, <2>1, UeRaRntiNumber
    <2>4. RaRntiReads(cfg, sf2, j, e, UeRaRnti(cfg, sf2, occ2))
        BY <2>0, <2>2, UeRaRntiNumber
    <2>5. slot(sf) \in 0..19 /\ slot(sf2) \in 0..19
        OBVIOUS
    <2>7. /\ cfg.symStart + c * cfg.duration = cfg.symStart + e * cfg.duration
          /\ slot(sf) = slot(sf2) /\ i + sf \div l = j + sf2 \div l
        <3>1. PICK s1, f1, s2, f2 :
                 /\ s1 = cfg.symStart + c * cfg.duration /\ f1 = i + sf \div l
                 /\ s2 = cfg.symStart + e * cfg.duration /\ f2 = j + sf2 \div l
            OBVIOUS
        <3>2. s1 \in 0..13 /\ s2 \in 0..13 /\ f1 \in 0..12 /\ f2 \in 0..12
            BY <3>1, <2>3, <2>4 DEF RaRntiReads
        <3>3. UeRaRnti(cfg, sf, occ) = RaRnti(s1, slot(sf), f1)
            BY <3>1, <2>3 DEF RaRntiReads
        <3>4. UeRaRnti(cfg, sf2, occ2) = RaRnti(s2, slot(sf2), f2)
            BY <3>1, <2>4 DEF RaRntiReads
        <3>5. RaRnti(s1, slot(sf), f1) = RaRnti(s2, slot(sf2), f2)
            BY <3>3, <3>4, <1>3
        <3>6. PICK t1 \in 0..19, t2 \in 0..19 : t1 = slot(sf) /\ t2 = slot(sf2)
            BY <2>5
        <3>7. RaRnti(s1, t1, f1) = RaRnti(s2, t2, f2)
            BY <3>5, <3>6
        <3>8. s1 = s2 /\ t1 = t2 /\ f1 = f2
            <4>1. 1 + s1 + 14 * t1 + 14 * 80 * f1 = 1 + s2 + 14 * t2 + 14 * 80 * f2
                BY <3>7 DEF RaRnti
            <4>2. t1 \in 0..19 /\ t2 \in 0..19
                OBVIOUS
            <4> QED BY ONLY <3>2, <4>1, <4>2
        <3> QED BY <3>1, <3>6, <3>8
    <2>8. sf = sf2
        BY <2>7
    <2>9. i = j
        <3>1. l \in Nat \ {0}
            BY <2>0 DEF InPlace
        <3>2. PICK q \in 0..9 : q = sf \div l
            <4> HIDE DEF l
            <4> QED BY <3>1, SmallDiv
        <3>3. i + q = j + q
            BY <3>2, <2>7, <2>8
        <3> QED BY <3>3
    <2>10. c = e
        <3>1. PICK u, b : u = cfg.duration /\ b = cfg.symStart
            OBVIOUS
        <3>2. u \in Nat \ {0} /\ b \in Nat /\ c \in Nat /\ e \in Nat /\ b + c * u = b + e * u
            BY <3>1, <2>7, <2>0 DEF InPlace
        <3>3. u * (c - e) = 0
            BY <3>2
        <3> QED BY <3>2, <3>3
    <2> QED BY <2>1, <2>2, <2>8, <2>9, <2>10
<1> QED BY <1>2, <1>3 DEF PrachAgrees
=============================================================================
